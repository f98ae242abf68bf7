----------------------------- MODULE SqlProofs ------------------------------
(***************************************************************************)
(* Safety of the two modules of the sqlite3pp wrapper.  First Statement,   *)
(* for any keys, values, calls and failures: the switch of exceptions, the *)
(* errors that pass unnoticed, the rows of blocks and the rows of entries. *)
(* Then Script, for texts of any length.                                   *)
(***************************************************************************)
EXTENDS Statement, Script, Functions, FiniteSetTheorems, TLAPS

Params == {"key", "value", "id"}

Bound == Key \cup Value \cup Nat \cup {Null}

Error == {"ok", "busy", "SQLITE_CONSTRAINT_UNIQUE"}

AStatement ==
    [at : {"ready", "row", "done", "failed"}, error : Error, bound : [Params -> Bound]]

Binding == [key : Bound] \cup [id : Bound] \cup [key : Bound, value : Bound]

-----------------------------------------------------------------------------
(* What binding, stepping and executing make of one statement.             *)

LEMMA ResetType ==
    ASSUME NEW s \in AStatement
    PROVE  /\ Reset(s) \in AStatement
           /\ Reset(s).error = "ok" /\ Reset(s).at = "ready" /\ Reset(s).bound = s.bound
BY DEF Reset, AStatement, Error

LEMMA BindType ==
    ASSUME NEW s \in AStatement, NEW b \in Binding
    PROVE  /\ Bind(s, b) \in AStatement
           /\ Bind(s, b).error = "ok" /\ Bind(s, b).at = "ready"
           /\ \A p \in DOMAIN b : Bind(s, b).bound[p] = b[p]
<1>1. Reset(s) \in AStatement /\ Reset(s).error = "ok" /\ Reset(s).at = "ready"
  BY ResetType
<1>2. DOMAIN b \subseteq Params /\ \A p \in DOMAIN b : b[p] \in Bound
  BY DEF Binding, Params
<1>3. Reset(s).bound \in [Params -> Bound]
  BY <1>1 DEF AStatement
<1>4. /\ Rebound(Reset(s).bound, b) \in [Params -> Bound]
      /\ \A p \in DOMAIN b : Rebound(Reset(s).bound, b)[p] = b[p]
  BY <1>2, <1>3 DEF Rebound
<1>5. Bind(s, b) =
        [at |-> Reset(s).at, error |-> Reset(s).error, bound |-> Rebound(Reset(s).bound, b)]
  BY <1>1 DEF Bind, AStatement
<1> QED
  BY <1>1, <1>4, <1>5 DEF AStatement

LEMMA StepType ==
    ASSUME NEW s \in AStatement, NEW r \in {"row", "done", "busy", "SQLITE_CONSTRAINT_UNIQUE"}
    PROVE  /\ Step(s, r) \in AStatement
           /\ r \in {"row", "done"} => Step(s, r).error = "ok"
           /\ r \notin {"row", "done"} => Step(s, r).error = r
BY DEF Step, AStatement, Error

LEMMA ExecuteType ==
    ASSUME NEW s \in AStatement, s.error = "ok",
           NEW r \in {"row", "done", "busy", "SQLITE_CONSTRAINT_UNIQUE"}
    PROVE  /\ Execute(s, r) \in AStatement
           /\ r \in {"row", "done"} => Execute(s, r).error = "ok"
           /\ r \notin {"row", "done"} => Execute(s, r).error = r
BY StepType DEF Execute

-----------------------------------------------------------------------------
(* The invariant.                                                          *)

Type ==
    /\ st \in [Names -> AStatement]
    /\ id \in Nat /\ DOMAIN entries \subseteq Nat
    /\ blocks \in [Key -> Value \cup {Null}]
    /\ pc \in {"idle", "select", "write", "update", "again", "insertBlock", "updateBlock",
               "returned", "threw"}
    /\ exceptions \in BOOLEAN
    /\ pc \notin {"idle", "returned", "threw"} => key \in Key /\ value \in Value

\* Exceptions are off only from an INSERT on that nobody looks at, and what is
\* saved is that they were on.
Switch ==
    /\ safe
    /\ pc \in {"idle", "returned", "threw", "select", "write", "update", "updateBlock"} => exceptions
    /\ pc = "insertBlock" => ~exceptions

Noticed ==
    pc # "threw" => \A n \in {"upd", "touch", "blkUpd"} : st[n].error = "ok"

\* The INSERT of a block runs with the parameters of this call and no error of
\* an earlier one; the UPDATE has a row to write to.
BlockInHand ==
    /\ pc = "insertBlock" =>
          st["blkIns"].error = "ok" /\ st["blkIns"].bound["key"] = key
          /\ st["blkIns"].bound["value"] = value
    /\ pc = "updateBlock" => blocks[key] # Null

Inv == Type /\ Switch /\ Noticed /\ BlockInHand

LEMMA PreparedType == Prepared \in AStatement /\ Prepared.error = "ok"
BY DEF Prepared, AStatement, Error, Params, Bound

LEMMA InvInit ==
    ASSUME StatementInit
    PROVE  Inv
<1>1. Type
  <2>1. st \in [Names -> AStatement]
    BY PreparedType DEF StatementInit
  <2>2. DOMAIN entries \subseteq Nat
    BY DEF StatementInit
  <2> QED
    BY <2>1, <2>2 DEF StatementInit, Type
<1>2. Switch /\ BlockInHand
  BY DEF StatementInit, Switch, BlockInHand
<1>3. Noticed
  BY PreparedType DEF StatementInit, Noticed, Names
<1> QED
  BY <1>1, <1>2, <1>3 DEF Inv

-----------------------------------------------------------------------------
(* The steps of update_entry and update_block_digest.                      *)

LEMMA BoundTypes == Key \subseteq Bound /\ Value \subseteq Bound /\ Nat \subseteq Bound
BY DEF Bound

LEMMA CallStep ==
    ASSUME Inv, NEW k \in Key, NEW v \in Value, CallEntry(k, v) \/ CallBlock(k, v)
    PROVE  Inv'
<1>1. safe' /\ key' = k /\ value' = v /\ id' = 0 /\ UNCHANGED <<entries, blocks>>
  BY DEF CallEntry, CallBlock, Call, Inv, Switch
<1>2. PICK n \in {"sel", "blkIns"}, b \in {[key |-> k], [key |-> k, value |-> v]} :
        /\ st' = [st EXCEPT ![n] = Bind(@, b)]
        /\ n = "blkIns" => b = [key |-> k, value |-> v]
        /\ \/ n = "sel" /\ pc' = "select" /\ exceptions' = TRUE
           \/ n = "blkIns" /\ pc' = "insertBlock" /\ exceptions' = FALSE
  <2>1. CASE CallEntry(k, v)
    BY <2>1 DEF CallEntry, Call
  <2>2. CASE CallBlock(k, v)
    BY <2>2 DEF CallBlock, Call
  <2> QED
    BY <2>1, <2>2
<1>3. b \in Binding /\ st \in [Names -> AStatement] /\ n \in Names
  BY BoundTypes DEF Binding, Inv, Type, Names
<1>4. Bind(st[n], b) \in AStatement /\ Bind(st[n], b).error = "ok"
      /\ \A p \in DOMAIN b : Bind(st[n], b).bound[p] = b[p]
  BY <1>3, BindType
<1>5. st' \in [Names -> AStatement] /\ st'[n] = Bind(st[n], b)
      /\ \A m \in {"upd", "touch", "blkUpd"} : st'[m] = st[m]
  BY <1>2, <1>3, <1>4 DEF Names
<1>6. Type'
  BY <1>1, <1>2, <1>5 DEF Inv, Type
<1>7. Switch'
  BY <1>1, <1>2 DEF Switch
<1>8. Noticed'
  <2>1. pc # "threw"
    BY DEF CallEntry, CallBlock, Call
  <2> QED
    BY <2>1, <1>5 DEF Inv, Noticed
<1>9. BlockInHand'
  <2>1. CASE n = "sel"
    BY <1>2, <2>1 DEF BlockInHand
  <2>2. CASE n = "blkIns"
    <3>1. b = [key |-> k, value |-> v] /\ "key" \in DOMAIN b /\ "value" \in DOMAIN b
      BY <1>2, <2>2
    <3> QED
      BY <1>1, <1>2, <1>4, <1>5, <2>2, <3>1 DEF BlockInHand
  <2> QED
    BY <2>1, <2>2
<1> QED
  BY <1>6, <1>7, <1>8, <1>9 DEF Inv

\* st_sel.begin() disturbs no other statement; what comes of it is thrown only
\* with exceptions on.
LEMMA SelectStep ==
    ASSUME Inv, Select \/ Again
    PROVE  Inv'
<1>1. /\ UNCHANGED <<entries, blocks, safe, key, value>>
      /\ pc \in {"select", "again"}
  BY DEF Select, Again, args
<1>2. /\ \/ UNCHANGED <<st, id>>
         \/ \E r \in {"row", "done", "busy"} :
              /\ st' = [st EXCEPT !["sel"] = Step(st["sel"], r)]
              /\ id' \in With(st["sel"].bound["key"]) \cup {0}
      /\ \/ pc' = "write" /\ exceptions' = exceptions /\ pc = "select"
         \/ pc' \in {"returned", "threw"} /\ exceptions' = safe
  <2>1. CASE Select
    BY <2>1 DEF Select, GetId, OrThrow, Leave
  <2>2. CASE Again
    BY <2>2 DEF Again, GetId, OrThrow, Leave
  <2> QED
    BY <2>1, <2>2
<1>3. st' \in [Names -> AStatement] /\ \A m \in {"upd", "touch", "blkUpd"} : st'[m] = st[m]
  BY <1>2, StepType DEF Inv, Type, Names
<1>4. id' \in Nat
  <2>1. With(st["sel"].bound["key"]) \subseteq Nat /\ id \in Nat
    BY DEF Inv, Type, With, Used
  <2> QED
    BY <1>2, <2>1
<1>5. exceptions' \in BOOLEAN /\ safe /\ (pc = "select" => exceptions)
  BY <1>1, <1>2 DEF Inv, Type, Switch
<1>6. Type' /\ Switch'
  <2>1. Type'
    BY <1>1, <1>2, <1>3, <1>4, <1>5 DEF Inv, Type
  <2>2. Switch'
    BY <1>1, <1>2, <1>5 DEF Switch
  <2> QED
    BY <2>1, <2>2
<1>7. Noticed' /\ BlockInHand'
  BY <1>1, <1>2, <1>3 DEF Inv, Noticed, BlockInHand
<1> QED
  BY <1>6, <1>7 DEF Inv

LEMMA TouchStep ==
    ASSUME Inv, Touch
    PROVE  Inv'
<1> DEFINE s == Bind(st["touch"], [id |-> id])
<1>1. s \in AStatement /\ s.error = "ok"
  BY BindType, BoundTypes DEF Inv, Type, Names, Binding
<1>2. PICK r \in {"done", "busy"} :
        /\ st' = [st EXCEPT !["touch"] = Execute(s, r)]
        /\ \/ r = "busy" /\ pc' = "threw" /\ exceptions' = safe
           \/ r = "done" /\ pc' = "again" /\ UNCHANGED exceptions
  BY <1>1 DEF Touch, Outcomes, OrThrow, Leave, Inv, Switch
<1>3. UNCHANGED <<blocks, safe, id, key, value>> /\ DOMAIN entries' = DOMAIN entries /\ pc = "write"
  BY DEF Touch, args
<1>4. Execute(s, r) \in AStatement /\ (r = "done" => Execute(s, r).error = "ok")
  BY <1>1, ExecuteType
<1>5. st' \in [Names -> AStatement] /\ st'["touch"] = Execute(s, r)
      /\ \A m \in {"upd", "blkUpd"} : st'[m] = st[m]
  BY <1>2, <1>4 DEF Inv, Type, Names
<1> HIDE DEF s
<1>6. Type' /\ Switch'
  BY <1>2, <1>3, <1>5 DEF Inv, Type, Switch
<1>7. Noticed' /\ BlockInHand'
  BY <1>2, <1>3, <1>4, <1>5 DEF Inv, Noticed, BlockInHand
<1> QED
  BY <1>6, <1>7 DEF Inv

LEMMA InsertStep ==
    ASSUME Inv, Insert
    PROVE  Inv'
<1> DEFINE s == Bind(st["ins"], [key |-> key, value |-> value])
<1>1. key \in Key /\ value \in Value /\ pc = "write"
  BY DEF Insert, Inv, Type
<1>2. s \in AStatement /\ s.error = "ok"
  BY <1>1, BindType, BoundTypes DEF Inv, Type, Names, Binding
<1>3. PICK r \in {"done", "busy", "SQLITE_CONSTRAINT_UNIQUE"} :
        /\ st' = [st EXCEPT !["ins"] = Execute(s, r)]
        /\ exceptions' = (r = "SQLITE_CONSTRAINT_UNIQUE")
        /\ pc' = IF exceptions' THEN "update" ELSE "again"
  BY <1>2 DEF Insert, Outcomes, Conflict
<1>4. UNCHANGED <<blocks, safe, id, key, value>> /\ DOMAIN entries' = DOMAIN entries
  BY DEF Insert, args
<1>5. Execute(s, r) \in AStatement
  BY <1>2, ExecuteType
<1>6. st' \in [Names -> AStatement] /\ \A m \in {"upd", "touch", "blkUpd"} : st'[m] = st[m]
  BY <1>3, <1>5 DEF Inv, Type, Names
<1> HIDE DEF s
<1>7. Type' /\ Switch'
  BY <1>1, <1>3, <1>4, <1>6 DEF Inv, Type, Switch
<1>8. Noticed' /\ BlockInHand'
  BY <1>1, <1>3, <1>4, <1>6 DEF Inv, Noticed, BlockInHand
<1> QED
  BY <1>7, <1>8 DEF Inv

LEMMA UpdateStep ==
    ASSUME Inv, Update
    PROVE  Inv'
<1> DEFINE s == Bind(st["upd"], [key |-> key, value |-> value])
<1>1. key \in Key /\ value \in Value /\ pc = "update"
  BY DEF Update, Inv, Type
<1>2. s \in AStatement /\ s.error = "ok"
  BY <1>1, BindType, BoundTypes DEF Inv, Type, Names, Binding
<1>3. PICK r \in {"done", "busy"} :
        /\ st' = [st EXCEPT !["upd"] = Execute(s, r)]
        /\ \/ r = "busy" /\ pc' = "threw" /\ exceptions' = safe
           \/ r = "done" /\ pc' = "again" /\ UNCHANGED exceptions
  BY <1>1, <1>2 DEF Update, Outcomes, OrThrow, Leave, Inv, Switch
<1>4. UNCHANGED <<blocks, safe, id, key, value>> /\ DOMAIN entries' = DOMAIN entries
  BY DEF Update, args
<1>5. Execute(s, r) \in AStatement /\ (r = "done" => Execute(s, r).error = "ok")
  BY <1>2, ExecuteType
<1>6. st' \in [Names -> AStatement] /\ st'["upd"] = Execute(s, r)
      /\ \A m \in {"touch", "blkUpd"} : st'[m] = st[m]
  BY <1>3, <1>5 DEF Inv, Type, Names
<1> HIDE DEF s
<1>7. Type' /\ Switch'
  BY <1>1, <1>3, <1>4, <1>6 DEF Inv, Type, Switch
<1>8. Noticed' /\ BlockInHand'
  BY <1>1, <1>3, <1>4, <1>5, <1>6 DEF Inv, Noticed, BlockInHand
<1> QED
  BY <1>7, <1>8 DEF Inv

LEMMA InsertBlockStep ==
    ASSUME Inv, InsertBlock
    PROVE  /\ Inv'
           /\ pc' = "returned" => blocks'[key] = value \/ Lost("blkIns")'
<1> DEFINE s == st["blkIns"]
<1>1. /\ key \in Key /\ value \in Value /\ pc = "insertBlock"
      /\ s \in AStatement /\ s.error = "ok" /\ s.bound["key"] = key /\ s.bound["value"] = value
      /\ UNCHANGED <<entries, safe, id, key, value>>
  BY DEF InsertBlock, Inv, Type, Names, BlockInHand, args
<1>2. PICK r \in {"done", "busy", "SQLITE_CONSTRAINT_UNIQUE"} :
        /\ r = "SQLITE_CONSTRAINT_UNIQUE" => blocks[key] # Null
        /\ st' = [st EXCEPT !["blkIns"] = Execute(s, r)]
        /\ blocks' = IF r = "done" THEN [blocks EXCEPT ![key] = value] ELSE blocks
        /\ IF r = "SQLITE_CONSTRAINT_UNIQUE" THEN pc' = "updateBlock" /\ exceptions' = TRUE
                                             ELSE pc' = "returned" /\ exceptions' = safe
  BY <1>1 DEF InsertBlock, Outcomes, Conflict, Leave
<1>3. Execute(s, r) \in AStatement /\ (r = "busy" => Execute(s, r).error = "busy")
  BY <1>1, ExecuteType
<1>4. st' \in [Names -> AStatement] /\ st'["blkIns"] = Execute(s, r)
      /\ \A m \in {"upd", "touch", "blkUpd"} : st'[m] = st[m]
  BY <1>2, <1>3 DEF Inv, Type, Names
<1>5. blocks' \in [Key -> Value \cup {Null}] /\ (r = "done" => blocks'[key] = value)
  BY <1>1, <1>2 DEF Inv, Type
<1> HIDE DEF s
<1>6. Type' /\ Switch'
  BY <1>1, <1>2, <1>4, <1>5 DEF Inv, Type, Switch
<1>7. Noticed' /\ BlockInHand'
  BY <1>1, <1>2, <1>4 DEF Inv, Noticed, BlockInHand
<1>8. pc' = "returned" => blocks'[key] = value \/ Lost("blkIns")'
  BY <1>2, <1>3, <1>4, <1>5 DEF Lost
<1> QED
  BY <1>6, <1>7, <1>8 DEF Inv

LEMMA UpdateBlockStep ==
    ASSUME Inv, UpdateBlock
    PROVE  /\ Inv'
           /\ pc' = "returned" => blocks'[key] = value
<1> DEFINE s == Bind(st["blkUpd"], [key |-> key, value |-> value])
<1>1. key \in Key /\ value \in Value /\ pc = "updateBlock" /\ blocks[key] # Null
      /\ UNCHANGED <<entries, safe, id, key, value>>
  BY DEF UpdateBlock, Inv, Type, BlockInHand, args
<1>2. s \in AStatement /\ s.error = "ok" /\ s.bound["key"] = key /\ s.bound["value"] = value
  <2>1. [key |-> key, value |-> value] \in Binding
    BY <1>1, BoundTypes DEF Binding
  <2>2. st["blkUpd"] \in AStatement
    BY DEF Inv, Type, Names
  <2> QED
    BY <2>1, <2>2, BindType
<1>3. PICK r \in {"done", "busy"} :
        /\ st' = [st EXCEPT !["blkUpd"] = Execute(s, r)]
        /\ blocks' = IF r = "done" /\ blocks[s.bound["key"]] # Null
                     THEN [blocks EXCEPT ![s.bound["key"]] = s.bound["value"]] ELSE blocks
        /\ \/ r = "busy" /\ pc' = "threw" /\ exceptions' = safe
           \/ r = "done" /\ pc' = "returned" /\ exceptions' = safe
  BY <1>1, <1>2 DEF UpdateBlock, Outcomes, OrThrow, Leave, Inv, Switch
<1>4. Execute(s, r) \in AStatement /\ (r = "done" => Execute(s, r).error = "ok")
  BY <1>2, ExecuteType
<1>5. st' \in [Names -> AStatement] /\ st'["blkUpd"] = Execute(s, r)
      /\ \A m \in {"upd", "touch"} : st'[m] = st[m]
  BY <1>3, <1>4 DEF Inv, Type, Names
<1>6. blocks' \in [Key -> Value \cup {Null}] /\ (r = "done" => blocks'[key] = value)
  BY <1>1, <1>2, <1>3 DEF Inv, Type
<1> HIDE DEF s
<1>7. Type' /\ Switch'
  BY <1>1, <1>3, <1>5, <1>6 DEF Inv, Type, Switch
<1>8. Noticed' /\ BlockInHand'
  BY <1>3, <1>4, <1>5, <1>1 DEF Inv, Noticed, BlockInHand
<1> QED
  BY <1>3, <1>6, <1>7, <1>8 DEF Inv

LEMMA ElseStep ==
    ASSUME Inv, EndScan \/ OtherInserts
    PROVE  Inv'
<1>1. CASE EndScan
  <2>1. st' = [n \in Names |-> Prepared] /\ pc' = "idle" /\ DOMAIN entries' = DOMAIN entries
        /\ UNCHANGED <<blocks, exceptions, safe, id>> /\ pc \in {"returned", "threw"}
    BY <1>1 DEF EndScan
  <2>2. st' \in [Names -> AStatement] /\ \A n \in Names : st'[n].error = "ok"
    BY <2>1, PreparedType
  <2>3. Type' /\ Switch'
    BY <2>1, <2>2 DEF Inv, Type, Switch
  <2>4. Noticed' /\ BlockInHand'
    BY <2>1, <2>2 DEF Noticed, BlockInHand, Names
  <2> QED
    BY <2>3, <2>4 DEF Inv
<1>2. CASE OtherInserts
  <2>1. DOMAIN entries' = DOMAIN entries
        /\ UNCHANGED <<blocks, st, exceptions, safe, pc, id, key, value>>
    BY <1>2 DEF OtherInserts, args
  <2> QED
    BY <2>1 DEF Inv, Type, Switch, Noticed, BlockInHand
<1> QED
  BY <1>1, <1>2

LEMMA InvStep ==
    ASSUME Inv, [StatementNext]_statementVars
    PROVE  Inv'
<1>1. CASE UNCHANGED statementVars
  BY <1>1 DEF statementVars, args, Inv, Type, Switch, Noticed, BlockInHand
<1> QED
  BY <1>1, CallStep, SelectStep, TouchStep, InsertStep, UpdateStep, InsertBlockStep,
     UpdateBlockStep, ElseStep DEF StatementNext

LEMMA Invariant == StatementSpec => []Inv
<1>1. StatementInit => Inv
  BY InvInit
<1>2. Inv /\ [StatementNext]_statementVars => Inv'
  BY InvStep
<1> QED
  BY <1>1, <1>2, PTL DEF StatementSpec

-----------------------------------------------------------------------------
\* However update_entry and update_block_digest are left, exceptions are on.
THEOREM AlwaysRestored == StatementSpec => []ExceptionsRestored
<1>1. Inv => ExceptionsRestored
  BY DEF Inv, Switch, ExceptionsRestored
<1> QED
  BY <1>1, Invariant, PTL

\* No failed UPDATE and no failed touch is passed over.
THEOREM AlwaysNoticed == StatementSpec => []OnlyInsertsFailUnnoticed
<1>1. Inv => OnlyInsertsFailUnnoticed
  BY DEF Inv, Noticed, OnlyInsertsFailUnnoticed
<1> QED
  BY <1>1, Invariant, PTL

\* When update_block_digest returns, the block's row has the digest it was
\* called with, unless the INSERT failed in this very call.
THEOREM BlocksWritten == StatementSpec => BlockWritten
<1>1. Inv /\ [StatementNext]_statementVars =>
        [(pc \in {"insertBlock", "updateBlock"} /\ pc' = "returned") =>
            (blocks'[key] = value \/ Lost("blkIns")')]_statementVars
  <2> SUFFICES ASSUME Inv, StatementNext, pc \in {"insertBlock", "updateBlock"}, pc' = "returned"
               PROVE  blocks'[key] = value \/ Lost("blkIns")'
    OBVIOUS
  <2>1. InsertBlock \/ UpdateBlock
    BY DEF StatementNext, CallEntry, CallBlock, Call, Select, Touch, Insert, Update, Again,
           EndScan, OtherInserts
  <2> QED
    BY <2>1, InsertBlockStep, UpdateBlockStep
<1> QED
  BY <1>1, Invariant, PTL DEF StatementSpec, BlockWritten

-----------------------------------------------------------------------------
(* The table entries: one row per key, and no gap in the rowids.           *)

Table ==
    /\ entries \in [1 .. Cardinality(Key) -> Row \cup {Null}]
    /\ \E n \in 0 .. Cardinality(Key) : Used = 1 .. n
    /\ \A i, j \in Used : entries[i].key = entries[j].key => i = j

LEMMA KeyCount == Cardinality(Key) \in Nat /\ IsFiniteSet(Key)
BY FS_CardinalityType, StatementAssumption

LEMMA TableRows ==
    ASSUME Table, NEW i \in Used
    PROVE  i \in 1 .. Cardinality(Key) /\ entries[i] \in Row /\ entries[i].key \in Key
BY DEF Table, Used, Row

\* There is room for the row of a key that has none.
LEMMA RoomForKey ==
    ASSUME Table, NEW k \in Key, With(k) = {}
    PROVE  /\ NextRow \in 1 .. Cardinality(Key) /\ NextRow \notin Used
           /\ Used \cup {NextRow} = 1 .. NextRow
<1>1. PICK n \in 0 .. Cardinality(Key) : Used = 1 .. n
  BY DEF Table
<1>2. n \in Nat /\ Cardinality(1 .. n) = n
  BY <1>1, KeyCount, FS_Interval
<1> DEFINE f == [i \in 1 .. n |-> entries[i].key]
<1>3. \A i \in 1 .. n : entries[i].key \in Key \ {k}
  BY <1>1, TableRows DEF With
<1>4. f \in Injection(1 .. n, Key \ {k})
  BY <1>1, <1>3 DEF Injection, IsInjective, Table
<1>5. IsFiniteSet(Key \ {k}) /\ Cardinality(Key \ {k}) = Cardinality(Key) - 1
  BY KeyCount, FS_RemoveElement
<1>6. n <= Cardinality(Key) - 1
  BY <1>2, <1>4, <1>5, FS_Injection
<1> QED
  BY <1>1, <1>2, <1>6, KeyCount DEF NextRow

\* What becomes of the table when a row is added, or rows are rewritten.
Added(r) == entries' = [entries EXCEPT ![NextRow] = r]

LEMMA AddedRow ==
    ASSUME Table, NEW r \in Row, With(r.key) = {}, Added(r)
    PROVE  /\ Table'
           /\ With(r.key)' = {NextRow} /\ entries'[NextRow] = r
           /\ \A k : k # r.key => With(k)' = With(k)
           /\ \A i \in Used : entries'[i] = entries[i]
<1>0. r.key \in Key /\ r # Null
  BY StatementAssumption DEF Row
<1> DEFINE m == NextRow
<1>1. /\ m \in 1 .. Cardinality(Key) /\ m \notin Used /\ Used \cup {m} = 1 .. m
  BY <1>0, RoomForKey
<1>2. /\ entries \in [1 .. Cardinality(Key) -> Row \cup {Null}]
      /\ \A i, j \in Used : entries[i].key = entries[j].key => i = j
  BY DEF Table
<1>3. entries' = [entries EXCEPT ![m] = r]
  BY DEF Added
<1> HIDE DEF m
<1>4. /\ entries' \in [1 .. Cardinality(Key) -> Row \cup {Null}]
      /\ entries'[m] = r /\ \A i \in DOMAIN entries : i # m => entries'[i] = entries[i]
  BY <1>1, <1>2, <1>3
<1>5. Used' = Used \cup {m} /\ DOMAIN entries' = DOMAIN entries
  BY <1>0, <1>1, <1>2, <1>4 DEF Used
<1>6. \A i \in Used : entries'[i] = entries[i] /\ entries[i].key # r.key
  BY <1>1, <1>4 DEF Used, With
<1>7. Table'
  BY <1>1, <1>2, <1>4, <1>5, <1>6 DEF Table
<1>8. With(r.key)' = {m} /\ \A k : k # r.key => With(k)' = With(k)
  BY <1>4, <1>5, <1>6 DEF With
<1> QED
  BY <1>4, <1>6, <1>7, <1>8 DEF m

Rewritten ==
    /\ entries' \in [1 .. Cardinality(Key) -> Row \cup {Null}]
    /\ \A i \in DOMAIN entries :
          IF entries[i] = Null THEN entries'[i] = Null
          ELSE entries'[i] # Null /\ entries'[i].key = entries[i].key

LEMMA RewrittenRows ==
    ASSUME Table, Rewritten
    PROVE  Table' /\ Used' = Used /\ \A k : With(k)' = With(k)
<1>1. DOMAIN entries' = DOMAIN entries
  BY DEF Table, Rewritten
<1>2. Used' = Used
  BY <1>1 DEF Rewritten, Used
<1>3. \A i \in Used : entries'[i].key = entries[i].key
  BY DEF Rewritten, Used
<1> QED
  BY <1>2, <1>3 DEF Table, With, Rewritten

-----------------------------------------------------------------------------
(* update_entry.                                                           *)

\* st_sel looks for the key of this call; while it is on no row id is 0, else
\* id is the row it is on.
Sought ==
    /\ pc \in {"select", "write", "update", "again"} => st["sel"].bound["key"] = key
    /\ pc = "select" => st["sel"].at = "ready"
    /\ pc \in {"write", "update", "again"} =>
          IF id = 0 THEN st["sel"].at # "row" ELSE id \in With(key)

\* A row of the key as this call leaves it.
Current(i) == entries[i].met /\ ((same /\ id # 0) \/ entries[i].value = value)

\* Once the statements that write are over the row is written, or it is the
\* INSERT that failed.
WrittenSoFar ==
    /\ pc = "update" => With(key) # {} /\ ~(same /\ id # 0)
    /\ pc = "again" => Lost("ins") \/ (With(key) # {} /\ \A i \in With(key) : Current(i))

EntryInv == Inv /\ Table /\ Sought /\ WrittenSoFar

LEMMA EntryInit ==
    ASSUME StatementInit
    PROVE  EntryInv
<1>1. entries = [i \in 1 .. Cardinality(Key) |-> Null] /\ pc = "idle"
  BY DEF StatementInit
<1>2. Used = {} /\ 1 .. 0 = {} /\ 0 \in 0 .. Cardinality(Key)
  BY <1>1, KeyCount DEF Used
<1>3. Table
  BY <1>1, <1>2 DEF Table
<1> QED
  BY <1>1, <1>3, InvInit DEF EntryInv, Sought, WrittenSoFar

\* The steps that leave entries alone.
LEMMA SameTable ==
    ASSUME Table, entries' = entries
    PROVE  Table' /\ \A k : With(k)' = With(k)
BY DEF Table, With, Used

LEMMA EntryCall ==
    ASSUME EntryInv, NEW k \in Key, NEW v \in Value, CallEntry(k, v) \/ CallBlock(k, v)
    PROVE  Sought' /\ WrittenSoFar' /\ Table'
<1>1. Table'
  BY SameTable DEF EntryInv, CallEntry, CallBlock, Call
<1>2. CASE CallBlock(k, v)
  BY <1>1, <1>2 DEF CallBlock, Sought, WrittenSoFar
<1>3. CASE CallEntry(k, v)
  <2>1. [key |-> k] \in Binding /\ st["sel"] \in AStatement /\ "key" \in DOMAIN [key |-> k]
    BY BoundTypes DEF Binding, EntryInv, Inv, Type, Names
  <2>2. Bind(st["sel"], [key |-> k]).at = "ready" /\ Bind(st["sel"], [key |-> k]).bound["key"] = k
    BY <2>1, BindType
  <2>3. st'["sel"] = Bind(st["sel"], [key |-> k])
    BY <1>3 DEF CallEntry, Call, EntryInv, Inv, Type, Names
  <2>4. pc' = "select" /\ key' = k
    BY <1>3 DEF CallEntry, Call
  <2> QED
    BY <1>1, <2>2, <2>3, <2>4 DEF Sought, WrittenSoFar
<1> QED
  BY <1>2, <1>3

\* The first get_id_mtim.
LEMMA EntrySelect ==
    ASSUME EntryInv, Select
    PROVE  Sought' /\ WrittenSoFar' /\ Table'
<1>1. Table' /\ (\A k : With(k)' = With(k)) /\ key' = key /\ pc = "select"
  BY SameTable DEF EntryInv, Select, args
<1>2. st["sel"].at = "ready" /\ st["sel"].bound["key"] = key /\ st["sel"] \in AStatement
      /\ exceptions
  BY <1>1 DEF EntryInv, Sought, Inv, Type, Names, Switch
<1>3. PICK r \in {"row", "done", "busy"} :
        /\ r = "row" => With(key) # {}
        /\ st' = [st EXCEPT !["sel"] = Step(st["sel"], r)]
        /\ id' = IF r = "row" THEN CHOOSE i \in With(key) : TRUE ELSE 0
        /\ IF r = "busy" THEN pc' = "threw" ELSE pc' = "write"
  BY <1>2 DEF Select, GetId, OrThrow, Leave
<1>4. st'["sel"] = Step(st["sel"], r)
  BY <1>3 DEF EntryInv, Inv, Type, Names
<1>5. /\ st'["sel"].bound = st["sel"].bound
      /\ r = "done" => st'["sel"].at # "row"
  BY <1>2, <1>4 DEF Step, AStatement
<1>6. r = "row" => id' \in With(key) /\ id' # 0
  <2>1. \A i \in With(key) : i # 0
    BY DEF With, EntryInv, Table, Used
  <2> QED
    BY <1>3, <2>1
<1> QED
  BY <1>1, <1>2, <1>3, <1>5, <1>6 DEF Sought, WrittenSoFar

LEMMA EntryTouch ==
    ASSUME EntryInv, Touch
    PROVE  Sought' /\ WrittenSoFar' /\ Table'
<1> DEFINE s == Bind(st["touch"], [id |-> id])
<1>0. pc = "write" /\ same /\ id # 0 /\ exceptions /\ UNCHANGED <<id, key, same, value>>
      /\ id \in With(key)
  BY DEF Touch, args, EntryInv, Inv, Switch, Sought
<1>1. s \in AStatement /\ s.error = "ok" /\ s.bound["id"] = id
  <2>1. [id |-> id] \in Binding /\ "id" \in DOMAIN [id |-> id] /\ st["touch"] \in AStatement
    BY BoundTypes DEF EntryInv, Inv, Type, Names, Binding
  <2> QED
    BY <2>1, BindType
<1> HIDE DEF s
<1>2. PICK r \in {"done", "busy"} :
        /\ st' = [st EXCEPT !["touch"] = Execute(s, r)]
        /\ entries' = IF r = "done" THEN [entries EXCEPT ![id].met = TRUE] ELSE entries
        /\ IF r = "busy" THEN pc' = "threw" ELSE pc' = "again"
  BY <1>0, <1>1 DEF Touch, Outcomes, OrThrow, Leave, s
<1>3. st'["sel"] = st["sel"]
  BY <1>2 DEF EntryInv, Inv, Type, Names
<1>4. CASE r = "busy"
  BY <1>2, <1>4, SameTable DEF EntryInv, Sought, WrittenSoFar
<1>5. CASE r = "done"
  <2>1. id \in Used /\ entries[id] \in Row
    BY <1>0, TableRows DEF With, EntryInv
  <2> DEFINE r2 == [entries[id] EXCEPT !.met = TRUE]
  <2>2. r2 \in Row /\ r2.key = entries[id].key /\ r2.met /\ r2 # Null
    BY <2>1, StatementAssumption DEF Row
  <2>3. entries' = [entries EXCEPT ![id] = r2]
    BY <1>2, <1>5
  <2> HIDE DEF r2
  <2>4. Rewritten /\ entries'[id] = r2
    BY <2>1, <2>2, <2>3 DEF Rewritten, EntryInv, Table, Used
  <2>5. Table' /\ \A k : With(k)' = With(k)
    BY <2>4, RewrittenRows DEF EntryInv
  <2>6. \A i \in With(key) : i = id
    BY <1>0 DEF EntryInv, Table, With
  <2> QED
    BY <1>0, <1>2, <1>3, <1>5, <2>2, <2>4, <2>5, <2>6
       DEF EntryInv, Sought, WrittenSoFar, Current
<1> QED
  BY <1>4, <1>5

LEMMA EntryInsert ==
    ASSUME EntryInv, Insert
    PROVE  Sought' /\ WrittenSoFar' /\ Table'
<1> DEFINE s == Bind(st["ins"], [key |-> key, value |-> value])
<1>0. /\ pc = "write" /\ ~(same /\ id # 0) /\ key \in Key /\ value \in Value
      /\ UNCHANGED <<id, key, same, value>>
  BY DEF Insert, args, EntryInv, Inv, Type
<1>1. s \in AStatement /\ s.error = "ok" /\ s.bound["key"] = key /\ s.bound["value"] = value
  <2>1. [key |-> key, value |-> value] \in Binding /\ st["ins"] \in AStatement
    BY <1>0, BoundTypes DEF EntryInv, Inv, Type, Names, Binding
  <2> QED
    BY <2>1, BindType
<1> HIDE DEF s
<1> DEFINE row == [key |-> key, value |-> value, met |-> TRUE]
<1>2. PICK r \in {"done", "busy", "SQLITE_CONSTRAINT_UNIQUE"} :
        /\ r = "SQLITE_CONSTRAINT_UNIQUE" => With(key) # {}
        /\ r = "done" => With(key) = {}
        /\ st' = [st EXCEPT !["ins"] = Execute(s, r)]
        /\ entries' = IF r = "done" THEN [entries EXCEPT ![NextRow] = row] ELSE entries
        /\ exceptions' = (r = "SQLITE_CONSTRAINT_UNIQUE")
        /\ pc' = IF exceptions' THEN "update" ELSE "again"
  BY <1>1 DEF Insert, Outcomes, Conflict, s
<1>3. /\ st'["sel"] = st["sel"] /\ st'["ins"] = Execute(s, r)
      /\ st["sel"].bound["key"] = key
      /\ IF id = 0 THEN st["sel"].at # "row" ELSE id \in With(key)
  BY <1>0, <1>2 DEF EntryInv, Inv, Type, Names, Sought
<1>4. CASE r = "busy"
  <2>1. pc' = "again"
    BY <1>2, <1>4
  <2>2. Execute(s, r).error = "busy"
    BY <1>1, <1>4, ExecuteType
  <2>3. Lost("ins")'
    BY <1>3, <2>2 DEF Lost
  <2> QED
    BY <1>0, <1>2, <1>3, <1>4, <2>1, <2>3, SameTable DEF EntryInv, Sought, WrittenSoFar
<1>5. CASE r = "SQLITE_CONSTRAINT_UNIQUE"
  BY <1>0, <1>2, <1>3, <1>5, SameTable DEF EntryInv, Sought, WrittenSoFar
<1>6. CASE r = "done"
  <2>1. row \in Row /\ row.key = key /\ row.value = value /\ row.met /\ Added(row)
    BY <1>0, <1>2, <1>6 DEF Row, Added
  <2> HIDE DEF row
  <2>5. PICK q \in Row : q = row
    BY <2>1
  <2>2. Table' /\ With(q.key)' = {NextRow} /\ entries'[NextRow] = row
    BY <1>2, <1>6, <2>1, <2>5, AddedRow DEF EntryInv
  <2>4. With(key)' = {NextRow}
    BY <1>0, <2>1, <2>5, <2>2 DEF With
  <2>3. id = 0 /\ pc' = "again"
    BY <1>2, <1>3, <1>6
  <2> QED
    BY <1>0, <1>3, <2>1, <2>2, <2>3, <2>4 DEF Sought, WrittenSoFar, Current
<1> QED
  BY <1>4, <1>5, <1>6

LEMMA EntryUpdate ==
    ASSUME EntryInv, Update
    PROVE  Sought' /\ WrittenSoFar' /\ Table'
<1> DEFINE s == Bind(st["upd"], [key |-> key, value |-> value])
<1>0. /\ pc = "update" /\ With(key) # {} /\ key \in Key /\ value \in Value /\ exceptions
      /\ UNCHANGED <<id, key, same, value>>
  BY DEF Update, args, EntryInv, Inv, Type, Switch, WrittenSoFar
<1>1. s \in AStatement /\ s.error = "ok" /\ s.bound["key"] = key /\ s.bound["value"] = value
  <2>1. [key |-> key, value |-> value] \in Binding /\ st["upd"] \in AStatement
    BY <1>0, BoundTypes DEF EntryInv, Inv, Type, Names, Binding
  <2> QED
    BY <2>1, BindType
<1> HIDE DEF s
<1>2. PICK r \in {"done", "busy"} :
        /\ st' = [st EXCEPT !["upd"] = Execute(s, r)]
        /\ entries' = [i \in DOMAIN entries |->
              IF r = "done" /\ i \in With(key)
              THEN [entries[i] EXCEPT !.value = value, !.met = TRUE] ELSE entries[i]]
        /\ IF r = "busy" THEN pc' = "threw" ELSE pc' = "again"
  BY <1>0, <1>1 DEF Update, Outcomes, OrThrow, Leave, s
<1>3. st'["sel"] = st["sel"]
  BY <1>2 DEF EntryInv, Inv, Type, Names
<1> DEFINE new(i) == [entries[i] EXCEPT !.value = value, !.met = TRUE]
<1>4. \A i \in With(key) : /\ new(i) \in Row /\ new(i).key = entries[i].key /\ new(i) # Null
                           /\ new(i).value = value /\ new(i).met
  <2>1. \A i \in With(key) : entries[i] \in Row
    BY TableRows DEF With, EntryInv
  <2> QED
    BY <1>0, <2>1, StatementAssumption DEF Row
<1>5. \A i \in DOMAIN entries :
          entries'[i] = IF r = "done" /\ i \in With(key) THEN new(i) ELSE entries[i]
  BY <1>2
<1>6. DOMAIN entries' = DOMAIN entries /\ With(key) \subseteq Used
      /\ entries' = [i \in DOMAIN entries |-> entries'[i]]
  BY <1>2 DEF With
<1> HIDE DEF new
<1>7. Rewritten
  BY <1>4, <1>5, <1>6 DEF EntryInv, Table, Rewritten, Used
<1>8. Table' /\ With(key)' = With(key)
  BY <1>0, <1>7, RewrittenRows DEF EntryInv
<1>9. r = "done" => \A i \in With(key) : entries'[i].met /\ entries'[i].value = value
  BY <1>4, <1>5 DEF With, Used
<1> QED
  BY <1>0, <1>2, <1>3, <1>8, <1>9 DEF EntryInv, Sought, WrittenSoFar, Current

\* The second get_id_mtim, and what update_entry returns.
LEMMA EntryAgain ==
    ASSUME EntryInv, Again
    PROVE  /\ Sought' /\ WrittenSoFar' /\ Table'
           /\ pc' = "returned" =>
                \/ /\ id' \in With(key) /\ entries[id'].met
                   /\ (same /\ id # 0) \/ entries[id'].value = value
                \/ id' \in With(key) \cup {0} /\ (Lost("ins") \/ Lost("sel")')
<1>0. /\ pc = "again" /\ pc' \in {"returned", "threw"} /\ entries' = entries
      /\ Lost("ins") \/ (With(key) # {} /\ \A i \in With(key) : Current(i))
  BY DEF Again, GetId, OrThrow, Leave, EntryInv, WrittenSoFar
<1>1. Sought' /\ WrittenSoFar' /\ Table'
  BY <1>0, SameTable DEF EntryInv, Sought, WrittenSoFar
<1>2. CASE id # 0
  <2>1. id \in With(key) /\ id' = id /\ st' = st
    BY <1>0, <1>2 DEF Again, EntryInv, Sought
  <2> QED
    BY <1>0, <1>1, <1>2, <2>1 DEF Current, Lost
<1>3. CASE id = 0
  <2>1. st["sel"].at # "row" /\ st["sel"].bound["key"] = key /\ st["sel"] \in AStatement
    BY <1>0, <1>3 DEF EntryInv, Sought, Inv, Type, Names
  <2>2. PICK r \in {"row", "done", "busy"} :
          /\ r = "row" => With(key) # {}
          /\ r = "done" => With(key) = {}
          /\ st' = [st EXCEPT !["sel"] = Step(st["sel"], r)]
          /\ id' = IF r = "row" THEN CHOOSE i \in With(key) : TRUE ELSE 0
    BY <1>3, <2>1 DEF Again, GetId
  <2>3. st'["sel"] = Step(st["sel"], r) /\ st'["ins"] = st["ins"]
    BY <2>2 DEF EntryInv, Inv, Type, Names
  <2>4. r = "busy" => Lost("sel")'
    BY <2>1, <2>3, StepType DEF Lost
  <2>5. Lost("ins") => Lost("ins")'
    BY <2>3 DEF Lost
  <2>6. r = "row" => id' \in With(key)
    BY <2>2
  <2> QED
    BY <1>0, <1>1, <1>3, <2>2, <2>4, <2>5, <2>6 DEF Current
<1> QED
  BY <1>2, <1>3

LEMMA EntryElse ==
    ASSUME EntryInv, InsertBlock \/ UpdateBlock \/ EndScan \/ OtherInserts
    PROVE  Sought' /\ WrittenSoFar' /\ Table'
<1>1. CASE InsertBlock \/ UpdateBlock
  <2>1. entries' = entries /\ pc' \in {"updateBlock", "returned", "threw"}
    BY <1>1 DEF InsertBlock, UpdateBlock, OrThrow, Leave
  <2> QED
    BY <2>1, SameTable DEF EntryInv, Sought, WrittenSoFar
<1>2. CASE EndScan
  <2> DEFINE new(i) == [entries[i] EXCEPT !.met = FALSE]
  <2>1. \A i \in Used : new(i) \in Row /\ new(i).key = entries[i].key /\ new(i) # Null
    BY TableRows, StatementAssumption DEF EntryInv, Row
  <2>2. /\ entries' = [i \in DOMAIN entries |->
                          IF pc = "returned" /\ i \in Used THEN new(i) ELSE entries[i]]
        /\ pc' = "idle"
    BY <1>2 DEF EndScan
  <2> HIDE DEF new
  <2>3. Rewritten
    BY <2>1, <2>2 DEF EntryInv, Table, Rewritten, Used
  <2> QED
    BY <2>2, <2>3, RewrittenRows DEF EntryInv, Sought, WrittenSoFar
<1>3. CASE OtherInserts
  <2>1. PICK k \in Key, v \in Value :
          /\ With(k) = {}
          /\ entries' = [entries EXCEPT ![NextRow] = [key |-> k, value |-> v, met |-> FALSE]]
    BY <1>3 DEF OtherInserts
  <2> DEFINE row == [key |-> k, value |-> v, met |-> FALSE]
  <2>2. row \in Row /\ row.key = k /\ Added(row)
    BY <2>1 DEF Row, Added
  <2> HIDE DEF row
  <2>3. /\ Table' /\ With(k)' = {NextRow}
        /\ \A q : q # k => With(q)' = With(q)
        /\ \A i \in Used : entries'[i] = entries[i]
    BY <2>1, <2>2, AddedRow DEF EntryInv
  <2>4. UNCHANGED <<st, pc, id, key, value, same>> /\ With(key) \subseteq Used
    BY <1>3 DEF OtherInserts, args, With
  <2>5. CASE key # k
    BY <2>3, <2>4, <2>5 DEF EntryInv, Sought, WrittenSoFar, Current, Lost
  <2>6. CASE key = k
    BY <2>1, <2>3, <2>4, <2>6 DEF EntryInv, Sought, WrittenSoFar, Lost
  <2> QED
    BY <2>5, <2>6
<1> QED
  BY <1>1, <1>2, <1>3

LEMMA EntryInvariant == StatementSpec => []EntryInv
<1>1. StatementInit => EntryInv
  BY EntryInit
<1>2. EntryInv /\ [StatementNext]_statementVars => EntryInv'
  <2> SUFFICES ASSUME EntryInv, [StatementNext]_statementVars PROVE Sought' /\ WrittenSoFar' /\ Table'
    BY InvStep DEF EntryInv
  <2>1. CASE UNCHANGED statementVars
    <3>1. Table' /\ \A k : With(k)' = With(k)
      BY <2>1, SameTable DEF statementVars, EntryInv
    <3> QED
      BY <2>1, <3>1 DEF statementVars, args, EntryInv, Sought, WrittenSoFar, Current, Lost
  <2> QED
    BY <2>1, EntryCall, EntrySelect, EntryTouch, EntryInsert, EntryUpdate, EntryAgain, EntryElse
       DEF StatementNext
<1> QED
  BY <1>1, <1>2, PTL DEF StatementSpec

\* When update_entry returns, what it returns is the row of the key it was
\* called with, marked and as it was to be written, though others may have
\* inserted rows between its statements, unless an INSERT failed in this call
\* or the SELECT that followed it.
THEOREM EntriesWritten == StatementSpec => EntryWritten
<1>1. EntryInv /\ [StatementNext]_statementVars =>
        [ pc = "again" /\ pc' = "returned" =>
          \/ id' \in With(key) /\ entries[id'].met /\ ((same /\ id # 0) \/ entries[id'].value = value)
          \/ id' \in With(key) \cup {0} /\ (Lost("ins") \/ Lost("sel")') ]_statementVars
  <2> SUFFICES ASSUME EntryInv, StatementNext, pc = "again", pc' = "returned"
               PROVE  \/ /\ id' \in With(key) /\ entries[id'].met
                         /\ (same /\ id # 0) \/ entries[id'].value = value
                      \/ id' \in With(key) \cup {0} /\ (Lost("ins") \/ Lost("sel")')
    OBVIOUS
  <2>1. Again
    BY DEF StatementNext, CallEntry, CallBlock, Call, Select, Touch, Insert, Update,
           InsertBlock, UpdateBlock, EndScan, OtherInserts
  <2> QED
    BY <2>1, EntryAgain
<1> QED
  BY <1>1, EntryInvariant, PTL DEF StatementSpec, EntryWritten

-----------------------------------------------------------------------------
(* The statements of one text, and the transaction around it.              *)

Last == Length[caller]

Places == {"begin", "prepare", "execute", "through", "commit", "unwind", "threw",
           "returned", "closed", "terminated"}

\* Where the command is in the text, and when the connection may be in a
\* transaction or have lost a statement.
Course ==
    /\ caller \in Caller /\ no \in 1 .. Last + 1 /\ place \in Places
    /\ leaked \in BOOLEAN /\ xct \in {"none", "open"}
    /\ place = "begin" => no = 1
    /\ place \in {"begin", "commit"} => caller \in InXct
    /\ place = "execute" => no <= Last
    /\ place \in {"through", "commit", "returned"} /\ (rc = "ok" \/ Throws) => no = Last + 1
    /\ xct = "open" => /\ caller \in InXct
                       /\ place \in {"prepare", "execute", "through", "commit", "unwind", "threw"}
    /\ leaked => place \in {"unwind", "threw", "closed", "terminated"}
    /\ leaked /\ place # "unwind" => xct = "none"

IsPrefix(S) == \E k \in 0 .. Last : S = 1 .. k

\* What a throwing text has done so far: up to the statement it is at, all of
\* it inside of the transaction if there is one.
Effect ==
    Throws =>
        /\ IsPrefix(kept) /\ IsPrefix(done)
        /\ caller \in InXct =>
              /\ place \in {"begin", "prepare", "execute", "through", "commit", "unwind"} => kept = {}
              /\ place = "begin" => done = {}
              /\ place \in {"prepare", "execute", "through", "commit"} =>
                    xct = "open" /\ done = 1 .. no - 1
        /\ caller \notin InXct =>
              done = {} /\ (place \in {"prepare", "execute", "through", "returned"} => kept = 1 .. no - 1)
        /\ place = "returned" => kept = 1 .. Last

ScriptInv == Course /\ Effect

LEMMA LastNat == ASSUME caller \in Caller PROVE Last \in Nat \ {0}
BY ScriptAssumption DEF Last

LEMMA Prefixes ==
    ASSUME NEW n \in Nat
    PROVE  /\ 1 .. 0 = {} /\ 0 \in 0 .. n
           /\ \A i \in 1 .. n : i \in 0 .. n /\ i - 1 \in 0 .. n /\ (1 .. i - 1) \cup {i} = 1 .. i
OBVIOUS

LEMMA ScriptInvInit == ScriptInit => ScriptInv
<1> SUFFICES ASSUME ScriptInit PROVE ScriptInv
  OBVIOUS
<1>1. caller \in Caller /\ Last \in Nat \ {0} /\ (place = "begin" \/ place = "prepare")
  BY LastNat DEF ScriptInit
<1>2. IsPrefix({}) /\ 1 .. no - 1 = {}
  <2>1. no - 1 = 0
    BY DEF ScriptInit
  <2> QED
    BY <1>1, <2>1, Prefixes DEF IsPrefix
<1>3. Course
  <2>1. no \in 1 .. Last + 1 /\ place \in Places /\ leaked = FALSE /\ xct = "none" /\ no = 1
    BY <1>1 DEF ScriptInit, Places
  <2>2. place = "begin" => caller \in InXct
    BY DEF ScriptInit
  <2> QED
    BY <1>1, <2>1, <2>2 DEF Course
<1>4. Effect
  <2>1. caller \in InXct => place = "begin"
    BY DEF ScriptInit
  <2> QED
    BY <1>1, <1>2, <2>1 DEF ScriptInit, Effect
<1> QED
  BY <1>3, <1>4 DEF ScriptInv

LEMMA CourseStep == ASSUME Course, ScriptNext PROVE Course' /\ caller' = caller
<1>0. Last \in Nat \ {0} /\ caller' = caller
  BY LastNat DEF Course, ScriptNext, Begin, Prepare, PrepareFails, ExecuteOne, ExecuteFails, Through,
     Commit, Unwind, Disconnect
<1>1. Last' = Last /\ Throws' = Throws
  BY <1>0 DEF Last, Throws
<1> USE <1>0, <1>1 DEF Course, Places
<1>2. CASE Begin
  BY <1>2, ScriptAssumption DEF Begin
<1>3. CASE Prepare
  BY <1>3 DEF Prepare, Last
<1>4. CASE PrepareFails
  <2>1. CASE Throws
    <3>1. leaked' \in BOOLEAN /\ rc' = "error" /\ place' = "unwind" /\ no' = no /\ xct' = xct
      BY <1>4, <2>1 DEF PrepareFails, PrepareBreaks
    <3> QED
      BY <1>4, <2>1, <3>1 DEF PrepareFails
  <2>2. CASE ~Throws
    BY <1>4, <2>2 DEF PrepareFails, PrepareBreaks, Throws
  <2> QED
    BY <2>1, <2>2
<1>5. CASE ExecuteOne
  BY <1>5 DEF ExecuteOne
<1>6. CASE ExecuteFails
  BY <1>6 DEF ExecuteFails, AfterError
<1>7. CASE Through
  BY <1>7 DEF Through
<1>8. CASE Commit
  BY <1>8 DEF Commit, Committed
<1>9. CASE Unwind
  BY <1>9 DEF Unwind, Destroyed, Committed
<1>10. CASE Disconnect
  BY <1>10 DEF Disconnect
<1> QED
  BY <1>2, <1>3, <1>4, <1>5, <1>6, <1>7, <1>8, <1>9, <1>10 DEF ScriptNext

LEMMA EffectStep == ASSUME ScriptInv, ScriptNext PROVE Effect'
<1>0. /\ caller' = caller /\ Last \in Nat \ {0} /\ Last' = Last /\ Throws' = Throws
      /\ no \in 1 .. Last + 1
  BY CourseStep, LastNat DEF ScriptInv, Course, Last, Throws
<1> SUFFICES ASSUME Throws PROVE Effect'
  BY <1>0 DEF Effect
<1>1. IsPrefix({}) /\ 1 .. 0 = {}
  BY <1>0, Prefixes DEF IsPrefix
<1>2. \A k \in 0 .. Last : IsPrefix(1 .. k)
  BY DEF IsPrefix
<1>3. \A S : IsPrefix(S)' <=> IsPrefix(S)
  BY <1>0 DEF IsPrefix
<1>4. Effect /\ Course
  BY DEF ScriptInv
<1>5. CASE Begin
  BY <1>0, <1>1, <1>4, <1>5 DEF Begin, Effect, Course, IsPrefix
<1>6. CASE Prepare
  BY <1>0, <1>3, <1>4, <1>6 DEF Prepare, Effect, Course
<1>7. CASE PrepareFails
  <2>1. place = "prepare" /\ place' = "unwind" /\ UNCHANGED <<caller, no, done, kept, xct>>
    BY <1>7 DEF PrepareFails, PrepareBreaks
  <2> QED
    BY <1>0, <1>3, <1>4, <2>1 DEF Effect
<1>8. CASE ExecuteOne
  <2>1. no \in 1 .. Last /\ (1 .. no - 1) \cup {no} = 1 .. no /\ no' - 1 = no /\ no \in 0 .. Last
    BY <1>0, <1>4, <1>8, Prefixes DEF ExecuteOne, Course
  <2>2. IsPrefix(1 .. no)
    BY <1>2, <2>1
  <2>3. place = "execute" /\ place' = "prepare" /\ xct' = xct
    BY <1>8 DEF ExecuteOne
  <2>4. CASE caller \in InXct
    <3>1. kept' = kept /\ done' = 1 .. no /\ xct = "open" /\ kept = {}
      BY <1>4, <1>8, <2>1, <2>3, <2>4 DEF ExecuteOne, Effect
    <3> QED
      BY <1>0, <1>1, <1>3, <2>1, <2>2, <2>3, <2>4, <3>1 DEF Effect
  <2>5. CASE caller \notin InXct
    <3>1. done' = done /\ kept' = 1 .. no /\ done = {}
      BY <1>4, <1>8, <2>1, <2>3, <2>5 DEF ExecuteOne, Effect, Course
    <3> QED
      BY <1>0, <1>1, <1>3, <2>1, <2>2, <2>3, <2>5, <3>1 DEF Effect
  <2> QED
    BY <2>4, <2>5
<1>9. CASE ExecuteFails
  <2>1. /\ place = "execute" /\ place' = "unwind" /\ kept' = kept
        /\ done' = done \/ done' = {}
    BY <1>9 DEF ExecuteFails, AfterError
  <2> QED
    BY <1>0, <1>1, <1>3, <1>4, <2>1 DEF Effect
<1>10. CASE Through
  <2>1. place = "through" /\ no = Last + 1 /\ UNCHANGED <<no, done, kept, xct>>
        /\ place' = IF caller \in InXct THEN "commit" ELSE "returned"
    BY <1>4, <1>10 DEF Through, Course
  <2> QED
    BY <1>0, <1>3, <1>4, <2>1 DEF Effect
<1>11. ASSUME Committed, kept = {}, caller \in InXct, place' \in {"returned", "threw"},
              place' = "returned" => done = 1 .. Last
       PROVE  Effect'
  <2>1. kept' = done /\ done' = {}
    BY <1>11 DEF Committed
  <2> QED
    BY <1>0, <1>1, <1>3, <1>4, <1>11, <2>1 DEF Effect
<1>12. CASE Commit
  <2>1. /\ place = "commit" /\ kept = {} /\ caller \in InXct
        /\ done = 1 .. Last
    BY <1>0, <1>4, <1>12 DEF Commit, Effect, Course
  <2>2. CASE Committed /\ place' = "returned"
    BY <1>11, <2>1, <2>2
  <2>3. CASE place' = "threw" /\ kept' = kept /\ (done' = done \/ done' = {})
    BY <1>0, <1>1, <1>3, <1>4, <2>1, <2>3 DEF Effect
  <2> QED
    BY <1>12, <2>2, <2>3 DEF Commit
<1>13. CASE Unwind
  <2>1. place = "unwind" /\ (caller \in InXct => kept = {})
    BY <1>4, <1>13 DEF Unwind, Effect
  <2>2. CASE caller \in InXct /\ Committed /\ place' = "threw"
    BY <1>11, <2>1, <2>2
  <2>3. CASE place' \in {"threw", "terminated"} /\ kept' = kept /\ (done' = done \/ done' = {})
    BY <1>0, <1>1, <1>3, <1>4, <2>3 DEF Effect
  <2> QED
    BY <1>13, <2>2, <2>3 DEF Unwind, Destroyed
<1>14. CASE Disconnect
  <2>1. place' = "closed" /\ kept' = kept /\ (done' = done \/ done' = {})
    BY <1>14 DEF Disconnect
  <2> QED
    BY <1>0, <1>1, <1>3, <1>4, <2>1 DEF Effect
<1> QED
  BY <1>5, <1>6, <1>7, <1>8, <1>9, <1>10, <1>12, <1>13, <1>14 DEF ScriptNext

LEMMA ScriptInvNext == ScriptInv /\ [ScriptNext]_scriptVars => ScriptInv'
<1>1. ASSUME ScriptInv, ScriptNext PROVE ScriptInv'
  BY <1>1, CourseStep, EffectStep DEF ScriptInv
<1>2. ASSUME ScriptInv, UNCHANGED scriptVars PROVE ScriptInv'
  BY <1>2 DEF ScriptInv, scriptVars, Course, Effect, Last, Throws, IsPrefix
<1> QED
  BY <1>1, <1>2

LEMMA ScriptInvAlways == ScriptSpec => []ScriptInv
BY ScriptInvInit, ScriptInvNext, PTL DEF ScriptSpec

\* Whatever fails, what is committed of a text is its beginning.
THEOREM AlwaysPrefix == ScriptSpec => []KeptIsPrefix
<1>1. ScriptInv => KeptIsPrefix
  BY DEF ScriptInv, Effect, IsPrefix, Last, KeptIsPrefix
<1> QED
  BY <1>1, ScriptInvAlways, PTL

\* No connection is closed with its write lock kept.
THEOREM NeverLocked == ScriptSpec => []NoLockLeft
<1>1. ScriptInv => NoLockLeft
  BY DEF ScriptInv, Course, NoLockLeft
<1> QED
  BY <1>1, ScriptInvAlways, PTL

\* A text that returns without an error has been gone through, and with
\* exceptions on all of it is committed.
THEOREM AlwaysThrough == ScriptSpec => []ReturnsThrough
<1>1. ScriptInv => ReturnsThrough
  BY DEF ScriptInv, Course, Effect, Last, ReturnsThrough
<1> QED
  BY <1>1, ScriptInvAlways, PTL
=============================================================================
