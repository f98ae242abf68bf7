----------------------------- MODULE Statement ------------------------------
(***************************************************************************)
(* The prepared statements of a scan, and update_entry and                 *)
(* update_block_digest as what they do with them: parameters bound, steps, *)
(* the error a statement keeps, exceptions switched off and on again.      *)
(* Nobody resets a statement when he is done with it: the next bind does.  *)
(*                                                                         *)
(* A key is a parent and a name, or an entry and a block number; a value   *)
(* is all else that is stored.  Another connection inserts rows; while     *)
(* st_sel keeps a snapshot this would make the next write fail, which is   *)
(* among the faults (module SharedDb has the snapshots).                   *)
(***************************************************************************)
EXTENDS Naturals, FiniteSets

CONSTANTS
    Key, Value, Null,
    MaxCalls,     \* bound on the calls of update_entry and update_block_digest
    MaxFaults,    \* bound on the steps that fail
    MaxOthers     \* bound on the rows that others insert

\* A row of entries: its key, its value, and the mark of the scan.
Row == [key : Key, value : Value, met : BOOLEAN]

ASSUME StatementAssumption ==
    /\ IsFiniteSet(Key) /\ Null \notin Key \cup Value \cup Row
    /\ MaxCalls \in Nat /\ MaxFaults \in Nat /\ MaxOthers \in Nat

VARIABLES
    entries,      \* rowid -> row
    blocks,       \* key -> digest of a block, Null: no row
    st,           \* the prepared statements
    exceptions,   \* db.exceptions()
    safe,         \* exceptions_safe
    pc,           \* where in the two routines
    key, value,   \* their arguments
    same,         \* modified_only_, and the row that is found has the file's mtime
    id,           \* update_entry's id
    calls, faults, others

args == <<key, value, same, calls>>
statementVars == <<entries, blocks, st, exceptions, safe, pc, id, faults, others, args>>

-----------------------------------------------------------------------------
(* One statement: where its last step left it, the error of that step, the *)
(* parameters.                                                             *)

Names == {"sel", "ins", "upd", "touch", "blkIns", "blkUpd"}

Prepared == [at |-> "ready", error |-> "ok", bound |-> [p \in {"key", "value", "id"} |-> Null]]

Reset(s) == [s EXCEPT !.at = "ready", !.error = "ok"]

Rebound(bound, b) == [p \in DOMAIN bound |-> IF p \in DOMAIN b THEN b[p] ELSE bound[p]]

IgnoreMisuse(s, b) == IF s.at = "ready" THEN [s EXCEPT !.bound = Rebound(@, b)] ELSE s  \* mutant

\* SQLITE_MISUSE if the statement is not ready; then it is reset, whatever
\* error that returns, and bound again.
Bind(s, b) == [Reset(s) EXCEPT !.bound = Rebound(@, b)]

\* sqlite3_step comes to r: a row, the end, or an error, which it keeps.
Step(s, r) == [s EXCEPT !.at = IF r \in {"row", "done"} THEN r ELSE "failed",
                        !.error = IF r \in {"row", "done"} THEN "ok" ELSE r]

\* command::execute goes no further if the reset returns an error; otherwise
\* the step comes to r, or fails.
Outcomes(s, r) == IF s.error # "ok" THEN {s.error} ELSE {r, "busy"}

Execute(s, r) == IF s.error # "ok" THEN Reset(s) ELSE Step(s, r)

Budget(r) == IF r = "busy" THEN faults < MaxFaults /\ faults' = faults + 1 ELSE UNCHANGED faults

PrimaryCode == "SQLITE_CONSTRAINT"    \* mutant: connect() leaves extended result codes off

\* sqlite3_step's error for a key that is taken.
Conflict == "SQLITE_CONSTRAINT_UNIQUE"

Used == {i \in DOMAIN entries : entries[i] # Null}
With(k) == {i \in Used : entries[i].key = k}
NextRow == Cardinality(Used) + 1

-----------------------------------------------------------------------------
StatementInit ==
    /\ entries = [i \in 1 .. Cardinality(Key) |-> Null] /\ blocks = [k \in Key |-> Null]
    /\ st = [n \in Names |-> Prepared]
    /\ exceptions = TRUE /\ safe = TRUE
    /\ pc = "idle" /\ id = 0
    /\ key = Null /\ value = Null /\ same = FALSE
    /\ calls = 0 /\ faults = 0 /\ others = 0

\* Both routines bind before anything can fail, and save the flag.
Call(k, v, n, b) ==
    /\ pc \in {"idle", "returned"} /\ calls < MaxCalls
    /\ calls' = calls + 1 /\ key' = k /\ value' = v /\ id' = 0
    /\ safe' = exceptions
    /\ st' = [st EXCEPT ![n] = Bind(@, b)]
    /\ UNCHANGED <<entries, blocks, faults, others>>

NotRestored(there) == pc' = there /\ UNCHANGED exceptions  \* mutant

\* at_scope_exit, on return as on an exception.
Leave(there) == pc' = there /\ exceptions' = safe

NeverThrow(r, next) == next  \* mutant: exceptions left off

\* A result that is no row and not the end is thrown, if exceptions are on.
OrThrow(r, next) ==
    IF r \notin {"row", "done"} /\ exceptions THEN Leave("threw") ELSE next

-----------------------------------------------------------------------------
(* update_entry.                                                           *)

CallEntry(k, v) ==
    /\ Call(k, v, "sel", [key |-> k])
    /\ same' \in BOOLEAN
    /\ exceptions' = TRUE
    /\ pc' = "select"

\* get_id_mtim: st_sel.begin() is a step, which starts over unless st_sel is
\* on a row.  Without exceptions an error looks like a row, of rowid 0.
GetId(next) ==
    LET s == st["sel"]
        found == IF s.at = "row" THEN {} ELSE With(s.bound["key"])
    IN  \E r \in {IF found = {} THEN "done" ELSE "row", "busy"} :
          /\ Budget(r)
          /\ st' = [st EXCEPT !["sel"] = Step(s, r)]
          /\ id' = IF r = "row" THEN CHOOSE i \in found : TRUE ELSE 0
          /\ OrThrow(r, next)

Select ==
    /\ pc = "select"
    /\ GetId(pc' = "write" /\ UNCHANGED exceptions)
    /\ UNCHANGED <<entries, blocks, safe, others, args>>

Touch ==
    /\ pc = "write" /\ same /\ id # 0
    /\ LET s == Bind(st["touch"], [id |-> id]) IN
       \E r \in Outcomes(s, "done") :
          /\ Budget(r)
          /\ st' = [st EXCEPT !["touch"] = Execute(s, r)]
          /\ entries' = IF r = "done" THEN [entries EXCEPT ![s.bound["id"]].met = TRUE] ELSE entries
          /\ OrThrow(r, pc' = "again" /\ UNCHANGED exceptions)
    /\ UNCHANGED <<blocks, safe, id, others, args>>

\* INSERT with exceptions off, which are on again for the UPDATE.
Insert ==
    /\ pc = "write" /\ ~(same /\ id # 0)
    /\ LET s == Bind(st["ins"], [key |-> key, value |-> value])
           k == s.bound["key"]
       IN
       \E r \in Outcomes(s, IF With(k) = {} THEN "done" ELSE Conflict) :
          /\ Budget(r)
          /\ st' = [st EXCEPT !["ins"] = Execute(s, r)]
          /\ entries' = IF r = "done"
                THEN [entries EXCEPT ![NextRow] = [key |-> k, value |-> s.bound["value"], met |-> TRUE]]
                ELSE entries
          /\ exceptions' = (r = "SQLITE_CONSTRAINT_UNIQUE")
          /\ pc' = IF exceptions' THEN "update" ELSE "again"
    /\ UNCHANGED <<blocks, safe, id, others, args>>

Update ==
    /\ pc = "update"
    /\ LET s == Bind(st["upd"], [key |-> key, value |-> value]) IN
       \E r \in Outcomes(s, "done") :
          /\ Budget(r)
          /\ st' = [st EXCEPT !["upd"] = Execute(s, r)]
          /\ entries' = [i \in DOMAIN entries |->
                IF r = "done" /\ i \in With(s.bound["key"])
                THEN [entries[i] EXCEPT !.value = s.bound["value"], !.met = TRUE] ELSE entries[i]]
          /\ OrThrow(r, pc' = "again" /\ UNCHANGED exceptions)
    /\ UNCHANGED <<blocks, safe, id, others, args>>

\* The second get_id_mtim, for a row that was not there at the first.
Again ==
    /\ pc = "again"
    /\ IF id = 0 THEN GetId(Leave("returned")) ELSE Leave("returned") /\ UNCHANGED <<st, id, faults>>
    /\ UNCHANGED <<entries, blocks, safe, others, args>>

-----------------------------------------------------------------------------
(* update_block_digest.                                                    *)

CallBlock(k, v) ==
    /\ Call(k, v, "blkIns", [key |-> k, value |-> v])
    /\ exceptions' = FALSE
    /\ pc' = "insertBlock"
    /\ UNCHANGED same

InsertBlock ==
    /\ pc = "insertBlock"
    /\ LET s == st["blkIns"]
           k == s.bound["key"]
       IN
       \E r \in Outcomes(s, IF blocks[k] = Null THEN "done" ELSE Conflict) :
          /\ Budget(r)
          /\ st' = [st EXCEPT !["blkIns"] = Execute(s, r)]
          /\ blocks' = IF r = "done" THEN [blocks EXCEPT ![k] = s.bound["value"]] ELSE blocks
          /\ IF r = "SQLITE_CONSTRAINT_UNIQUE" THEN pc' = "updateBlock" /\ exceptions' = TRUE
                                               ELSE Leave("returned")
    /\ UNCHANGED <<entries, safe, id, others, args>>

UpdateBlock ==
    /\ pc = "updateBlock"
    /\ LET s == Bind(st["blkUpd"], [key |-> key, value |-> value])
           k == s.bound["key"]
       IN
       \E r \in Outcomes(s, "done") :
          /\ Budget(r)
          /\ st' = [st EXCEPT !["blkUpd"] = Execute(s, r)]
          /\ blocks' = IF r = "done" /\ blocks[k] # Null
                       THEN [blocks EXCEPT ![k] = s.bound["value"]] ELSE blocks
          /\ OrThrow(r, Leave("returned"))
    /\ UNCHANGED <<entries, safe, id, others, args>>

-----------------------------------------------------------------------------
\* The scan is over: the statements are finalized, and unless it threw
\* cleanup_entries resets the marks (and deletes what was not met).
EndScan ==
    /\ pc \in {"returned", "threw"}
    /\ st' = [n \in Names |-> Prepared]
    /\ entries' = [i \in DOMAIN entries |->
          IF pc = "returned" /\ i \in Used THEN [entries[i] EXCEPT !.met = FALSE] ELSE entries[i]]
    /\ pc' = "idle"
    /\ UNCHANGED <<blocks, exceptions, safe, id, faults, others, args>>

OtherInserts ==
    /\ others < MaxOthers /\ others' = others + 1
    /\ st["sel"].at # "row"
    /\ \E k \in Key, v \in Value :
          /\ With(k) = {}
          /\ entries' = [entries EXCEPT ![NextRow] = [key |-> k, value |-> v, met |-> FALSE]]
    /\ UNCHANGED <<blocks, st, exceptions, safe, pc, id, faults, args>>

StatementNext ==
    \/ \E k \in Key, v \in Value : CallEntry(k, v) \/ CallBlock(k, v)
    \/ Select \/ Touch \/ Insert \/ Update \/ Again
    \/ InsertBlock \/ UpdateBlock \/ EndScan \/ OtherInserts

StatementSpec == StatementInit /\ [][StatementNext]_statementVars

-----------------------------------------------------------------------------
Lost(n) == st[n].error = "busy"

\* What update_entry returns is the row of its key, met, with its value unless
\* it was up to date: no statement ran with parameters of an earlier call or
\* was passed over for an error of an earlier call, and others may have come
\* in between.  The exception is a statement that failed in this call.
EntryWritten ==
    [][ pc = "again" /\ pc' = "returned" =>
          \/ id' \in With(key) /\ entries[id'].met /\ ((same /\ id # 0) \/ entries[id'].value = value)
          \/ id' \in With(key) \cup {0} /\ (Lost("ins") \/ Lost("sel")') ]_statementVars

\* Likewise the row of a block, of which only the INSERT may fail unnoticed.
BlockWritten ==
    [][ (pc \in {"insertBlock", "updateBlock"} /\ pc' = "returned") =>
          (blocks'[key] = value \/ Lost("blkIns")') ]_statementVars

\* The flag that update_entry and update_block_digest switch on and off is on
\* again when they are left, whichever way.
ExceptionsRestored == pc \in {"idle", "returned", "threw"} => exceptions

\* A scan goes on with an error unnoticed only if it was an INSERT's or that
\* of the SELECT after it; what a failed UPDATE or touch did not write is not
\* taken for written.
OnlyInsertsFailUnnoticed ==
    pc = "returned" => \A n \in {"upd", "touch", "blkUpd"} : st[n].error = "ok"
=============================================================================
