--------------------------- MODULE IndexerProofs ----------------------------
(***************************************************************************)
(* Theorems about module Indexer, and that it implements Index, for every  *)
(* tree, every number of changes, failures and rowids.  In this order:     *)
(*   types, and the key of entries                                         *)
(*   RowInv      the tree of rows, and the rowids that the scan holds      *)
(*   FreshInv    stamps and data                                           *)
(*   IndexStep   the refinement of Index, and what Index promises          *)
(*   ScanInv     the marks, along the walk of read()                       *)
(*   ScanMirrors what one undisturbed scan makes of the rows               *)
(*   Walked, Own the same of the names alone, whatever rows were there     *)
(*               before: INSERTs were lost, or a second tracker writes     *)
(***************************************************************************)
EXTENDS IndexMap, ReaderProofs

\* What can happen, without the fairness of Spec, in which safety has no part: so
\* it is proved of every environment, that of module System too.
Steps == Init /\ [][Next]_vars

LEMMA SpecSteps == Spec => Steps
BY DEF Spec, Steps

-----------------------------------------------------------------------------
(* Module Indexer: types.  TypeOK is not inductive as it stands: that the  *)
(* rowids of directories are numbers when they are used as parent_id, that *)
(* a handle is a handle when FindNextFile is asked and that no file has    *)
(* more blocks than MaxBlocks takes what is known at each control point.   *)

BetweenScans == {"awake", "stopped", "admit"}

Control ==
    /\ Scanning => handle \in Path
    /\ pc # "manip" => stage \in BetweenScans
    /\ pc = "manip" /\ stage = "entry" => parents[path] # Null

DataBound == \A p \in Path : Len(fs[p].data) <= MaxBlocks

TypeInv == TypeOK /\ Control /\ DataBound

LEMMA ReaderTypes == TypeInv => ReaderTypeOK /\ Control
BY DEF TypeInv, TypeOK

\* The table may be shared with a tracker of another directory, whose rows have
\* other names and nodes.  S is a set that the rows of both are from.
RowSet(S) ==
    /\ Row \subseteq S /\ Null \notin S
    /\ \A r \in S :
          /\ {"alive", "parent", "name", "node"} \subseteq DOMAIN r /\ r.alive \in {0, 1}
          /\ \A a \in {0, 1}, d \in BOOLEAN, s \in Nat, t \in Seq(Block) \cup {Null}, m \in Nat :
                /\ [r EXCEPT !.alive = a] \in S
                /\ [r EXCEPT !.alive = a, !.dir = d, !.size = s, !.digest = t] \in S
                /\ [r EXCEPT !.alive = a, !.mtime = m, !.digest = t] \in S

RowsIn(S) == [RowId -> S \cup {Null}]

\* TypeOK, and TypeInv, with the rows from S.
TypeOKIn(S) ==
    /\ ReaderTypeOK
    /\ entries \in RowsIn(S)
    /\ blocks \in [EntryId -> [BlockNo -> Block \cup {Null}]]
    /\ parents \in [Path -> EntryId \cup {Null}]
    /\ stage \in {"awake", "stopped", "admit", "entry", "open", "read", "trim", "record"}
    /\ entryId \in EntryId /\ blkNo \in 0 .. MaxBlocks /\ ctx \in Seq(Block)
    /\ mode \in BOOLEAN /\ shutdown \in BOOLEAN /\ tidy \subseteq {"names", "digests"}

TypeIn(S) == TypeOKIn(S) /\ Control /\ DataBound

LEMMA OwnRows ==
    /\ RowSet(Row)
    /\ TypeInv <=> TypeIn(Row)
<1>1. RowSet(Row)
  <2>1. ASSUME NEW r \in Row
        PROVE  /\ DOMAIN r = {"alive", "parent", "name", "dir", "mtime", "size", "digest", "node"}
               /\ r.alive \in {0, 1}
    BY DEF Row
  <2>2. ASSUME NEW r \in Row, NEW a \in {0, 1}, NEW d \in BOOLEAN, NEW s \in Nat,
               NEW t \in Seq(Block) \cup {Null}, NEW m \in Nat
        PROVE  /\ [r EXCEPT !.alive = a] \in Row
               /\ [r EXCEPT !.alive = a, !.dir = d, !.size = s, !.digest = t] \in Row
               /\ [r EXCEPT !.alive = a, !.mtime = m, !.digest = t] \in Row
    BY DEF Row
  <2>3. Null \notin Row
    BY NullAssumption
  <2> QED
    BY <2>1, <2>2, <2>3, Zenon DEF RowSet
<1>2. TypeInv <=> TypeIn(Row)
  BY DEF TypeInv, TypeOK, TypeIn, TypeOKIn, RowsIn
<1> QED
  BY <1>1, <1>2

LEMMA DataBoundStep ==
    ASSUME TreeType, DataBound, NEW held, FsChange(held)
    PROVE  DataBound'
<1>1. Len(Nothing.data) <= MaxBlocks /\ Len(Directory(clock + 1).data) <= MaxBlocks
  BY EmptyLen, IndexerAssumption DEF Nothing, Directory
<1>2. \A c \in Content : Len(File(clock + 1, c).data) <= MaxBlocks
  BY IndexerAssumption DEF File
<1>3. \A n \in Node : \A e \in EntriesAt(n, clock + 1) : Len(e.data) <= MaxBlocks
  BY <1>1, <1>2 DEF EntriesAt
<1>4. ASSUME NEW n \in Node, NEW e, fs' = [fs EXCEPT ![n] = e], Len(e.data) <= MaxBlocks
      PROVE  DataBound'
  BY <1>4 DEF DataBound, TreeType, Path
<1>5. ASSUME NEW n \in Node, CreateEntry(n) PROVE DataBound'
  BY <1>3, <1>4, <1>5 DEF CreateEntry
<1>6. ASSUME NEW n \in Node, RewriteFile(n) PROVE DataBound'
  BY <1>2, <1>4, <1>6 DEF RewriteFile
<1>7. ASSUME NEW n \in Node, RemoveEntry(n, held) PROVE DataBound'
  BY <1>1, <1>4, <1>7 DEF RemoveEntry
<1>8. CASE Unmount
  BY <1>1, <1>8 DEF Unmount, DataBound
<1>9. CASE Mount
  BY <1>1, <1>9 DEF Mount, DataBound, TreeType, Path
<1> QED
  BY <1>5, <1>6, <1>7, <1>8, <1>9 DEF FsChange

LEMMA TypeInit ==
    ASSUME Init
    PROVE  TypeInv
<1> USE DEF Init, ReaderInit, TreeInit
<1>1. /\ Nothing \in Entry /\ Directory(FirstStamp) \in Entry
      /\ \A c \in Content : File(FirstStamp, c) \in Entry
  BY EntryTypes, TreeAssumption
<1>2. fs \in [Path -> Entry]
  BY <1>1
<1>3. DataBound
  <2>1. Len(Nothing.data) <= MaxBlocks /\ Len(Directory(FirstStamp).data) <= MaxBlocks
    BY EmptyLen, IndexerAssumption DEF Nothing, Directory
  <2>2. \A c \in Content : Len(File(FirstStamp, c).data) <= MaxBlocks
    BY IndexerAssumption DEF File
  <2> QED
    BY <2>1, <2>2 DEF DataBound
<1>4. ReaderTypeOK
  <2>1. <<>> \in Seq([handle : Path, path : Path])
    BY EmptyLen
  <2>2. FirstStamp \in Nat /\ MaxFaults \in Nat
    BY TreeAssumption, ReaderAssumption
  <2> QED
    BY <1>2, <2>1, <2>2 DEF ReaderTypeOK, Path, Endings
<1>5. TypeOK
  <2>1. NoBlocks \in [BlockNo -> Block \cup {Null}]
    BY DEF NoBlocks
  <2>2. 0 \in EntryId /\ 0 \in 0 .. MaxBlocks /\ <<>> \in Seq(Block)
    BY EmptyLen, IndexerAssumption DEF EntryId
  <2>3. mode \in BOOLEAN
    BY IndexerAssumption
  <2> QED
    BY <1>4, <2>1, <2>2, <2>3 DEF TypeOK
<1>6. Control
  BY DEF Control, Scanning, BetweenScans
<1> QED
  BY <1>3, <1>5, <1>6 DEF TypeInv

-----------------------------------------------------------------------------
(* Each kind of step preserves the types.                                  *)


LEMMA WalkType ==
    ASSUME NEW S, RowSet(S), TypeIn(S), Walk
    PROVE  TypeIn(S)'
<1> USE DEF Walk, dbVars, localVars, scanVars
<1>1. /\ ReaderTypeOK'
      /\ pc \in {"loop", "next", "descend"} /\ (Scanning => handle \in Path)' /\ fs' = fs
  BY ReaderLoopType, ReaderLoopControl DEF TypeIn, TypeOKIn, Control
<1>2. TypeOKIn(S)'
  BY <1>1 DEF TypeIn, TypeOKIn
<1>3. Control'
  BY <1>1 DEF TypeIn, Control, BetweenScans
<1>4. DataBound'
  BY <1>1 DEF TypeIn, DataBound
<1> QED
  BY <1>2, <1>3, <1>4 DEF TypeIn

LEMMA TreeStepType ==
    ASSUME NEW S, RowSet(S), TypeIn(S), TreeStep(Held),
           UNCHANGED <<readVars, faults, dbVars, localVars, scanVars>>
    PROVE  TypeIn(S)'
<1> USE DEF TreeStep, readVars, dbVars, localVars, scanVars
<1>0. TreeType /\ DataBound /\ FsChange(Held)
  BY DEF TypeIn, TypeOKIn, ReaderTypeOK, TreeType
<1>1. TreeType'
  BY <1>0, TreeTypeStep
<1>2. DataBound'
  BY <1>0, DataBoundStep
<1>3. TypeOKIn(S)'
  <2>1. gone' \subseteq Path /\ quiet' \in BOOLEAN /\ visited' = visited
    BY DEF TypeIn, TypeOKIn, ReaderTypeOK
  <2>2. ReaderTypeOK'
    BY <1>1, <2>1 DEF TypeIn, TypeOKIn, ReaderTypeOK, TreeType
  <2> QED
    BY <2>2 DEF TypeIn, TypeOKIn
<1>4. Control'
  BY DEF TypeIn, Control, Scanning
<1> QED
  BY <1>2, <1>3, <1>4 DEF TypeIn

\* The worker between scans, and the application.
LEMMA BetweenType ==
    ASSUME NEW S, RowSet(S), TypeIn(S), Wake \/ Stop \/ Restart \/ RequestShutdown
    PROVE  TypeIn(S)'
<1> USE DEF Wake, Stop, Restart, RequestShutdown, Waiting, readerVars, readVars, treeVars,
            historyVars, dbVars, localVars, scanVars
<1>1. ReaderTypeOK'
  <2>1. faults' \in Nat
    BY StrikeType DEF TypeIn, TypeOKIn, ReaderTypeOK
  <2> QED
    BY <2>1, ReaderTypeKept DEF TypeIn, TypeOKIn, ReaderTypeOK
<1>2. TypeOKIn(S)'
  BY <1>1 DEF TypeIn, TypeOKIn
<1>3. Control'
  BY DEF TypeIn, Control, Scanning, BetweenScans
<1>4. DataBound'
  BY DEF TypeIn, DataBound
<1> QED
  BY <1>2, <1>3, <1>4 DEF TypeIn

LEMMA BeginScanType ==
    ASSUME NEW S, RowSet(S), TypeIn(S), BeginScan
    PROVE  TypeIn(S)'
<1> USE DEF BeginScan, BeginRead, ClearLocals, treeVars, dbVars
<1>1. ReaderTypeOK'
  BY EmptyLen DEF TypeIn, TypeOKIn, ReaderTypeOK, Path, Endings
<1>2. TypeOKIn(S)'
  <2>1. 0 \in EntryId /\ 0 \in 0 .. MaxBlocks /\ <<>> \in Seq(Block)
    BY EmptyLen, IndexerAssumption DEF EntryId
  <2>2. mode' \in BOOLEAN
    BY IndexerAssumption
  <2> QED
    BY <1>1, <2>1, <2>2 DEF TypeIn, TypeOKIn
<1>3. Control'
  BY DEF Control, Scanning, BetweenScans
<1>4. DataBound'
  BY DEF TypeIn, DataBound
<1> QED
  BY <1>2, <1>3, <1>4 DEF TypeIn

LEMMA CrashType ==
    ASSUME NEW S, RowSet(S), TypeIn(S), Crash
    PROVE  TypeIn(S)'
<1> USE DEF Crash, treeVars, dbVars, historyVars
<1>1. ReaderTypeOK'
  <2>1. faults' \in Nat
    BY StrikeType DEF TypeIn, TypeOKIn, ReaderTypeOK
  <2> QED
    BY <2>1, EmptyLen DEF TypeIn, TypeOKIn, ReaderTypeOK, Endings
<1>2. TypeOKIn(S)'
  <2>1. 0 \in EntryId /\ 0 \in 0 .. MaxBlocks /\ <<>> \in Seq(Block)
    BY EmptyLen, IndexerAssumption DEF EntryId
  <2> QED
    BY <1>1, <2>1 DEF TypeIn, TypeOKIn
<1>3. Control'
  BY DEF Control, Scanning, BetweenScans
<1>4. DataBound'
  BY DEF TypeIn, DataBound
<1> QED
  BY <1>2, <1>3, <1>4 DEF TypeIn

-----------------------------------------------------------------------------
(* The statements of the manipulator.                                      *)

Rows == [RowId -> Row \cup {Null}]

LEMMA RowIds ==
    /\ 0 \notin RowId /\ 0 \in EntryId /\ RowId \subseteq EntryId
    /\ \A i \in EntryId : i # 0 => i \in RowId
    /\ RowId \subseteq Nat
<1> QED
  BY IndexerAssumption DEF RowId, EntryId

LEMMA SelectedRow ==
    ASSUME NEW p, NEW n
    PROVE  /\ Selected(p, n) \in EntryId
           /\ Selected(p, n) # 0 =>
                /\ Selected(p, n) \in Used
                /\ entries[Selected(p, n)].parent = p /\ entries[Selected(p, n)].name = n
           /\ Selected(p, n) = 0 =>
                \A i \in Used : ~(entries[i].parent = p /\ entries[i].name = n)
<1>1. CASE Matches(p, n) = {}
  BY <1>1, RowIds DEF Selected, Matches
<1>2. CASE Matches(p, n) # {}
  <2>1. Selected(p, n) \in Matches(p, n)
    BY <1>2 DEF Selected
  <2> QED
    BY <2>1, RowIds DEF Matches, Used
<1> QED
  BY <1>1, <1>2

LEMMA UsedRow ==
    ASSUME entries \in Rows, NEW i \in Used
    PROVE  i \in RowId /\ entries[i] \in Row
<1> QED
  BY DEF Rows, Used

LEMMA UsedIn ==
    ASSUME NEW S, entries \in RowsIn(S), NEW i \in Used
    PROVE  i \in RowId /\ entries[i] \in S
<1> QED
  BY DEF RowsIn, Used

\* What the UPDATEs make of a row.
Updated(S, q, r, a) ==
    q \in S /\ q.alive = a /\ q.parent = r.parent /\ q.name = r.name /\ q.node = r.node

LEMMA RowTouched ==
    ASSUME NEW S, RowSet(S), NEW r \in S, NEW a \in {0, 1}
    PROVE  Updated(S, [r EXCEPT !.alive = a], r, a)
<1>1. {"alive", "parent", "name", "node"} \subseteq DOMAIN r /\ [r EXCEPT !.alive = a] \in S
  BY EmptyLen DEF RowSet
<1> QED
  BY <1>1 DEF Updated

LEMMA RowRefreshed ==
    ASSUME NEW S, RowSet(S), NEW r \in S, NEW a \in {0, 1}, NEW d \in BOOLEAN, NEW s \in Nat,
           NEW t \in Seq(Block) \cup {Null}
    PROVE  Updated(S, [r EXCEPT !.alive = a, !.dir = d, !.size = s, !.digest = t], r, a)
<1>1. /\ {"alive", "parent", "name", "node"} \subseteq DOMAIN r
      /\ [r EXCEPT !.alive = a, !.dir = d, !.size = s, !.digest = t] \in S
  BY DEF RowSet
<1> QED
  BY <1>1 DEF Updated

LEMMA RowRecorded ==
    ASSUME NEW S, RowSet(S), NEW r \in S, NEW a \in {0, 1}, NEW m \in Nat,
           NEW t \in Seq(Block) \cup {Null}
    PROVE  Updated(S, [r EXCEPT !.alive = a, !.mtime = m, !.digest = t], r, a)
<1>1. /\ {"alive", "parent", "name", "node"} \subseteq DOMAIN r
      /\ [r EXCEPT !.alive = a, !.mtime = m, !.digest = t] \in S
  BY DEF RowSet
<1> QED
  BY <1>1 DEF Updated

RowAdded(p, n, dir, size) ==
    \E i \in RowId \ Used : entries' = [entries EXCEPT ![i] = NewRow(p, n, dir, size)]

\* The ways in which update_entry writes, and the rowid it returns.
Written(S, p, n, dir, size, id) ==
    \/ /\ id \in Used /\ id = Selected(p, NameOf[n])
       /\ \E r \in S :
            /\ entries' = [entries EXCEPT ![id] = r]
            /\ r.parent = entries[id].parent /\ r.name = entries[id].name
            /\ r.node = entries[id].node /\ r.alive = 0
    \/ /\ id \in RowId \ Used /\ Selected(p, NameOf[n]) = 0
       /\ entries' = [entries EXCEPT ![id] = NewRow(p, n, dir, size)]
       /\ NewRow(p, n, dir, size) \in S
    \/ entries' = entries /\ "silent" \in FaultKinds /\ tidy' = {}
    \/ /\ Selected(p, NameOf[n]) = 0 /\ "silent" \in FaultKinds /\ tidy' = {}
       /\ NewRow(p, n, dir, size) \in S
       /\ RowAdded(p, n, dir, size)

LEMMA UpdateEntryCases ==
    ASSUME NEW S, RowSet(S), entries \in RowsIn(S), faults \in Nat,
           NEW p \in EntryId, NEW n \in Path, NEW dir \in BOOLEAN, NEW mtime, NEW size \in Nat,
           NEW id, UpdateEntry(p, n, dir, mtime, size, id)
    PROVE  /\ id \in EntryId /\ faults' \in Nat /\ tidy' \in {tidy, {}}
           /\ Written(S, p, n, dir, size, id)
<1> USE DEF Written
<1> DEFINE old == Selected(p, NameOf[n])
<1>0. old \in EntryId /\ (old # 0 => old \in Used)
  BY SelectedRow
<1>1. CASE UpToDate(old, mtime) /\ id = old /\ entries' = Touched(old) /\ UNCHANGED <<faults, tidy>>
  <2> DEFINE r == [entries[old] EXCEPT !.alive = 0]
  <2>1. old \in Used /\ entries[old] \in S
    BY <1>0, <1>1, UsedIn DEF UpToDate
  <2>2. Updated(S, r, entries[old], 0)
    BY <2>1, RowTouched
  <2>3. entries' = [entries EXCEPT ![old] = r]
    BY <1>1, <2>1 DEF Touched
  <2> HIDE DEF r
  <2> QED
    BY <1>0, <1>1, <2>1, <2>2, <2>3 DEF Updated
<1>2. CASE /\ ~UpToDate(old, mtime) /\ old # 0
           /\ id = old
           /\ entries' = [entries EXCEPT ![old] =
                 [@ EXCEPT !.alive = 0, !.dir = dir, !.size = size, !.digest = Null]]
           /\ UNCHANGED <<faults, tidy>>
  <2> DEFINE r == [entries[old] EXCEPT !.alive = 0, !.dir = dir, !.size = size, !.digest = Null]
  <2>1. old \in Used /\ entries[old] \in S
    BY <1>0, <1>2, UsedIn
  <2>2. Updated(S, r, entries[old], 0)
    BY <2>1, RowRefreshed
  <2>3. entries' = [entries EXCEPT ![old] = r]
    BY <1>2
  <2> HIDE DEF r
  <2> QED
    BY <1>0, <1>2, <2>1, <2>2, <2>3 DEF Updated
<1>3. CASE /\ old = 0
           /\ id \in NextRowids
           /\ entries' = [entries EXCEPT ![id] = NewRow(p, n, dir, size)]
           /\ UNCHANGED <<faults, tidy>>
  <2>1. id \in RowId \ Used
    BY <1>3 DEF NextRowids
  <2>2. NewRow(p, n, dir, size) \in S
    BY DEF RowSet, NewRow, Row, Name
  <2> QED
    BY <1>3, <2>1, <2>2, RowIds
<1>4. CASE id = old /\ UNCHANGED entries /\ Lost
  <2>1. id \in EntryId /\ faults' \in Nat /\ "silent" \in FaultKinds /\ tidy' = {}
    BY <1>0, <1>4 DEF Lost, Strike
  <2> QED
    BY <1>4, <2>1
<1>5. CASE /\ old = 0
           /\ id = 0
           /\ \E i \in NextRowids : entries' = [entries EXCEPT ![i] = NewRow(p, n, dir, size)]
           /\ Lost
  <2>1. NewRow(p, n, dir, size) \in S
    BY DEF RowSet, NewRow, Row, Name
  <2>2. RowAdded(p, n, dir, size)
    BY <1>5 DEF NextRowids, RowAdded
  <2>3. id \in EntryId /\ faults' \in Nat /\ "silent" \in FaultKinds /\ tidy' = {}
    BY <1>0, <1>5 DEF Lost, Strike
  <2> QED
    BY <1>5, <2>1, <2>2, <2>3
<1> QED
  BY <1>1, <1>2, <1>3, <1>4, <1>5 DEF UpdateEntry

LEMMA UpdateEntryType ==
    ASSUME NEW S, RowSet(S), entries \in RowsIn(S), faults \in Nat,
           NEW p \in EntryId, NEW n \in Path, NEW dir \in BOOLEAN, NEW mtime, NEW size \in Nat,
           NEW id, UpdateEntry(p, n, dir, mtime, size, id)
    PROVE  /\ id \in EntryId /\ faults' \in Nat /\ tidy' \in {tidy, {}}
           /\ entries' \in RowsIn(S)
<1>1. ASSUME NEW i, NEW r \in S, entries' = [entries EXCEPT ![i] = r]
      PROVE  entries' \in RowsIn(S)
  BY <1>1 DEF RowsIn
<1>2. id \in EntryId /\ faults' \in Nat /\ tidy' \in {tidy, {}}
      /\ \/ entries' = entries
         \/ \E i \in EntryId, r \in S : entries' = [entries EXCEPT ![i] = r]
  <2>1. id \in EntryId /\ faults' \in Nat /\ tidy' \in {tidy, {}} /\ Written(S, p, n, dir, size, id)
    BY UpdateEntryCases
  <2>2. CASE RowAdded(p, n, dir, size) /\ NewRow(p, n, dir, size) \in S
    BY <2>1, <2>2, RowIds DEF RowAdded
  <2> QED
    BY <2>1, <2>2, RowIds DEF Written
<1> QED
  BY <1>1, <1>2

\* The manipulator comes back to read(), or throws.
LEMMA ReturnType ==
    ASSUME NEW S, RowSet(S), TypeIn(S), ManipReturns, ClearLocals,
           abort' \in BOOLEAN, faults' \in Nat,
           entries' \in RowsIn(S), blocks' \in [EntryId -> [BlockNo -> Block \cup {Null}]],
           parents' \in [Path -> EntryId \cup {Null}],
           fs' = fs, clock' = clock, visited' = visited, gone' = gone, quiet' = quiet,
           mode' = mode, shutdown' = shutdown, tidy' \subseteq {"names", "digests"}, pc = "manip"
    PROVE  TypeIn(S)'
<1> USE DEF ManipReturns, ClearLocals, ReturnTo
<1>1. ReaderTypeOK'
  BY ReaderTypeKept DEF TypeIn, TypeOKIn, ReaderTypeOK
<1>2. TypeOKIn(S)'
  <2>1. 0 \in EntryId /\ 0 \in 0 .. MaxBlocks /\ <<>> \in Seq(Block)
    BY EmptyLen, IndexerAssumption DEF EntryId
  <2> QED
    BY <1>1, <2>1 DEF TypeIn, TypeOKIn, RowsIn
<1>3. Control'
  BY DEF TypeIn, Control, Scanning, BetweenScans
<1>4. DataBound'
  BY DEF TypeIn, DataBound
<1> QED
  BY <1>2, <1>3, <1>4 DEF TypeIn

LEMMA ManipThrowsType ==
    ASSUME NEW S, RowSet(S), TypeIn(S), NEW how,
           how \in {"undefined", "database"}, ManipThrows(how), ClearLocals,
           faults' \in Nat,
           fs' = fs, clock' = clock, visited' = visited, gone' = gone, quiet' = quiet,
           entries' = entries, blocks' = blocks,
           parents' = parents, mode' = mode, shutdown' = shutdown, tidy' = tidy
    PROVE  TypeIn(S)'
<1> USE DEF ManipThrows, Leave, ClearLocals
<1>1. ReaderTypeOK'
  <2>1. Left
    BY DEF Left, Endings
  <2> QED
    BY <2>1, LeftType DEF TypeIn, TypeOKIn, ReaderTypeOK
<1>2. TypeOKIn(S)'
  <2>1. 0 \in EntryId /\ 0 \in 0 .. MaxBlocks /\ <<>> \in Seq(Block)
    BY EmptyLen, IndexerAssumption DEF EntryId
  <2> QED
    BY <1>1, <2>1 DEF TypeIn, TypeOKIn
<1>3. Control'
  BY DEF Control, Scanning, BetweenScans
<1>4. DataBound'
  BY DEF TypeIn, DataBound
<1> QED
  BY <1>2, <1>3, <1>4 DEF TypeIn

\* A statement of the manipulator that is not its last.
LEMMA StageType ==
    ASSUME NEW S, RowSet(S), TypeIn(S), pc = "manip",
           UNCHANGED <<treeVars, readVars, historyVars, mode, shutdown>>, faults' \in Nat,
           tidy' \subseteq {"names", "digests"},
           entries' \in RowsIn(S), blocks' \in [EntryId -> [BlockNo -> Block \cup {Null}]],
           parents' \in [Path -> EntryId \cup {Null}],
           stage' \in {"entry", "open", "read", "trim", "record"},
           entryId' \in EntryId, blkNo' \in 0 .. MaxBlocks, ctx' \in Seq(Block),
           stage' = "entry" => parents'[path] # Null
    PROVE  TypeIn(S)'
<1> USE DEF treeVars, readVars, historyVars
<1>1. ReaderTypeOK'
  BY ReaderTypeKept DEF TypeIn, TypeOKIn, ReaderTypeOK
<1>2. TypeOKIn(S)'
  BY <1>1 DEF TypeIn, TypeOKIn, RowsIn
<1>3. Control'
  BY DEF TypeIn, Control, Scanning
<1>4. DataBound'
  BY DEF TypeIn, DataBound
<1> QED
  BY <1>2, <1>3, <1>4 DEF TypeIn

LEMMA EntIn ==
    ASSUME ReaderTypeOK
    PROVE  ent.node \in Path /\ ent.mtime \in Nat /\ ent.size \in Nat
<1> QED
  BY DEF ReaderTypeOK, FindData, NoFind, Path

LEMMA EntType ==
    ASSUME TypeInv
    PROVE  ent.node \in Path /\ ent.mtime \in Nat /\ ent.size \in Nat
BY EntIn DEF TypeInv, TypeOK

\* update_entry has returned id, whatever it did to entries.
LEMMA EnteredType ==
    ASSUME NEW S, RowSet(S), TypeIn(S), NEW id \in EntryId, NEW stored,
           \/ InManip("admit") /\ RootEntered(id)
           \/ InManip("entry") /\ (DirectoryEntered(id) \/ FileEntered(id, stored)),
           entries' \in RowsIn(S), faults' \in Nat, tidy' \subseteq {"names", "digests"}
    PROVE  TypeIn(S)'
<1> USE DEF InManip, treeVars, readVars, historyVars
<1>0. /\ abort \in BOOLEAN /\ path \in Path
      /\ blocks \in [EntryId -> [BlockNo -> Block \cup {Null}]]
      /\ parents \in [Path -> EntryId \cup {Null}]
      /\ entryId \in EntryId /\ blkNo \in 0 .. MaxBlocks /\ ctx \in Seq(Block)
  BY DEF TypeIn, TypeOKIn, ReaderTypeOK
<1>1. CASE InManip("admit") /\ RootEntered(id)
  <2>1. parents' \in [Path -> EntryId \cup {Null}] /\ parents'[path] # Null
    BY <1>0, <1>1, NullAssumption DEF RootEntered
  <2> QED
    BY <1>0, <1>1, <2>1, StageType DEF RootEntered
<1>2. CASE InManip("entry") /\ DirectoryEntered(id)
  <2>1. parents' \in [Path -> EntryId \cup {Null}]
    BY <1>0, <1>2 DEF DirectoryEntered
  <2>2. pc = "manip" /\ ManipReturns /\ ClearLocals
    BY <1>2 DEF DirectoryEntered, Return
  <2> QED
    BY <1>0, <1>2, <2>1, <2>2, ReturnType DEF DirectoryEntered, Return
<1>3. CASE InManip("entry") /\ FileEntered(id, stored)
  <2>1. \/ /\ stage' = "open" /\ entryId' = id
           /\ UNCHANGED <<treeVars, readVars, historyVars, blkNo, ctx>>
        \/ Return /\ UNCHANGED abort
    BY <1>3 DEF FileEntered
  <2>2. CASE Return /\ UNCHANGED abort
    BY <1>0, <1>3, <2>2, ReturnType DEF FileEntered, Return
  <2>3. CASE /\ stage' = "open" /\ entryId' = id
             /\ UNCHANGED <<treeVars, readVars, historyVars, blkNo, ctx>>
    BY <1>0, <1>3, <2>3, StageType DEF FileEntered
  <2> QED
    BY <2>1, <2>2, <2>3
<1> QED
  BY <1>1, <1>2, <1>3

\* A block is read, be its digest stored or not.
LEMMA BlockInReach ==
    ASSUME NEW S, TypeIn(S), BlockRead
    PROVE  fs[ent.node].data[blkNo + 1] \in Block /\ blkNo + 1 \in BlockNo
<1>1. fs[ent.node].data \in Seq(Block) /\ Len(fs[ent.node].data) <= MaxBlocks
  BY EntIn DEF TypeIn, TypeOKIn, ReaderTypeOK, Entry, DataBound
<1>2. Len(fs[ent.node].data) \in Nat
  BY <1>1, LenProperties
<1>3. blkNo + 1 \in 1 .. Len(fs[ent.node].data)
  BY <1>2, IndexerAssumption DEF BlockRead, TypeIn, TypeOKIn
<1> QED
  BY <1>1, <1>2, <1>3, ElementOfSeq, IndexerAssumption DEF BlockNo

LEMMA BlockReadType ==
    ASSUME NEW S, RowSet(S), TypeIn(S), BlockRead, faults' \in Nat,
           blocks' \in [EntryId -> [BlockNo -> Block \cup {Null}]]
    PROVE  TypeIn(S)'
<1> USE DEF InManip, treeVars, readVars, historyVars, scanVars
<1>0. /\ entries \in RowsIn(S) /\ parents \in [Path -> EntryId \cup {Null}]
      /\ entryId \in EntryId /\ ctx \in Seq(Block) /\ tidy \subseteq {"names", "digests"}
  BY DEF TypeIn, TypeOKIn
<1>1. ctx' \in Seq(Block)
  <2> DEFINE block == fs[ent.node].data[blkNo + 1]
  <2>1. block \in Block /\ ctx' = Append(ctx, block)
    BY BlockInReach DEF BlockRead
  <2> HIDE DEF block
  <2> QED
    BY <1>0, <2>1, AppendProperties
<1>2. blkNo' \in 0 .. MaxBlocks
  BY BlockInReach, IndexerAssumption DEF BlockRead, BlockNo
<1> QED
  BY <1>0, <1>1, <1>2, StageType DEF BlockRead

LEMMA ManipType ==
    ASSUME NEW S, RowSet(S), TypeIn(S), ManipStep
    PROVE  TypeIn(S)'
<1> USE DEF InManip, treeVars, readVars, historyVars, readerVars, dbVars, localVars, scanVars
<1>0. /\ ReaderTypeOK /\ entries \in RowsIn(S) 
      /\ faults \in Nat /\ abort \in BOOLEAN /\ tidy \subseteq {"names", "digests"} /\ path \in Path
      /\ blocks \in [EntryId -> [BlockNo -> Block \cup {Null}]]
      /\ parents \in [Path -> EntryId \cup {Null}]
      /\ entryId \in EntryId /\ blkNo \in 0 .. MaxBlocks /\ ctx \in Seq(Block)
  BY DEF TypeIn, TypeOKIn, ReaderTypeOK, RowsIn
<1>1. CASE AdmitShutdown \/ AdmitSkip \/ OpenFileFails \/ ReadFails
  <2>1. faults' \in Nat /\ abort' \in BOOLEAN
    BY <1>0, <1>1, StrikeType DEF AdmitShutdown, AdmitSkip, OpenFileFails, ReadFails
  <2>2. pc = "manip" /\ ManipReturns /\ ClearLocals
    BY <1>1 DEF AdmitShutdown, AdmitSkip, OpenFileFails, ReadFails, Return
  <2>3. /\ entries' = entries /\ blocks' = blocks
        /\ parents' = parents /\ mode' = mode /\ shutdown' = shutdown /\ tidy' = tidy
        /\ fs' = fs /\ clock' = clock /\ visited' = visited /\ gone' = gone /\ quiet' = quiet
    BY <1>1 DEF AdmitShutdown, AdmitSkip, OpenFileFails, ReadFails, Return
  <2> QED
    BY <1>0, <2>1, <2>2, <2>3, ReturnType
<1>2. CASE AdmitUndefined
  <2>1. faults' \in Nat
    BY <1>0, <1>2 DEF AdmitUndefined
  <2> QED
    BY <1>2, <2>1, ManipThrowsType DEF AdmitUndefined
<1>3. CASE AdmitRoot
  <2>1. PICK id \in EntryId : UpdateEntry(0, path, TRUE, 0, 0, id) /\ RootEntered(id)
    BY <1>3 DEF AdmitRoot
  <2>2. entries' \in RowsIn(S) /\ faults' \in Nat /\ tidy' \subseteq {"names", "digests"}
    BY <1>0, <2>1, UpdateEntryType, RowIds
  <2> QED
    BY <1>3, <2>1, <2>2, EnteredType DEF AdmitRoot, RootUnknown
<1>4. CASE AdmitKnown
  BY <1>0, <1>4, StageType DEF AdmitKnown
<1>5. CASE EnterDirectory
  <2>0. parents[path] \in EntryId
    BY <1>0, <1>5 DEF EnterDirectory, TypeIn, Control
  <2>1. PICK id \in EntryId :
            /\ UpdateEntry(parents[path], ent.node, TRUE, ent.mtime, ent.size, id)
            /\ DirectoryEntered(id)
    BY <1>5 DEF EnterDirectory
  <2>2. entries' \in RowsIn(S) /\ faults' \in Nat /\ tidy' \subseteq {"names", "digests"}
    BY <1>0, <2>0, <2>1, EntIn, UpdateEntryType
  <2> QED
    BY <1>5, <2>1, <2>2, EnteredType DEF EnterDirectory
<1>6. CASE EnterFile
  <2>0. parents[path] \in EntryId
    BY <1>0, <1>6 DEF EnterFile, TypeIn, Control
  <2>1. PICK id \in EntryId :
            /\ UpdateEntry(parents[path], ent.node, FALSE, ent.mtime, ent.size, id)
            /\ FileEntered(id, StoredMtime(Selected(parents[path], NameOf[ent.node])))
    BY <1>6 DEF EnterFile
  <2>2. entries' \in RowsIn(S) /\ faults' \in Nat /\ tidy' \subseteq {"names", "digests"}
    BY <1>0, <2>0, <2>1, EntIn, UpdateEntryType
  <2> QED
    BY <1>6, <2>1, <2>2, EnteredType DEF EnterFile
<1>7. CASE OpenFile
  BY <1>0, <1>7, StageType DEF OpenFile
<1>8. CASE ReadBlock
  <2> DEFINE block == fs[ent.node].data[blkNo + 1]
  <2>1. BlockRead /\ UpdateBlockDigest(entryId, blkNo + 1, block)
    BY <1>8 DEF ReadBlock
  <2>2. block \in Block /\ blkNo + 1 \in BlockNo
    BY <2>1, BlockInReach
  <2>3. blocks' \in [EntryId -> [BlockNo -> Block \cup {Null}]]
    <3> HIDE DEF block
    <3>1. blocks \in [EntryId -> [BlockNo -> Block \cup {Null}]] /\ entryId \in EntryId
      BY <1>0
    <3>2. [blocks[entryId] EXCEPT ![blkNo + 1] = block] \in [BlockNo -> Block \cup {Null}]
      BY <2>2, <3>1
    <3>3. CASE blocks' = [blocks EXCEPT ![entryId][blkNo + 1] = block]
      BY <3>1, <3>2, <3>3
    <3>4. CASE UNCHANGED blocks
      BY <3>1, <3>4
    <3> QED
      BY <2>1, <3>3, <3>4 DEF UpdateBlockDigest
  <2>4. faults' \in Nat
    BY <1>0, <2>1, StrikeType DEF UpdateBlockDigest
  <2> QED
    BY <2>1, <2>3, <2>4, BlockReadType
<1>9. CASE TrimBlocks
  <2>1. blocks' \in [EntryId -> [BlockNo -> Block \cup {Null}]]
    BY <1>0, <1>9 DEF TrimBlocks
  <2> QED
    BY <1>0, <1>9, <2>1, StageType DEF TrimBlocks
<1>10. CASE ReadEnd
  BY <1>0, <1>10, StageType DEF ReadEnd
<1>11. CASE RecordDigest
  <2>1. \A i \in Used : [entries[i] EXCEPT !.alive = 0, !.mtime = ent.mtime, !.digest = ctx] \in S
    <3>1. 0 \in {0, 1} /\ ent.mtime \in Nat /\ ctx \in Seq(Block) \cup {Null}
      BY <1>0, EntIn
    <3>2. \A i \in Used : entries[i] \in S
      BY <1>0, UsedIn
    <3> QED
      BY <3>1, <3>2, RowRecorded DEF Updated
  <2>2. entries' \in RowsIn(S)
    BY <1>0, <1>11, <2>1 DEF RecordDigest, RowsIn
  <2> QED
    BY <1>0, <1>11, <2>2, ReturnType DEF RecordDigest, Return
<1>12. CASE StatementThrows
  <2>1. faults' \in Nat
    BY <1>0, <1>12, StrikeType DEF StatementThrows
  <2> QED
    BY <1>12, <2>1, ManipThrowsType DEF StatementThrows
<1> QED
  BY <1>1, <1>2, <1>3, <1>4, <1>5, <1>6, <1>7, <1>8, <1>9, <1>10, <1>11, <1>12 DEF ManipStep

\* cleanup_entries.
LEMMA DroppedType ==
    ASSUME NEW S, RowSet(S), TypeIn(S)
    PROVE  /\ RowsDropped \in RowsIn(S) /\ RowsReset \in RowsIn(S)
           /\ BlocksDropped => blocks' \in [EntryId -> [BlockNo -> Block \cup {Null}]]
<1>1. entries \in RowsIn(S) /\ blocks \in [EntryId -> [BlockNo -> Block \cup {Null}]]
  BY DEF TypeIn, TypeOKIn, RowsIn
<1>2. \A i \in Used : [entries[i] EXCEPT !.alive = 1] \in S
  BY <1>1, UsedIn, RowTouched DEF Updated
<1>3. NoBlocks \in [BlockNo -> Block \cup {Null}]
  BY DEF NoBlocks
<1> QED
  BY <1>1, <1>2, <1>3 DEF RowsDropped, RowsReset, BlocksDropped, RowsIn

LEMMA CleanupType ==
    ASSUME NEW S, RowSet(S), TypeIn(S), Cleanup \/ CleanupFails \/ CleanupPartial
    PROVE  TypeIn(S)'
<1> USE DEF treeVars, dbVars, localVars, scanVars, historyVars, CleanupThrows
<1>1. /\ entries' \in RowsIn(S) /\ blocks' \in [EntryId -> [BlockNo -> Block \cup {Null}]]
  BY DroppedType DEF Cleanup, CleanupFails, CleanupPartial, TypeIn, TypeOKIn, RowsIn
<1>2. faults' \in Nat
  BY StrikeType DEF Cleanup, CleanupFails, CleanupPartial, TypeIn, TypeOKIn, ReaderTypeOK
<1>3. ReaderTypeOK'
  BY <1>2, ReaderTypeKept
     DEF Cleanup, CleanupFails, CleanupPartial, TypeIn, TypeOKIn, ReaderTypeOK, Endings
<1>4. TypeOKIn(S)'
  BY <1>1, <1>3 DEF Cleanup, CleanupFails, CleanupPartial, TypeIn, TypeOKIn, RowsIn
<1>5. Control'
  BY DEF Cleanup, CleanupFails, CleanupPartial, TypeIn, Control, Scanning, BetweenScans
<1>6. DataBound'
  BY DEF Cleanup, CleanupFails, CleanupPartial, TypeIn, DataBound
<1> QED
  BY <1>4, <1>5, <1>6 DEF TypeIn

LEMMA TypeStep ==
    ASSUME NEW S, RowSet(S), TypeIn(S), [Next]_vars
    PROVE  TypeIn(S)'
<1>1. CASE Worker
  BY <1>1, BetweenType, BeginScanType, WalkType, ManipType, CleanupType DEF Worker
<1>2. CASE Environment
  BY <1>2, BetweenType, CrashType, TreeStepType DEF Environment
<1>3. CASE UNCHANGED vars
  <2>1. TypeOKIn(S)'
    BY <1>3 DEF TypeIn, TypeOKIn, ReaderTypeOK, vars, readerVars, treeVars, readVars, historyVars,
            dbVars, localVars, scanVars
  <2>2. Control' /\ DataBound'
    BY <1>3 DEF TypeIn, Control, Scanning, DataBound, vars, readerVars, treeVars, readVars,
            localVars, scanVars
  <2> QED
    BY <2>1, <2>2 DEF TypeIn
<1> QED
  BY <1>1, <1>2, <1>3 DEF Next

LEMMA TypeInvariant == Steps => []TypeInv
<1>1. Init => TypeInv
  BY TypeInit
<1>2. TypeInv /\ [Next]_vars => TypeInv'
  <2> SUFFICES ASSUME TypeInv, [Next]_vars PROVE TypeInv'
    OBVIOUS
  <2>1. TypeIn(Row)'
    BY TypeStep, OwnRows
  <2> QED
    BY <2>1, OwnRows, PTL
<1> QED
  BY <1>1, <1>2, PTL DEF Steps

\* Every variable keeps its type: the parent_id a row is given is 0 or a rowid,
\* never what parents has for a directory it lacks.
THEOREM TypeCorrect == Spec => []TypeOK
<1>1. TypeInv => TypeOK
  BY DEF TypeInv
<1> QED
  BY <1>1, TypeInvariant, SpecSteps, PTL

-----------------------------------------------------------------------------
(* Module Indexer: the key of entries.  This needs no assumption on the    *)
(* failures: an INSERT that is lost adds no row.                           *)

LEMMA EntriesChange ==
    ASSUME [Next]_vars
    PROVE  \/ entries' = entries
           \/ AdmitRoot \/ EnterDirectory \/ EnterFile \/ RecordDigest
           \/ Cleanup \/ CleanupPartial
<1> USE DEF dbVars
<1>1. CASE Wake \/ Stop \/ BeginScan \/ Walk \/ CleanupFails
  BY <1>1 DEF Wake, Stop, BeginScan, Walk, CleanupFails
<1>2. CASE AdmitShutdown \/ AdmitSkip \/ AdmitUndefined \/ AdmitKnown \/ StatementThrows
  BY <1>2 DEF AdmitShutdown, AdmitSkip, AdmitUndefined, AdmitKnown, StatementThrows
<1>3. CASE OpenFile \/ OpenFileFails \/ ReadBlock \/ TrimBlocks \/ ReadEnd \/ ReadFails
  BY <1>3 DEF OpenFile, OpenFileFails, ReadBlock, BlockRead, TrimBlocks, ReadEnd, ReadFails
<1>4. CASE Environment
  BY <1>4 DEF Environment, Restart, RequestShutdown, Crash
<1>5. CASE UNCHANGED vars
  BY <1>5 DEF vars
<1> QED
  BY <1>1, <1>2, <1>3, <1>4, <1>5 DEF Next, Worker, ManipStep

\* What the key needs of the table, whoever else writes to it: rows have one.
Keyed ==
    /\ entries = [i \in RowId |-> entries[i]]
    /\ \A i \in Used : {"parent", "name"} \subseteq DOMAIN entries[i]

LEMMA RowsKeyed ==
    ASSUME entries \in Rows
    PROVE  Keyed
BY UsedRow DEF Rows, Row, Keyed

SameKey(q, r) == DOMAIN q = DOMAIN r /\ q.parent = r.parent /\ q.name = r.name

\* The rows that remain keep their keys.
KeysCarried ==
    /\ entries' = [i \in RowId |-> entries'[i]]
    /\ \A i \in Used' : i \in Used /\ SameKey(entries'[i], entries[i])

LEMMA CarriedUnique ==
    ASSUME Keyed, UniqueKeys, KeysCarried
    PROVE  Keyed' /\ UniqueKeys'
<1> QED
  BY DEF UniqueKeys, KeysCarried, SameKey, Keyed

\* No UPDATE sets a column of the key.
LEMMA OtherColumns ==
    ASSUME Keyed, NEW i \in Used, NEW a, NEW d, NEW s, NEW t, NEW m
    PROVE  /\ SameKey(entries[i], entries[i])
           /\ SameKey([entries[i] EXCEPT !.alive = a], entries[i])
           /\ SameKey([entries[i] EXCEPT !.alive = a, !.dir = d, !.size = s, !.digest = t], entries[i])
           /\ SameKey([entries[i] EXCEPT !.alive = a, !.mtime = m, !.digest = t], entries[i])
<1> DEFINE r == entries[i]
<1>1. "parent" \in DOMAIN r /\ "name" \in DOMAIN r
  BY DEF Keyed
<1> HIDE DEF r
<1>2. SameKey(r, r) /\ SameKey([r EXCEPT !.alive = a], r)
  BY <1>1 DEF SameKey
<1>3. SameKey([r EXCEPT !.alive = a, !.dir = d, !.size = s, !.digest = t], r)
  BY <1>1 DEF SameKey
<1>4. SameKey([r EXCEPT !.alive = a, !.mtime = m, !.digest = t], r)
  BY <1>1 DEF SameKey
<1> QED
  BY <1>2, <1>3, <1>4 DEF r

LEMMA UpdateUnique ==
    ASSUME Keyed, UniqueKeys, NEW p, NEW n, NEW dir, NEW mtime, NEW size, NEW id,
           UpdateEntry(p, n, dir, mtime, size, id)
    PROVE  Keyed' /\ UniqueKeys'
<1> DEFINE old == Selected(p, NameOf[n])
<1>0. old # 0 => old \in Used /\ old \in RowId
  BY SelectedRow DEF Used
<1>1. CASE entries' = entries
  BY <1>1 DEF UniqueKeys, Keyed, Used
<1>2. ASSUME old # 0,
             \/ entries' = Touched(old)
             \/ entries' = [entries EXCEPT ![old] =
                   [@ EXCEPT !.alive = 0, !.dir = dir, !.size = size, !.digest = Null]]
      PROVE  Keyed' /\ UniqueKeys'
  <2> DEFINE touched == [entries[old] EXCEPT !.alive = 0]
             updated == [entries[old] EXCEPT !.alive = 0, !.dir = dir, !.size = size, !.digest = Null]
  <2>0. SameKey(touched, entries[old]) /\ SameKey(updated, entries[old])
    BY <1>0, <1>2, OtherColumns
  <2>1. PICK r : entries' = [entries EXCEPT ![old] = r] /\ SameKey(r, entries[old])
    <3>1. \/ entries' = [entries EXCEPT ![old] = touched]
          \/ entries' = [entries EXCEPT ![old] = updated]
      BY <1>2 DEF Touched
    <3> HIDE DEF touched, updated
    <3> QED
      BY <2>0, <3>1
  <2>2. /\ entries' = [i \in RowId |-> entries'[i]] /\ entries'[old] = r
        /\ \A i \in RowId : i # old => entries'[i] = entries[i]
    BY <1>0, <1>2, <2>1 DEF Keyed
  <2>3. \A i \in Used' : i \in Used /\ (i # old => entries'[i] = entries[i])
    BY <1>0, <1>2, <2>2 DEF Used
  <2>4. KeysCarried
    BY <2>1, <2>2, <2>3, OtherColumns DEF KeysCarried
  <2> QED
    BY <2>4, CarriedUnique
<1>3. ASSUME NEW k \in RowId \ Used, old = 0,
             entries' = [entries EXCEPT ![k] = NewRow(p, n, dir, size)]
      PROVE  Keyed' /\ UniqueKeys'
  <2>1. \A i \in Used : ~(entries[i].parent = p /\ entries[i].name = NameOf[n])
    BY <1>3, SelectedRow
  <2>2. /\ entries' = [i \in RowId |-> entries'[i]] /\ entries'[k] = NewRow(p, n, dir, size)
        /\ \A i \in Used' : \/ i = k
                            \/ i \in Used /\ entries'[i] = entries[i]
    BY <1>3 DEF Used, Keyed
  <2>3. /\ entries'[k].parent = p /\ entries'[k].name = NameOf[n]
        /\ {"parent", "name"} \subseteq DOMAIN entries'[k]
    BY <2>2 DEF NewRow
  <2> QED
    BY <2>1, <2>2, <2>3 DEF UniqueKeys, Keyed
<1>4. \/ entries' = entries
      \/ old # 0 /\ \/ entries' = Touched(old)
                    \/ entries' = [entries EXCEPT ![old] =
                          [@ EXCEPT !.alive = 0, !.dir = dir, !.size = size, !.digest = Null]]
      \/ old = 0 /\ \E k \in RowId \ Used : entries' = [entries EXCEPT ![k] = NewRow(p, n, dir, size)]
  BY DEF UpdateEntry, UpToDate, NextRowids
<1> QED
  BY <1>1, <1>2, <1>3, <1>4

\* No step leaves two rows with one key, whatever is in the table: this is true
\* of a table that somebody else writes to as well.
LEMMA UniqueStep ==
    ASSUME Keyed, UniqueKeys, [Next]_vars
    PROVE  Keyed' /\ UniqueKeys'
<1>1. CASE entries' = entries
  BY <1>1 DEF UniqueKeys, Keyed, Used
<1>2. CASE AdmitRoot
  BY <1>2, UpdateUnique DEF AdmitRoot, RootUnknown, RootEntered
<1>3. CASE EnterDirectory
  BY <1>3, UpdateUnique DEF EnterDirectory, DirectoryEntered
<1>4. CASE EnterFile
  BY <1>4, UpdateUnique DEF EnterFile, FileEntered
<1>5. ASSUME RecordDigest \/ Cleanup \/ CleanupPartial PROVE Keyed' /\ UniqueKeys'
  <2>1. entries' = [i \in RowId |-> entries'[i]]
    BY <1>5 DEF RecordDigest, Cleanup, RowsReset, CleanupPartial, RowsDropped, Keyed
  <2>2. ASSUME NEW i \in Used' PROVE i \in Used /\ SameKey(entries'[i], entries[i])
    <3>1. CASE RecordDigest
      BY <2>2, <3>1, OtherColumns DEF RecordDigest, Used
    <3>2. CASE Cleanup
      BY <2>2, <3>2, OtherColumns DEF Cleanup, RowsReset, Used
    <3>3. CASE CleanupPartial
      BY <2>2, <3>3, OtherColumns DEF CleanupPartial, RowsDropped, Used
    <3> QED
      BY <1>5, <3>1, <3>2, <3>3
  <2>3. KeysCarried
    BY <2>1, <2>2 DEF KeysCarried
  <2> QED
    BY <2>3, CarriedUnique
<1> QED
  BY <1>1, <1>2, <1>3, <1>4, <1>5, EntriesChange

LEMMA UniqueInit ==
    ASSUME Init
    PROVE  Keyed /\ UniqueKeys
BY DEF Init, Keyed, UniqueKeys, Used

LEMMA KeysInvariant == Steps => []UniqueKeys
<1>1. Keyed /\ UniqueKeys /\ [Next]_vars => Keyed' /\ UniqueKeys'
  BY UniqueStep
<1> QED
  BY <1>1, UniqueInit, PTL DEF Steps

\* No scan, failure or crash ever leaves two rows with one parent and name, so
\* that st_sel finds the row that is meant.
THEOREM KeysUnique == Spec => []UniqueKeys
BY KeysInvariant, SpecSteps, PTL

-----------------------------------------------------------------------------
(* Module Indexer: its own steps do to read() no more than any manipulator *)
(* does, cleanup_entries and a crash.                                      *)

LEMMA IndexerReadStep ==
    ASSUME [Next]_vars
    PROVE  ReadStep
<1> USE DEF readerVars, readVars, ReadStep
<1>1. CASE Wake \/ Stop \/ BeginScan \/ Walk
  BY <1>1 DEF Wake, Stop, BeginScan, Walk
<1>2. CASE AdmitShutdown \/ AdmitSkip \/ AdmitRoot \/ AdmitKnown \/ EnterDirectory \/ EnterFile
  BY <1>2 DEF AdmitShutdown, AdmitSkip, AdmitRoot, RootUnknown, RootEntered, AdmitKnown,
     EnterDirectory, DirectoryEntered, EnterFile, FileEntered, Return,
              InManip
<1>3. CASE OpenFile \/ ReadBlock \/ TrimBlocks \/ ReadEnd
  BY <1>3 DEF OpenFile, ReadBlock, BlockRead, TrimBlocks, ReadEnd
<1>4. CASE OpenFileFails \/ ReadFails \/ RecordDigest
  BY <1>4 DEF OpenFileFails, ReadFails, RecordDigest, Return, InManip
<1>5. CASE AdmitUndefined \/ StatementThrows
  BY <1>5 DEF AdmitUndefined, StatementThrows, ManipThrows, Leave, Left, Endings
<1>6. CASE Cleanup \/ CleanupFails \/ CleanupPartial
  BY <1>6 DEF Cleanup, CleanupFails, CleanupPartial, CleanupThrows
<1>7. CASE Environment
  BY <1>7 DEF Environment, Restart, RequestShutdown, Crash
<1>8. CASE UNCHANGED vars
  BY <1>8 DEF vars
<1> QED
  BY <1>1, <1>2, <1>3, <1>4, <1>5, <1>6, <1>7, <1>8 DEF Next, Worker, ManipStep

LEMMA PositionInvariant == Steps => []Position
<1>1. Init => Position
  BY EmptyLen DEF Init, ReaderInit, Position, InRead, Scanning
<1>2. TypeInv /\ Position /\ [Next]_vars => Position'
  BY IndexerReadStep, PositionStep DEF TypeInv, TypeOK
<1> QED
  BY <1>1, <1>2, TypeInvariant, PTL DEF Steps

-----------------------------------------------------------------------------
(* Module Indexer: the tree of rows, as long as no INSERT is lost.  The    *)
(* rowids that the scan holds on to, in parents and in entry_id, must      *)
(* still be those of the rows they were when it took them.                 *)

IsRowOf(i, p) == i \in Used /\ entries[i].node = p /\ entries[i].alive = 0

ParentsKnown == InRead => \A p \in Path : parents[p] # Null => IsRowOf(parents[p], p)

EntryKnown ==
    pc = "manip" /\ stage \in {"open", "read", "trim", "record"} =>
        entryId \in Used /\ entries[entryId].alive = 0

RowTree == PathsFaithful /\ MarkedUpward /\ BlocksOwned

RowInv == RowTree /\ ParentsKnown /\ EntryKnown

\* A row stays, marked if it was.
RowKept(i) ==
    /\ i \in Used'
    /\ entries'[i].parent = entries[i].parent /\ entries'[i].name = entries[i].name
    /\ entries'[i].node = entries[i].node
    /\ entries'[i].alive = 0 \/ entries'[i].alive = entries[i].alive

\* What update_entry achieves for path n under parent p: all rows stay, and
\* id is the marked row of n.
Grown(p, n, id) ==
    /\ \A i \in Used : RowKept(i) /\ (i # id => entries'[i] = entries[i])
    /\ id \in Used' /\ \A i \in Used' : i \in Used \/ i = id
    /\ entries'[id].parent = p /\ entries'[id].name = NameOf[n]
    /\ entries'[id].node = n /\ entries'[id].alive = 0

\* The parents under which a row is looked up or inserted.
ParentOf(p, n) ==
    \/ n = Root /\ p = 0
    \/ n \in Node /\ IsRowOf(p, Up[n])

LEMMA SelectedIsRow ==
    ASSUME TypeInv, PathsFaithful, NEW p \in EntryId, NEW n \in Path, ParentOf(p, n),
           NEW i \in Used, entries[i].parent = p, entries[i].name = NameOf[n]
    PROVE  entries[i].node = n
<1>1. entries[i].node \in Path
  BY UsedRow DEF TypeInv, TypeOK, Rows, Row
<1>2. CASE n = Root /\ p = 0
  <2>1. 0 \notin Used
    BY RowIds DEF Used
  <2> QED
    BY <1>2, <2>1 DEF PathsFaithful
<1>3. CASE n \in Node /\ IsRowOf(p, Up[n])
  <2>1. p # 0
    BY <1>3, RowIds DEF IsRowOf, Used
  <2>2. entries[i].node # Root
    BY <2>1 DEF PathsFaithful
  <2>3. entries[i].node \in Node /\ Up[entries[i].node] = Up[n]
    BY <1>1, <1>3, <2>2 DEF PathsFaithful, IsRowOf, Path
  <2>4. NameOf[entries[i].node] = NameOf[n]
    BY DEF PathsFaithful
  <2> QED
    BY <1>3, <2>3, <2>4, IndexerAssumption
<1> QED
  BY <1>2, <1>3 DEF ParentOf

LEMMA UpdateGrows ==
    ASSUME "silent" \notin FaultKinds, TypeInv, PathsFaithful,
           NEW p \in EntryId, NEW n \in Path, NEW dir \in BOOLEAN, NEW mtime, NEW size \in Nat,
           NEW id, UpdateEntry(p, n, dir, mtime, size, id), ParentOf(p, n)
    PROVE  Grown(p, n, id)
<1>0. entries \in Rows /\ faults \in Nat
  BY DEF TypeInv, TypeOK, ReaderTypeOK, Rows
<1>1. ASSUME id \in Used, id = Selected(p, NameOf[n]), NEW r \in Row,
             entries' = [entries EXCEPT ![id] = r],
             r.parent = entries[id].parent, r.name = entries[id].name,
             r.node = entries[id].node, r.alive = 0
      PROVE  Grown(p, n, id)
  <2>1. id # 0
    BY <1>1, RowIds DEF Used
  <2>2. entries[id].parent = p /\ entries[id].name = NameOf[n]
    BY <1>1, <2>1, SelectedRow
  <2>3. entries[id].node = n
    BY <1>1, <2>2, SelectedIsRow
  <2>4. Used' = Used /\ entries'[id] = r /\ \A i \in Used : i # id => entries'[i] = entries[i]
    BY <1>0, <1>1, NullAssumption DEF Used, Rows
  <2> QED
    BY <1>1, <2>2, <2>3, <2>4 DEF Grown, RowKept
<1>2. CASE /\ id \in RowId \ Used
           /\ entries' = [entries EXCEPT ![id] = NewRow(p, n, dir, size)]
           /\ NewRow(p, n, dir, size) \in Row
  <2>1. /\ Used' = Used \cup {id} /\ entries'[id] = NewRow(p, n, dir, size)
        /\ \A i \in Used : entries'[i] = entries[i]
    BY <1>0, <1>2, NullAssumption DEF Used, Rows
  <2> QED
    BY <2>1 DEF Grown, RowKept, NewRow
<1>3. Written(Row, p, n, dir, size, id)
  BY <1>0, OwnRows, UpdateEntryCases DEF Rows, RowsIn
<1> QED
  BY <1>1, <1>2, <1>3 DEF Written

LEMMA GrownTree ==
    ASSUME TypeInv, RowTree, blocks' = blocks,
           NEW p \in EntryId, NEW n \in Path, NEW id, Grown(p, n, id), ParentOf(p, n)
    PROVE  RowTree'
<1>1. PathsFaithful'
  <2>1. ASSUME NEW i \in Used
        PROVE  /\ entries'[i].name = NameOf[entries'[i].node]
               /\ IF entries'[i].node = Root THEN entries'[i].parent = 0
                  ELSE /\ entries'[i].parent \in Used'
                       /\ entries'[entries'[i].parent].node = Up[entries'[i].node]
    BY DEF RowTree, PathsFaithful, Grown, RowKept
  <2>2. /\ entries'[id].name = NameOf[entries'[id].node]
        /\ IF entries'[id].node = Root THEN entries'[id].parent = 0
           ELSE /\ entries'[id].parent \in Used'
                /\ entries'[entries'[id].parent].node = Up[entries'[id].node]
    BY TreeAssumption DEF Grown, RowKept, ParentOf, IsRowOf
  <2> QED
    BY <2>1, <2>2 DEF PathsFaithful, Grown
<1>2. MarkedUpward'
  <2>1. ASSUME NEW i \in Used, i # id, entries'[i].alive = 0, entries'[i].parent # 0
        PROVE  entries'[i].parent \in Used' /\ entries'[entries'[i].parent].alive = 0
    <3>1. entries[i].alive = 0 /\ entries[i].parent # 0
      BY <2>1 DEF Grown, RowKept
    <3>2. entries[i].parent \in Used /\ entries[entries[i].parent].alive = 0
      BY <3>1 DEF RowTree, MarkedUpward
    <3> QED
      BY <3>2 DEF Grown, RowKept
  <2>2. entries'[id].parent # 0 =>
            entries'[id].parent \in Used' /\ entries'[entries'[id].parent].alive = 0
    BY DEF Grown, RowKept, ParentOf, IsRowOf
  <2> QED
    BY <2>1, <2>2 DEF MarkedUpward, Grown
<1>3. BlocksOwned'
  BY DEF RowTree, BlocksOwned, Grown, RowKept
<1> QED
  BY <1>1, <1>2, <1>3 DEF RowTree

\* IsRowOf in the next state.
BecomesRowOf(i, q) == i \in Used' /\ entries'[i].node = q /\ entries'[i].alive = 0

LEMMA KnownNext ==
    ASSUME \A q \in Path : parents'[q] # Null => BecomesRowOf(parents'[q], q)
    PROVE  ParentsKnown'
<1> QED
  BY DEF ParentsKnown, IsRowOf, BecomesRowOf

\* The first entry of the root is met when read() is at the root.
LEMMA RootParent ==
    ASSUME ReaderTypeOK, Position, InManip("admit"), level = 1
    PROVE  path = Root /\ path \in Path /\ ParentOf(0, path)
<1>1. stack \in Seq(Frame) /\ path \in Path
  BY DEF ReaderTypeOK, Frame
<1>2. Len(stack) \in Nat
  BY <1>1, LenProperties
<1>3. path = Root
  BY <1>1, <1>2 DEF InManip, Position, InRead, Scanning
<1> QED
  BY <1>1, <1>3 DEF ParentOf

\* The statements that look a row up, and what the scan knows afterwards.
LEMMA AdmitRootRows ==
    ASSUME "silent" \notin FaultKinds, TypeInv, Position, RowInv, AdmitRoot
    PROVE  RowInv'
<1>1. PICK id \in EntryId :
          UpdateEntry(0, path, TRUE, 0, 0, id) /\ parents' = [parents EXCEPT ![path] = id]
  BY DEF AdmitRoot, RootUnknown, RootEntered
<1>2. path = Root /\ path \in Path /\ ParentOf(0, path)
  BY RootParent, ReaderTypes DEF AdmitRoot, RootUnknown, RootEntered
<1>4. Grown(0, path, id)
  BY <1>1, <1>2, UpdateGrows, RowIds DEF RowInv, RowTree
<1>5. RowTree'
  BY <1>2, <1>4, GrownTree, RowIds DEF RowInv, AdmitRoot, RootUnknown, RootEntered
<1>6. ParentsKnown'
  <2>1. InRead
    BY DEF AdmitRoot, RootUnknown, RootEntered, InManip, InRead, Scanning
  <2>2. ASSUME NEW q \in Path, parents'[q] # Null PROVE BecomesRowOf(parents'[q], q)
    <3>1. CASE q = path
      BY <1>1, <1>4, <3>1 DEF Grown, BecomesRowOf, TypeInv, TypeOK
    <3>2. CASE q # path
      <4>1. IsRowOf(parents[q], q) /\ parents'[q] = parents[q]
        BY <1>1, <2>1, <2>2, <3>2 DEF RowInv, ParentsKnown, TypeInv, TypeOK
      <4> QED
        BY <1>4, <4>1 DEF Grown, RowKept, IsRowOf, BecomesRowOf
    <3> QED
      BY <3>1, <3>2
  <2> QED
    BY <2>2, KnownNext
<1>7. EntryKnown'
  BY DEF AdmitRoot, RootUnknown, RootEntered, EntryKnown
<1> QED
  BY <1>5, <1>6, <1>7 DEF RowInv

\* The parent of the entry that read() is at.
LEMMA EntryParent ==
    ASSUME TypeInv, Position, RowInv, InManip("entry")
    PROVE  /\ parents[path] \in EntryId /\ path \in Path /\ ent.node \in Node
           /\ ParentOf(parents[path], ent.node)
<1>1. parents[path] # Null /\ parents[path] \in EntryId /\ path \in Path
  BY DEF InManip, TypeInv, TypeOK, ReaderTypeOK, Control
<1>2. IsRowOf(parents[path], path)
  BY <1>1 DEF InManip, RowInv, ParentsKnown, InRead, Scanning
<1>3. ent.node \in Node /\ Up[ent.node] = path
  BY DEF InManip, Position, FindData
<1> QED
  BY <1>1, <1>2, <1>3 DEF ParentOf

LEMMA EnterDirectoryRows ==
    ASSUME "silent" \notin FaultKinds, TypeInv, Position, RowInv, EnterDirectory
    PROVE  RowInv'
<1>1. PICK id \in EntryId :
          /\ UpdateEntry(parents[path], ent.node, TRUE, ent.mtime, ent.size, id)
          /\ parents' = [parents EXCEPT ![ent.node] = IF @ = Null THEN id ELSE @]
  BY DEF EnterDirectory, DirectoryEntered
<1>2. /\ parents[path] \in EntryId /\ path \in Path /\ ent.node \in Node /\ ent.node \in Path
      /\ ent.size \in Nat /\ ParentOf(parents[path], ent.node)
  BY EntryParent, EntType DEF EnterDirectory, DirectoryEntered
<1>4. Grown(parents[path], ent.node, id)
  BY <1>1, <1>2, UpdateGrows DEF RowInv, RowTree
<1>5. RowTree'
  <2>1. blocks' = blocks
    BY DEF EnterDirectory, DirectoryEntered
  <2> QED
    BY <1>2, <1>4, <2>1, GrownTree DEF RowInv
<1>6. ParentsKnown'
  <2>1. InRead
    BY DEF EnterDirectory, DirectoryEntered, InManip, InRead, Scanning
  <2>2. ASSUME NEW q \in Path, parents'[q] # Null PROVE BecomesRowOf(parents'[q], q)
    <3>1. CASE q = ent.node /\ parents[q] = Null
      BY <1>1, <1>4, <3>1 DEF Grown, BecomesRowOf, TypeInv, TypeOK
    <3>2. CASE q # ent.node \/ parents[q] # Null
      <4>1. parents'[q] = parents[q]
        BY <1>1, <3>2 DEF TypeInv, TypeOK
      <4>2. IsRowOf(parents[q], q)
        BY <2>1, <2>2, <4>1 DEF RowInv, ParentsKnown
      <4> QED
        BY <1>4, <4>1, <4>2 DEF Grown, RowKept, IsRowOf, BecomesRowOf
    <3> QED
      BY <3>1, <3>2
  <2> QED
    BY <2>2, KnownNext
<1>7. EntryKnown'
  BY DEF EnterDirectory, DirectoryEntered, Return, ClearLocals, EntryKnown
<1> QED
  BY <1>5, <1>6, <1>7 DEF RowInv

LEMMA EnterFileRows ==
    ASSUME "silent" \notin FaultKinds, TypeInv, Position, RowInv, EnterFile
    PROVE  RowInv'
<1>1. PICK id \in EntryId :
          /\ UpdateEntry(parents[path], ent.node, FALSE, ent.mtime, ent.size, id)
          /\ \/ stage' = "open" /\ entryId' = id
             \/ Return
  BY DEF EnterFile, FileEntered
<1>2. /\ parents[path] \in EntryId /\ path \in Path /\ ent.node \in Node /\ ent.node \in Path
      /\ ent.size \in Nat /\ ParentOf(parents[path], ent.node)
  BY EntryParent, EntType DEF EnterFile, FileEntered
<1>4. Grown(parents[path], ent.node, id)
  BY <1>1, <1>2, UpdateGrows DEF RowInv, RowTree
<1>5. RowTree'
  <2>1. blocks' = blocks
    BY DEF EnterFile, FileEntered, scanVars
  <2> QED
    BY <1>2, <1>4, <2>1, GrownTree DEF RowInv
<1>6. ParentsKnown'
  <2>1. InRead /\ parents' = parents
    BY DEF EnterFile, FileEntered, InManip, InRead, Scanning, scanVars
  <2>2. ASSUME NEW q \in Path, parents'[q] # Null PROVE BecomesRowOf(parents'[q], q)
    <3>1. IsRowOf(parents[q], q)
      BY <2>1, <2>2 DEF RowInv, ParentsKnown
    <3> QED
      BY <1>4, <2>1, <3>1 DEF Grown, RowKept, IsRowOf, BecomesRowOf
  <2> QED
    BY <2>2, KnownNext
<1>7. EntryKnown'
  BY <1>1, <1>4 DEF Return, ClearLocals, EntryKnown, Grown
<1> QED
  BY <1>5, <1>6, <1>7 DEF RowInv

LEMMA RecordDigestRows ==
    ASSUME TypeInv, RowInv, RecordDigest
    PROVE  RowInv'
<1>0. entries \in Rows
  BY DEF TypeInv, TypeOK, Rows
<1>1. entryId \in Used /\ entries[entryId].alive = 0
  BY DEF RecordDigest, InManip, RowInv, EntryKnown
<1>2. \A i \in Used : /\ i \in Used' /\ entries'[i].parent = entries[i].parent
                      /\ entries'[i].name = entries[i].name
                      /\ entries'[i].node = entries[i].node /\ entries'[i].alive = entries[i].alive
  <2> DEFINE r == [entries[entryId] EXCEPT !.alive = 0, !.mtime = ent.mtime, !.digest = ctx]
  <2>1. entries[entryId] \in Row
    BY <1>0, <1>1, UsedRow
  <2>2. r.parent = entries[entryId].parent /\ r.name = entries[entryId].name
        /\ r.node = entries[entryId].node /\ r.alive = entries[entryId].alive
    BY <1>1, <2>1 DEF Row
  <2>3. r \in Row
    BY <1>1, <2>1, EntType DEF Row, TypeInv, TypeOK
  <2>4. r # Null
    BY <2>3, NullAssumption
  <2>5. \A i \in Used : i # entryId => entries'[i] = entries[i]
    BY DEF RecordDigest, Used
  <2>6. entries'[entryId] = r
    BY <1>1 DEF RecordDigest, Used
  <2> HIDE DEF r
  <2>7. \A i \in Used : i \in Used'
    BY <2>4, <2>5, <2>6 DEF Used
  <2> QED
    BY <2>2, <2>5, <2>6, <2>7
<1>3. Used' = Used
  BY <1>2 DEF RecordDigest, Used
<1>4. RowTree'
  <2>1. PathsFaithful'
    BY <1>2, <1>3 DEF RowInv, RowTree, PathsFaithful
  <2>2. MarkedUpward'
    BY <1>2, <1>3 DEF RowInv, RowTree, MarkedUpward
  <2>3. BlocksOwned'
    BY <1>3 DEF RecordDigest, RowInv, RowTree, BlocksOwned
  <2> QED
    BY <2>1, <2>2, <2>3 DEF RowTree
<1>5. ParentsKnown'
  <2>1. parents' = parents
    BY DEF RecordDigest, scanVars
  <2>2. InRead
    BY DEF RecordDigest, InManip, InRead, Scanning
  <2>3. \A p \in Path : parents[p] # Null => IsRowOf(parents[p], p)
    BY <2>2 DEF RowInv, ParentsKnown
  <2>4. \A p \in Path : parents'[p] # Null => IsRowOf(parents[p], p)'
    BY <1>2, <2>1, <2>3 DEF IsRowOf
  <2> QED
    BY <2>1, <2>4 DEF ParentsKnown
<1>6. EntryKnown'
  BY DEF RecordDigest, Return, ClearLocals, EntryKnown
<1> QED
  BY <1>4, <1>5, <1>6 DEF RowInv

\* cleanup_entries: the marked rows are closed under parent_id.
LEMMA DropTree ==
    ASSUME TypeInv, RowTree, BlocksDropped,
           Used' = {i \in Used : entries[i].alive = 0},
           \A i \in Used' : /\ entries'[i].parent = entries[i].parent
                            /\ entries'[i].name = entries[i].name
                            /\ entries'[i].node = entries[i].node
    PROVE  PathsFaithful' /\ BlocksOwned'
<1>0. 0 \notin Used
  BY RowIds DEF Used
<1>1. PathsFaithful'
  <2>1. ASSUME NEW i \in Used', entries[i].node # Root
        PROVE  entries[i].parent \in Used' /\ entries[entries[i].parent].node = Up[entries[i].node]
    <3>1. i \in Used /\ entries[i].alive = 0
      OBVIOUS
    <3>2. entries[i].parent \in Used /\ entries[entries[i].parent].node = Up[entries[i].node]
      BY <2>1, <3>1 DEF RowTree, PathsFaithful
    <3>3. entries[entries[i].parent].alive = 0
      BY <1>0, <3>1, <3>2 DEF RowTree, MarkedUpward
    <3> QED
      BY <3>2, <3>3
  <2>2. \A i \in Used' : /\ entries[i].name = NameOf[entries[i].node]
                         /\ entries[i].node = Root => entries[i].parent = 0
    BY DEF RowTree, PathsFaithful
  <2> QED
    BY <2>1, <2>2 DEF PathsFaithful
<1>2. BlocksOwned'
  <2>1. \A i \in Used : entries[i].alive \in {0, 1}
    BY UsedRow DEF TypeInv, TypeOK, Rows, Row
  <2> QED
    BY <2>1 DEF BlocksOwned, BlocksDropped, Unmet, RowTree
<1> QED
  BY <1>1, <1>2

LEMMA CleanupRows ==
    ASSUME TypeInv, RowInv, Cleanup \/ CleanupPartial
    PROVE  RowInv'
<1>0. entries \in Rows /\ \A i \in Used : entries[i] \in Row /\ entries[i].alive \in {0, 1}
  BY UsedRow DEF TypeInv, TypeOK, Rows, Row
<1>1. ParentsKnown' /\ EntryKnown'
  BY DEF Cleanup, CleanupPartial, CleanupThrows, ParentsKnown, EntryKnown, InRead, Scanning
<1>2. CASE Cleanup
  <2> DEFINE r(i) == [entries[i] EXCEPT !.alive = 1]
  <2>1. \A i \in Used : /\ r(i) # Null /\ r(i).parent = entries[i].parent
                        /\ r(i).name = entries[i].name /\ r(i).node = entries[i].node
                        /\ r(i).alive = 1
    <3>1. \A i \in Used : r(i) \in Row
      BY <1>0 DEF Row
    <3> QED
      BY <1>0, <3>1, NullAssumption DEF Row
  <2>2. \A i \in RowId : entries'[i] = IF i \in Used \ Unmet THEN r(i) ELSE Null
    BY <1>2 DEF Cleanup, RowsReset
  <2> HIDE DEF r
  <2>3. Used' = {i \in Used : entries[i].alive = 0}
    BY <1>0, <2>1, <2>2 DEF Used, Unmet
  <2>4. \A i \in Used' : /\ entries'[i].parent = entries[i].parent
                         /\ entries'[i].name = entries[i].name
                         /\ entries'[i].node = entries[i].node /\ entries'[i].alive = 1
    BY <2>1, <2>2, <2>3 DEF Used, Unmet
  <2>5. BlocksDropped
    BY <1>2 DEF Cleanup
  <2>6. PathsFaithful' /\ BlocksOwned'
    BY <2>3, <2>4, <2>5, DropTree DEF RowInv
  <2>7. MarkedUpward'
    BY <2>4 DEF MarkedUpward
  <2> QED
    BY <1>1, <2>6, <2>7 DEF RowInv, RowTree
<1>3. CASE CleanupPartial /\ entries' = RowsDropped
  <2>1. \A i \in RowId : entries'[i] = IF i \in Unmet THEN Null ELSE entries[i]
    BY <1>3 DEF RowsDropped
  <2>2. Used' = {i \in Used : entries[i].alive = 0} /\ \A i \in Used' : entries'[i] = entries[i]
    BY <1>0, <2>1 DEF Used, Unmet
  <2>3. BlocksDropped
    BY <1>3 DEF CleanupPartial
  <2>4. PathsFaithful' /\ BlocksOwned'
    BY <2>2, <2>3, DropTree DEF RowInv
  <2>5. MarkedUpward'
    BY <2>2 DEF RowInv, RowTree, MarkedUpward
  <2> QED
    BY <1>1, <2>4, <2>5 DEF RowInv, RowTree
<1>4. CASE CleanupPartial /\ entries' = entries
  <2>1. BlocksOwned'
    BY <1>4 DEF CleanupPartial, BlocksDropped, BlocksOwned, Used, RowInv, RowTree
  <2>2. PathsFaithful' /\ MarkedUpward'
    BY <1>4 DEF PathsFaithful, MarkedUpward, Used, RowInv, RowTree
  <2> QED
    BY <1>1, <2>1, <2>2 DEF RowInv, RowTree
<1> QED
  BY <1>2, <1>3, <1>4 DEF CleanupPartial

\* The steps that leave the table entries alone.
LEMMA SameRows ==
    ASSUME RowInv, entries' = entries, BlocksOwned', EntryKnown',
           InRead' => InRead /\ parents' = parents
    PROVE  RowInv'
<1>1. PathsFaithful' /\ MarkedUpward'
  BY DEF RowInv, RowTree, PathsFaithful, MarkedUpward, Used
<1>2. ParentsKnown'
  BY DEF RowInv, ParentsKnown, IsRowOf, Used
<1> QED
  BY <1>1, <1>2 DEF RowInv, RowTree

LEMMA BlocksOwnedKept ==
    ASSUME RowInv, entries' = entries,
           \A i \in EntryId : blocks'[i] = blocks[i] \/ i \in Used
    PROVE  BlocksOwned'
<1> QED
  BY DEF RowInv, RowTree, BlocksOwned, Used

LEMMA OtherRows ==
    ASSUME TypeInv, RowInv, [Next]_vars, entries' = entries,
           ~(AdmitRoot \/ EnterDirectory \/ EnterFile \/ RecordDigest \/ Cleanup \/ CleanupPartial)
    PROVE  RowInv'
<1>0. Used' = Used
  BY DEF Used
<1>1. CASE Walk
  <2>1. ReaderTypeOK /\ (Scanning => handle \in Path) /\ ReaderLoop
    BY <1>1 DEF Walk, TypeInv, TypeOK, Control
  <2>2. pc \in {"loop", "next", "descend"}
    BY <2>1, ReaderLoopControl
  <2>3. stage' \in BetweenScans /\ InRead /\ parents' = parents /\ blocks' = blocks
    BY <1>1, <2>2 DEF Walk, localVars, scanVars, dbVars, TypeInv, Control, InRead, Scanning
  <2> QED
    BY <2>3, SameRows, BlocksOwnedKept DEF EntryKnown, BetweenScans
<1>2. CASE Wake \/ Stop \/ Restart
  BY <1>2, SameRows, BlocksOwnedKept
     DEF Wake, Stop, Restart, Waiting, readerVars, readVars, dbVars, scanVars, EntryKnown, InRead,
         Scanning, TypeInv, Control, BetweenScans
<1>3. CASE \/ RequestShutdown
           \/ TreeStep(Held) /\ UNCHANGED <<readVars, faults, dbVars, localVars, scanVars>>
  <2>1. pc' = pc /\ stage' = stage /\ entryId' = entryId /\ parents' = parents /\ blocks' = blocks
    BY <1>3 DEF RequestShutdown, readVars, dbVars, localVars, scanVars
  <2> QED
    BY <1>0, <2>1, SameRows, BlocksOwnedKept DEF EntryKnown, InRead, Scanning, RowInv
<1>4. CASE BeginScan
  <2>1. PathsFaithful' /\ MarkedUpward' /\ BlocksOwned'
    BY <1>4 DEF BeginScan, dbVars, RowInv, RowTree, PathsFaithful, MarkedUpward, BlocksOwned, Used
  <2>2. ParentsKnown' /\ EntryKnown'
    BY <1>4 DEF BeginScan, ClearLocals, ParentsKnown, EntryKnown
  <2> QED
    BY <2>1, <2>2 DEF RowInv, RowTree
<1>5. CASE Crash
  BY <1>5, SameRows, BlocksOwnedKept DEF Crash, dbVars, EntryKnown, InRead, Scanning
<1>6. CASE AdmitShutdown \/ AdmitSkip \/ OpenFileFails \/ ReadFails
  <2>1. pc = "manip" /\ stage' = "admit" /\ blocks' = blocks /\ parents' = parents
    BY <1>6 DEF AdmitShutdown, AdmitSkip, OpenFileFails, ReadFails, Return, ClearLocals, InManip,
                dbVars, scanVars
  <2> QED
    BY <2>1, SameRows, BlocksOwnedKept DEF EntryKnown, InRead, Scanning
<1>7. CASE AdmitUndefined \/ StatementThrows \/ CleanupFails
  <2>1. pc' = "threw" /\ blocks' = blocks
    BY <1>7 DEF AdmitUndefined, StatementThrows, CleanupFails, CleanupThrows, ManipThrows, Leave,
                dbVars
  <2> QED
    BY <2>1, SameRows, BlocksOwnedKept DEF EntryKnown, InRead, Scanning
<1>8. CASE AdmitKnown
  BY <1>8, SameRows, BlocksOwnedKept
     DEF AdmitKnown, InManip, dbVars, scanVars, EntryKnown, InRead, Scanning
<1>9. CASE OpenFile \/ ReadEnd
  <2>1. /\ pc = "manip" /\ stage \in {"open", "read"} /\ entryId' = entryId
        /\ blocks' = blocks /\ parents' = parents
    BY <1>9 DEF OpenFile, ReadEnd, InManip, dbVars, scanVars
  <2>2. EntryKnown'
    BY <1>0, <2>1 DEF EntryKnown, RowInv
  <2> QED
    BY <2>1, <2>2, SameRows, BlocksOwnedKept DEF InRead, Scanning
<1>10. CASE ReadBlock \/ TrimBlocks
  <2>1. /\ pc = "manip" /\ stage \in {"read", "trim"} /\ entryId' = entryId /\ parents' = parents
    BY <1>10 DEF ReadBlock, BlockRead, TrimBlocks, InManip, scanVars
  <2>2. entryId \in Used
    BY <2>1 DEF RowInv, EntryKnown
  <2>3. \A i \in EntryId : blocks'[i] = blocks[i] \/ i \in Used
    BY <1>10, <2>2 DEF ReadBlock, BlockRead, TrimBlocks, UpdateBlockDigest, TypeInv, TypeOK
  <2>4. EntryKnown'
    BY <1>0, <2>1 DEF EntryKnown, RowInv
  <2> QED
    BY <2>1, <2>3, <2>4, SameRows, BlocksOwnedKept DEF InRead, Scanning
<1>11. CASE UNCHANGED vars
  <2>1. /\ pc' = pc /\ stage' = stage /\ entryId' = entryId /\ parents' = parents
        /\ blocks' = blocks
    BY <1>11 DEF vars, readerVars, readVars, dbVars, localVars, scanVars
  <2> QED
    BY <1>0, <2>1, SameRows, BlocksOwnedKept DEF EntryKnown, InRead, Scanning, RowInv
<1>12. CASE Worker
  BY <1>1, <1>2, <1>4, <1>6, <1>7, <1>8, <1>9, <1>10, <1>12 DEF Worker, ManipStep
<1>13. CASE Environment
  BY <1>2, <1>3, <1>5, <1>13 DEF Environment
<1> QED
  BY <1>11, <1>12, <1>13 DEF Next

LEMMA RowStep ==
    ASSUME "silent" \notin FaultKinds, TypeInv, Position, RowInv, [Next]_vars
    PROVE  RowInv'
<1>1. CASE AdmitRoot \/ EnterDirectory \/ EnterFile
  BY <1>1, AdmitRootRows, EnterDirectoryRows, EnterFileRows
<1>2. CASE RecordDigest \/ Cleanup \/ CleanupPartial
  BY <1>2, RecordDigestRows, CleanupRows
<1> QED
  BY <1>1, <1>2, EntriesChange, OtherRows

LEMMA RowInit ==
    ASSUME Init
    PROVE  RowInv
<1>1. Used = {}
  BY DEF Init, Used
<1>2. PathsFaithful /\ MarkedUpward
  BY <1>1 DEF PathsFaithful, MarkedUpward
<1>3. BlocksOwned
  BY DEF Init, BlocksOwned
<1>4. ParentsKnown /\ EntryKnown
  BY DEF Init, ReaderInit, ParentsKnown, EntryKnown, InRead, Scanning
<1> QED
  BY <1>2, <1>3, <1>4 DEF RowInv, RowTree

LEMMA RowInvariant ==
    ASSUME "silent" \notin FaultKinds
    PROVE  Steps => []RowInv
<1>1. Init => RowInv
  BY RowInit
<1>2. TypeInv /\ Position /\ RowInv /\ [Next]_vars => RowInv'
  BY RowStep
<1> QED
  BY <1>1, <1>2, TypeInvariant, PositionInvariant, PTL DEF Steps

\* parent_id always leads through the rows of the directories above to the row
\* of the root, under every order of scans, aborted scans, exceptions, crashes,
\* half-committed cleanups, reused rowids and changes by other programs, if no
\* INSERT fails unnoticed.
THEOREM PathsAlwaysFaithful ==
    ASSUME "silent" \notin FaultKinds
    PROVE  Spec => []PathsFaithful
<1>1. RowInv => PathsFaithful
  BY DEF RowInv, RowTree
<1> QED
  BY <1>1, RowInvariant, SpecSteps, PTL

\* What makes that inductive across cleanup_entries: the rows that it keeps are
\* closed under parent_id.
THEOREM MarksClosedUpward ==
    ASSUME "silent" \notin FaultKinds
    PROVE  Spec => []MarkedUpward
<1>1. RowInv => MarkedUpward
  BY DEF RowInv, RowTree
<1> QED
  BY <1>1, RowInvariant, SpecSteps, PTL

\* No row of blocks_digests outlives the row of entries that it belongs to.
THEOREM BlocksAlwaysOwned ==
    ASSUME "silent" \notin FaultKinds
    PROVE  Spec => []BlocksOwned
<1>1. RowInv => BlocksOwned
  BY DEF RowInv, RowTree
<1> QED
  BY <1>1, RowInvariant, SpecSteps, PTL
-----------------------------------------------------------------------------
(* Module Indexer: stamps and data, as long as no INSERT is lost.  The     *)
(* stamp of a row comes from the listing and the data under it is read     *)
(* later: no stamp is ahead of the file, and the one a scan has in hand    *)
(* is the file's only while the data read so far are a beginning of the    *)
(* file's.                                                                 *)

\* The file is still what the listing said of it.
AsListed(e) == fs[e.node].kind = "file" /\ fs[e.node].mtime = e.mtime

\* e is what was there when it was listed.
Seen(e) ==
    /\ e.mtime <= clock
    /\ Present(e.node) => e.mtime <= fs[e.node].mtime
    /\ e.kind = "file" /\ AsListed(e) => e.size = Len(fs[e.node].data)

NotAhead(e) == \A i \in Used : entries[i].node = e.node => entries[i].mtime <= e.mtime

Stamped ==
    /\ \A p \in Path : fs[p].mtime <= clock
    /\ \A i \in Used :
          /\ entries[i].mtime <= clock
          /\ Present(entries[i].node) => entries[i].mtime <= fs[entries[i].node].mtime

ListingsOld ==
    /\ \A d \in Path : \A e \in finds[d] : Seen(e) /\ NotAhead(e)
    /\ pc = "manip" => Seen(ent) /\ NotAhead(ent)

ListedOnce ==
    /\ \A d \in Path : \A e, g \in finds[d] : e.node = g.node => e = g
    /\ pc = "manip" => \A e \in finds[path] : e.node # ent.node

\* The row of the file being read has no digest until it has the new one, but
\* the size already.
RowInHand ==
    pc = "manip" /\ stage \in {"open", "read", "trim", "record"} =>
        /\ ent.kind = "file"
        /\ entries[entryId].node = ent.node
        /\ entries[entryId].digest = Null /\ entries[entryId].size = ent.size

\* What has been read so far, and the block rows.
DataInHand ==
    /\ stage \notin {"read", "trim", "record"} => blkNo = 0 /\ ctx = <<>>
    /\ pc = "manip" /\ stage \in {"read", "trim", "record"} =>
          /\ Len(ctx) = blkNo
          /\ AsListed(ent) =>
                /\ blkNo <= Len(fs[ent.node].data)
                /\ \A k \in 1 .. blkNo : ctx[k] = fs[ent.node].data[k]
                /\ stage = "record" => blkNo = Len(fs[ent.node].data)
          /\ \A k \in 1 .. blkNo : blocks[entryId][k] = ctx[k]
          /\ stage # "trim" /\ blkNo > 0 =>
                \A k \in BlockNo : k > blkNo => blocks[entryId][k] = Null

FreshInv ==
    /\ Stamped /\ ListingsOld /\ ListedOnce /\ RowInHand /\ DataInHand
    /\ DigestFresh /\ BlocksFresh

FileType == \A p \in Path : /\ fs[p] \in Entry /\ fs[p].mtime \in Nat
                            /\ fs[p].data \in Seq(Block) /\ Len(fs[p].data) \in Nat

LEMMA FileTypes ==
    ASSUME TypeInv
    PROVE  FileType /\ clock \in Nat /\ entries \in Rows
<1>1. ASSUME NEW p \in Path
      PROVE  fs[p] \in Entry /\ fs[p].mtime \in Nat
             /\ fs[p].data \in Seq(Block) /\ Len(fs[p].data) \in Nat
  <2>1. fs[p] \in Entry
    BY DEF TypeInv, TypeOK, ReaderTypeOK
  <2> QED
    BY <2>1, LenProperties DEF Entry
<1> QED
  BY <1>1 DEF FileType, TypeInv, TypeOK, ReaderTypeOK, Rows

LEMMA RowTypes ==
    ASSUME entries \in Rows, NEW i \in Used
    PROVE  entries[i].mtime \in Nat /\ entries[i].node \in Path /\ entries[i].size \in Nat
<1> QED
  BY UsedRow DEF Row

\* Steps that leave the tree, the listings and the table alone and read() at
\* its entry or without one.
SameListings ==
    /\ fs' = fs /\ clock' = clock /\ finds' = finds
    /\ pc' = "manip" => pc = "manip" /\ ent' = ent /\ path' = path

LEMMA ListingsKept ==
    ASSUME Stamped, ListingsOld, ListedOnce, SameListings, entries' = entries
    PROVE  Stamped' /\ ListingsOld' /\ ListedOnce'
<1> USE DEF SameListings
<1>0. Used' = Used
  BY DEF Used
<1>1. Stamped'
  BY <1>0 DEF Stamped, Present
<1>2. ListingsOld'
  BY <1>0 DEF ListingsOld, Seen, AsListed, NotAhead, Present
<1>3. ListedOnce'
  BY DEF ListedOnce
<1> QED
  BY <1>1, <1>2, <1>3

LEMMA DigestsKept ==
    ASSUME DigestFresh, BlocksFresh, fs' = fs, entries' = entries, blocks' = blocks
    PROVE  DigestFresh' /\ BlocksFresh'
<1>1. Used' = Used /\ \A i \in Used : Recorded(i)' <=> Recorded(i)
  BY DEF Used, Recorded
<1>2. DigestFresh'
  BY <1>1 DEF DigestFresh
<1>3. BlocksFresh'
  BY <1>1 DEF BlocksFresh, StoredBlocks
<1> QED
  BY <1>2, <1>3

-----------------------------------------------------------------------------
(* The steps of read() itself.                                             *)

LEMMA ListingSeen ==
    ASSUME TypeInv, Stamped, NEW d \in Path
    PROVE  /\ \A e \in Listing(d) : Seen(e) /\ NotAhead(e)
           /\ \A e, g \in Listing(d) : e.node = g.node => e = g
<1>1. ASSUME NEW e \in Listing(d)
      PROVE  /\ e.node \in Path /\ Present(e.node) /\ e.mtime = fs[e.node].mtime
             /\ e.size = Len(fs[e.node].data)
             /\ e = [node |-> e.node, kind |-> fs[e.node].kind, mtime |-> fs[e.node].mtime,
                     size |-> Len(fs[e.node].data)]
  BY DEF Listing, Children, Path
<1>2. ASSUME NEW e \in Listing(d)
      PROVE  Seen(e) /\ NotAhead(e)
  <2>1. e.mtime \in Nat
    BY <1>1, FileTypes DEF FileType
  <2>2. Seen(e)
    BY <1>1, <2>1 DEF Seen, Stamped
  <2>3. NotAhead(e)
    BY <1>1 DEF NotAhead, Stamped
  <2> QED
    BY <2>2, <2>3
<1>3. \A e, g \in Listing(d) : e.node = g.node => e = g
  BY <1>1
<1> QED
  BY <1>2, <1>3

LEMMA WalkFresh ==
    ASSUME TypeInv, Position, FreshInv, Walk
    PROVE  FreshInv'
<1> USE DEF Walk, dbVars, localVars
<1>0. /\ ReaderTypeOK /\ (Scanning => handle \in Path) /\ ReaderLoop
      /\ fs' = fs /\ pc \in {"loop", "next", "descend"}
  BY ReaderLoopControl DEF TypeInv, TypeOK, Control
<1>1. clock' = clock /\ entries' = entries /\ Used' = Used
  BY <1>0 DEF ReaderLoop, LoopAbort, OpenDirectory, OpenGone, OpenFails, LoopDone, LoopPop,
     NextEntry,
              NextEnd, NextAborted, NextError, Descend, StayHere, treeVars, Used
<1>2. \A e : (Seen(e)' <=> Seen(e)) /\ (NotAhead(e)' <=> NotAhead(e))
  BY <1>0, <1>1 DEF Seen, AsListed, Present, NotAhead
<1>3. DigestFresh' /\ BlocksFresh'
  BY <1>0, <1>1, DigestsKept DEF FreshInv
<1>4. stage' \in BetweenScans /\ stage' = stage
  BY <1>0 DEF TypeInv, Control
<1>5. RowInHand' /\ DataInHand'
  BY <1>4 DEF BetweenScans, RowInHand, DataInHand, FreshInv
<1>6. Stamped'
  BY <1>0, <1>1 DEF Stamped, Present, FreshInv
<1>7. ListingsOld' /\ ListedOnce'
  <2>1. CASE OpenDirectory
    <3>1. /\ path \in Path /\ finds \in [Path -> SUBSET FindData] /\ pc' = "next"
          /\ finds' = [finds EXCEPT ![path] = Listing(path)]
      BY <1>0, <2>1 DEF OpenDirectory, ReaderTypeOK
    <3>2. /\ \A e \in Listing(path) : Seen(e) /\ NotAhead(e)
          /\ \A e, g \in Listing(path) : e.node = g.node => e = g
      BY <3>1, ListingSeen DEF FreshInv
    <3>3. \A d \in Path : finds'[d] = IF d = path THEN Listing(path) ELSE finds[d]
      BY <3>1
    <3>4. \A d \in Path : \A e \in finds'[d] : Seen(e) /\ NotAhead(e)
      BY <3>2, <3>3 DEF FreshInv, ListingsOld
    <3>5. \A d \in Path : \A e, g \in finds'[d] : e.node = g.node => e = g
      BY <3>2, <3>3 DEF FreshInv, ListedOnce
    <3> QED
      BY <1>2, <3>1, <3>4, <3>5 DEF ListingsOld, ListedOnce
  <2>2. CASE NextEntry
    <3>1. PICK e \in finds[handle] :
            ent' = e /\ finds' = [finds EXCEPT ![handle] = @ \ {e}]
      BY <2>2 DEF NextEntry
    <3>2. handle \in Path /\ handle = path /\ path' = path /\ finds \in [Path -> SUBSET FindData]
      BY <1>0, <2>2 DEF NextEntry, Scanning, Position, ReaderTypeOK
    <3>3. \A d \in Path : finds'[d] = IF d = handle THEN finds[handle] \ {e} ELSE finds[d]
      BY <3>1, <3>2
    <3>4. Seen(e) /\ NotAhead(e) /\ \A d \in Path : \A g \in finds'[d] : Seen(g) /\ NotAhead(g)
      BY <3>1, <3>2, <3>3 DEF FreshInv, ListingsOld
    <3>5. /\ \A d \in Path : \A g, h \in finds'[d] : g.node = h.node => g = h
          /\ \A g \in finds'[path] : g.node # e.node
      BY <3>1, <3>2, <3>3 DEF FreshInv, ListedOnce
    <3> QED
      BY <1>2, <3>1, <3>2, <3>4, <3>5 DEF ListingsOld, ListedOnce
  <2>3. CASE ~OpenDirectory /\ ~NextEntry
    <3>1. finds' = finds /\ pc' # "manip"
      BY <1>0, <2>3 DEF ReaderLoop, LoopAbort, OpenGone, OpenFails, LoopDone, LoopPop,
                NextEnd, NextAborted, NextError, Descend, StayHere, Leave, CloseDirectory
    <3> QED
      BY <1>2, <3>1 DEF FreshInv, ListingsOld, ListedOnce
  <2> QED
    BY <2>1, <2>2, <2>3
<1> QED
  BY <1>3, <1>5, <1>6, <1>7 DEF FreshInv

-----------------------------------------------------------------------------
(* Other programs: what they change has a later stamp than anything that   *)
(* was listed or recorded.                                                 *)

LEMMA TreeStepFresh ==
    ASSUME TypeInv, Position, FreshInv, TreeStep(Held),
           UNCHANGED <<readVars, faults, dbVars, localVars, scanVars>>
    PROVE  FreshInv'
<1> USE DEF readVars, dbVars, localVars
<1>0. FileType /\ clock \in Nat /\ entries \in Rows /\ TreeType
  BY FileTypes DEF TypeInv, TypeOK, ReaderTypeOK, TreeType
<1>1. /\ clock' = clock + 1
      /\ \A q \in Path : fs'[q] = fs[q] \/ fs'[q] = Nothing \/ fs'[q].mtime = clock + 1
  BY <1>0, ChangeStamps DEF TreeStep
<1>2. Nothing.kind = "none" /\ Nothing.mtime = 0
  BY DEF Nothing
<1>3. Used' = Used /\ entries' = entries
  BY DEF Used
<1>4. Stamped'
  <2>1. \A p \in Path : fs'[p].mtime <= clock'
    BY <1>0, <1>1, <1>2 DEF FreshInv, Stamped, FileType
  <2>2. ASSUME NEW i \in Used
        PROVE  /\ entries[i].mtime <= clock'
               /\ fs'[entries[i].node].kind # "none" => entries[i].mtime <= fs'[entries[i].node].mtime
    <3>1. entries[i].mtime \in Nat /\ entries[i].node \in Path
      BY <1>0, RowTypes
    <3> QED
      BY <1>0, <1>1, <1>2, <3>1 DEF FreshInv, Stamped, Present
  <2> QED
    BY <1>3, <2>1, <2>2 DEF Stamped, Present
\* Nothing that was listed comes to be as it was listed.
<1>5. ASSUME NEW e, e.node \in Path, e.mtime \in Nat, Seen(e)
      PROVE  /\ Seen(e)'
             /\ fs'[e.node].kind = "file" /\ fs'[e.node].mtime = e.mtime =>
                    AsListed(e) /\ fs'[e.node] = fs[e.node]
  <2>1. fs'[e.node].kind = "file" /\ fs'[e.node].mtime = e.mtime =>
            AsListed(e) /\ fs'[e.node] = fs[e.node]
    BY <1>0, <1>1, <1>2, <1>5 DEF Seen, AsListed
  <2>2. e.mtime <= clock'
    BY <1>0, <1>1, <1>5 DEF Seen
  <2>3. fs'[e.node].kind # "none" => e.mtime <= fs'[e.node].mtime
    BY <1>0, <1>1, <1>2, <1>5 DEF Seen, Present
  <2>4. e.kind = "file" /\ fs'[e.node].kind = "file" /\ fs'[e.node].mtime = e.mtime =>
            e.size = Len(fs'[e.node].data)
    BY <1>5, <2>1 DEF Seen
  <2> QED
    BY <2>1, <2>2, <2>3, <2>4 DEF Seen, AsListed, Present
<1>6. finds \in [Path -> SUBSET FindData] /\ finds' = finds
  BY DEF TypeInv, TypeOK, ReaderTypeOK
<1>7. \A d \in Path : \A e \in finds[d] : e.node \in Path /\ e.mtime \in Nat
  BY <1>6 DEF FindData, Path
<1>8. pc = "manip" => ent.node \in Path /\ ent.mtime \in Nat
  BY DEF Position, FindData, Path
<1>9. ListingsOld' /\ ListedOnce'
  <2>1. \A d \in Path : \A e \in finds[d] : Seen(e)' /\ NotAhead(e)'
    BY <1>3, <1>5, <1>7 DEF FreshInv, ListingsOld, NotAhead
  <2>2. pc = "manip" => Seen(ent)'
    BY <1>5, <1>8 DEF FreshInv, ListingsOld
  <2>3. pc = "manip" => NotAhead(ent)'
    BY <1>3 DEF FreshInv, ListingsOld, NotAhead
  <2>4. ListedOnce'
    BY DEF FreshInv, ListedOnce
  <2> QED
    BY <1>6, <2>1, <2>2, <2>3, <2>4 DEF ListingsOld
<1>10. RowInHand'
  BY DEF FreshInv, RowInHand
<1>11. DataInHand'
  <2>1. pc = "manip" => (AsListed(ent)' => AsListed(ent) /\ fs'[ent.node] = fs[ent.node])
    BY <1>5, <1>8 DEF FreshInv, ListingsOld, AsListed
  <2> QED
    BY <2>1 DEF FreshInv, DataInHand
<1>12. \A i \in Used : Recorded(i)' => Recorded(i) /\ fs'[entries[i].node] = fs[entries[i].node]
  <2>1. ASSUME NEW i \in Used, Recorded(i)'
        PROVE  Recorded(i) /\ fs'[entries[i].node] = fs[entries[i].node]
    <3>1. entries[i].mtime \in Nat /\ entries[i].node \in Path /\ entries[i].mtime <= clock
      BY <1>0, RowTypes DEF FreshInv, Stamped
    <3> QED
      BY <1>0, <1>1, <1>2, <1>3, <2>1, <3>1 DEF Recorded
  <2> QED
    BY <2>1
<1>13. DigestFresh'
  BY <1>3, <1>12 DEF FreshInv, DigestFresh
<1>14. BlocksFresh'
  BY <1>3, <1>12 DEF FreshInv, BlocksFresh, StoredBlocks
<1> QED
  BY <1>4, <1>9, <1>10, <1>11, <1>13, <1>14 DEF FreshInv

-----------------------------------------------------------------------------
(* update_entry: a row keeps its stamp, and its digest and size together or *)
(* not the digest.                                                         *)

Aged ==
    /\ \A i \in Used :
          /\ i \in Used'
          /\ entries'[i].node = entries[i].node /\ entries'[i].mtime = entries[i].mtime
          /\ \/ entries'[i].digest = entries[i].digest /\ entries'[i].size = entries[i].size
             \/ entries'[i].digest = Null
    /\ \A i \in Used' : i \in Used \/ (entries'[i].mtime = 0 /\ entries'[i].digest = Null
                                       /\ entries'[i].node \in Path)

\* Unless the row was up to date it has no digest, and the size given.
Refreshed(p, n, mtime, size, id) ==
    ~UpToDate(Selected(p, NameOf[n]), mtime) =>
        entries'[id].digest = Null /\ entries'[id].size = size

LEMMA UpdateAges ==
    ASSUME "silent" \notin FaultKinds, entries \in Rows,
           NEW p \in EntryId, NEW n \in Path, NEW dir \in BOOLEAN, NEW mtime, NEW size \in Nat,
           NEW id, UpdateEntry(p, n, dir, mtime, size, id)
    PROVE  Aged /\ Refreshed(p, n, mtime, size, id)
<1> USE DEF Refreshed
<1> DEFINE old == Selected(p, NameOf[n])
<1>0. old \in EntryId /\ (old # 0 => old \in Used /\ entries[old] \in Row)
  BY SelectedRow, UsedRow
<1>1. ASSUME old \in Used, NEW r \in Row, entries' = [entries EXCEPT ![old] = r],
             r.node = entries[old].node, r.mtime = entries[old].mtime,
             \/ r.digest = entries[old].digest /\ r.size = entries[old].size
             \/ r.digest = Null
      PROVE  Aged /\ entries'[old] = r
  <2>1. Used' = Used /\ entries'[old] = r /\ \A i \in Used : i # old => entries'[i] = entries[i]
    BY <1>1, NullAssumption DEF Used, Rows
  <2> QED
    BY <1>1, <2>1 DEF Aged
<1>2. CASE UpToDate(old, mtime) /\ id = old /\ entries' = Touched(old)
  <2> DEFINE r == [entries[old] EXCEPT !.alive = 0]
  <2>1. old \in Used /\ entries[old] \in Row
    BY <1>0, <1>2 DEF UpToDate
  <2>2. /\ r \in Row /\ r.node = entries[old].node /\ r.mtime = entries[old].mtime
        /\ r.digest = entries[old].digest /\ r.size = entries[old].size
    BY <2>1 DEF Row
  <2>3. entries' = [entries EXCEPT ![old] = r]
    BY <1>2, <2>1 DEF Touched
  <2> HIDE DEF r
  <2>4. Aged
    BY <1>1, <2>1, <2>2, <2>3
  <2> QED
    BY <1>2, <2>4
<1>3. CASE /\ ~UpToDate(old, mtime) /\ old # 0 /\ id = old
           /\ entries' = [entries EXCEPT ![old] =
                 [@ EXCEPT !.alive = 0, !.dir = dir, !.size = size, !.digest = Null]]
  <2> DEFINE r == [entries[old] EXCEPT !.alive = 0, !.dir = dir, !.size = size, !.digest = Null]
  <2>1. old \in Used /\ entries[old] \in Row
    BY <1>0, <1>3
  <2>2. /\ r \in Row /\ r.node = entries[old].node /\ r.mtime = entries[old].mtime
        /\ r.digest = Null /\ r.size = size
    BY <2>1 DEF Row
  <2>3. entries' = [entries EXCEPT ![old] = r]
    BY <1>3
  <2> HIDE DEF r
  <2>4. Aged /\ entries'[old] = r
    BY <1>1, <2>1, <2>2, <2>3
  <2> QED
    BY <1>3, <2>2, <2>4
<1>4. CASE /\ old = 0 /\ id \in NextRowids
           /\ entries' = [entries EXCEPT ![id] = NewRow(p, n, dir, size)]
  <2>1. NewRow(p, n, dir, size) \in Row /\ id \in RowId \ Used
    BY <1>4 DEF NewRow, Row, Name, NextRowids
  <2>2. /\ Used' = Used \cup {id} /\ entries'[id] = NewRow(p, n, dir, size)
        /\ \A i \in Used : entries'[i] = entries[i]
    BY <1>4, <2>1, NullAssumption DEF Used, Rows
  <2> QED
    BY <2>2 DEF Aged, NewRow
<1> QED
  BY <1>2, <1>3, <1>4 DEF UpdateEntry, Lost, Strike

LEMMA AgedFresh ==
    ASSUME TypeInv, Position, FreshInv, Aged, SameListings, blocks' = blocks
    PROVE  Stamped' /\ ListingsOld' /\ ListedOnce' /\ DigestFresh' /\ BlocksFresh'
<1> USE DEF SameListings
<1>0. FileType /\ clock \in Nat /\ entries \in Rows
  BY FileTypes
<1>1. Stamped'
  BY <1>0 DEF FreshInv, Stamped, Present, Aged, FileType
<1>2. finds \in [Path -> SUBSET FindData] /\ (pc = "manip" => ent.mtime \in Nat)
  BY DEF TypeInv, TypeOK, ReaderTypeOK, Position, FindData
<1>3. \A d \in Path : \A e \in finds[d] : e.mtime \in Nat
  BY <1>2 DEF FindData
<1>4. \A e : Seen(e) => Seen(e)'
  BY DEF Seen, AsListed, Present
<1>5. ASSUME NEW e, e.mtime \in Nat, NotAhead(e) PROVE NotAhead(e)'
  BY <1>5 DEF NotAhead, Aged
<1>6. ListingsOld'
  <2>1. \A d \in Path : \A e \in finds[d] : Seen(e)' /\ NotAhead(e)'
    BY <1>3, <1>4, <1>5 DEF FreshInv, ListingsOld
  <2>2. pc = "manip" => Seen(ent)
    BY DEF FreshInv, ListingsOld
  <2>3. pc = "manip" => \A i \in Used' : entries'[i].node = ent.node => entries'[i].mtime <= ent.mtime
    BY <1>2 DEF FreshInv, ListingsOld, NotAhead, Aged
  <2>4. pc' = "manip" => Seen(ent)'
    BY <2>2 DEF Seen, AsListed, Present
  <2>5. pc' = "manip" => NotAhead(ent)'
    BY <2>3 DEF NotAhead
  <2> QED
    BY <2>1, <2>4, <2>5 DEF ListingsOld
<1>7. ListedOnce'
  BY DEF FreshInv, ListedOnce
<1>8. \A i \in Used' : Recorded(i)' =>
          /\ i \in Used /\ Recorded(i) /\ entries'[i].node = entries[i].node
          /\ entries'[i].digest = entries[i].digest /\ entries'[i].size = entries[i].size
  BY DEF Recorded, Aged
<1>9. DigestFresh'
  BY <1>8 DEF FreshInv, DigestFresh
<1>10. BlocksFresh'
  BY <1>8 DEF FreshInv, BlocksFresh, StoredBlocks
<1> QED
  BY <1>1, <1>6, <1>7, <1>9, <1>10

LEMMA ClearedHand ==
    ASSUME ClearLocals
    PROVE  RowInHand' /\ DataInHand'
<1> QED
  BY DEF ClearLocals, RowInHand, DataInHand

LEMMA AdmitRootFresh ==
    ASSUME "silent" \notin FaultKinds, TypeInv, Position, FreshInv, AdmitRoot
    PROVE  FreshInv'
<1>1. PICK id \in EntryId : UpdateEntry(0, path, TRUE, 0, 0, id)
  BY DEF AdmitRoot, RootUnknown, RootEntered
<1>2. path \in Path /\ entries \in Rows
  BY DEF TypeInv, TypeOK, ReaderTypeOK, Rows
<1>3. Aged
  BY <1>1, <1>2, UpdateAges, RowIds
<1>4. SameListings /\ blocks' = blocks
  BY DEF AdmitRoot, RootUnknown, RootEntered, InManip, SameListings, treeVars, readVars
<1>5. RowInHand' /\ DataInHand'
  BY DEF AdmitRoot, RootUnknown, RootEntered, InManip, RowInHand, DataInHand, FreshInv
<1> QED
  BY <1>3, <1>4, <1>5, AgedFresh DEF FreshInv

LEMMA EnterDirectoryFresh ==
    ASSUME "silent" \notin FaultKinds, TypeInv, Position, RowInv, FreshInv, EnterDirectory
    PROVE  FreshInv'
<1>1. PICK id \in EntryId : UpdateEntry(parents[path], ent.node, TRUE, ent.mtime, ent.size, id)
  BY DEF EnterDirectory, DirectoryEntered
<1>2. parents[path] \in EntryId /\ ent.node \in Path /\ ent.size \in Nat /\ entries \in Rows
  BY EntryParent, EntType DEF EnterDirectory, DirectoryEntered, TypeInv, TypeOK, Rows
<1>3. Aged
  BY <1>1, <1>2, UpdateAges
<1>4. SameListings /\ blocks' = blocks
  BY DEF EnterDirectory, DirectoryEntered, InManip, Return, ManipReturns, ReturnTo, SameListings,
     treeVars
<1>5. RowInHand' /\ DataInHand'
  BY ClearedHand DEF EnterDirectory, DirectoryEntered, Return
<1> QED
  BY <1>3, <1>4, <1>5, AgedFresh DEF FreshInv

\* A file whose stored stamp is not that of the listing is never taken to be
\* up to date, not even if the listing says 0: no row is ahead of it.
LEMMA ModifiedNotUpToDate ==
    ASSUME TypeInv, Position, RowInv, FreshInv, InManip("entry"),
           NeedsDigest(StoredMtime(Selected(parents[path], NameOf[ent.node])))
    PROVE  ~UpToDate(Selected(parents[path], NameOf[ent.node]), ent.mtime)
<1> DEFINE old == Selected(parents[path], NameOf[ent.node])
<1>0. SUFFICES ASSUME mode, old # 0, ent.mtime = 0, StoredMtime(old) # 0 PROVE FALSE
  BY DEF UpToDate, NeedsDigest
<1>1. /\ parents[path] \in EntryId /\ ent.node \in Path /\ ParentOf(parents[path], ent.node)
      /\ PathsFaithful
  BY EntryParent DEF RowInv, RowTree, Path
<1>2. old \in Used /\ entries[old].parent = parents[path] /\ entries[old].name = NameOf[ent.node]
  BY <1>0, SelectedRow
<1>3. entries[old].node = ent.node
  BY <1>1, <1>2, SelectedIsRow
<1>4. entries[old].mtime <= 0 /\ entries[old].mtime \in Nat
  BY <1>0, <1>2, <1>3, FileTypes, RowTypes DEF InManip, FreshInv, ListingsOld, NotAhead
<1> QED
  BY <1>0, <1>4 DEF StoredMtime

LEMMA EnterFileFresh ==
    ASSUME "silent" \notin FaultKinds, TypeInv, Position, RowInv, FreshInv, EnterFile
    PROVE  FreshInv'
<1> DEFINE old == Selected(parents[path], NameOf[ent.node])
<1>1. PICK id \in EntryId :
          /\ UpdateEntry(parents[path], ent.node, FALSE, ent.mtime, ent.size, id)
          /\ IF NeedsDigest(StoredMtime(old))
             THEN /\ stage' = "open" /\ entryId' = id
                  /\ UNCHANGED <<treeVars, readVars, historyVars, blkNo, ctx>>
             ELSE Return /\ UNCHANGED abort
  BY DEF EnterFile, FileEntered
<1>2. /\ parents[path] \in EntryId /\ ent.node \in Path /\ ent.size \in Nat /\ entries \in Rows
      /\ ParentOf(parents[path], ent.node) /\ InManip("entry") /\ ent.kind = "file"
  BY EntryParent, EntType DEF EnterFile, FileEntered, TypeInv, TypeOK, Rows
<1>3. Aged /\ Refreshed(parents[path], ent.node, ent.mtime, ent.size, id)
  <2>1. UpdateEntry(parents[path], ent.node, FALSE, ent.mtime, ent.size, id)
    BY <1>1
  <2>2. /\ parents[path] \in EntryId /\ ent.node \in Path /\ FALSE \in BOOLEAN
        /\ ent.size \in Nat /\ entries \in Rows
    BY <1>2
  <2> QED
    BY <2>1, <2>2, UpdateAges
<1>4. SameListings /\ blocks' = blocks
  <2>1. blocks' = blocks
    BY DEF EnterFile, FileEntered
  <2>2. CASE UNCHANGED <<treeVars, readVars, historyVars, blkNo, ctx>>
    BY <2>1, <2>2 DEF SameListings, treeVars, readVars
  <2>3. CASE Return
    BY <2>1, <2>3, <1>1 DEF EnterFile, FileEntered, Return, ManipReturns, ReturnTo, SameListings,
       treeVars
  <2> QED
    BY <1>1, <2>2, <2>3
<1>5. RowInHand' /\ DataInHand'
  <2>1. CASE NeedsDigest(StoredMtime(old))
    <3>1. /\ stage' = "open" /\ entryId' = id /\ ent' = ent /\ blkNo' = blkNo /\ ctx' = ctx
      BY <1>1, <2>1 DEF readVars
    <3>2. entries'[id].digest = Null /\ entries'[id].size = ent.size
      BY <1>2, <1>3, <2>1, ModifiedNotUpToDate DEF Refreshed
    <3>3. Grown(parents[path], ent.node, id)
      BY <1>1, <1>2, UpdateGrows DEF RowInv, RowTree
    <3>4. entries'[id].node = ent.node
      BY <3>3 DEF Grown
    <3>5. RowInHand'
      BY <1>2, <3>1, <3>2, <3>4 DEF RowInHand
    <3>6. DataInHand'
      BY <1>2, <3>1 DEF InManip, DataInHand, FreshInv
    <3> QED
      BY <3>5, <3>6
  <2>2. CASE ~NeedsDigest(StoredMtime(old))
    BY <1>1, <2>2, ClearedHand DEF Return
  <2> QED
    BY <2>1, <2>2
<1> QED
  BY <1>3, <1>4, <1>5, AgedFresh DEF FreshInv

-----------------------------------------------------------------------------
(* update_blocks.                                                          *)

LEMMA ReadBlockFresh ==
    ASSUME "silent" \notin FaultKinds, TypeInv, Position, RowInv, FreshInv, ReadBlock
    PROVE  FreshInv'
<1> DEFINE data == fs[ent.node].data
<1>1. /\ pc = "manip" /\ stage = "read" /\ stage' = "trim" /\ blkNo' = blkNo + 1
      /\ blkNo < Len(data) /\ ctx' = Append(ctx, data[blkNo + 1])
      /\ blocks' = [blocks EXCEPT ![entryId][blkNo + 1] = data[blkNo + 1]]
      /\ fs' = fs /\ clock' = clock /\ finds' = finds /\ pc' = pc /\ ent' = ent /\ path' = path
      /\ entries' = entries /\ entryId' = entryId
  BY DEF ReadBlock, BlockRead, InManip, UpdateBlockDigest, Strike, treeVars, readVars
<1>2. /\ ent.node \in Path /\ blkNo \in Nat /\ entryId \in EntryId /\ ctx \in Seq(Block)
      /\ blocks \in [EntryId -> [BlockNo -> Block \cup {Null}]]
      /\ Len(data) \in Nat /\ data \in Seq(Block) /\ Len(data) <= MaxBlocks /\ MaxBlocks \in Nat
  BY <1>1, FileTypes, IndexerAssumption
     DEF TypeInv, TypeOK, DataBound, FileType, Position, FindData, Path
<1>3. blkNo + 1 \in BlockNo /\ blkNo + 1 \in 1 .. Len(data) /\ data[blkNo + 1] \in Block
  BY <1>1, <1>2, ElementOfSeq DEF BlockNo
<1>4. Stamped' /\ ListingsOld' /\ ListedOnce'
  BY <1>1, ListingsKept DEF SameListings, FreshInv
<1>5. RowInHand /\ RowInHand'
  BY <1>1 DEF RowInHand, FreshInv
<1>6. DataInHand'
  <2>1. /\ Len(ctx) = blkNo /\ Len(ctx') = blkNo + 1 /\ ctx'[blkNo + 1] = data[blkNo + 1]
        /\ \A k \in 1 .. blkNo : ctx'[k] = ctx[k]
    BY <1>1, <1>2, <1>3, AppendProperties DEF FreshInv, DataInHand
  <2>2. /\ \A k \in 1 .. blkNo : blocks'[entryId][k] = blocks[entryId][k]
        /\ blocks'[entryId][blkNo + 1] = data[blkNo + 1]
    BY <1>1, <1>2, <1>3
  <2>3. \A k \in 1 .. blkNo : blocks[entryId][k] = ctx[k]
    BY <1>1 DEF FreshInv, DataInHand
  <2>4. \A k \in 1 .. blkNo + 1 : k \in 1 .. blkNo \/ k = blkNo + 1
    BY <1>2
  <2>5. \A k \in 1 .. blkNo' : blocks'[entryId'][k] = ctx'[k]
    BY <1>1, <2>1, <2>2, <2>3, <2>4
  <2>6. AsListed(ent) => \A k \in 1 .. blkNo' : ctx'[k] = data[k]
    BY <1>1, <2>1, <2>4 DEF FreshInv, DataInHand
  <2>7. blkNo' <= Len(data)
    BY <1>1, <1>2
  <2> QED
    BY <1>1, <2>1, <2>5, <2>6, <2>7 DEF DataInHand, AsListed
<1>7. DigestFresh' /\ BlocksFresh'
  <2>1. Used' = Used /\ \A i \in Used : Recorded(i)' <=> Recorded(i)
    BY <1>1 DEF Used, Recorded
  <2>2. \A i \in Used : Recorded(i) => i # entryId
    BY <1>1, <1>5 DEF RowInHand, Recorded
  <2>3. \A i \in Used : i # entryId => blocks'[i] = blocks[i]
    BY <1>1, <1>2, RowIds DEF Used
  <2>4. DigestFresh'
    BY <1>1, <2>1 DEF FreshInv, DigestFresh
  <2>5. BlocksFresh'
    BY <1>1, <2>1, <2>2, <2>3 DEF FreshInv, BlocksFresh, StoredBlocks
  <2> QED
    BY <2>4, <2>5
<1> QED
  BY <1>4, <1>5, <1>6, <1>7 DEF FreshInv

LEMMA TrimBlocksFresh ==
    ASSUME TypeInv, FreshInv, TrimBlocks
    PROVE  FreshInv'
<1>1. /\ pc = "manip" /\ stage = "trim" /\ stage' = "read" /\ blkNo' = blkNo /\ ctx' = ctx
      /\ blocks' = [blocks EXCEPT ![entryId] =
                      [k \in BlockNo |-> IF k > blkNo THEN Null ELSE @[k]]]
      /\ fs' = fs /\ clock' = clock /\ finds' = finds /\ pc' = pc /\ ent' = ent /\ path' = path
      /\ entries' = entries /\ entryId' = entryId
  BY DEF TrimBlocks, InManip, Later, readerVars, treeVars, readVars
<1>2. /\ blkNo \in 0 .. MaxBlocks /\ entryId \in EntryId
      /\ blocks \in [EntryId -> [BlockNo -> Block \cup {Null}]] /\ MaxBlocks \in Nat
  BY IndexerAssumption DEF TypeInv, TypeOK
<1>3. Stamped' /\ ListingsOld' /\ ListedOnce'
  BY <1>1, ListingsKept DEF SameListings, FreshInv
<1>4. RowInHand /\ RowInHand'
  BY <1>1 DEF RowInHand, FreshInv
<1>5. DataInHand'
  <2>1. \A k \in BlockNo : blocks'[entryId][k] = IF k > blkNo THEN Null ELSE blocks[entryId][k]
    BY <1>1, <1>2
  <2>2. \A k \in 1 .. blkNo : k \in BlockNo /\ ~(k > blkNo)
    BY <1>2 DEF BlockNo
  <2>3. \A k \in 1 .. blkNo : blocks'[entryId][k] = ctx[k]
    BY <1>1, <2>1, <2>2 DEF FreshInv, DataInHand
  <2> QED
    BY <1>1, <2>1, <2>3 DEF FreshInv, DataInHand, AsListed
<1>6. DigestFresh' /\ BlocksFresh'
  <2>1. Used' = Used /\ \A i \in Used : Recorded(i)' <=> Recorded(i)
    BY <1>1 DEF Used, Recorded
  <2>2. \A i \in Used : Recorded(i) => i # entryId
    BY <1>1, <1>4 DEF RowInHand, Recorded
  <2>3. \A i \in Used : i # entryId => blocks'[i] = blocks[i]
    BY <1>1, <1>2, RowIds DEF Used
  <2>4. DigestFresh'
    BY <1>1, <2>1 DEF FreshInv, DigestFresh
  <2>5. BlocksFresh'
    BY <1>1, <2>1, <2>2, <2>3 DEF FreshInv, BlocksFresh, StoredBlocks
  <2> QED
    BY <2>4, <2>5
<1> QED
  BY <1>3, <1>4, <1>5, <1>6 DEF FreshInv

\* Opening the file and the end of the data.
LEMMA OpenEndFresh ==
    ASSUME TypeInv, Position, FreshInv, OpenFile \/ ReadEnd
    PROVE  FreshInv'
<1>1. /\ pc = "manip" /\ blkNo' = blkNo /\ ctx' = ctx /\ blocks' = blocks
      /\ fs' = fs /\ clock' = clock /\ finds' = finds /\ pc' = pc /\ ent' = ent /\ path' = path
      /\ entries' = entries /\ entryId' = entryId
  BY DEF OpenFile, ReadEnd, InManip, readerVars, treeVars, readVars, dbVars
<1>2. Stamped' /\ ListingsOld' /\ ListedOnce' /\ DigestFresh' /\ BlocksFresh'
  BY <1>1, ListingsKept, DigestsKept DEF SameListings, FreshInv
<1>3. RowInHand'
  BY <1>1 DEF OpenFile, ReadEnd, InManip, RowInHand, FreshInv
<1>4. DataInHand'
  <2>1. ent.node \in Path /\ Len(fs[ent.node].data) \in Nat /\ blkNo \in Nat
    BY <1>1, FileTypes DEF FileType, TypeInv, TypeOK, Position, FindData, Path
  <2>2. CASE OpenFile
    <3>1. stage = "open" /\ stage' = "read" /\ blkNo = 0 /\ ctx = <<>>
      BY <2>2 DEF OpenFile, InManip, FreshInv, DataInHand
    <3> QED
      BY <1>1, <2>1, <3>1, EmptyLen DEF DataInHand, AsListed
  <2>3. CASE ReadEnd
    <3>1. stage = "read" /\ stage' = "record" /\ blkNo >= Len(fs[ent.node].data)
      BY <2>3 DEF ReadEnd, InManip
    <3> QED
      BY <1>1, <2>1, <3>1 DEF DataInHand, AsListed, FreshInv
  <2> QED
    BY <2>2, <2>3
<1> QED
  BY <1>2, <1>3, <1>4 DEF FreshInv

\* If the stamp of the listing is the file's now, the file was the same all the
\* while it was read.
LEMMA ReadThrough ==
    ASSUME TypeInv, Position, FreshInv, InManip("record"), AsListed(ent)
    PROVE  ctx = fs[ent.node].data /\ ent.size = Len(ctx) /\ blkNo = Len(ctx)
<1> DEFINE data == fs[ent.node].data
<1>1. /\ Len(ctx) = blkNo /\ blkNo = Len(data) /\ \A k \in 1 .. Len(ctx) : ctx[k] = data[k]
      /\ ent.kind = "file" /\ Seen(ent) /\ ent.node \in Path /\ ctx \in Seq(Block)
  BY DEF InManip, FreshInv, DataInHand, RowInHand, ListingsOld, Position, FindData, Path, TypeInv,
     TypeOK
<1>2. data \in Seq(Block)
  BY <1>1, FileTypes DEF FileType
<1>3. ctx = data
  BY <1>1, <1>2, SeqEqual
<1> QED
  BY <1>1, <1>3 DEF Seen

\* st_upd_after: the stamp is that of the listing.
LEMMA RecordDigestFresh ==
    ASSUME TypeInv, Position, RowInv, FreshInv, RecordDigest
    PROVE  FreshInv'
<1> DEFINE r == [entries[entryId] EXCEPT !.alive = 0, !.mtime = ent.mtime, !.digest = ctx]
           data == fs[ent.node].data
<1>0. FileType /\ clock \in Nat /\ entries \in Rows
  BY FileTypes
<1>1. /\ pc = "manip" /\ stage = "record"
      /\ fs' = fs /\ clock' = clock /\ finds' = finds /\ blocks' = blocks /\ pc' # "manip"
  BY DEF RecordDigest, InManip, Return, ManipReturns, ReturnTo, treeVars
<1>2. /\ entryId \in Used /\ entries[entryId] \in Row
      /\ entries[entryId].node = ent.node /\ entries[entryId].size = ent.size
      /\ ent \in FindData /\ ent.kind = "file" /\ ent.node \in Path /\ ent.mtime \in Nat
      /\ ctx \in Seq(Block) /\ blkNo \in Nat /\ Seen(ent) /\ NotAhead(ent)
  BY <1>0, <1>1, UsedRow DEF RowInv, EntryKnown, FreshInv, RowInHand, ListingsOld, Position,
     FindData,
                             Path, TypeInv, TypeOK
<1>3. /\ r \in Row /\ r.node = ent.node /\ r.mtime = ent.mtime /\ r.digest = ctx
      /\ r.size = ent.size
  BY <1>2 DEF Row
<1>4. Used' = Used /\ entries'[entryId] = r /\ \A i \in Used : i # entryId => entries'[i] = entries[i]
  <2>1. r # Null
    BY <1>3, NullAssumption
  <2>2. entries'[entryId] = r /\ \A i \in RowId : i # entryId => entries'[i] = entries[i]
    BY <1>2 DEF RecordDigest, Used
  <2> QED
    BY <1>2, <2>1, <2>2 DEF Used
<1> HIDE DEF r
<1>5. Stamped'
  <2>1. ent.mtime <= clock /\ (Present(ent.node) => ent.mtime <= fs[ent.node].mtime)
    BY <1>2 DEF Seen
  <2> QED
    BY <1>1, <1>3, <1>4, <2>1 DEF FreshInv, Stamped, Present
<1>6. ListingsOld'
  <2>1. ASSUME NEW d \in Path, NEW e \in finds[d]
        PROVE  Seen(e)' /\ NotAhead(e)'
    <3>1. e.node # ent.node
      <4>1. Up[e.node] = d /\ Up[ent.node] = path
        BY <1>1 DEF Position
      <4> QED
        BY <1>1, <4>1 DEF FreshInv, ListedOnce
    <3>2. Seen(e) /\ NotAhead(e)
      BY DEF FreshInv, ListingsOld
    <3> QED
      BY <1>1, <1>3, <1>4, <3>1, <3>2 DEF Seen, AsListed, Present, NotAhead
  <2> QED
    BY <1>1, <2>1 DEF ListingsOld
<1>7. ListedOnce'
  BY <1>1 DEF ListedOnce, FreshInv
<1>8. RowInHand' /\ DataInHand'
  BY ClearedHand DEF RecordDigest, Return
<1>9. AsListed(ent) => ctx = data /\ ent.size = Len(ctx) /\ blkNo = Len(ctx)
  BY <1>1, ReadThrough DEF InManip
<1>10. ctx # <<>> /\ blkNo = Len(ctx) => blocks[entryId] = StoredBlocks(ctx)
  <2>1. SUFFICES ASSUME ctx # <<>>, blkNo = Len(ctx) PROVE blocks[entryId] = StoredBlocks(ctx)
    OBVIOUS
  <2>2. DOMAIN ctx = 1 .. blkNo /\ blkNo > 0
    BY <1>2, <2>1, LenProperties, EmptySeq
  <2>3. blocks[entryId] \in [BlockNo -> Block \cup {Null}]
    BY <1>2, RowIds DEF TypeInv, TypeOK, Used
  <2>4. \A k \in BlockNo : blocks[entryId][k] = IF k \in 1 .. blkNo THEN ctx[k] ELSE Null
    BY <1>1, <1>2, <2>2 DEF FreshInv, DataInHand, BlockNo
  <2> QED
    BY <2>2, <2>3, <2>4 DEF StoredBlocks
<1>11. \A i \in Used : i = entryId /\ Recorded(i)' => AsListed(ent)
  BY <1>1, <1>3, <1>4 DEF Recorded, AsListed
<1>12. \A i \in Used : i # entryId => (Recorded(i)' <=> Recorded(i))
  BY <1>1, <1>4 DEF Recorded
<1>13. DigestFresh'
  BY <1>1, <1>3, <1>4, <1>9, <1>11, <1>12 DEF FreshInv, DigestFresh
<1>14. BlocksFresh'
  <2>1. ASSUME NEW i \in Used, Recorded(i)', entries'[i].digest # <<>>
        PROVE  blocks'[i] \in {StoredBlocks(fs'[entries'[i].node].data), NoBlocks}
    <3>1. CASE i = entryId
      BY <1>1, <1>3, <1>4, <1>9, <1>10, <1>11, <2>1, <3>1
    <3>2. CASE i # entryId
      BY <1>1, <1>4, <1>12, <2>1, <3>2 DEF FreshInv, BlocksFresh
    <3> QED
      BY <3>1, <3>2
  <2> QED
    BY <1>4, <2>1 DEF BlocksFresh, StoredBlocks
<1> QED
  BY <1>5, <1>6, <1>7, <1>8, <1>13, <1>14 DEF FreshInv

\* cleanup_entries drops rows and block rows, and changes nothing else but marks.
LEMMA CleanupFresh ==
    ASSUME TypeInv, FreshInv, Cleanup \/ CleanupPartial
    PROVE  FreshInv'
<1>0. entries \in Rows
  BY FileTypes
<1>1. /\ fs' = fs /\ clock' = clock /\ finds' = finds /\ pc' # "manip"
      /\ stage' = stage /\ blkNo' = blkNo /\ ctx' = ctx /\ BlocksDropped
  BY DEF Cleanup, CleanupPartial, CleanupThrows, treeVars, localVars
<1>2. \A i \in Used' : /\ i \in Used
                       /\ entries'[i].node = entries[i].node /\ entries'[i].mtime = entries[i].mtime
                       /\ entries'[i].digest = entries[i].digest /\ entries'[i].size = entries[i].size
  <2>1. \A i \in Used : entries[i] \in Row
    BY <1>0, UsedRow
  <2>2. CASE entries' = RowsReset
    <3> DEFINE r(i) == [entries[i] EXCEPT !.alive = 1]
    <3>1. \A i \in Used : /\ r(i).node = entries[i].node /\ r(i).mtime = entries[i].mtime
                          /\ r(i).digest = entries[i].digest /\ r(i).size = entries[i].size
      BY <2>1 DEF Row
    <3>2. \A i \in Used' : i \in Used /\ entries'[i] = r(i)
      BY <2>2 DEF RowsReset, Used
    <3> HIDE DEF r
    <3> QED
      BY <3>1, <3>2
  <2>3. CASE entries' = RowsDropped \/ entries' = entries
    BY <2>3 DEF RowsDropped, Used
  <2> QED
    BY <2>2, <2>3 DEF Cleanup, CleanupPartial
<1>3. Stamped'
  BY <1>1, <1>2 DEF FreshInv, Stamped, Present
<1>4. ListingsOld'
  <2>1. \A e : (Seen(e) => Seen(e)') /\ (NotAhead(e) => NotAhead(e)')
    BY <1>1, <1>2 DEF Seen, AsListed, Present, NotAhead
  <2> QED
    BY <1>1, <2>1 DEF FreshInv, ListingsOld
<1>5. ListedOnce' /\ RowInHand' /\ DataInHand'
  BY <1>1 DEF FreshInv, ListedOnce, RowInHand, DataInHand
<1>6. \A i \in Used' : Recorded(i)' <=> Recorded(i)
  BY <1>1, <1>2 DEF Recorded
<1>7. DigestFresh'
  BY <1>1, <1>2, <1>6 DEF FreshInv, DigestFresh
<1>8. \A i \in Used' : blocks'[i] = blocks[i] \/ blocks'[i] = NoBlocks
  BY <1>1, RowIds DEF BlocksDropped, Used
<1>9. BlocksFresh'
  BY <1>1, <1>2, <1>6, <1>8 DEF FreshInv, BlocksFresh, StoredBlocks, NoBlocks
<1> QED
  BY <1>3, <1>4, <1>5, <1>7, <1>9 DEF FreshInv

\* The other steps touch neither rows, nor listings, nor the tree.
LEMMA OtherFresh ==
    ASSUME TypeInv, FreshInv,
           \/ Wake \/ Stop \/ Restart \/ RequestShutdown \/ BeginScan \/ Crash
           \/ AdmitShutdown \/ AdmitSkip \/ AdmitUndefined \/ AdmitKnown
           \/ OpenFileFails \/ ReadFails \/ StatementThrows \/ CleanupFails \/ UNCHANGED vars
    PROVE  FreshInv'
<1> USE DEF treeVars, dbVars
<1>1. CASE Wake \/ Stop \/ Restart \/ RequestShutdown \/ UNCHANGED vars \/ AdmitKnown
  <2>1. /\ SameListings /\ entries' = entries /\ blocks' = blocks /\ fs' = fs
        /\ entryId' = entryId /\ blkNo' = blkNo /\ ctx' = ctx /\ pc' = pc
        /\ pc = "manip" => ent' = ent
        /\ stage' = stage \/ (stage \notin {"read", "trim", "record"}
                                /\ stage' \in {"awake", "stopped", "entry"})
    BY <1>1 DEF Wake, Stop, Restart, RequestShutdown, AdmitKnown, Waiting, InManip, SameListings,
       vars,
                readerVars, readVars, localVars
  <2>2. RowInHand' /\ DataInHand'
    BY <2>1 DEF FreshInv, RowInHand, DataInHand, SameListings, AsListed
  <2> QED
    BY <2>1, <2>2, ListingsKept, DigestsKept DEF FreshInv
<1>2. CASE BeginScan \/ Crash
  <2>1. /\ SameListings /\ entries' = entries /\ blocks' = blocks /\ fs' = fs
        /\ blkNo' = 0 /\ ctx' = <<>> /\ pc' # "manip"
    BY <1>2 DEF BeginScan, BeginRead, ClearLocals, Crash, SameListings
  <2>2. RowInHand' /\ DataInHand'
    BY <2>1 DEF RowInHand, DataInHand
  <2> QED
    BY <2>1, <2>2, ListingsKept, DigestsKept DEF FreshInv
<1>3. CASE \/ AdmitShutdown \/ AdmitSkip \/ AdmitUndefined
           \/ OpenFileFails \/ ReadFails \/ StatementThrows
  <2>1. /\ SameListings /\ entries' = entries /\ blocks' = blocks /\ fs' = fs /\ ClearLocals
    BY <1>3 DEF AdmitShutdown, AdmitSkip, AdmitUndefined, OpenFileFails, ReadFails, StatementThrows,
                Return, ManipReturns, ReturnTo, ManipThrows, Leave, SameListings
  <2> QED
    BY <2>1, ClearedHand, ListingsKept, DigestsKept DEF FreshInv
<1>4. CASE CleanupFails
  <2>1. /\ SameListings /\ entries' = entries /\ blocks' = blocks /\ fs' = fs
        /\ stage' = stage /\ blkNo' = blkNo /\ ctx' = ctx /\ pc' # "manip"
    BY <1>4 DEF CleanupFails, CleanupThrows, SameListings, localVars
  <2>2. RowInHand' /\ DataInHand'
    BY <2>1 DEF FreshInv, RowInHand, DataInHand
  <2> QED
    BY <2>1, <2>2, ListingsKept, DigestsKept DEF FreshInv
<1> QED
  BY <1>1, <1>2, <1>3, <1>4

LEMMA FreshStep ==
    ASSUME "silent" \notin FaultKinds, TypeInv, Position, RowInv, FreshInv, [Next]_vars
    PROVE  FreshInv'
<1>1. CASE Walk \/ Cleanup \/ CleanupPartial \/ RecordDigest
  BY <1>1, WalkFresh, CleanupFresh, RecordDigestFresh
<1>2. CASE AdmitRoot \/ EnterDirectory \/ EnterFile
  BY <1>2, AdmitRootFresh, EnterDirectoryFresh, EnterFileFresh
<1>3. CASE OpenFile \/ ReadEnd \/ ReadBlock \/ TrimBlocks
  BY <1>3, OpenEndFresh, ReadBlockFresh, TrimBlocksFresh
<1>4. CASE TreeStep(Held) /\ UNCHANGED <<readVars, faults, dbVars, localVars, scanVars>>
  BY <1>4, TreeStepFresh
<1>5. CASE \/ Wake \/ Stop \/ Restart \/ RequestShutdown \/ BeginScan \/ Crash
           \/ AdmitShutdown \/ AdmitSkip \/ AdmitUndefined \/ AdmitKnown
           \/ OpenFileFails \/ ReadFails \/ StatementThrows \/ CleanupFails \/ UNCHANGED vars
  BY <1>5, OtherFresh
<1> QED
  BY <1>1, <1>2, <1>3, <1>4, <1>5 DEF Next, Worker, ManipStep, Environment

LEMMA FreshInit ==
    ASSUME Init
    PROVE  FreshInv
<1>1. Used = {}
  BY DEF Init, Used
<1>2. Stamped
  <2>1. \A p \in Path : fs[p].mtime <= clock
    BY TreeAssumption DEF Init, ReaderInit, TreeInit, Nothing, Directory, File
  <2> QED
    BY <1>1, <2>1 DEF Stamped
<1>3. ListingsOld /\ ListedOnce /\ RowInHand /\ DataInHand
  BY DEF Init, ReaderInit, ListingsOld, ListedOnce, RowInHand, DataInHand
<1>4. DigestFresh /\ BlocksFresh
  BY <1>1 DEF DigestFresh, BlocksFresh
<1> QED
  BY <1>2, <1>3, <1>4 DEF FreshInv

LEMMA FreshInvariant ==
    ASSUME "silent" \notin FaultKinds
    PROVE  Steps => []FreshInv
<1>1. Init => FreshInv
  BY FreshInit
<1>2. TypeInv /\ Position /\ RowInv /\ FreshInv /\ [Next]_vars => FreshInv'
  BY FreshStep
<1> QED
  BY <1>1, <1>2, TypeInvariant, PositionInvariant, RowInvariant, PTL DEF Steps

\* A digest under a file's present time stamp is that of its present data, with
\* its size, though the stamp was taken from the listing and the data were read
\* later, while the file, the rows and the scan itself may change, fail or end
\* between any two statements.
THEOREM DigestsAlwaysFresh ==
    ASSUME "silent" \notin FaultKinds
    PROVE  Spec => []DigestFresh
<1>1. FreshInv => DigestFresh
  BY DEF FreshInv
<1> QED
  BY <1>1, FreshInvariant, SpecSteps, PTL

\* So are its block rows: never a mixture of old and new ones, nor a part.
THEOREM BlocksAlwaysFresh ==
    ASSUME "silent" \notin FaultKinds
    PROVE  Spec => []BlocksFresh
<1>1. FreshInv => BlocksFresh
  BY DEF FreshInv
<1> QED
  BY <1>1, FreshInvariant, SpecSteps, PTL

-----------------------------------------------------------------------------
(* Module IndexMap: read by path, the table is an index, and each step of  *)
(* the indexer one of Index or none, as long as no INSERT is lost.         *)

\* A path has one row, so that RowOf has no choice.
OneRow == \A i, j \in Used : entries[i].node = entries[j].node => i = j

LEMMA ChosenRow ==
    ASSUME NEW S, NEW E, NEW i \in S, \A j \in S : E[j].node = E[i].node => j = i
    PROVE  (CHOOSE j \in S : E[j].node = E[i].node) = i
<1> QED
  OBVIOUS

\* What RowsByPath is, now and in the next state.
LEMMA RowsRead ==
    ASSUME OneRow
    PROVE  /\ RowsByPath = [p \in DOMAIN RowsByPath |-> RowsByPath[p]]
           /\ DOMAIN RowsByPath = {entries[i].node : i \in Used}
           /\ \A i \in Used : RowsByPath[entries[i].node] = Recall(i)
<1>1. ASSUME NEW i \in Used
      PROVE  RowOf(entries[i].node) = i
  BY ChosenRow DEF OneRow, RowOf
<1> QED
  BY <1>1 DEF RowsByPath

LEMMA RowsReadNext ==
    ASSUME OneRow'
    PROVE  /\ RowsByPath' = [p \in DOMAIN RowsByPath' |-> RowsByPath'[p]]
           /\ DOMAIN RowsByPath' = {entries'[i].node : i \in Used'}
           /\ \A i \in Used' : RowsByPath'[entries'[i].node] = Recall(i)'
<1>1. ASSUME NEW i \in Used'
      PROVE  (CHOOSE j \in Used' : entries'[j].node = entries'[i].node) = i
  <2>1. \A j \in Used' : entries'[j].node = entries'[i].node => j = i
    BY DEF OneRow
  <2> QED
    BY <2>1, ChosenRow
<1> QED
  BY <1>1 DEF RowsByPath, RowOf

\* How RowsByPath follows a change of one row, a new row, and the loss of rows.
LEMMA RowRenewed ==
    ASSUME OneRow, OneRow', NEW i \in Used, Used' = Used, entries'[i].node = entries[i].node,
           \A j \in Used : j # i => entries'[j] = entries[j]
    PROVE  RowsByPath' = [RowsByPath EXCEPT ![entries[i].node] = Recall(i)']
<1>1. DOMAIN RowsByPath' = DOMAIN RowsByPath
  BY RowsRead, RowsReadNext
<1>2. ASSUME NEW j \in Used
      PROVE  RowsByPath'[entries[j].node]
                = IF j = i THEN Recall(i)' ELSE RowsByPath[entries[j].node]
  <2>1. RowsByPath'[entries'[j].node] = Recall(j)' /\ entries'[j].node = entries[j].node
    BY RowsReadNext
  <2>2. j # i => Recall(j)' = Recall(j)
    BY DEF Recall
  <2> QED
    BY <2>1, <2>2, RowsRead
<1>3. \A j \in Used : j # i => entries[j].node # entries[i].node
  BY DEF OneRow
<1>4. \A q \in DOMAIN RowsByPath :
          RowsByPath'[q] = IF q = entries[i].node THEN Recall(i)' ELSE RowsByPath[q]
  BY <1>2, <1>3, RowsRead
<1> QED
  BY <1>1, <1>4, RowsRead, RowsReadNext

LEMMA RowCameUp ==
    ASSUME OneRow, OneRow', NEW i, i \notin Used, Used' = Used \cup {i},
           \A j \in Used : entries'[j] = entries[j]
    PROVE  /\ entries'[i].node \notin DOMAIN RowsByPath
           /\ RowsByPath' = [q \in DOMAIN RowsByPath \cup {entries'[i].node} |->
                                IF q = entries'[i].node THEN Recall(i)' ELSE RowsByPath[q]]
<1>1. DOMAIN RowsByPath' = DOMAIN RowsByPath \cup {entries'[i].node}
  BY RowsRead, RowsReadNext
<1>2. \A j \in Used : entries'[j].node # entries'[i].node
  BY DEF OneRow
<1>3. entries'[i].node \notin DOMAIN RowsByPath
  BY <1>2, RowsRead
<1>4. ASSUME NEW j \in Used
      PROVE  RowsByPath'[entries[j].node] = RowsByPath[entries[j].node]
  <2>1. RowsByPath'[entries'[j].node] = Recall(j)'
    BY RowsReadNext
  <2>2. Recall(j)' = Recall(j)
    BY DEF Recall
  <2> QED
    BY <2>1, <2>2, RowsRead
<1>5. RowsByPath'[entries'[i].node] = Recall(i)'
  BY RowsReadNext
<1>6. \A q \in DOMAIN RowsByPath : RowsByPath'[q] = RowsByPath[q]
  BY <1>4, RowsRead
<1> QED
  BY <1>1, <1>3, <1>5, <1>6, RowsReadNext

LEMMA RowsGone ==
    ASSUME OneRow, OneRow',
           \A i \in Used' : i \in Used /\ entries'[i].node = entries[i].node /\ Recall(i)' = Recall(i)
    PROVE  RowsByPath' = [q \in {entries[i].node : i \in Used'} |-> RowsByPath[q]]
<1>1. DOMAIN RowsByPath' = {entries[i].node : i \in Used'}
  BY RowsReadNext
<1>2. ASSUME NEW i \in Used'
      PROVE  RowsByPath'[entries[i].node] = RowsByPath[entries[i].node]
  <2>1. RowsByPath'[entries'[i].node] = Recall(i)' /\ entries'[i].node = entries[i].node
    BY RowsReadNext
  <2> QED
    BY <2>1, RowsRead
<1> QED
  BY <1>1, <1>2, RowsReadNext

-----------------------------------------------------------------------------
(* The steps of the indexer, seen through RowsByPath.                      *)

\* The sizes that read() hands on are those of files.
ListedSizes ==
    /\ \A d \in Path : \A e \in finds[d] : e.size <= MaxBlocks
    /\ pc = "manip" => ent.size <= MaxBlocks

IndexStep == [Observed!IndexNext]_Observed!indexVars

LEMMA SameTable ==
    ASSUME entries' = entries, OneRow, UNCHANGED treeVars
    PROVE  OneRow' /\ IndexStep
<1>1. Used' = Used /\ OneRow'
  BY DEF Used, OneRow
<1>2. RowsByPath' = RowsByPath
  BY <1>1 DEF RowsByPath, RowOf, Recall
<1> QED
  BY <1>1, <1>2 DEF IndexStep, Observed!indexVars, Observed!treeVars, treeVars

\* The rows that remain keep their paths: still one each.
LEMMA CarriedOne ==
    ASSUME OneRow, \A i \in Used' : i \in Used /\ entries'[i].node = entries[i].node
    PROVE  OneRow'
<1> QED
  BY DEF OneRow

\* A row with a path's parent and name is the only one of that path.
LEMMA GrownOne ==
    ASSUME TypeInv, RowTree, OneRow, UniqueKeys',
           NEW p \in EntryId, NEW n \in Path, NEW id, Grown(p, n, id), ParentOf(p, n)
    PROVE  OneRow'
<1>1. ASSUME NEW i \in Used, entries[i].node = n
      PROVE  i = id
  <2>1. entries[i].parent = p
    <3>1. CASE n = Root /\ p = 0
      BY <1>1, <3>1 DEF RowTree, PathsFaithful
    <3>2. CASE n \in Node /\ IsRowOf(p, Up[n])
      <4>1. entries[i].parent \in Used /\ entries[entries[i].parent].node = Up[n]
        BY <1>1, <3>2, TreeAssumption DEF RowTree, PathsFaithful
      <4> QED
        BY <3>2, <4>1 DEF OneRow, IsRowOf
    <3> QED
      BY <3>1, <3>2 DEF ParentOf
  <2>2. entries[i].name = NameOf[n]
    BY <1>1 DEF RowTree, PathsFaithful
  <2>3. i \in Used' /\ entries'[i].parent = p /\ entries'[i].name = NameOf[n]
    BY <2>1, <2>2 DEF Grown, RowKept
  <2> QED
    BY <2>3 DEF Grown, UniqueKeys
<1>2. \A i \in Used : entries'[i].node = entries[i].node
  BY DEF Grown, RowKept
<1> QED
  BY <1>1, <1>2 DEF OneRow, Grown

\* update_entry inserts, refreshes, or touches, which nobody sees.
LEMMA UpdateObserved ==
    ASSUME "silent" \notin FaultKinds, TypeInv, RowTree, UniqueKeys, OneRow, UNCHANGED treeVars,
           NEW p \in EntryId, NEW n \in Path, NEW dir \in BOOLEAN, NEW mtime,
           NEW size \in Nat, size <= MaxBlocks,
           NEW id, UpdateEntry(p, n, dir, mtime, size, id), ParentOf(p, n)
    PROVE  OneRow' /\ IndexStep
<1> DEFINE old == Selected(p, NameOf[n])
           f == [dir |-> dir, size |-> size]
<1>0. entries \in Rows /\ PathsFaithful
  BY DEF TypeInv, TypeOK, Rows, RowTree
<1>1. OneRow'
  <2>1. Grown(p, n, id)
    BY <1>0, UpdateGrows
  <2>2. UniqueKeys'
    BY <1>0, RowsKeyed, UpdateUnique
  <2> QED
    BY <2>1, <2>2, GrownOne
<1>2. old # 0 => /\ old \in Used /\ entries[old] \in Row /\ entries[old].node = n
                 /\ n \in DOMAIN RowsByPath /\ RowsByPath[n] = Recall(old)
  <2>1. SUFFICES ASSUME old # 0
                 PROVE  /\ old \in Used /\ entries[old] \in Row /\ entries[old].node = n
                        /\ n \in DOMAIN RowsByPath /\ RowsByPath[n] = Recall(old)
    OBVIOUS
  <2>2. old \in Used /\ entries[old].node = n
    BY <1>0, <2>1, SelectedRow, SelectedIsRow
  <2> QED
    BY <1>0, <2>2, UsedRow, RowsRead
<1>3. f \in Observed!Facts /\ f.dir = dir /\ f.size = size
  BY IndexerAssumption DEF Observed!Facts
<1>4. CASE UpToDate(old, mtime) /\ entries' = Touched(old)
  <2> DEFINE r == [entries[old] EXCEPT !.alive = 0]
  <2>1. old \in Used /\ entries[old] \in Row
    BY <1>2, <1>4 DEF UpToDate
  <2>2. /\ r \in Row /\ r.node = entries[old].node /\ r.mtime = entries[old].mtime
        /\ r.digest = entries[old].digest /\ r.size = entries[old].size /\ r.dir = entries[old].dir
    BY <2>1 DEF Row
  <2>3. entries' = [entries EXCEPT ![old] = r]
    BY <1>4, <2>1 DEF Touched
  <2> HIDE DEF r
  <2>4. Used' = Used /\ entries'[old] = r /\ \A i \in Used : i # old => entries'[i] = entries[i]
    BY <1>0, <2>1, <2>2, <2>3, NullAssumption DEF Used, Rows
  <2>5. \A i \in Used : entries'[i].node = entries[i].node /\ Recall(i)' = Recall(i)
    BY <2>2, <2>4 DEF Recall
  <2>6. RowsByPath' = [q \in {entries[i].node : i \in Used'} |-> RowsByPath[q]]
    BY <1>1, <2>4, <2>5, RowsGone
  <2>7. RowsByPath' = RowsByPath
    BY <2>4, <2>6, RowsRead
  <2> QED
    BY <1>1, <2>7 DEF IndexStep, Observed!indexVars, Observed!treeVars, treeVars
<1>5. CASE /\ old # 0 /\ id = old
           /\ entries' = [entries EXCEPT ![old] =
                 [@ EXCEPT !.alive = 0, !.dir = dir, !.size = size, !.digest = Null]]
  <2> DEFINE r == [entries[id] EXCEPT !.alive = 0, !.dir = dir, !.size = size, !.digest = Null]
  <2>1. /\ id \in Used /\ entries[id] \in Row /\ entries[id].node = n
        /\ n \in DOMAIN RowsByPath /\ RowsByPath[n] = Recall(id)
    BY <1>2, <1>5
  <2>2. /\ r \in Row /\ r.node = n /\ r.mtime = entries[id].mtime
        /\ r.digest = Null /\ r.size = size /\ r.dir = dir
    BY <2>1 DEF Row
  <2>3. entries' = [entries EXCEPT ![id] = r]
    BY <1>5
  <2> HIDE DEF r
  <2>4. Used' = Used /\ entries'[id] = r /\ \A i \in Used : i # id => entries'[i] = entries[i]
    BY <1>0, <2>1, <2>2, <2>3, NullAssumption DEF Used, Rows
  <2>5. RowsByPath' = [RowsByPath EXCEPT ![entries[id].node] = Recall(id)']
    BY <1>1, <2>1, <2>2, <2>4, RowRenewed
  <2>6. Recall(id)' = [dir |-> dir, size |-> size, mtime |-> RowsByPath[n].mtime, digest |-> Null]
    BY <2>1, <2>2, <2>4 DEF Recall
  <2>7. RowsByPath' = [RowsByPath EXCEPT ![n] = Observed!RowWith(f, @.mtime, Null)]
    BY <1>3, <2>1, <2>5, <2>6 DEF Observed!RowWith
  <2>8. Observed!Refresh(n)
    BY <1>3, <2>1, <2>7 DEF Observed!Refresh, Observed!Indexed, Observed!treeVars, treeVars
  <2> QED
    BY <1>1, <2>8 DEF IndexStep, Observed!IndexNext, Observed!Path, Path
<1>6. CASE /\ old = 0 /\ id \in NextRowids
           /\ entries' = [entries EXCEPT ![id] = NewRow(p, n, dir, size)]
  <2>1. NewRow(p, n, dir, size) \in Row /\ id \in RowId \ Used
    BY <1>6 DEF NewRow, Row, Name, NextRowids
  <2>2. /\ Used' = Used \cup {id} /\ entries'[id] = NewRow(p, n, dir, size)
        /\ \A i \in Used : entries'[i] = entries[i]
    BY <1>0, <1>6, <2>1, NullAssumption DEF Used, Rows
  <2>3. entries'[id].node = n /\ Recall(id)' = Observed!RowWith(f, 0, Null)
    BY <1>3, <2>2 DEF NewRow, Recall, Observed!RowWith
  <2>4. /\ n \notin DOMAIN RowsByPath
        /\ RowsByPath' = [q \in DOMAIN RowsByPath \cup {n} |->
                             IF q = n THEN Recall(id)' ELSE RowsByPath[q]]
    <3>1. /\ entries'[id].node \notin DOMAIN RowsByPath
          /\ RowsByPath' = [q \in DOMAIN RowsByPath \cup {entries'[id].node} |->
                               IF q = entries'[id].node THEN Recall(id)' ELSE RowsByPath[q]]
      BY <1>1, <2>1, <2>2, RowCameUp
    <3> QED
      BY <2>3, <3>1
  <2>5. n # Root => Up[n] \in DOMAIN RowsByPath
    <3>1. n # Root => p \in Used /\ entries[p].node = Up[n]
      BY DEF ParentOf, IsRowOf
    <3> QED
      BY <3>1, RowsRead
  <2>6. RowsByPath' = [q \in DOMAIN RowsByPath \cup {n} |->
                          IF q = n THEN Observed!RowWith(f, 0, Null) ELSE RowsByPath[q]]
    BY <2>3, <2>4
  <2>7. Observed!Insert(n)
    BY <1>3, <2>4, <2>5, <2>6 DEF Observed!Insert, Observed!Indexed, Observed!treeVars, treeVars
  <2> QED
    BY <1>1, <2>7 DEF IndexStep, Observed!IndexNext, Observed!Path, Path
<1> QED
  BY <1>4, <1>5, <1>6 DEF UpdateEntry, Lost, Strike

LEMMA AdmitRootObserved ==
    ASSUME "silent" \notin FaultKinds, TypeInv, Position, RowInv, UniqueKeys, OneRow, AdmitRoot
    PROVE  OneRow' /\ IndexStep
<1>1. PICK id \in EntryId : UpdateEntry(0, path, TRUE, 0, 0, id)
  BY DEF AdmitRoot, RootUnknown, RootEntered
<1>2. path = Root /\ path \in Path
  <2>1. Len(stack) \in Nat
    BY LenProperties DEF TypeInv, TypeOK, ReaderTypeOK
  <2> QED
    BY <2>1 DEF AdmitRoot, RootUnknown, RootEntered, InManip, Position, InRead, Scanning, TypeInv,
       TypeOK, ReaderTypeOK
<1>3. ParentOf(0, path) /\ 0 \in EntryId /\ 0 <= MaxBlocks /\ UNCHANGED treeVars
  BY <1>2, RowIds, IndexerAssumption DEF ParentOf, AdmitRoot, RootUnknown, RootEntered
<1> QED
  BY <1>1, <1>2, <1>3, UpdateObserved DEF RowInv

LEMMA EnterObserved ==
    ASSUME "silent" \notin FaultKinds, TypeInv, Position, RowInv, ListedSizes, UniqueKeys, OneRow,
           EnterDirectory \/ EnterFile
    PROVE  OneRow' /\ IndexStep
<1>1. InManip("entry") /\ UNCHANGED treeVars
  BY DEF EnterDirectory, DirectoryEntered, EnterFile, FileEntered, Return
<1>2. PICK id \in EntryId, dir \in BOOLEAN :
          UpdateEntry(parents[path], ent.node, dir, ent.mtime, ent.size, id)
  BY DEF EnterDirectory, DirectoryEntered, EnterFile, FileEntered
<1>3. /\ parents[path] \in EntryId /\ ent.node \in Path /\ ParentOf(parents[path], ent.node)
      /\ ent.size \in Nat /\ ent.size <= MaxBlocks
  BY <1>1, EntryParent, EntType DEF InManip, ListedSizes
<1> QED
  BY <1>1, <1>2, <1>3, UpdateObserved DEF RowInv

\* Index's Record, of data that are the file's if the stamp is.
LEMMA RecordObserved ==
    ASSUME TypeInv, Position, RowInv, FreshInv, OneRow, RecordDigest
    PROVE  OneRow' /\ IndexStep
<1> DEFINE r(i) == [entries[i] EXCEPT !.alive = 0, !.mtime = ent.mtime, !.digest = ctx]
<1>1. PICK i \in RowId : i = entryId /\ i \in Used
  BY DEF RecordDigest, InManip, RowInv, EntryKnown, Used
<1>2. /\ entries[i] \in Row /\ entries[i].node = ent.node /\ ent.node \in Path
      /\ ent.mtime \in Nat /\ Seen(ent) /\ ctx \in Seq(Block) /\ Len(ctx) = blkNo
      /\ entries[i].size = ent.size /\ blkNo \in 0 .. MaxBlocks
  BY <1>1, FileTypes, UsedRow
     DEF RecordDigest, InManip, FreshInv, RowInHand, DataInHand, ListingsOld, Position, FindData,
     Path,
         TypeInv, TypeOK
<1>3. /\ r(i) \in Row /\ r(i).node = ent.node /\ r(i).mtime = ent.mtime /\ r(i).digest = ctx
      /\ r(i).size = entries[i].size /\ r(i).dir = entries[i].dir
  BY <1>2 DEF Row
<1>4. /\ entries'[i] = r(i) /\ \A j \in RowId : j # i => entries'[j] = entries[j]
  BY <1>1 DEF RecordDigest, Used
<1> HIDE DEF r
<1>5. Used' = Used
  BY <1>1, <1>3, <1>4, NullAssumption DEF Used
<1>6. \A j \in Used : j # i => entries'[j] = entries[j]
  BY <1>4 DEF Used
<1>7. OneRow'
  <2>1. \A j \in Used' : j \in Used /\ entries'[j].node = entries[j].node
    BY <1>2, <1>3, <1>4, <1>5, <1>6
  <2> QED
    BY <2>1, CarriedOne
<1>8. RowsByPath' = [RowsByPath EXCEPT ![entries[i].node] = Recall(i)']
  BY <1>1, <1>2, <1>3, <1>4, <1>5, <1>6, <1>7, RowRenewed
<1>9. ent.node \in DOMAIN RowsByPath /\ RowsByPath[ent.node] = Recall(i)
  BY <1>1, <1>2, RowsRead
<1>10. RowsByPath[ent.node].size = ent.size /\ RowsByPath[ent.node].dir = entries[i].dir
  BY <1>2, <1>9 DEF Recall
<1>11. RowsByPath' = [RowsByPath EXCEPT ![ent.node] = Observed!RowWith(@, ent.mtime, ctx)]
  <2>1. Recall(i)' = [dir |-> entries[i].dir, size |-> ent.size, mtime |-> ent.mtime, digest |-> ctx]
    BY <1>2, <1>3, <1>4 DEF Recall
  <2> QED
    BY <1>2, <1>8, <1>9, <1>10, <2>1 DEF Observed!RowWith
<1>12. Observed!Describes(ent.node, RowsByPath[ent.node].size, ent.mtime, ctx)
  <2>1. AsListed(ent) => ctx = fs[ent.node].data /\ ent.size = Len(ctx)
    BY ReadThrough DEF RecordDigest
  <2> QED
    BY <1>10, <2>1 DEF Observed!Describes, AsListed
<1>13. ent.mtime \in 0 .. clock /\ ctx \in Observed!Digests
  <2>1. ent.mtime <= clock /\ clock \in Nat
    BY <1>2, FileTypes DEF Seen
  <2>2. ctx \in [1 .. Len(ctx) -> Block]
    BY <1>2, LenProperties
  <2> QED
    BY <1>2, <2>1, <2>2 DEF Observed!Digests
<1>14. Observed!Record(ent.node)
  BY <1>9, <1>11, <1>12, <1>13
     DEF Observed!Record, Observed!Indexed, Observed!treeVars, RecordDigest, Return, treeVars
<1> QED
  BY <1>2, <1>7, <1>14 DEF IndexStep, Observed!IndexNext, Observed!Path, Path

\* Index's Sweep of the rows that were not met, or nothing.
LEMMA CleanupObserved ==
    ASSUME TypeInv, RowInv, OneRow, Cleanup \/ CleanupPartial
    PROVE  OneRow' /\ IndexStep
<1>0. entries \in Rows /\ UNCHANGED treeVars
  BY FileTypes DEF Cleanup, CleanupPartial, CleanupThrows
<1>1. CASE entries' = entries
  BY <1>0, <1>1, SameTable
<1>2. CASE entries' = RowsReset \/ entries' = RowsDropped
  <2> DEFINE r(i) == [entries[i] EXCEPT !.alive = 1]
             S == {entries[i].node : i \in Unmet}
  <2>1. \A i \in Used : /\ entries[i] \in Row /\ r(i) \in Row /\ r(i).node = entries[i].node
                        /\ r(i).mtime = entries[i].mtime /\ r(i).digest = entries[i].digest
                        /\ r(i).size = entries[i].size /\ r(i).dir = entries[i].dir
    BY <1>0, UsedRow DEF Row
  <2>2. \A i \in RowId : IF i \in Used \ Unmet THEN entries'[i] \in {r(i), entries[i]}
                         ELSE entries'[i] = Null
    BY <1>2 DEF RowsReset, RowsDropped, Used
  <2> HIDE DEF r
  <2>3. Used' = Used \ Unmet
    BY <2>1, <2>2, NullAssumption DEF Used
  <2>4. \A i \in Used' : /\ i \in Used /\ entries'[i].node = entries[i].node
                         /\ Recall(i)' = Recall(i)
    BY <2>1, <2>2, <2>3 DEF Recall, Used
  <2>5. OneRow'
    BY <2>4, CarriedOne
  <2>6. RowsByPath' = [q \in {entries[i].node : i \in Used'} |-> RowsByPath[q]]
    BY <2>4, <2>5, RowsGone
  <2>7. {entries[i].node : i \in Used'} = DOMAIN RowsByPath \ S /\ S \in SUBSET DOMAIN RowsByPath
    <3>1. \A i \in Used' : entries[i].node \notin S
      BY <2>3 DEF OneRow, Unmet
    <3> QED
      BY <2>3, <3>1, RowsRead DEF Unmet
  <2>8. ASSUME NEW q \in DOMAIN RowsByPath \ {Root}, Up[q] \in S
        PROVE  q \in S
    <3>1. PICK i \in Used : entries[i].node = q
      BY RowsRead
    <3>2. PICK j \in Unmet : entries[j].node = Up[q]
      BY <2>8
    <3>3. entries[i].parent \in Used /\ entries[entries[i].parent].node = Up[q]
      BY <3>1 DEF RowInv, RowTree, PathsFaithful
    <3>4. entries[i].parent = j
      BY <3>2, <3>3 DEF OneRow, Unmet
    <3>5. entries[i].alive # 0
      <4>1. entries[i].parent # 0
        BY <3>3, RowIds DEF Used
      <4> QED
        BY <3>2, <3>4, <4>1 DEF RowInv, RowTree, MarkedUpward, Unmet
    <3>6. i \in Unmet
      BY <2>1, <3>5 DEF Unmet, Row
    <3> QED
      BY <3>1, <3>6
  <2>9. Observed!Sweep
    <3>1. RowsByPath' = [q \in DOMAIN RowsByPath \ S |-> RowsByPath[q]]
      BY <2>6, <2>7
    <3> HIDE DEF S
    <3> QED
      BY <1>0, <2>7, <2>8, <3>1 DEF Observed!Sweep, Observed!Indexed, Observed!treeVars, treeVars
  <2> QED
    BY <2>5, <2>9 DEF IndexStep, Observed!IndexNext
<1> QED
  BY <1>1, <1>2 DEF Cleanup, CleanupPartial

\* What other programs do, the indexer holding a file open or not.
LEMMA TreeObserved ==
    ASSUME OneRow, TreeStep(Held), entries' = entries
    PROVE  OneRow' /\ IndexStep
<1>1. OneRow'
  BY DEF OneRow, Used
<1>2. RowsByPath' = RowsByPath
  BY DEF RowsByPath, RowOf, Recall, Used
<1>3. Observed!FsChange({})
  <2>1. ASSUME NEW n \in Volatile \cap Node, CreateEntry(n)
        PROVE  Observed!CreateEntry(n)
    BY <2>1 DEF CreateEntry, Observed!CreateEntry, Tick, Observed!Tick, Present, Observed!Present,
                EntriesAt, Observed!EntriesAt, Directory, Observed!Directory, File, Observed!File
  <2>2. ASSUME NEW n \in Volatile \cap Node, RewriteFile(n)
        PROVE  Observed!RewriteFile(n)
    BY <2>2 DEF RewriteFile, Observed!RewriteFile, Tick, Observed!Tick, File, Observed!File
  <2>3. ASSUME NEW n \in Volatile \cap Node, RemoveEntry(n, Held)
        PROVE  Observed!RemoveEntry(n, {})
    BY <2>3 DEF RemoveEntry, Observed!RemoveEntry, Tick, Observed!Tick, Present, Observed!Present,
                Children, Observed!Children, Nothing, Observed!Nothing
  <2>4. ASSUME Unmount \/ Mount
        PROVE  Observed!Unmount \/ Observed!Mount
    BY <2>4 DEF Unmount, Observed!Unmount, Mount, Observed!Mount, Tick, Observed!Tick, Present,
                Observed!Present, Nothing, Observed!Nothing, Directory, Observed!Directory,
                Path, Observed!Path
  <2>5. \/ \E n \in Volatile \cap Node : CreateEntry(n) \/ RewriteFile(n) \/ RemoveEntry(n, Held)
        \/ Root \in Volatile /\ (Unmount \/ Mount)
    BY DEF TreeStep, FsChange
  <2> QED
    BY <2>1, <2>2, <2>3, <2>4, <2>5 DEF Observed!FsChange
<1> QED
  BY <1>1, <1>2, <1>3 DEF IndexStep, Observed!IndexNext

-----------------------------------------------------------------------------
(* The refinement.                                                         *)

LEMMA SizesStep ==
    ASSUME TypeInv, ListedSizes, [Next]_vars
    PROVE  ListedSizes'
<1>1. CASE Walk
  <2>0. ReaderTypeOK /\ (Scanning => handle \in Path) /\ ReaderLoop
    BY <1>1 DEF Walk, TypeInv, TypeOK, Control
  <2>1. CASE OpenDirectory
    <3>1. /\ path \in Path /\ finds \in [Path -> SUBSET FindData] /\ pc' # "manip"
          /\ finds' = [finds EXCEPT ![path] = Listing(path)]
      BY <2>0, <2>1 DEF OpenDirectory, ReaderTypeOK
    <3>2. \A e \in Listing(path) : e.size <= MaxBlocks
      BY DEF Listing, Children, TypeInv, DataBound, Path
    <3> QED
      BY <3>1, <3>2 DEF ListedSizes
  <2>2. CASE NextEntry
    <3>1. PICK e \in finds[handle] : ent' = e /\ finds' = [finds EXCEPT ![handle] = @ \ {e}]
      BY <2>2 DEF NextEntry
    <3>2. handle \in Path /\ finds \in [Path -> SUBSET FindData]
      BY <2>0, <2>2 DEF NextEntry, Scanning, ReaderTypeOK
    <3>3. e.size <= MaxBlocks /\ \A d \in Path : finds'[d] \subseteq finds[d]
      BY <3>1, <3>2 DEF ListedSizes
    <3> QED
      BY <3>1, <3>3 DEF ListedSizes
  <2>3. CASE ~OpenDirectory /\ ~NextEntry
    <3>1. finds' = finds /\ pc' # "manip"
      BY <2>0, <2>3, ReaderLoopControl
         DEF ReaderLoop, LoopAbort, OpenGone, OpenFails, LoopDone, LoopPop,
             NextEnd, NextAborted, NextError, Descend, StayHere, Leave, CloseDirectory
    <3> QED
      BY <3>1 DEF ListedSizes
  <2> QED
    BY <2>1, <2>2, <2>3
<1>2. CASE ~Walk
  <2>1. finds' = finds /\ (pc' = "manip" => pc = "manip" /\ ent' = ent)
    <3> USE DEF readVars, readerVars
    <3>1. CASE Wake \/ Stop \/ BeginScan
      BY <3>1 DEF Wake, Stop, BeginScan, BeginRead
    <3>2. CASE \/ AdmitShutdown \/ AdmitSkip \/ AdmitUndefined \/ AdmitRoot \/ AdmitKnown
               \/ EnterDirectory \/ EnterFile
      BY <3>2 DEF AdmitShutdown, AdmitSkip, AdmitUndefined, AdmitRoot, RootUnknown, RootEntered,
         AdmitKnown, EnterDirectory, DirectoryEntered,
                  EnterFile, FileEntered, InManip, Return, ManipReturns, ManipThrows, Leave
    <3>3. CASE \/ OpenFile \/ OpenFileFails \/ ReadBlock \/ TrimBlocks \/ ReadEnd \/ ReadFails
               \/ RecordDigest \/ StatementThrows
      BY <3>3 DEF OpenFile, OpenFileFails, ReadBlock, BlockRead, TrimBlocks, ReadEnd, ReadFails,
         RecordDigest,
                  StatementThrows, InManip, Return, ManipReturns, ManipThrows, Leave
    <3>4. CASE Cleanup \/ CleanupFails \/ CleanupPartial
      BY <3>4 DEF Cleanup, CleanupFails, CleanupPartial, CleanupThrows
    <3>5. CASE Environment \/ UNCHANGED vars
      BY <3>5 DEF Environment, Restart, RequestShutdown, Crash, vars
    <3> QED
      BY <1>2, <3>1, <3>2, <3>3, <3>4, <3>5 DEF Next, Worker, ManipStep
  <2> QED
    BY <2>1 DEF ListedSizes
<1> QED
  BY <1>1, <1>2

\* The tree changes only by what other programs do to it.
LEMMA TreeChange ==
    ASSUME [Next]_vars
    PROVE  UNCHANGED treeVars \/ TreeStep(Held)
<1> USE DEF readerVars
<1>1. CASE Walk
  BY <1>1 DEF Walk, ReaderLoop, LoopAbort, OpenDirectory, OpenGone, OpenFails, LoopDone, LoopPop,
              NextEntry, NextEnd, NextAborted, NextError, Descend, StayHere
<1>2. CASE Wake \/ Stop \/ BeginScan \/ Cleanup \/ CleanupFails \/ CleanupPartial
  BY <1>2 DEF Wake, Stop, BeginScan, BeginRead, Cleanup, CleanupFails, CleanupPartial, CleanupThrows
<1>3. CASE \/ AdmitShutdown \/ AdmitSkip \/ AdmitUndefined \/ AdmitRoot \/ AdmitKnown
           \/ EnterDirectory \/ EnterFile
  BY <1>3 DEF AdmitShutdown, AdmitSkip, AdmitUndefined, AdmitRoot, RootUnknown, RootEntered,
     AdmitKnown, EnterDirectory, DirectoryEntered,
              EnterFile, FileEntered, Return
<1>4. CASE \/ OpenFile \/ OpenFileFails \/ ReadBlock \/ TrimBlocks \/ ReadEnd \/ ReadFails
           \/ RecordDigest \/ StatementThrows
  BY <1>4 DEF OpenFile, OpenFileFails, ReadBlock, BlockRead, TrimBlocks, ReadEnd, ReadFails,
     RecordDigest,
              StatementThrows, Return
<1>5. CASE Environment \/ UNCHANGED vars
  BY <1>5 DEF Environment, Restart, RequestShutdown, Crash, vars
<1> QED
  BY <1>1, <1>2, <1>3, <1>4, <1>5 DEF Next, Worker, ManipStep

LEMMA RefinementStep ==
    ASSUME "silent" \notin FaultKinds, TypeInv, Position, RowInv, FreshInv, ListedSizes,
           UniqueKeys, OneRow, [Next]_vars
    PROVE  OneRow' /\ IndexStep
<1>1. CASE AdmitRoot
  BY <1>1, AdmitRootObserved
<1>2. CASE EnterDirectory \/ EnterFile
  BY <1>2, EnterObserved
<1>3. CASE RecordDigest
  BY <1>3, RecordObserved
<1>4. CASE Cleanup \/ CleanupPartial
  BY <1>4, CleanupObserved
<1>5. CASE entries' = entries
  BY <1>5, SameTable, TreeChange, TreeObserved
<1> QED
  BY <1>1, <1>2, <1>3, <1>4, <1>5, EntriesChange

LEMMA RefinementInit ==
    ASSUME Init
    PROVE  OneRow /\ ListedSizes /\ Observed!IndexInit
<1>1. Used = {}
  BY DEF Init, Used
<1>2. OneRow
  BY <1>1 DEF OneRow
<1>3. ListedSizes
  BY DEF Init, ReaderInit, ListedSizes
<1>4. RowsByPath = [p \in {} |-> Null]
  BY <1>1 DEF RowsByPath
<1>5. Observed!TreeInit
  BY DEF Init, ReaderInit, TreeInit, Observed!TreeInit, Path, Observed!Path, Nothing,
         Observed!Nothing, Directory, Observed!Directory, File, Observed!File, EntriesAt,
         Observed!EntriesAt, Present, Observed!Present
<1> QED
  BY <1>2, <1>3, <1>4, <1>5 DEF Observed!IndexInit

LEMMA StepsImplementIndex ==
    ASSUME "silent" \notin FaultKinds
    PROVE  Steps => ImplementsIndex
<1>1. Init => OneRow /\ ListedSizes /\ Observed!IndexInit
  BY RefinementInit
<1>2. TypeInv /\ ListedSizes /\ [Next]_vars => ListedSizes'
  BY SizesStep
<1>3. /\ TypeInv /\ Position /\ RowInv /\ FreshInv /\ ListedSizes /\ UniqueKeys /\ OneRow
      /\ [Next]_vars
      => OneRow' /\ [Observed!IndexNext]_Observed!indexVars
  BY RefinementStep DEF IndexStep
<1> QED
  BY <1>1, <1>2, <1>3, TypeInvariant, PositionInvariant, RowInvariant, FreshInvariant,
     KeysInvariant, PTL
     DEF Steps, ImplementsIndex, Observed!IndexSpec

\* Every step of scans, cleanups, failures, crashes and other programs is, to
\* one who reads the table by path, a step of Index or none.
THEOREM IndexImplemented ==
    ASSUME "silent" \notin FaultKinds
    PROVE  Spec => ImplementsIndex
BY StepsImplementIndex, SpecSteps, PTL

-----------------------------------------------------------------------------
(* Module Index: what the abstract specification promises by itself.       *)

\* Its tree is that of module FileTree.
LEMMA SameTree ==
    /\ Observed!Path = Path /\ Observed!treeVars = treeVars
    /\ Observed!TreeInit => TreeInit
    /\ Observed!FsChange({}) => FsChange({})
<1>1. Observed!Path = Path /\ Observed!treeVars = treeVars
  BY DEF Observed!Path, Path, Observed!treeVars, treeVars
<1>2. Observed!TreeInit => TreeInit
  BY DEF TreeInit, Observed!TreeInit, Path, Observed!Path, Nothing,
         Observed!Nothing, Directory, Observed!Directory, File, Observed!File, EntriesAt,
         Observed!EntriesAt, Present, Observed!Present
<1>3. ASSUME Observed!FsChange({}) PROVE FsChange({})
  <2>1. ASSUME NEW n \in Volatile \cap Node, Observed!CreateEntry(n)
        PROVE  CreateEntry(n)
    BY <2>1 DEF CreateEntry, Observed!CreateEntry, Tick, Observed!Tick, Present, Observed!Present,
                EntriesAt, Observed!EntriesAt, Directory, Observed!Directory, File, Observed!File
  <2>2. ASSUME NEW n \in Volatile \cap Node, Observed!RewriteFile(n)
        PROVE  RewriteFile(n)
    BY <2>2 DEF RewriteFile, Observed!RewriteFile, Tick, Observed!Tick, File, Observed!File
  <2>3. ASSUME NEW n \in Volatile \cap Node, Observed!RemoveEntry(n, {})
        PROVE  RemoveEntry(n, {})
    BY <2>3 DEF RemoveEntry, Observed!RemoveEntry, Tick, Observed!Tick, Present, Observed!Present,
                Children, Observed!Children, Nothing, Observed!Nothing
  <2>4. ASSUME Observed!Unmount \/ Observed!Mount
        PROVE  Unmount \/ Mount
    BY <2>4 DEF Unmount, Observed!Unmount, Mount, Observed!Mount, Tick, Observed!Tick, Present,
                Observed!Present, Nothing, Observed!Nothing, Directory, Observed!Directory,
                Path, Observed!Path
  <2>5. \/ \E n \in Volatile \cap Node : Observed!CreateEntry(n) \/ Observed!RewriteFile(n)
                                            \/ Observed!RemoveEntry(n, {})
        \/ Root \in Volatile /\ (Observed!Unmount \/ Observed!Mount)
    BY <1>3 DEF Observed!FsChange
  <2> QED
    BY <2>1, <2>2, <2>3, <2>4, <2>5 DEF FsChange
<1> QED
  BY <1>1, <1>2, <1>3

RecalledRow ==
    [dir : BOOLEAN, size : 0 .. MaxBlocks, mtime : Nat, digest : Observed!Digests \cup {Null}]

\* Observed!Fresh is inductive because nothing recorded is stamped later than the last
\* change, so that whatever changes next gets a stamp that no row has.
IndexInv ==
    /\ TreeType
    /\ Observed!Indexed \subseteq Path
    /\ RowsByPath \in [Observed!Indexed -> RecalledRow]
    /\ Observed!Rooted
    /\ \A p \in Observed!Indexed : RowsByPath[p].mtime <= clock
    /\ Observed!Fresh

LEMMA RowsSet ==
    ASSUME IndexInv, NEW p \in Path, NEW r \in RecalledRow, r.mtime <= clock,
           Observed!Indexed' = Observed!Indexed \cup {p},
           RowsByPath' = [q \in Observed!Indexed \cup {p} |-> IF q = p THEN r ELSE RowsByPath[q]],
           p # Root => Up[p] \in Observed!Indexed,
           r.digest # Null => Observed!Describes(p, r.size, r.mtime, r.digest),
           fs' = fs, clock' = clock
    PROVE  IndexInv'
<1>1. /\ RowsByPath' \in [Observed!Indexed' -> RecalledRow] /\ Observed!Indexed' \subseteq Path
      /\ TreeType'
  BY DEF IndexInv, TreeType
<1>2. \A q \in Observed!Indexed' : RowsByPath'[q].mtime <= clock'
  BY DEF IndexInv
<1>3. Observed!Rooted'
  BY DEF IndexInv, Observed!Rooted
<1>4. Observed!Fresh'
  BY DEF IndexInv, Observed!Fresh, Observed!Describes
<1> QED
  BY <1>1, <1>2, <1>3, <1>4 DEF IndexInv

LEMMA IndexInvInit ==
    ASSUME Observed!IndexInit
    PROVE  IndexInv
<1>1. FirstStamp \in Nat
  BY TreeAssumption
<1>2. TreeType
  BY <1>1, EntryTypes, SameTree DEF Observed!IndexInit, TreeInit, TreeType
<1>3. Observed!Indexed = {} /\ RowsByPath \in [Observed!Indexed -> RecalledRow]
  BY DEF Observed!IndexInit, Observed!Indexed
<1> QED
  BY <1>2, <1>3 DEF IndexInv, Observed!Rooted, Observed!Fresh

LEMMA IndexInvNext ==
    ASSUME IndexInv, IndexStep
    PROVE  IndexInv'
<1>0. \A f \in Observed!Facts, t \in Nat, d \in Observed!Digests \cup {Null} :
          Observed!RowWith(f, t, d) \in RecalledRow
  BY DEF Observed!Facts, RecalledRow, Observed!RowWith
<1>1. ASSUME NEW p \in Path, Observed!Insert(p) PROVE IndexInv'
  <2>1. PICK f \in Observed!Facts :
          RowsByPath' = [q \in Observed!Indexed \cup {p} |->
                            IF q = p THEN Observed!RowWith(f, 0, Null) ELSE RowsByPath[q]]
    BY <1>1 DEF Observed!Insert
  <2> DEFINE r == Observed!RowWith(f, 0, Null)
  <2>2. r \in RecalledRow /\ r.mtime <= clock /\ r.digest = Null
    BY <1>0, IndexInv DEF Observed!RowWith, IndexInv, TreeType
  <2>3. Observed!Indexed' = Observed!Indexed \cup {p}
    BY <2>1 DEF Observed!Indexed
  <2>4. (p # Root => Up[p] \in Observed!Indexed) /\ fs' = fs /\ clock' = clock
    BY <1>1 DEF Observed!Insert, Observed!treeVars
  <2>5. RowsByPath' = [q \in Observed!Indexed \cup {p} |-> IF q = p THEN r ELSE RowsByPath[q]]
    BY <2>1
  <2>6. r.digest # Null => Observed!Describes(p, r.size, r.mtime, r.digest)
    BY <2>2
  <2> HIDE DEF r
  <2> QED
    BY <2>2, <2>3, <2>4, <2>5, <2>6, RowsSet
<1>2. ASSUME NEW p \in Path, Observed!Refresh(p) PROVE IndexInv'
  <2>1. p \in Observed!Indexed /\ fs' = fs /\ clock' = clock
    BY <1>2 DEF Observed!Refresh, Observed!treeVars
  <2>2. PICK f \in Observed!Facts :
            RowsByPath' = [RowsByPath EXCEPT ![p] = Observed!RowWith(f, RowsByPath[p].mtime, Null)]
    BY <1>2 DEF Observed!Refresh
  <2> DEFINE r == Observed!RowWith(f, RowsByPath[p].mtime, Null)
  <2>3. RowsByPath[p] \in RecalledRow /\ RowsByPath[p].mtime \in Nat /\ RowsByPath[p].mtime <= clock
    BY <2>1 DEF IndexInv, RecalledRow
  <2>4. r \in RecalledRow /\ r.mtime <= clock /\ r.digest = Null
    BY <1>0, <2>3 DEF Observed!RowWith
  <2>5. p # Root => Up[p] \in Observed!Indexed
    BY <2>1 DEF IndexInv, Observed!Rooted
  <2>6. RowsByPath' = [RowsByPath EXCEPT ![p] = r]
    BY <2>2
  <2>7. r.digest # Null => Observed!Describes(p, r.size, r.mtime, r.digest)
    BY <2>4
  <2> HIDE DEF r
  <2>8. RowsByPath' = [q \in Observed!Indexed \cup {p} |-> IF q = p THEN r ELSE RowsByPath[q]]
        /\ Observed!Indexed' = Observed!Indexed \cup {p}
    BY <2>1, <2>6 DEF IndexInv, Observed!Indexed
  <2> QED
    BY <2>1, <2>4, <2>5, <2>7, <2>8, RowsSet
<1>3. ASSUME NEW p \in Path, Observed!Record(p) PROVE IndexInv'
  <2>1. p \in Observed!Indexed /\ fs' = fs /\ clock' = clock
    BY <1>3 DEF Observed!Record, Observed!treeVars
  <2>2. PICK t \in 0 .. clock, d \in Observed!Digests :
          /\ Observed!Describes(p, RowsByPath[p].size, t, d)
          /\ RowsByPath' = [RowsByPath EXCEPT ![p] = Observed!RowWith(RowsByPath[p], t, d)]
    BY <1>3 DEF Observed!Record
  <2> DEFINE r == Observed!RowWith(RowsByPath[p], t, d)
  <2>3. RowsByPath[p] \in RecalledRow /\ clock \in Nat
    BY <2>1 DEF IndexInv, TreeType
  <2>4. r \in RecalledRow /\ r.mtime <= clock /\ r.size = RowsByPath[p].size /\ r.mtime = t /\ r.digest = d
    BY <2>3 DEF Observed!RowWith, RecalledRow
  <2>5. p # Root => Up[p] \in Observed!Indexed
    BY <2>1 DEF IndexInv, Observed!Rooted
  <2>6. RowsByPath' = [RowsByPath EXCEPT ![p] = r]
    BY <2>2
  <2>7. Observed!Describes(p, r.size, r.mtime, r.digest)
    BY <2>2, <2>4
  <2>8. r.mtime <= clock
    BY <2>3, <2>4
  <2> HIDE DEF r
  <2>9. RowsByPath' = [q \in Observed!Indexed \cup {p} |-> IF q = p THEN r ELSE RowsByPath[q]]
        /\ Observed!Indexed' = Observed!Indexed \cup {p}
    BY <2>1, <2>6 DEF IndexInv, Observed!Indexed
  <2> QED
    BY <2>1, <2>4, <2>5, <2>7, <2>8, <2>9, RowsSet
<1>4. CASE Observed!Sweep
  <2>1. PICK S \in SUBSET Observed!Indexed :
          /\ \A q \in Observed!Indexed \ {Root} : Up[q] \in S => q \in S
          /\ RowsByPath' = [q \in Observed!Indexed \ S |-> RowsByPath[q]]
    BY <1>4 DEF Observed!Sweep
  <2>2. fs' = fs /\ clock' = clock /\ Observed!Indexed' = Observed!Indexed \ S
    BY <1>4, <2>1 DEF Observed!Sweep, Observed!treeVars, Observed!Indexed
  <2>3. \A q \in Observed!Indexed' : RowsByPath'[q] = RowsByPath[q]
    BY <2>1, <2>2
  <2>4. TreeType' /\ Observed!Indexed' \subseteq Path /\ RowsByPath' \in [Observed!Indexed' -> RecalledRow]
    BY <2>1, <2>2 DEF IndexInv, TreeType
  <2>5. Observed!Rooted'
    BY <2>1, <2>2 DEF IndexInv, Observed!Rooted
  <2>6. Observed!Fresh' /\ \A q \in Observed!Indexed' : RowsByPath'[q].mtime <= clock'
    BY <2>2, <2>3 DEF IndexInv, Observed!Fresh, Observed!Describes
  <2> QED
    BY <2>4, <2>5, <2>6 DEF IndexInv
<1>5. CASE Observed!FsChange({}) /\ UNCHANGED RowsByPath
  <2>1. TreeType' /\ clock' = clock + 1 /\ clock \in Nat
    BY <1>5, SameTree, TreeTypeStep, ChangeStamps DEF IndexInv, TreeType
  <2>2. \A q \in Path : fs'[q] = fs[q] \/ fs'[q].kind # "file" \/ fs'[q].mtime = clock + 1
    BY <1>5, SameTree, ChangeStamps DEF IndexInv, Nothing
  <2>3. Observed!Indexed' = Observed!Indexed /\ RowsByPath' = RowsByPath
    BY <1>5 DEF Observed!Indexed
  <2>4. \A q \in Observed!Indexed : RowsByPath[q].mtime \in Nat /\ RowsByPath[q].mtime <= clock
    BY DEF IndexInv, RecalledRow
  <2>5. Observed!Fresh'
    BY <2>1, <2>2, <2>3, <2>4 DEF IndexInv, Observed!Fresh, Observed!Describes
  <2>6. Observed!Rooted'
    BY <2>3 DEF IndexInv, Observed!Rooted
  <2> QED
    BY <2>1, <2>3, <2>4, <2>5, <2>6 DEF IndexInv
<1>6. CASE UNCHANGED Observed!indexVars
  BY <1>6 DEF Observed!indexVars, Observed!treeVars, IndexInv, TreeType, Observed!Indexed,
              Observed!Rooted, Observed!Fresh, Observed!Describes
<1> QED
  BY <1>1, <1>2, <1>3, <1>4, <1>5, <1>6, SameTree DEF IndexStep, Observed!IndexNext

LEMMA IndexInvAlways == Observed!IndexSpec => []IndexInv
<1>1. Observed!IndexInit => IndexInv
  BY IndexInvInit
<1>2. IndexInv /\ [Observed!IndexNext]_Observed!indexVars => IndexInv'
  BY IndexInvNext DEF IndexStep
<1> QED
  BY <1>1, <1>2, PTL DEF Observed!IndexSpec

\* The promises of Index, for every tree and whatever is recorded: rows are what
\* the table can hold; with a path its directory is indexed; and a digest
\* recorded with the file's time stamp is the file's, however often the file has
\* been changed since.
THEOREM IndexPromises ==
    Observed!IndexSpec => [](Observed!IndexTypeOK /\ Observed!Rooted /\ Observed!Fresh)
<1>1. IndexInv => Observed!IndexTypeOK /\ Observed!Rooted /\ Observed!Fresh
  BY SameTree DEF IndexInv, Observed!IndexTypeOK, RecalledRow
<1> QED
  BY <1>1, IndexInvAlways, PTL

\* The indexer keeps them: who reads the table by path never finds one without
\* its directory, nor a digest under the file's time stamp that is not the file's.
THEOREM PromisesKept ==
    ASSUME "silent" \notin FaultKinds
    PROVE  Spec => [](Observed!IndexTypeOK /\ Observed!Rooted /\ Observed!Fresh)
BY IndexPromises, IndexImplemented, PTL DEF ImplementsIndex

-----------------------------------------------------------------------------
(* Module Indexer: the marks.  read() hands over every entry (the walk of  *)
(* module Reader, with its set D), and the manipulator marks the row of    *)
(* each, unless the entry is gone or the scan is given up.                 *)

LEMMA IndexerWalkStep ==
    ASSUME [Next]_vars
    PROVE  WalkStep
<1> USE DEF readerVars, readVars, historyVars, WalkStep, InRead, Scanning
<1>1. CASE Wake \/ Stop \/ BeginScan \/ Walk
  BY <1>1 DEF Wake, Stop, BeginScan, Walk
<1>2. CASE AdmitSkip \/ EnterDirectory \/ EnterFile \/ OpenFileFails \/ ReadFails \/ RecordDigest
  BY <1>2 DEF AdmitSkip, EnterDirectory, DirectoryEntered, EnterFile, FileEntered, OpenFileFails,
     ReadFails, RecordDigest, Return,
              InManip
<1>3. CASE AdmitShutdown
  BY <1>3 DEF AdmitShutdown, Return, InManip
<1>4. CASE AdmitRoot \/ AdmitKnown \/ OpenFile \/ ReadBlock \/ TrimBlocks \/ ReadEnd
  BY <1>4 DEF AdmitRoot, RootUnknown, RootEntered, AdmitKnown, OpenFile, ReadBlock, BlockRead,
     TrimBlocks, ReadEnd
<1>5. CASE AdmitUndefined \/ StatementThrows
  BY <1>5 DEF AdmitUndefined, StatementThrows, ManipThrows, Leave
<1>6. CASE Cleanup \/ CleanupFails \/ CleanupPartial
  BY <1>6 DEF Cleanup, CleanupFails, CleanupPartial, CleanupThrows
<1>7. CASE Environment
  BY <1>7 DEF Environment, Restart, RequestShutdown, Crash
<1>8. CASE UNCHANGED vars
  BY <1>8 DEF vars
<1> QED
  BY <1>1, <1>2, <1>3, <1>4, <1>5, <1>6, <1>7, <1>8 DEF Next, Worker, ManipStep

\* Outside the manipulator the next entry is to be admitted; inside, the worker
\* is not between scans.
StageInRead ==
    /\ InRead /\ pc # "manip" => stage = "admit"
    /\ pc = "manip" => stage \notin {"awake", "stopped"}

LEMMA StageStep ==
    ASSUME StageInRead, [Next]_vars
    PROVE  StageInRead'
<1> USE DEF StageInRead, InRead, Scanning
<1>1. CASE Wake \/ Stop \/ BeginScan
  BY <1>1 DEF Wake, Stop, Waiting, BeginScan, BeginRead, ClearLocals, readerVars, readVars
<1>2. CASE Walk
  <2>1. pc \in {"loop", "next", "descend"} /\ stage' = stage
    BY <1>2, ReaderLoopOutside DEF Walk, localVars
  <2> QED
    BY <2>1
<1>3. CASE \/ AdmitShutdown \/ AdmitSkip \/ EnterDirectory \/ OpenFileFails \/ ReadFails
           \/ RecordDigest
  BY <1>3 DEF AdmitShutdown, AdmitSkip, EnterDirectory, DirectoryEntered, OpenFileFails,
     ReadFails, RecordDigest,
              Return, ClearLocals
<1>4. CASE EnterFile
  BY <1>4 DEF EnterFile, FileEntered, Return, ClearLocals, InManip, readVars
<1>5. CASE AdmitRoot \/ AdmitKnown \/ OpenFile \/ ReadBlock \/ TrimBlocks \/ ReadEnd
  BY <1>5 DEF AdmitRoot, RootUnknown, RootEntered, AdmitKnown, OpenFile, ReadBlock, BlockRead,
     TrimBlocks, ReadEnd, InManip, readerVars,
              readVars
<1>6. CASE AdmitUndefined \/ StatementThrows
  BY <1>6 DEF AdmitUndefined, StatementThrows, ManipThrows, Leave
<1>7. CASE Cleanup \/ CleanupFails \/ CleanupPartial
  BY <1>7 DEF Cleanup, CleanupFails, CleanupPartial, CleanupThrows
<1>8. CASE Environment
  BY <1>8 DEF Environment, Restart, RequestShutdown, Crash, readerVars, readVars, localVars
<1>9. CASE UNCHANGED vars
  BY <1>9 DEF vars, readerVars, readVars, localVars
<1> QED
  BY <1>1, <1>2, <1>3, <1>4, <1>5, <1>6, <1>7, <1>8, <1>9 DEF Next, Worker, ManipStep

-----------------------------------------------------------------------------
(* What the statements do to the rows.                                     *)

LEMMA RecordEffect ==
    ASSUME TypeInv, RowInv, RecordDigest
    PROVE  /\ entryId \in Used /\ Used' = Used
           /\ \A i \in Used : i # entryId => entries'[i] = entries[i]
           /\ LET r == entries[entryId]  s == entries'[entryId]
              IN  /\ s.parent = r.parent /\ s.name = r.name /\ s.node = r.node
                  /\ s.dir = r.dir /\ s.size = r.size
                  /\ s.alive = 0 /\ s.mtime = ent.mtime /\ s.digest = ctx
<1>1. entryId \in Used
  BY DEF RecordDigest, InManip, RowInv, EntryKnown
<1>2. entries[entryId] \in Row
  BY <1>1, UsedRow DEF TypeInv, TypeOK, Rows
<1> DEFINE s == [entries[entryId] EXCEPT !.alive = 0, !.mtime = ent.mtime, !.digest = ctx]
<1>3. s \in Row
  BY <1>2, EntType DEF Row, TypeInv, TypeOK
<1>4. /\ s.parent = entries[entryId].parent /\ s.name = entries[entryId].name
      /\ s.node = entries[entryId].node
      /\ s.dir = entries[entryId].dir /\ s.size = entries[entryId].size
      /\ s.alive = 0 /\ s.mtime = ent.mtime /\ s.digest = ctx
  BY <1>2 DEF Row
<1>5. entries'[entryId] = s /\ \A i \in RowId : i # entryId => entries'[i] = entries[i]
  BY <1>1 DEF RecordDigest, Used
<1> HIDE DEF s
<1>6. s # Null
  BY <1>3, NullAssumption
<1>7. Used' = Used /\ \A i \in Used : i # entryId => entries'[i] = entries[i]
  BY <1>1, <1>5, <1>6 DEF Used
<1> QED
  BY <1>1, <1>4, <1>5, <1>7

\* The row that a statement of the manipulator writes, none for most of them.
LEMMA EnterGrown ==
    ASSUME "silent" \notin FaultKinds, TypeInv, Position, RowInv, EnterDirectory \/ EnterFile
    PROVE  \E id : Grown(parents[path], ent.node, id)
<1>1. InManip("entry")
  BY DEF EnterDirectory, DirectoryEntered, EnterFile, FileEntered
<1>2. PICK id \in EntryId, dir \in BOOLEAN :
          UpdateEntry(parents[path], ent.node, dir, ent.mtime, ent.size, id)
  BY DEF EnterDirectory, DirectoryEntered, EnterFile, FileEntered
<1>3. /\ parents[path] \in EntryId /\ ent.node \in Path /\ ParentOf(parents[path], ent.node)
      /\ ent.size \in Nat
  BY <1>1, EntryParent, EntType DEF InManip
<1> QED
  BY <1>2, <1>3, UpdateGrows DEF RowInv, RowTree

LEMMA AdmitRootGrown ==
    ASSUME "silent" \notin FaultKinds, TypeInv, Position, RowInv, AdmitRoot
    PROVE  \E id : Grown(0, path, id)
<1>1. PICK id \in EntryId : UpdateEntry(0, path, TRUE, 0, 0, id)
  BY DEF AdmitRoot, RootUnknown, RootEntered
<1>2. path = Root /\ path \in Path /\ ParentOf(0, path)
  BY RootParent, ReaderTypes DEF AdmitRoot, RootUnknown, RootEntered
<1> QED
  BY <1>1, <1>2, UpdateGrows, RowIds DEF RowInv, RowTree

\* Only cleanup_entries takes rows or marks away.
LEMMA RowsStay ==
    ASSUME "silent" \notin FaultKinds, TypeInv, Position, RowInv, [Next]_vars,
           ~(Cleanup \/ CleanupPartial)
    PROVE  \A i \in Used : RowKept(i)
<1>1. CASE entries' = entries
  BY <1>1 DEF RowKept, Used
<1>2. CASE AdmitRoot
  BY <1>2, AdmitRootGrown DEF Grown
<1>3. CASE EnterDirectory \/ EnterFile
  BY <1>3, EnterGrown DEF Grown
<1>4. CASE RecordDigest
  BY <1>4, RecordEffect DEF RowKept
<1> QED
  BY <1>1, <1>2, <1>3, <1>4, EntriesChange

HasMark(n) == \E i \in Used : entries[i].node = n /\ entries[i].alive = 0

LEMMA MarksStay ==
    ASSUME \A i \in Used : RowKept(i), NEW n, HasMark(n)
    PROVE  HasMark(n)'
BY DEF RowKept, HasMark

\* update_entry has not been called for the entry yet.
AtEntry == pc = "manip" /\ stage \in {"admit", "entry"}

\* The scan has not been given up.
GoingOn == (InRead /\ ~abort) \/ (pc = "returned" /\ end = "done")

\* The rows of the entries returned so far are marked, save of the one at hand.
Marked(D) ==
    GoingOn =>
        \A n \in D \cap Remaining : HasMark(n) \/ (AtEntry /\ ent.node = n)

\* The end of the manipulator for an entry that the scan goes on after.
LEMMA EntryLeft ==
    ASSUME [Next]_vars, AtEntry, ~(AtEntry' /\ ent' = ent), GoingOn'
    PROVE  EnterDirectory \/ EnterFile \/ AdmitSkip
<1>0. (InRead' => ~abort') /\ (InRead' \/ pc' = "returned")
  BY DEF GoingOn, InRead, Scanning
<1>1. ~AdmitShutdown
  BY <1>0 DEF AdmitShutdown, Return, ManipReturns, ReturnTo, InRead, Scanning
<1>2. ~AdmitRoot /\ ~AdmitKnown
  BY DEF AdmitRoot, RootUnknown, RootEntered, AdmitKnown, InManip, readerVars, readVars, AtEntry
<1>3. ~AdmitUndefined /\ ~StatementThrows /\ ~Crash
  BY <1>0 DEF AdmitUndefined, StatementThrows, Crash, ManipThrows, Leave, InRead, Scanning
<1>4. ~(OpenFile \/ OpenFileFails \/ ReadBlock \/ TrimBlocks \/ ReadEnd \/ ReadFails \/ RecordDigest)
  BY DEF OpenFile, OpenFileFails, ReadBlock, BlockRead, TrimBlocks, ReadEnd, ReadFails,
     RecordDigest, InManip,
         AtEntry
<1>5. ~(Wake \/ Stop \/ BeginScan \/ Cleanup \/ CleanupFails \/ CleanupPartial)
  BY DEF Wake, Stop, Waiting, BeginScan, Cleanup, CleanupFails, CleanupPartial, CleanupThrows,
     AtEntry
<1>6. ~Walk
  BY ReaderLoopOutside DEF Walk, AtEntry
<1>7. ~Restart
  BY DEF Restart, AtEntry
<1>8. /\ ~RequestShutdown /\ ~UNCHANGED vars
      /\ ~(TreeStep(Held) /\ UNCHANGED <<readVars, faults, dbVars, localVars, scanVars>>)
  BY DEF RequestShutdown, vars, readerVars, readVars, localVars, AtEntry
<1> QED
  BY <1>1, <1>2, <1>3, <1>4, <1>5, <1>6, <1>7, <1>8 DEF Next, Worker, Environment, ManipStep

LEMMA EntryMarked ==
    ASSUME "silent" \notin FaultKinds, TypeInv, Position, RowInv, Lasting, [Next]_vars,
           AtEntry, ~(AtEntry' /\ ent' = ent), NEW n, n = ent.node, n \in Remaining, GoingOn'
    PROVE  HasMark(n)'
<1>1. CASE EnterDirectory \/ EnterFile
  BY <1>1, EnterGrown DEF Grown, HasMark
<1>2. CASE AdmitSkip
  BY <1>2 DEF AdmitSkip, Accessible, InManip, Lasting, InRead, Scanning
<1> QED
  BY <1>1, <1>2, EntryLeft

LEMMA EntryByWalk ==
    ASSUME ReaderTypeOK, Position, [Next]_vars, NextEntry
    PROVE  Walk
<1>1. pc = "next" /\ finds' # finds
  BY NothingTaken DEF NextEntry
<1>2. ~ManipStep
  BY <1>1 DEF ManipStep, AdmitShutdown, AdmitSkip, AdmitUndefined, AdmitRoot, RootUnknown,
     RootEntered, AdmitKnown,
     EnterDirectory, DirectoryEntered, EnterFile, FileEntered, OpenFile, OpenFileFails, ReadBlock,
     BlockRead, TrimBlocks, ReadEnd, ReadFails,
     RecordDigest, StatementThrows, InManip
<1>3. ~(Wake \/ Stop \/ BeginScan \/ Cleanup \/ CleanupFails \/ CleanupPartial)
  BY <1>1 DEF Wake, Stop, Waiting, BeginScan, Cleanup, CleanupFails, CleanupPartial, CleanupThrows
<1>4. ~Environment /\ ~UNCHANGED vars
  BY <1>1 DEF Environment, Restart, RequestShutdown, Crash, vars, readerVars, readVars
<1> QED
  BY <1>2, <1>3, <1>4 DEF Next, Worker

\* Every entry returned is handed to the manipulator.
LEMMA TakenAtEntry ==
    ASSUME ReaderTypeOK, Position, StageInRead, [Next]_vars, NextEntry
    PROVE  AtEntry'
<1>1. pc = "next" /\ pc' = "manip"
  BY EntryTaken, IndexerAssumption DEF Calls, FindData
<1>2. stage' = "admit"
  BY <1>1, EntryByWalk DEF Walk, localVars, StageInRead, InRead, Scanning
<1> QED
  BY <1>1, <1>2 DEF AtEntry

\* A scan that goes on has not been given up before.
LEMMA WentOn ==
    ASSUME ReaderTypeOK, TreeUp, Lasting, [Next]_vars, ~(~InRead /\ BeginRead), GoingOn'
    PROVE  GoingOn /\ Remaining' \subseteq Remaining
<1> USE DEF InRead, Scanning, GoingOn
<1>1. CASE ReaderLoop
  <2>1. UNCHANGED <<treeVars, historyVars>> /\ InRead /\ abort' = abort
    BY <1>1, LoopKeepsHistory
  <2>2. CASE pc' = "returned" /\ end' = "done"
    <3>1. Left
      BY <1>1, <2>2, LoopCases
         DEF OpenDirectory, LoopPop, Descend, NextEntry, ReturnTo, StayHere, CloseDirectory
    <3>2. LoopDone
      BY <1>1, <2>2, <3>1, LeftHow
    <3> QED
      BY <2>1, <3>2 DEF LoopDone, Remaining, historyVars
  <2>3. CASE ~(pc' = "returned" /\ end' = "done")
    BY <2>1, <2>3 DEF Remaining, historyVars
  <2> QED
    BY <2>2, <2>3
<1>2. CASE UNCHANGED readVars /\ (UNCHANGED <<treeVars, gone>> \/ \E held : TreeStep(held))
  <2>1. GoingOn
    BY <1>2 DEF readVars
  <2> QED
    BY <1>2, <2>1, RemainingKinds
<1>3. CASE pc = "manip" /\ ManipReturns /\ UNCHANGED <<treeVars, gone>> /\ (abort => abort')
  BY <1>3 DEF ManipReturns, ReturnTo, Remaining
<1> QED
  BY <1>1, <1>2, <1>3, IndexerWalkStep DEF WalkStep

LEMMA MarkedStep ==
    ASSUME "silent" \notin FaultKinds, TypeInv, Position, RowInv, TreeUp, Lasting, StageInRead,
           NEW D, D \subseteq Node, Marked(D), [Next]_vars, NEW E, E = Taken(D)
    PROVE  Marked(E)'
<1>1. CASE ~InRead /\ BeginRead
  BY <1>1 DEF Taken, Marked
<1>2. ASSUME ~(~InRead /\ BeginRead), GoingOn', NEW n \in E \cap Remaining'
      PROVE  HasMark(n)' \/ (AtEntry /\ ent.node = n)'
  <2>1. GoingOn /\ n \in Remaining /\ ~(Cleanup \/ CleanupPartial)
    BY <1>2, WentOn, ReaderTypes
       DEF GoingOn, InRead, Scanning, Cleanup, CleanupPartial, CleanupThrows
  <2>2. CASE NextEntry /\ n = ent'.node
    BY <2>2, TakenAtEntry, ReaderTypes
  <2>3. CASE ~(NextEntry /\ n = ent'.node)
    <3>1. n \in D
      BY <1>2, <2>3 DEF Taken
    <3>2. HasMark(n) \/ (AtEntry /\ ent.node = n)
      BY <2>1, <3>1 DEF Marked
    <3>3. CASE HasMark(n)
      BY <2>1, <3>3, RowsStay, MarksStay
    <3>4. CASE AtEntry /\ ent.node = n
      BY <1>2, <2>1, <3>4, EntryMarked
    <3> QED
      BY <3>2, <3>3, <3>4
  <2> QED
    BY <2>2, <2>3
<1> QED
  BY <1>1, <1>2 DEF Marked

-----------------------------------------------------------------------------
(* What cleanup_entries deletes.                                           *)

LEMMA ChainInvariant == Steps => []Chain
<1>1. Init => Chain
  BY DEF Init, ReaderInit, Chain, InRead, Scanning
<1>2. TypeInv /\ Position /\ Chain /\ [Next]_vars => Chain'
  BY IndexerReadStep, ChainStep DEF TypeInv, TypeOK
<1> QED
  BY <1>1, <1>2, TypeInvariant, PositionInvariant, PTL DEF Steps

ScanInv ==
    /\ TreeUp /\ Lasting /\ KindsRight /\ Leveled /\ StageInRead
    /\ \E D : D \subseteq Node /\ Once(D) /\ Explored(D) /\ Marked(D)

LEMMA ScanInit ==
    ASSUME Init
    PROVE  ScanInv
<1>1. TreeUp
  BY TreeUpInit DEF Init, ReaderInit
<1>2. {} \subseteq Node /\ Once({}) /\ Explored({}) /\ Marked({})
  BY DEF Init, ReaderInit, Once, Explored, Marked, GoingOn, InRead, Scanning
<1> QED
  BY <1>1, <1>2
     DEF Init, ReaderInit, ScanInv, Lasting, KindsRight, Leveled, StageInRead, InRead, Scanning

LEMMA ScanStep ==
    ASSUME "silent" \notin FaultKinds, NEW rank, IsRank(rank),
           TypeInv, Position, Chain, RowInv, ScanInv, [Next]_vars
    PROVE  ScanInv'
<1>1. PICK D : D \subseteq Node /\ Once(D) /\ Explored(D) /\ Marked(D)
  BY DEF ScanInv
<1>2. PICK E : E = Taken(D)
  OBVIOUS
<1>3. ReaderTypeOK /\ WalkStep
  BY IndexerWalkStep DEF TypeInv, TypeOK
<1>4. TreeUp /\ Lasting /\ KindsRight /\ Leveled /\ StageInRead
  BY DEF ScanInv
<1>5. TreeUp' /\ Lasting' /\ KindsRight' /\ Leveled'
  BY <1>3, <1>4, TreeUpStep, LastingStep, KindsRightStep, LeveledStep
<1>6. StageInRead'
  BY <1>4, StageStep
<1>7. Once(E)' /\ Explored(E)'
  BY <1>1, <1>2, <1>3, <1>4, OnceStep, ExploredStep
<1>8. E \subseteq Node
  BY <1>1, <1>2, <1>3, TakenNodes
<1>9. Marked(E)'
  BY <1>1, <1>2, <1>4, MarkedStep
<1> QED
  BY <1>5, <1>6, <1>7, <1>8, <1>9 DEF ScanInv

LEMMA ScanInvariant ==
    ASSUME "silent" \notin FaultKinds, NEW rank, IsRank(rank)
    PROVE  Steps => []ScanInv
<1>1. Init => ScanInv
  BY ScanInit
<1>2. TypeInv /\ Position /\ Chain /\ RowInv /\ ScanInv /\ [Next]_vars => ScanInv'
  BY ScanStep
<1> QED
  BY <1>1, <1>2, TypeInvariant, PositionInvariant, ChainInvariant, RowInvariant, PTL DEF Steps

LEMMA OneRowInvariant ==
    ASSUME "silent" \notin FaultKinds
    PROVE  Steps => []OneRow
<1>1. Init => OneRow /\ ListedSizes
  BY RefinementInit
<1>2. TypeInv /\ ListedSizes /\ [Next]_vars => ListedSizes'
  BY SizesStep
<1>3. /\ TypeInv /\ Position /\ RowInv /\ FreshInv /\ ListedSizes /\ UniqueKeys /\ OneRow
      /\ [Next]_vars
      => OneRow'
  BY RefinementStep
<1> QED
  BY <1>1, <1>2, <1>3, TypeInvariant, PositionInvariant, RowInvariant, FreshInvariant,
     KeysInvariant, PTL
     DEF Steps

\* Once the loop is done the row of every entry that was there is marked.
LEMMA AllMarked ==
    ASSUME NEW rank, IsRank(rank), TypeInv, ScanInv, pc = "returned", end = "done"
    PROVE  \A n \in Node \ gone : HasMark(n)
<1>1. PICK D : Explored(D) /\ Marked(D)
  BY DEF ScanInv
<1>2. ReaderTypeOK /\ TreeUp /\ Lasting
  BY DEF TypeInv, TypeOK, ScanInv
<1>3. \A n \in Node \ gone : n \in D
  BY <1>1, <1>2, AllReturned, IndexerAssumption
<1> QED
  BY <1>1, <1>3 DEF Marked, GoingOn, Remaining, Path, AtEntry

\* The rows that a step deletes were not marked, and the loop was left.
LEMMA DeletedUnmet ==
    ASSUME TypeInv, RowInv, Position, "silent" \notin FaultKinds, [Next]_vars,
           NEW i \in Used, entries'[i] = Null
    PROVE  pc = "returned" /\ entries[i].alive = 1
<1>1. Cleanup \/ CleanupPartial
  <2>1. i \notin Used'
    BY DEF Used
  <2> QED
    BY <2>1, RowsStay DEF RowKept
<1>2. entries[i] \in Row /\ entries[i] # Null /\ i \in RowId
  BY UsedRow DEF TypeInv, TypeOK, Rows, Used
<1> DEFINE r == [entries[i] EXCEPT !.alive = 1]
<1>3. r # Null
  <2>1. r \in Row
    BY <1>2 DEF Row
  <2> QED
    BY <2>1, NullAssumption
<1>4. entries'[i] = r \/ entries'[i] = entries[i] \/ i \in Unmet
  BY <1>1, <1>2 DEF Cleanup, CleanupPartial, RowsReset, RowsDropped
<1> HIDE DEF r
<1> QED
  BY <1>1, <1>2, <1>3, <1>4 DEF Cleanup, CleanupPartial, CleanupThrows, Unmet

LEMMA RemovalsJustified ==
    ASSUME "silent" \notin FaultKinds, NEW rank, IsRank(rank)
    PROVE  Steps => RemovalJustified
<1> DEFINE A == \A i \in Used : entries'[i] = Null /\ end = "done" =>
          \/ entries[i].node \in gone
          \/ entries[i].node = Root /\ \A n \in Node : Up[n] = Root => n \in gone
<1>1. TypeInv /\ Position /\ RowInv /\ OneRow /\ ScanInv /\ [Next]_vars => [A]_vars
  <2> SUFFICES ASSUME TypeInv, Position, RowInv, OneRow, ScanInv, [Next]_vars,
                      NEW i \in Used, entries'[i] = Null, end = "done"
               PROVE  \/ entries[i].node \in gone
                      \/ entries[i].node = Root /\ \A n \in Node : Up[n] = Root => n \in gone
    OBVIOUS
  <2>1. pc = "returned" /\ entries[i].alive = 1
    BY DeletedUnmet
  <2>2. \A n \in Node \ gone : HasMark(n)
    BY <2>1, AllMarked
  <2>3. entries[i].node \in Path
    BY RowTypes DEF TypeInv, TypeOK, Rows
  <2>4. ~HasMark(entries[i].node)
    BY <2>1 DEF HasMark, OneRow
  <2>5. CASE entries[i].node = Root
    <3>1. ASSUME NEW n \in Node, Up[n] = Root, n \notin gone PROVE FALSE
      <4>1. PICK j \in Used : entries[j].node = n /\ entries[j].alive = 0
        BY <2>2, <3>1 DEF HasMark
      <4>2. n # Root
        BY TreeAssumption
      <4>3. entries[j].parent \in Used /\ entries[entries[j].parent].node = Root
        BY <3>1, <4>1, <4>2 DEF RowInv, RowTree, PathsFaithful
      <4>4. entries[entries[j].parent].alive = 0
        BY <4>1, <4>3, RowIds DEF RowInv, RowTree, MarkedUpward, Used
      <4> QED
        BY <2>4, <2>5, <4>3, <4>4 DEF HasMark
    <3> QED
      BY <2>5, <3>1
  <2>6. CASE entries[i].node # Root
    BY <2>2, <2>3, <2>4, <2>6 DEF Path
  <2> QED
    BY <2>5, <2>6
<1> QED
  BY <1>1, TypeInvariant, PositionInvariant, RowInvariant, OneRowInvariant, ScanInvariant, PTL
     DEF Steps, RemovalJustified

\* cleanup_entries after a scan that ran to its end deletes the row of no entry
\* that was there all the while, whatever other programs did to the rest of the
\* tree, and the row of the root only if nothing in it was.
THEOREM RemovalsAlwaysJustified ==
    ASSUME "silent" \notin FaultKinds, NEW rank, IsRank(rank)
    PROVE  Spec => RemovalJustified
BY RemovalsJustified, SpecSteps, PTL

-----------------------------------------------------------------------------
(* Module Indexer: what a time stamp tells.                                *)

\* How a step moves among the listings: a directory is listed, an entry taken
\* from its listing, or neither.
LEMMA ListingStep ==
    ASSUME ReadStep
    PROVE  \/ OpenDirectory
           \/ NextEntry
           \/ finds' = finds /\ (pc' = "manip" => pc = "manip" /\ ent' = ent)
<1>1. CASE ReaderLoop
  BY <1>1, LoopCases DEF Left, LoopPop, Descend, StayHere, CloseDirectory
<1>2. CASE ~ReaderLoop
  BY <1>2 DEF ReadStep, readVars, ManipReturns, ReturnTo, Left, BeginRead
<1> QED
  BY <1>1, <1>2

\* Either the tree is left alone or another program changes it, and the history
\* remembers that, or a scan begins.
LEMMA QuietStep ==
    ASSUME [Next]_vars
    PROVE  \/ UNCHANGED <<treeVars, gone, quiet>>
           \/ TreeStep(Held) /\ UNCHANGED <<readVars, faults, dbVars, localVars, scanVars>>
           \/ ~InRead /\ BeginRead /\ BeginScan
<1> USE DEF readerVars, historyVars
<1>1. CASE Walk
  BY <1>1, LoopKeepsHistory DEF Walk
<1>2. CASE Wake \/ Stop \/ Cleanup \/ CleanupFails \/ CleanupPartial
  BY <1>2 DEF Wake, Stop, Cleanup, CleanupFails, CleanupPartial, CleanupThrows
<1>3. CASE \/ AdmitShutdown \/ AdmitSkip \/ AdmitUndefined \/ AdmitRoot \/ AdmitKnown
           \/ EnterDirectory \/ EnterFile
  BY <1>3 DEF AdmitShutdown, AdmitSkip, AdmitUndefined, AdmitRoot, RootUnknown, RootEntered,
     AdmitKnown, EnterDirectory, DirectoryEntered,
              EnterFile, FileEntered, Return
<1>4. CASE \/ OpenFile \/ OpenFileFails \/ ReadBlock \/ TrimBlocks \/ ReadEnd \/ ReadFails
           \/ RecordDigest \/ StatementThrows
  BY <1>4 DEF OpenFile, OpenFileFails, ReadBlock, BlockRead, TrimBlocks, ReadEnd, ReadFails,
     RecordDigest,
              StatementThrows, Return
<1>5. CASE Environment \/ UNCHANGED vars
  BY <1>5 DEF Environment, Restart, RequestShutdown, Crash, vars
<1>6. CASE BeginScan
  BY <1>6 DEF BeginScan, InRead, Scanning
<1> QED
  BY <1>1, <1>2, <1>3, <1>4, <1>5, <1>6 DEF Next, Worker, ManipStep

\* e can be told from what is at its path now by the time stamp alone, its kind
\* included: a path gets no time stamp twice.
StampTells(e) == Present(e.node) /\ fs[e.node].mtime = e.mtime => fs[e.node].kind = e.kind

KindsStamped ==
    /\ \A d \in Path : \A e \in finds[d] : StampTells(e)
    /\ pc = "manip" => StampTells(ent)

LEMMA KindsStampedStep ==
    ASSUME TypeInv, Position, FreshInv, KindsStamped, [Next]_vars
    PROVE  KindsStamped'
<1>0. ReaderTypeOK /\ ReadStep /\ clock \in Nat
  BY IndexerReadStep DEF TypeInv, TypeOK, ReaderTypeOK
<1>1. CASE UNCHANGED treeVars
  <2>1. \A e : StampTells(e)' <=> StampTells(e)
    BY <1>1 DEF StampTells, Present, treeVars
  <2>2. CASE OpenDirectory
    <3>1. \A d \in Path : finds'[d] = finds[d] \/ finds'[d] = Listing(path)
      BY <1>0, <2>2 DEF OpenDirectory, ReaderTypeOK
    <3>2. \A e \in Listing(path) : StampTells(e)
      BY DEF Listing, StampTells
    <3>3. pc' # "manip"
      BY <2>2 DEF OpenDirectory
    <3> QED
      BY <2>1, <3>1, <3>2, <3>3 DEF KindsStamped
  <2>3. CASE NextEntry
    <3>1. /\ handle \in Path /\ ent' \in finds[handle]
          /\ finds' = [finds EXCEPT ![handle] = @ \ {ent'}]
      BY <1>0, <2>3, EntryTaken
    <3>2. \A d \in Path : finds'[d] \subseteq finds[d]
      BY <1>0, <3>1 DEF ReaderTypeOK
    <3> QED
      BY <2>1, <3>1, <3>2 DEF KindsStamped
  <2>4. CASE finds' = finds /\ (pc' = "manip" => pc = "manip" /\ ent' = ent)
    BY <2>1, <2>4 DEF KindsStamped
  <2> QED
    BY <1>0, <2>2, <2>3, <2>4, ListingStep
<1>2. CASE TreeStep(Held) /\ UNCHANGED readVars
  <2>1. \A q \in Path : fs'[q] = fs[q] \/ fs'[q] = Nothing \/ fs'[q].mtime = clock + 1
    BY <1>0, <1>2, ChangeStamps DEF TreeStep, ReaderTypeOK, TreeType
  <2>2. ASSUME NEW e \in FindData, Seen(e), StampTells(e)
        PROVE  StampTells(e)'
    <3>1. e.node \in Path /\ e.mtime <= clock /\ e.mtime \in Nat
      BY <2>2 DEF FindData, Seen, Path
    <3> QED
      BY <1>0, <2>1, <2>2, <3>1 DEF StampTells, Present, Nothing
  <2>3. \A d \in Path : \A e \in finds[d] : e \in FindData /\ Seen(e)
    BY <1>0 DEF ReaderTypeOK, FreshInv, ListingsOld
  <2>4. pc = "manip" => ent \in FindData /\ Seen(ent)
    BY DEF Position, FreshInv, ListingsOld
  <2>5. ASSUME pc' = "manip" PROVE StampTells(ent)'
    <3>1. PICK e : e = ent
      OBVIOUS
    <3>2. pc = "manip" /\ ent' = e
      BY <1>2, <2>5, <3>1 DEF readVars
    <3>3. StampTells(e)'
      BY <2>2, <2>4, <3>1, <3>2 DEF KindsStamped
    <3> QED
      BY <3>2, <3>3 DEF StampTells
  <2>6. \A d \in Path : \A e \in finds[d] : StampTells(e)'
    BY <2>2, <2>3 DEF KindsStamped
  <2>7. finds' = finds
    BY <1>2 DEF readVars
  <2> QED
    BY <2>5, <2>6, <2>7 DEF KindsStamped
<1>3. CASE ~InRead /\ BeginRead
  BY <1>1, <1>3 DEF BeginRead
<1> QED
  BY <1>1, <1>2, <1>3, QuietStep

-----------------------------------------------------------------------------
(* update_entry: the row is up to date and touched, or says what was given *)
(* and has lost its digest, or is new.                                     *)

OldRow(n) == Selected(parents[path], NameOf[n])

Renewed(old, dir, mtime, id) ==
    \/ /\ UpToDate(old, mtime) /\ id = old /\ id \in Used
       /\ entries'[id].dir = entries[id].dir /\ entries'[id].mtime = entries[id].mtime
       /\ entries'[id].digest = entries[id].digest
    \/ /\ ~UpToDate(old, mtime) /\ id = old /\ id \in Used
       /\ entries'[id].dir = dir /\ entries'[id].mtime = entries[id].mtime
    \/ /\ old = 0 /\ id \notin Used
       /\ entries'[id].dir = dir /\ entries'[id].mtime = 0

LEMMA UpdateRenews ==
    ASSUME "silent" \notin FaultKinds, entries \in Rows,
           NEW p \in EntryId, NEW n \in Path, NEW dir \in BOOLEAN, NEW mtime, NEW size \in Nat,
           NEW id, UpdateEntry(p, n, dir, mtime, size, id)
    PROVE  Renewed(Selected(p, NameOf[n]), dir, mtime, id)
<1> DEFINE old == Selected(p, NameOf[n])
<1>0. old \in EntryId /\ (old # 0 => old \in Used /\ entries[old] \in Row)
  BY SelectedRow, UsedRow
<1>1. CASE UpToDate(old, mtime) /\ id = old /\ entries' = Touched(old)
  <2>1. old \in Used /\ old \in RowId /\ entries[old] \in Row
    BY <1>0, <1>1 DEF UpToDate, Used
  <2> DEFINE r == [entries[old] EXCEPT !.alive = 0]
  <2>2. /\ r.dir = entries[old].dir /\ r.mtime = entries[old].mtime
        /\ r.digest = entries[old].digest
    BY <2>1 DEF Row
  <2>3. entries' = [entries EXCEPT ![old] = r]
    BY <1>1, <2>1 DEF Touched
  <2> HIDE DEF r
  <2>4. entries'[old] = r
    BY <2>1, <2>3 DEF Rows
  <2> QED
    BY <1>1, <2>1, <2>2, <2>4 DEF Renewed
<1>2. CASE /\ ~UpToDate(old, mtime) /\ old # 0 /\ id = old
           /\ entries' = [entries EXCEPT ![old] =
                 [@ EXCEPT !.alive = 0, !.dir = dir, !.size = size, !.digest = Null]]
  <2>1. old \in Used /\ old \in RowId /\ entries[old] \in Row
    BY <1>0, <1>2 DEF Used
  <2> DEFINE r == [entries[old] EXCEPT !.alive = 0, !.dir = dir, !.size = size, !.digest = Null]
  <2>2. r.dir = dir /\ r.mtime = entries[old].mtime
    BY <2>1 DEF Row
  <2>3. entries' = [entries EXCEPT ![old] = r]
    BY <1>2
  <2> HIDE DEF r
  <2>4. entries'[old] = r
    BY <2>1, <2>3 DEF Rows
  <2> QED
    BY <1>2, <2>1, <2>2, <2>4 DEF Renewed
<1>3. CASE /\ old = 0 /\ id \in NextRowids
           /\ entries' = [entries EXCEPT ![id] = NewRow(p, n, dir, size)]
  <2>1. id \in RowId \ Used
    BY <1>3 DEF NextRowids
  <2>2. entries'[id] = NewRow(p, n, dir, size)
    BY <1>3, <2>1 DEF Rows
  <2> QED
    BY <1>3, <2>1, <2>2 DEF Renewed, NewRow
<1> QED
  BY <1>1, <1>2, <1>3 DEF UpdateEntry, Lost, Strike

\* What the manipulator's two calls of update_entry do for the entry at hand.
Entered(dir, id) ==
    /\ Grown(parents[path], ent.node, id)
    /\ Renewed(OldRow(ent.node), dir, ent.mtime, id)
    /\ OldRow(ent.node) \in Used => entries[OldRow(ent.node)].node = ent.node
    /\ id \in Used => entries[id].node = ent.node

LEMMA OldRowIs ==
    ASSUME TypeInv, Position, RowInv, InManip("entry"), OldRow(ent.node) # 0
    PROVE  OldRow(ent.node) \in Used /\ entries[OldRow(ent.node)].node = ent.node
<1> DEFINE i == OldRow(ent.node)
<1>1. /\ parents[path] \in EntryId /\ ent.node \in Path /\ ParentOf(parents[path], ent.node)
      /\ PathsFaithful
  BY EntryParent DEF RowInv, RowTree, Path
<1>2. i \in Used /\ entries[i].parent = parents[path] /\ entries[i].name = NameOf[ent.node]
  BY SelectedRow DEF OldRow
<1>3. entries[i].node = ent.node
  BY <1>1, <1>2, SelectedIsRow
<1> QED
  BY <1>2, <1>3

LEMMA EnterDirectoryEffect ==
    ASSUME "silent" \notin FaultKinds, TypeInv, Position, RowInv, EnterDirectory
    PROVE  \E id : Entered(TRUE, id)
<1>1. PICK id \in EntryId :
          UpdateEntry(parents[path], ent.node, TRUE, ent.mtime, ent.size, id)
  BY DEF EnterDirectory, DirectoryEntered
<1>2. /\ parents[path] \in EntryId /\ ent.node \in Path /\ ParentOf(parents[path], ent.node)
      /\ ent.size \in Nat /\ entries \in Rows /\ PathsFaithful
  BY EntryParent, EntType DEF EnterDirectory, DirectoryEntered, TypeInv, TypeOK, Rows, RowInv,
     RowTree
<1>3. Grown(parents[path], ent.node, id)
  BY <1>1, <1>2, UpdateGrows
<1>4. Renewed(OldRow(ent.node), TRUE, ent.mtime, id)
  BY <1>1, <1>2, UpdateRenews DEF OldRow
<1>5. OldRow(ent.node) \in Used => entries[OldRow(ent.node)].node = ent.node
  BY OldRowIs, RowIds DEF EnterDirectory, DirectoryEntered, Used
<1> QED
  BY <1>3, <1>4, <1>5 DEF Entered, Grown, RowKept

LEMMA EnterFileEffect ==
    ASSUME "silent" \notin FaultKinds, TypeInv, Position, RowInv, EnterFile
    PROVE  \E id : /\ Entered(FALSE, id)
                   /\ IF NeedsDigest(StoredMtime(OldRow(ent.node)))
                      THEN /\ stage' = "open" /\ entryId' = id
                           /\ UNCHANGED <<treeVars, readVars, historyVars, blkNo, ctx>>
                      ELSE Return
<1>1. PICK id \in EntryId :
          /\ UpdateEntry(parents[path], ent.node, FALSE, ent.mtime, ent.size, id)
          /\ IF NeedsDigest(StoredMtime(OldRow(ent.node)))
             THEN /\ stage' = "open" /\ entryId' = id
                  /\ UNCHANGED <<treeVars, readVars, historyVars, blkNo, ctx>>
             ELSE Return
  BY DEF EnterFile, FileEntered, OldRow
<1>2. /\ parents[path] \in EntryId /\ ent.node \in Path /\ ParentOf(parents[path], ent.node)
      /\ ent.size \in Nat /\ entries \in Rows /\ PathsFaithful
  BY EntryParent, EntType DEF EnterFile, FileEntered, TypeInv, TypeOK, Rows, RowInv, RowTree
<1>3. Grown(parents[path], ent.node, id)
  BY <1>1, <1>2, UpdateGrows
<1>4. Renewed(OldRow(ent.node), FALSE, ent.mtime, id)
  BY <1>1, <1>2, UpdateRenews DEF OldRow
<1>5. OldRow(ent.node) \in Used => entries[OldRow(ent.node)].node = ent.node
  BY OldRowIs, RowIds DEF EnterFile, FileEntered, Used
<1> QED
  BY <1>1, <1>3, <1>4, <1>5 DEF Entered, Grown, RowKept

LEMMA CleanupEffect ==
    ASSUME TypeInv, Cleanup \/ CleanupPartial
    PROVE  /\ \A i \in Used' :
                 /\ i \in Used
                 /\ LET r == entries[i]  s == entries'[i]
                    IN  /\ s.node = r.node /\ s.parent = r.parent /\ s.name = r.name
                        /\ s.dir = r.dir /\ s.mtime = r.mtime /\ s.size = r.size
                        /\ s.digest = r.digest
           /\ Cleanup => /\ Used' = {i \in Used : entries[i].alive = 0}
                         /\ \A i \in Used' : entries'[i].alive = 1
<1>0. /\ entries \in Rows /\ \A i \in Used : entries[i] \in Row /\ entries[i].alive \in {0, 1}
      /\ Used \subseteq RowId
  BY UsedRow DEF TypeInv, TypeOK, Rows, Row, Used
<1>1. CASE Cleanup
  <2> DEFINE r(i) == [entries[i] EXCEPT !.alive = 1]
  <2>1. \A i \in Used : /\ r(i) # Null /\ r(i).parent = entries[i].parent
                        /\ r(i).name = entries[i].name /\ r(i).node = entries[i].node
                        /\ r(i).dir = entries[i].dir /\ r(i).mtime = entries[i].mtime
                        /\ r(i).size = entries[i].size /\ r(i).digest = entries[i].digest
                        /\ r(i).alive = 1
    <3>1. \A i \in Used : r(i) \in Row
      BY <1>0 DEF Row
    <3> QED
      BY <1>0, <3>1, NullAssumption DEF Row
  <2>2. \A i \in RowId : entries'[i] = IF i \in Used \ Unmet THEN r(i) ELSE Null
    BY <1>1 DEF Cleanup, RowsReset
  <2> HIDE DEF r
  <2>3. Used' = {i \in Used : entries[i].alive = 0}
    BY <1>0, <2>1, <2>2 DEF Used, Unmet
  <2>4. \A i \in Used' : i \in Used /\ entries'[i] = r(i)
    BY <1>0, <2>2, <2>3 DEF Unmet
  <2> QED
    BY <2>1, <2>3, <2>4
<1>2. CASE CleanupPartial
  <2>1. \A i \in RowId : entries'[i] = entries[i] \/ entries'[i] = Null
    BY <1>2 DEF CleanupPartial, RowsDropped
  <2>2. \A i \in Used' : i \in Used /\ entries'[i] = entries[i]
    BY <2>1 DEF Used
  <2>3. ~Cleanup
    BY <1>2 DEF CleanupPartial, CleanupThrows, Cleanup
  <2> QED
    BY <2>2, <2>3
<1> QED
  BY <1>1, <1>2

-----------------------------------------------------------------------------
(* The row in hand, and stamps of rows.                                    *)

FileStages == {"open", "read", "trim", "record"}

\* A file is in hand once update_entry sent it on to update_blocks, and until
\* the manipulator is left.
LEMMA HandStep ==
    ASSUME Control, [Next]_vars, pc' = "manip", stage' \in FileStages
    PROVE  \/ EnterFile /\ stage' = "open"
           \/ /\ pc = "manip" /\ stage \in FileStages
              /\ entryId' = entryId /\ ent' = ent /\ entries' = entries
<1> USE DEF FileStages
<1>1. CASE EnterFile
  BY <1>1 DEF EnterFile, FileEntered, Return, ClearLocals
<1>2. CASE Walk
  <2>1. stage' \in BetweenScans
    BY <1>2, ReaderLoopOutside DEF Walk, localVars, Control
  <2> QED
    BY <2>1 DEF BetweenScans
<1>3. CASE OpenFile \/ ReadBlock \/ TrimBlocks \/ ReadEnd
  BY <1>3 DEF OpenFile, ReadBlock, BlockRead, TrimBlocks, ReadEnd, InManip, readerVars, readVars,
     dbVars
<1>4. CASE \/ AdmitShutdown \/ AdmitSkip \/ EnterDirectory \/ OpenFileFails \/ ReadFails
           \/ RecordDigest \/ AdmitUndefined \/ StatementThrows \/ BeginScan
  BY <1>4 DEF AdmitShutdown, AdmitSkip, EnterDirectory, DirectoryEntered, OpenFileFails,
     ReadFails, RecordDigest,
              AdmitUndefined, StatementThrows, BeginScan, Return, ClearLocals
<1>5. CASE AdmitRoot \/ AdmitKnown \/ Wake \/ Stop \/ Restart
  BY <1>5 DEF AdmitRoot, RootUnknown, RootEntered, AdmitKnown, Wake, Stop, Restart
<1>6. CASE Cleanup \/ CleanupFails \/ CleanupPartial \/ Crash
  BY <1>6 DEF Cleanup, CleanupFails, CleanupPartial, CleanupThrows, Crash
<1>7. CASE \/ RequestShutdown \/ UNCHANGED vars
           \/ TreeStep(Held) /\ UNCHANGED <<readVars, faults, dbVars, localVars, scanVars>>
  BY <1>7 DEF RequestShutdown, vars, readerVars, readVars, localVars, dbVars
<1> QED
  BY <1>1, <1>2, <1>3, <1>4, <1>5, <1>6, <1>7 DEF Next, Worker, Environment, ManipStep

HandIsFile == pc = "manip" /\ stage \in FileStages => ~entries[entryId].dir

\* A row with the stamp of what is there is one of a file, which is there; the
\* row of the root is one of a directory.
OfFile(i) ==
    LET r == entries[i]
    IN  /\ r.mtime # 0 /\ Present(r.node) /\ fs[r.node].mtime = r.mtime =>
              fs[r.node].kind = "file" /\ ~r.dir
        /\ r.node = Root => r.dir

StampsOfFiles == \A i \in Used : OfFile(i)

\* The file that update_entry sends on has a row that says it is one.
LEMMA EnteredFile ==
    ASSUME "silent" \notin FaultKinds, TypeInv, Position, RowInv, FreshInv, EnterFile,
           stage' = "open"
    PROVE  entryId' \in Used' /\ ~entries'[entryId'].dir /\ entries'[entryId'].node = ent.node
<1>1. PICK id : /\ Entered(FALSE, id)
                /\ IF NeedsDigest(StoredMtime(OldRow(ent.node)))
                   THEN /\ stage' = "open" /\ entryId' = id
                        /\ UNCHANGED <<treeVars, readVars, historyVars, blkNo, ctx>>
                   ELSE Return
  BY EnterFileEffect
<1>2. NeedsDigest(StoredMtime(OldRow(ent.node))) /\ entryId' = id
  BY <1>1 DEF Return, ClearLocals
<1>3. ~UpToDate(OldRow(ent.node), ent.mtime)
  BY <1>2, ModifiedNotUpToDate DEF OldRow, EnterFile, FileEntered
<1> QED
  BY <1>1, <1>2, <1>3 DEF Entered, Renewed, Grown

LEMMA HandIsFileStep ==
    ASSUME "silent" \notin FaultKinds, TypeInv, Position, RowInv, FreshInv, HandIsFile, [Next]_vars
    PROVE  HandIsFile'
BY HandStep, ReaderTypes, EnteredFile DEF HandIsFile

\* A directory at hand has no row with its stamp, since no row is ahead of it.
LEMMA DirectoryOldRow ==
    ASSUME TypeInv, Position, FreshInv, KindsStamped, StampsOfFiles,
           InManip("entry"), ent.kind = "dir", NEW i \in Used, entries[i].node = ent.node,
           entries[i].mtime # 0, Present(ent.node)
    PROVE  fs[ent.node].mtime # entries[i].mtime
<1> SUFFICES ASSUME fs[ent.node].mtime = entries[i].mtime PROVE FALSE
  OBVIOUS
<1>1. fs[ent.node].kind = "file"
  BY DEF StampsOfFiles, OfFile
<1>2. entries[i].mtime <= ent.mtime /\ ent.mtime <= fs[ent.node].mtime
  BY DEF InManip, FreshInv, ListingsOld, Seen, NotAhead
<1>3. ent.mtime \in Nat /\ entries[i].mtime \in Nat
  BY EntType, FileTypes, RowTypes
<1>4. ent.mtime = fs[ent.node].mtime
  BY <1>2, <1>3
<1> QED
  BY <1>1, <1>4 DEF InManip, KindsStamped, StampTells

LEMMA StampsOfFilesStep ==
    ASSUME "silent" \notin FaultKinds, TypeInv, Position, RowInv, FreshInv,
           KindsStamped, HandIsFile, StampsOfFiles, [Next]_vars
    PROVE  StampsOfFiles'
<1>0. entries \in Rows /\ clock \in Nat /\ TreeType
  BY FileTypes DEF TypeInv, TypeOK, ReaderTypeOK, TreeType
<1>1. CASE TreeStep(Held) /\ UNCHANGED <<readVars, faults, dbVars, localVars, scanVars>>
  <2>1. \A q \in Path : fs'[q] = fs[q] \/ fs'[q] = Nothing \/ fs'[q].mtime = clock + 1
    BY <1>0, <1>1, ChangeStamps DEF TreeStep
  <2>2. ASSUME NEW i \in Used PROVE OfFile(i)'
    <3>1. entries[i].mtime \in Nat /\ entries[i].node \in Path /\ entries[i].mtime <= clock
      BY <1>0, RowTypes DEF FreshInv, Stamped
    <3>2. entries' = entries
      BY <1>1 DEF dbVars
    <3>3. OfFile(i)
      BY DEF StampsOfFiles
    <3> QED
      BY <1>0, <2>1, <3>1, <3>2, <3>3 DEF OfFile, Present, Nothing
  <2> QED
    BY <1>1, <2>2 DEF StampsOfFiles, Used, dbVars
<1>2. CASE UNCHANGED treeVars
  <2> USE DEF treeVars, Present
  <2>1. CASE entries' = entries
    BY <1>2, <2>1 DEF StampsOfFiles, OfFile, Used
  <2>2. CASE AdmitRoot
    <3>1. PICK id \in EntryId : UpdateEntry(0, path, TRUE, 0, 0, id)
      BY <2>2 DEF AdmitRoot, RootUnknown, RootEntered
    <3>2. path = Root /\ path \in Path /\ ParentOf(0, path) /\ PathsFaithful
      BY <2>2, RootParent, ReaderTypes DEF AdmitRoot, RootUnknown, RootEntered, RowInv, RowTree
    <3>3. Grown(0, Root, id) /\ Renewed(Selected(0, NameOf[Root]), TRUE, 0, id)
      BY <1>0, <3>1, <3>2, UpdateGrows, UpdateRenews, RowIds
    <3>4. OfFile(id)'
      BY <1>2, <3>3 DEF Grown, RowKept, Renewed, StampsOfFiles, OfFile
    <3>5. \A i \in Used : i # id => OfFile(i)'
      BY <1>2, <3>3 DEF Grown, StampsOfFiles, OfFile
    <3> QED
      BY <3>3, <3>4, <3>5 DEF Grown, StampsOfFiles
  <2>3. CASE EnterDirectory
    <3>1. PICK id : Entered(TRUE, id)
      BY <2>3, EnterDirectoryEffect
    <3>2. InManip("entry") /\ ent.kind = "dir" /\ ent.node # Root
      BY <2>3, EntryParent, TreeAssumption DEF EnterDirectory, DirectoryEntered
    <3>3. OfFile(id)'
      <4>1. CASE id \in Used
        BY <1>2, <3>1, <3>2, <4>1, DirectoryOldRow DEF Entered, Grown, Renewed, OfFile
      <4>2. CASE id \notin Used
        BY <3>1, <3>2, <4>2 DEF Entered, Grown, Renewed, OfFile
      <4> QED
        BY <4>1, <4>2
    <3>4. \A i \in Used : i # id => OfFile(i)'
      BY <1>2, <3>1 DEF Entered, Grown, StampsOfFiles, OfFile
    <3> QED
      BY <3>1, <3>3, <3>4 DEF Entered, Grown, StampsOfFiles
  <2>4. CASE EnterFile
    <3>1. PICK id : Entered(FALSE, id)
      BY <2>4, EnterFileEffect
    <3>2. ent.node # Root
      BY <2>4, EntryParent, TreeAssumption DEF EnterFile, FileEntered
    <3>3. OfFile(id)'
      BY <1>2, <3>1, <3>2 DEF Entered, Grown, RowKept, Renewed, StampsOfFiles, OfFile
    <3>4. \A i \in Used : i # id => OfFile(i)'
      BY <1>2, <3>1 DEF Entered, Grown, StampsOfFiles, OfFile
    <3> QED
      BY <3>1, <3>3, <3>4 DEF Entered, Grown, StampsOfFiles
  <2>5. CASE RecordDigest
    <3>1. /\ ent.kind = "file" /\ entries[entryId].node = ent.node /\ StampTells(ent)
          /\ ~entries[entryId].dir /\ ent.node # Root
      BY <2>5, TreeAssumption
         DEF RecordDigest, InManip, FreshInv, RowInHand, KindsStamped, HandIsFile, FileStages,
             Position, FindData
    <3>2. ASSUME NEW i \in Used, i = entryId PROVE OfFile(i)'
      BY <1>2, <2>5, <3>1, <3>2, RecordEffect DEF OfFile, StampTells
    <3>3. ASSUME NEW i \in Used, i # entryId PROVE OfFile(i)'
      BY <1>2, <2>5, <3>3, RecordEffect DEF StampsOfFiles, OfFile
    <3> QED
      BY <2>5, <3>2, <3>3, RecordEffect DEF StampsOfFiles
  <2>6. CASE Cleanup \/ CleanupPartial
    BY <1>2, <2>6, CleanupEffect DEF StampsOfFiles, OfFile
  <2> QED
    BY <2>1, <2>2, <2>3, <2>4, <2>5, <2>6, EntriesChange
<1> QED
  BY <1>1, <1>2, QuietStep DEF BeginRead

-----------------------------------------------------------------------------
(* Module Indexer: a scan that nothing disturbs.                           *)

Running == InRead \/ pc = "returned"

\* No path has a time stamp that update_entry takes for "not given".
Dated == clock > 0 /\ \A p \in Path : Present(p) => fs[p].mtime > 0

LEMMA DatedInit ==
    ASSUME TreeInit, FirstStamp > 0
    PROVE  Dated
BY TreeAssumption DEF TreeInit, Dated, Path, Present, Nothing, Directory, File

LEMMA DatedStep ==
    ASSUME TypeInv, Dated, [Next]_vars
    PROVE  Dated'
<1>1. TreeType
  BY DEF TypeInv, TypeOK, ReaderTypeOK, TreeType
<1>2. CASE UNCHANGED treeVars
  BY <1>2 DEF treeVars, Dated, Present
<1>3. CASE TreeStep(Held)
  <2>1. clock' = clock + 1 /\ clock \in Nat
        /\ \A q \in Path : fs'[q] = fs[q] \/ fs'[q] = Nothing \/ fs'[q].mtime = clock + 1
    BY <1>1, <1>3, ChangeStamps DEF TreeStep, TreeType
  <2> QED
    BY <2>1 DEF Dated, Present, Nothing
<1> QED
  BY <1>2, <1>3, TreeChange

\* What the listings say is so, and what is gone was never there.
Exact(e) == Present(e.node) /\ e.kind = fs[e.node].kind /\ e.mtime = fs[e.node].mtime

ListingsExact ==
    InRead /\ quiet =>
        /\ \A d \in LiveHandles : \A e \in finds[d] : Exact(e)
        /\ pc = "manip" => Exact(ent)

GoneIsAbsent == Running /\ quiet => gone = {p \in Path : ~Present(p)}

LEMMA ListingsExactStep ==
    ASSUME ReaderTypeOK, Position, ListingsExact, [Next]_vars
    PROVE  ListingsExact'
<1> USE DEF InRead, Scanning
<1>0. WalkStep
  BY IndexerWalkStep
<1>1. CASE UNCHANGED <<treeVars, quiet>>
  <2>0. \A e : Exact(e)' <=> Exact(e)
    BY <1>1 DEF Exact, Present, treeVars
  <2>1. CASE Left \/ ~InRead'
    BY <2>1 DEF Left, ListingsExact
  <2>2. CASE OpenDirectory
    <3>1. /\ pc = "loop" /\ pc' = "next" /\ path \in Path
          /\ finds' = [finds EXCEPT ![path] = Listing(path)]
      BY <1>0, <2>2 DEF OpenDirectory, ReaderTypeOK
    <3>2. LiveHandles' = LiveHandles \cup {path} /\ LiveHandles \subseteq Path
      BY <1>0, <2>2, LiveSteps
    <3>3. \A e \in Listing(path) : Exact(e)
      BY DEF Listing, Exact, Children
    <3>4. \A d \in LiveHandles' :
              finds'[d] = Listing(path) \/ (d \in LiveHandles /\ finds'[d] = finds[d])
      BY <1>0, <3>1, <3>2 DEF ReaderTypeOK
    <3> QED
      BY <1>1, <2>0, <3>1, <3>3, <3>4 DEF ListingsExact
  <2>3. CASE NextEntry
    <3>1. /\ pc = "next" /\ ent' \in finds[handle] /\ handle \in Path
          /\ finds' = [finds EXCEPT ![handle] = @ \ {ent'}]
      BY <1>0, <2>3, EntryTaken
    <3>2. LiveHandles' = LiveHandles /\ handle \in LiveHandles /\ LiveHandles \subseteq Path
      BY <1>0, <2>3, LiveSteps
    <3>3. \A d \in LiveHandles : finds'[d] \subseteq finds[d]
      BY <1>0, <3>1, <3>2 DEF ReaderTypeOK
    <3> QED
      BY <1>1, <2>0, <3>1, <3>2, <3>3 DEF ListingsExact
  <2>4. CASE LoopPop \/ Descend \/ StayHere \/ (pc = "next" /\ CloseDirectory)
    <3>1. LiveHandles' \subseteq LiveHandles /\ finds' = finds /\ InRead
      BY <1>0, <2>4, LiveSteps DEF LoopPop, Descend, StayHere, CloseDirectory
    <3>2. pc' # "manip"
      BY <2>4 DEF LoopPop, Descend, StayHere, CloseDirectory
    <3> QED
      BY <1>1, <2>0, <3>1, <3>2 DEF ListingsExact
  <2>5. CASE UNCHANGED readVars
    BY <1>1, <2>0, <2>5 DEF readVars, ListingsExact, LiveHandles, Suspended
  <2>6. CASE pc = "manip" /\ ManipReturns
    <3>1. LiveHandles' = LiveHandles
      BY <1>0, <2>6, LiveSteps
    <3> QED
      BY <1>1, <2>0, <2>6, <3>1 DEF ManipReturns, ReturnTo, ListingsExact
  <2>7. CASE ~InRead /\ BeginRead
    <3>1. LiveHandles' = {}
      BY <2>7, EmptyLen DEF BeginRead, LiveHandles, Suspended
    <3> QED
      BY <2>7, <3>1 DEF BeginRead, ListingsExact
  <2> QED
    BY <1>0, <2>1, <2>2, <2>3, <2>4, <2>5, <2>6, <2>7, LoopCases DEF WalkStep
<1>2. CASE TreeStep(Held)
  BY <1>2 DEF TreeStep, ListingsExact
<1>3. CASE BeginRead
  <2>1. LiveHandles' = {}
    BY <1>3, EmptyLen DEF BeginRead, LiveHandles, Suspended
  <2> QED
    BY <1>3, <2>1 DEF BeginRead, ListingsExact
<1> QED
  BY <1>1, <1>2, <1>3, QuietStep

\* A scan goes on, or begins.
LEMMA RunningStep ==
    ASSUME [Next]_vars
    PROVE  /\ Running' => Running \/ BeginScan
           /\ ~InRead /\ BeginRead => BeginScan
<1> USE DEF InRead, Scanning, Running
<1>1. ASSUME ~InRead, BeginRead PROVE BeginScan
  <2>1. pc' = "loop" /\ pc \notin {"loop", "next", "manip", "descend"}
    BY <1>1 DEF BeginRead
  <2>2. ~Walk
    BY <2>1, ReaderLoopOutside DEF Walk
  <2>3. ~ManipStep
    BY <2>1 DEF ManipStep, AdmitShutdown, AdmitSkip, AdmitUndefined, AdmitRoot, RootUnknown,
       RootEntered, AdmitKnown,
       EnterDirectory, DirectoryEntered, EnterFile, FileEntered, OpenFile, OpenFileFails,
       ReadBlock, BlockRead, TrimBlocks, ReadEnd,
       ReadFails, RecordDigest, StatementThrows, InManip
  <2>4. ~(Wake \/ Stop \/ Cleanup \/ CleanupFails \/ CleanupPartial)
    BY <2>1 DEF Wake, Stop, Cleanup, CleanupFails, CleanupPartial, CleanupThrows, readerVars,
       readVars
  <2>5. ~Environment /\ ~UNCHANGED vars
    BY <2>1 DEF Environment, Restart, RequestShutdown, Crash, vars, readerVars, readVars
  <2> QED
    BY <1>1, <2>2, <2>3, <2>4, <2>5 DEF Next, Worker
<1>2. CASE ReaderLoop
  BY <1>2, LoopKeepsHistory
<1>3. UNCHANGED readVars => (Running' => Running)
  BY DEF readVars
<1>4. Running' => Running \/ BeginScan
  BY <1>1, <1>2, <1>3, IndexerWalkStep DEF WalkStep
<1> QED
  BY <1>1, <1>4

LEMMA GoneIsAbsentStep ==
    ASSUME GoneIsAbsent, [Next]_vars
    PROVE  GoneIsAbsent'
<1>1. CASE UNCHANGED <<treeVars, gone, quiet>>
  <2>1. Running' => Running \/ BeginRead
    BY RunningStep DEF BeginScan
  <2>2. CASE BeginRead
    BY <2>2 DEF BeginRead, GoneIsAbsent, treeVars, Present
  <2> QED
    BY <1>1, <2>1, <2>2 DEF GoneIsAbsent, treeVars, Present
<1>2. CASE TreeStep(Held)
  BY <1>2 DEF TreeStep, GoneIsAbsent
<1>3. CASE BeginRead
  BY <1>3 DEF BeginRead, GoneIsAbsent, treeVars, Present
<1> QED
  BY <1>1, <1>2, <1>3, QuietStep

\* An entry is to be admitted once it was taken from its listing.
LEMMA AtEntryStep ==
    ASSUME [Next]_vars, AtEntry'
    PROVE  NextEntry \/ (AtEntry /\ ent' = ent)
<1> USE DEF AtEntry
<1>1. CASE Walk
  <2>1. pc # "manip"
    BY <1>1, ReaderLoopOutside DEF Walk
  <2> QED
    BY <2>1, IndexerReadStep, ListingStep DEF OpenDirectory
<1>2. CASE \/ AdmitShutdown \/ AdmitSkip \/ AdmitUndefined \/ EnterDirectory \/ OpenFileFails
           \/ ReadFails \/ RecordDigest \/ StatementThrows
  BY <1>2 DEF AdmitShutdown, AdmitSkip, AdmitUndefined, EnterDirectory, DirectoryEntered,
     OpenFileFails,
              ReadFails, RecordDigest, StatementThrows, Return, ManipReturns, ReturnTo,
              ManipThrows, Leave
<1>3. CASE AdmitRoot \/ AdmitKnown
  BY <1>3 DEF AdmitRoot, RootUnknown, RootEntered, AdmitKnown, InManip, readerVars, readVars
<1>4. CASE EnterFile \/ OpenFile \/ ReadBlock \/ TrimBlocks \/ ReadEnd
  BY <1>4 DEF EnterFile, FileEntered, OpenFile, ReadBlock, BlockRead, TrimBlocks, ReadEnd, Return,
     ManipReturns, ReturnTo
<1>5. CASE Wake \/ Stop \/ BeginScan \/ Cleanup \/ CleanupFails \/ CleanupPartial
  BY <1>5 DEF Wake, Stop, Waiting, BeginScan, BeginRead, Cleanup, CleanupFails, CleanupPartial,
              CleanupThrows, readerVars, readVars
<1>6. CASE Restart \/ Crash
  BY <1>6 DEF Restart, Crash
<1>7. CASE \/ RequestShutdown \/ UNCHANGED vars
           \/ TreeStep(Held) /\ UNCHANGED <<readVars, faults, dbVars, localVars, scanVars>>
  BY <1>7 DEF RequestShutdown, vars, readerVars, readVars, localVars
<1> QED
  BY <1>1, <1>2, <1>3, <1>4, <1>5, <1>6, <1>7 DEF Next, Worker, Environment, ManipStep

Tidy == {"names", "digests"} \subseteq tidy

\* A scan is not tidy that was not begun so.
LEMMA UpdateTidy ==
    ASSUME NEW p, NEW n, NEW dir, NEW mtime, NEW size, NEW id,
           UpdateEntry(p, n, dir, mtime, size, id)
    PROVE  tidy' \subseteq tidy
BY DEF UpdateEntry, Lost

LEMMA TidyStep ==
    ASSUME [Next]_vars
    PROVE  /\ BeginScan \/ tidy' \subseteq tidy
           /\ Tidy' => BeginScan \/ Tidy
           /\ "names" \in tidy' => BeginScan \/ "names" \in tidy
<1> SUFFICES BeginScan \/ tidy' \subseteq tidy
  BY DEF Tidy
<1> USE DEF scanVars
<1>0. CASE BeginScan
  BY <1>0
<1>1. CASE Wake \/ Stop \/ Walk \/ Cleanup \/ CleanupFails \/ CleanupPartial
  BY <1>1 DEF Wake, Stop, Walk, Cleanup, CleanupFails, CleanupPartial, CleanupThrows
<1>2. CASE AdmitRoot \/ EnterDirectory \/ EnterFile
  BY <1>2, UpdateTidy DEF AdmitRoot, RootUnknown, RootEntered, EnterDirectory, DirectoryEntered,
     EnterFile, FileEntered
<1>3. CASE \/ AdmitShutdown \/ AdmitSkip \/ AdmitUndefined \/ AdmitKnown
           \/ OpenFile \/ OpenFileFails \/ ReadBlock \/ TrimBlocks \/ ReadEnd \/ ReadFails
           \/ RecordDigest \/ StatementThrows
  <2>1. tidy' = tidy
    BY <1>3 DEF AdmitShutdown, AdmitSkip, AdmitUndefined, AdmitKnown, OpenFile, OpenFileFails,
       ReadBlock, BlockRead, TrimBlocks, ReadEnd, ReadFails, RecordDigest, StatementThrows
  <2> QED
    BY <2>1
<1>4. CASE Environment \/ UNCHANGED vars
  BY <1>4 DEF Environment, Restart, RequestShutdown, Crash, vars
<1> QED
  BY <1>0, <1>1, <1>2, <1>3, <1>4 DEF Next, Worker, ManipStep

LEMMA BeginUnmarked ==
    ASSUME BeginScan
    PROVE  /\ "names" \in tidy' => \A i \in Used' : entries'[i].alive # 0
           /\ Tidy' => \A i \in Used' : entries'[i].alive # 0
           /\ Tidy' => \A i \in Used' : entries'[i].mtime # 0 => entries'[i].digest # Null
<1>1. entries' = entries /\ Used' = Used
  BY DEF BeginScan, dbVars, Used
<1>2. "names" \in tidy' => \A i \in Used : entries[i].alive = 1
  BY DEF BeginScan
<1>3. "names" \in tidy' => \A i \in Used' : entries'[i].alive # 0
  BY <1>1, <1>2
<1>4. "digests" \in tidy' => \A i \in Used : entries[i].mtime # 0 => entries[i].digest # Null
  BY DEF BeginScan
<1> QED
  BY <1>1, <1>3, <1>4 DEF Tidy

-----------------------------------------------------------------------------
(* The marks of a scan that began without any.                             *)

\* They are those of entries returned so far and of the root;
MarksReturned(D) ==
    Running /\ Tidy =>
        \A i \in Used : entries[i].alive = 0 =>
            /\ entries[i].node \in D \cup {Root}
            /\ ~(AtEntry /\ entries[i].node = ent.node)

\* the rows without have the digest of their stamp;
Digested ==
    Running /\ Tidy =>
        \A i \in Used : entries[i].alive = 1 /\ entries[i].mtime # 0 => entries[i].digest # Null

\* what was returned is there, and the root marked only for an entry of it.
ReturnedPresent(D) == Running /\ quiet => \A n \in D : Present(n)

RootListed == Running /\ quiet /\ Tidy /\ HasMark(Root) => Children(Root) # {}

LEMMA MarksReturnedStep ==
    ASSUME "silent" \notin FaultKinds, TypeInv, Position, RowInv, FreshInv,
           NEW D, Once(D), MarksReturned(D), [Next]_vars, NEW E, E = Taken(D)
    PROVE  MarksReturned(E)'
<1>1. CASE BeginScan
  <2>1. Tidy' => \A i \in Used' : entries'[i].alive # 0
    BY <1>1, BeginUnmarked, Zenon
  <2> QED
    BY <2>1 DEF MarksReturned
<1>2. ASSUME Running', Tidy', ~BeginScan, NEW i \in Used', entries'[i].alive = 0
      PROVE  entries'[i].node \in E \cup {Root} /\ ~(AtEntry' /\ entries'[i].node = ent'.node)
  <2>0. /\ Running /\ Tidy /\ (InRead \/ ~BeginRead)
    BY <1>2, RunningStep, TidyStep DEF Running
  <2>1. D \subseteq E /\ (NextEntry => E = D \cup {ent'.node})
    BY <2>0, TakenCases
  <2>2. \A j \in Used : entries[j].alive = 0 =>
            entries[j].node \in D \cup {Root} /\ ~(AtEntry /\ entries[j].node = ent.node)
    BY <2>0 DEF MarksReturned
  <2>3. CASE entries' = entries
    <3>1. i \in Used /\ entries[i].alive = 0 /\ entries'[i].node = entries[i].node
      BY <1>2, <2>3 DEF Used
    <3>2. CASE NextEntry
      <4>1. ent'.node \in Node /\ ent'.node \notin D
        BY <3>2, EntryTaken, LiveSteps DEF TypeInv, TypeOK, FindData, Once, InRead, Scanning
      <4> QED
        BY <2>1, <2>2, <3>1, <4>1, TreeAssumption
    <3>3. CASE ~NextEntry
      BY <2>1, <2>2, <3>1, <3>3, AtEntryStep
    <3> QED
      BY <3>2, <3>3
  <2>4. CASE AdmitRoot
    <3>1. PICK id : Grown(0, path, id)
      BY <2>4, AdmitRootGrown
    <3>2. path = Root /\ pc = "manip" /\ ent.node # Root /\ ent' = ent /\ AtEntry
      BY <2>4, RootParent, ReaderTypes, TreeAssumption
         DEF AdmitRoot, RootUnknown, RootEntered, InManip, Position, FindData, AtEntry, readVars
    <3> QED
      BY <1>2, <2>1, <2>2, <3>1, <3>2 DEF Grown
  <2>5. CASE EnterDirectory \/ EnterFile
    <3>1. PICK id : Grown(parents[path], ent.node, id)
      BY <2>5, EnterGrown
    <3>2. ent.node \in D
      BY <2>5, EntType
         DEF EnterDirectory, DirectoryEntered, EnterFile, FileEntered, InManip, Once, InRead,
         Scanning, InHand
    <3>3. ~AtEntry'
      BY <2>5 DEF EnterDirectory, DirectoryEntered, EnterFile, FileEntered, Return, ManipReturns,
         ReturnTo, AtEntry
    <3> QED
      BY <1>2, <2>1, <2>2, <3>1, <3>2, <3>3 DEF Grown
  <2>6. CASE RecordDigest
    <3>1. entries[entryId].alive = 0 /\ ~AtEntry'
      BY <2>6 DEF RecordDigest, InManip, RowInv, EntryKnown, Return, ManipReturns, ReturnTo, AtEntry
    <3>2. i \in Used /\ entries'[i].node = entries[i].node /\ entries[i].alive = 0
      BY <1>2, <2>6, <3>1, RecordEffect
    <3> QED
      BY <2>1, <2>2, <3>1, <3>2
  <2>7. ~(Cleanup \/ CleanupPartial)
    BY <1>2 DEF Running, InRead, Scanning, Cleanup, CleanupPartial, CleanupThrows
  <2> QED
    BY <2>3, <2>4, <2>5, <2>6, <2>7, EntriesChange
<1> QED
  BY <1>1, <1>2 DEF MarksReturned

LEMMA DigestedStep ==
    ASSUME "silent" \notin FaultKinds, TypeInv, Position, RowInv, Digested, [Next]_vars
    PROVE  Digested'
<1>1. CASE BeginScan
  BY <1>1, BeginUnmarked DEF Digested
<1>2. CASE entries' = entries /\ ~BeginScan
  BY <1>2, RunningStep, TidyStep DEF Digested, Used
<1>3. CASE AdmitRoot
  <2>1. Running /\ ~BeginScan
    BY <1>3 DEF BeginScan, AdmitRoot, RootUnknown, RootEntered, InManip, Running, InRead, Scanning
  <2>2. Tidy' => Tidy
    BY <2>1, TidyStep
  <2> QED
    BY <1>3, <2>1, <2>2, AdmitRootGrown DEF Grown, Digested
<1>4. CASE EnterDirectory \/ EnterFile
  <2>1. Running /\ ~BeginScan
    BY <1>4 DEF BeginScan, EnterDirectory, DirectoryEntered, EnterFile, FileEntered, InManip,
       Running, InRead, Scanning, scanVars
  <2>2. Tidy' => Tidy
    BY <2>1, TidyStep
  <2> QED
    BY <1>4, <2>1, <2>2, EnterGrown DEF Grown, Digested
<1>5. CASE RecordDigest
  <2>1. Running /\ tidy' = tidy
    BY <1>5 DEF RecordDigest, InManip, Running, InRead, Scanning, scanVars
  <2> QED
    BY <1>5, <2>1, RecordEffect DEF Digested, Tidy
<1>6. CASE Cleanup \/ CleanupPartial
  BY <1>6 DEF Running, InRead, Scanning, Cleanup, CleanupPartial, CleanupThrows, Digested
<1> QED
  BY <1>1, <1>2, <1>3, <1>4, <1>5, <1>6, EntriesChange

LEMMA ReturnedPresentStep ==
    ASSUME ReaderTypeOK, Position, ListingsExact,
           NEW D, ReturnedPresent(D), [Next]_vars, NEW E, E = Taken(D)
    PROVE  ReturnedPresent(E)'
<1>1. CASE ~InRead /\ BeginRead
  BY <1>1, TakenCases DEF ReturnedPresent
<1>2. CASE TreeStep(Held)
  BY <1>2 DEF TreeStep, ReturnedPresent
<1>3. ASSUME UNCHANGED <<treeVars, gone, quiet>>, ~(~InRead /\ BeginRead), Running', quiet',
             NEW n \in E
      PROVE  Present(n)'
  <2>1. Running /\ quiet /\ (Present(n)' <=> Present(n))
    BY <1>3, RunningStep DEF Present, treeVars, BeginScan, Running
  <2>2. CASE NextEntry /\ n = ent'.node
    <3>1. pc = "next" /\ ent' \in finds[handle] /\ handle \in LiveHandles
      BY <2>2, EntryTaken, LiveSteps
    <3> QED
      BY <2>1, <2>2, <3>1 DEF ListingsExact, Exact, InRead, Scanning
  <2>3. CASE ~(NextEntry /\ n = ent'.node)
    BY <1>3, <2>1, <2>3, TakenCases DEF ReturnedPresent
  <2> QED
    BY <2>2, <2>3
<1> QED
  BY <1>1, <1>2, <1>3, QuietStep DEF ReturnedPresent

LEMMA RootListedStep ==
    ASSUME "silent" \notin FaultKinds, TypeInv, Position, RowInv, RootListed, [Next]_vars
    PROVE  RootListed'
<1>1. CASE BeginScan
  <2>1. Tidy' => \A i \in Used' : entries'[i].alive # 0
    BY <1>1, BeginUnmarked, Zenon
  <2> QED
    BY <2>1 DEF RootListed, HasMark
<1>2. CASE TreeStep(Held)
  BY <1>2 DEF TreeStep, RootListed
<1>3. ASSUME UNCHANGED <<treeVars, gone, quiet>>, ~BeginScan, Running', quiet', Tidy', HasMark(Root)'
      PROVE  Children(Root)' # {}
  <2>1. Running /\ quiet /\ Tidy /\ Children(Root)' = Children(Root)
    BY <1>3, RunningStep, TidyStep DEF Children, Present, treeVars
  <2>2. CASE entries' = entries
    BY <1>3, <2>1, <2>2 DEF RootListed, HasMark, Used
  <2>3. CASE AdmitRoot
    <3>1. ent.node \in Children(Root)
      BY <2>3, RootParent, ReaderTypes DEF AdmitRoot, RootUnknown, RootEntered, Accessible,
         InManip, Position, FindData, Children
    <3> QED
      BY <2>1, <3>1
  <2>4. CASE EnterDirectory \/ EnterFile
    <3>1. PICK id : Grown(parents[path], ent.node, id)
      BY <2>4, EnterGrown
    <3>2. ent.node # Root
      BY <2>4, TreeAssumption DEF EnterDirectory, DirectoryEntered, EnterFile, FileEntered,
         InManip, Position, FindData
    <3>3. HasMark(Root)
      BY <1>3, <3>1, <3>2 DEF HasMark, Grown
    <3> QED
      BY <2>1, <3>3 DEF RootListed
  <2>5. CASE RecordDigest
    <3>1. entries[entryId].alive = 0
      BY <2>5 DEF RecordDigest, InManip, RowInv, EntryKnown
    <3>2. HasMark(Root)
      BY <1>3, <2>5, <3>1, RecordEffect DEF HasMark
    <3> QED
      BY <2>1, <3>2 DEF RootListed
  <2>6. ~(Cleanup \/ CleanupPartial)
    BY <1>3 DEF Running, InRead, Scanning, Cleanup, CleanupPartial, CleanupThrows
  <2> QED
    BY <2>2, <2>3, <2>4, <2>5, <2>6, EntriesChange
<1> QED
  BY <1>1, <1>2, <1>3, QuietStep DEF RootListed

-----------------------------------------------------------------------------
(* What the marked rows say.                                               *)

FileInHand(i) ==
    pc = "manip" /\ stage \in FileStages /\ entryId = i /\ ~entries[i].dir

Right(i) ==
    /\ entries[i].dir = (fs[entries[i].node].kind = "dir")
    /\ ~entries[i].dir => Recorded(i)

\* A marked row says what its entry is, unless that is still to be recorded.
MarkedRight ==
    Running /\ quiet /\ Tidy =>
        \A i \in Used : entries[i].alive = 0 /\ entries[i].node # Root =>
            Right(i) \/ FileInHand(i)

\* Nothing fails unnoticed that update_blocks has to do.
NoFaults == {"silent", "open", "read"} \cap FaultKinds = {} /\ Denied \cap Node = {}

\* A file in hand stays so until its digest is recorded.
LEMMA HandKept ==
    ASSUME NoFaults, TypeInv, Position, FreshInv, ListingsExact, [Next]_vars,
           ~RecordDigest, Running', quiet', NEW i, FileInHand(i)
    PROVE  FileInHand(i)'
<1> USE DEF FileStages, FileInHand
<1>0. /\ quiet => fs[ent.node].kind = "file" /\ ent.node \notin Denied
      /\ pc = "manip" /\ stage \notin {"admit", "entry"}
  BY DEF RowInHand, FreshInv, ListingsExact, InRead, Scanning, Exact, NoFaults, Position, FindData
<1>1. ~(AdmitShutdown \/ AdmitSkip \/ AdmitUndefined \/ AdmitRoot \/ AdmitKnown \/ EnterDirectory
          \/ EnterFile)
  BY <1>0 DEF AdmitShutdown, AdmitSkip, AdmitUndefined, AdmitRoot, RootUnknown, RootEntered,
     AdmitKnown, EnterDirectory, DirectoryEntered,
              EnterFile, FileEntered, InManip
<1>2. ~OpenFileFails /\ ~ReadFails
  BY <1>0 DEF OpenFileFails, ReadFails, NoFaults, Strike, Return, historyVars
<1>3. CASE OpenFile \/ ReadBlock \/ TrimBlocks \/ ReadEnd
  BY <1>3 DEF OpenFile, ReadBlock, BlockRead, TrimBlocks, ReadEnd, InManip, readerVars, readVars,
     dbVars
<1>4. ~StatementThrows /\ ~Crash
  BY DEF StatementThrows, Crash, ManipThrows, Leave, Running, InRead, Scanning
<1>5. ~(Wake \/ Stop \/ BeginScan \/ Cleanup \/ CleanupFails \/ CleanupPartial)
  BY <1>0 DEF Wake, Stop, Waiting, BeginScan, Cleanup, CleanupFails, CleanupPartial, CleanupThrows
<1>6. ~Walk
  BY <1>0, ReaderLoopOutside DEF Walk
<1>7. ~Restart
  BY DEF Restart
<1>8. ~TreeStep(Held)
  BY DEF TreeStep
<1>9. CASE RequestShutdown \/ UNCHANGED vars
  BY <1>9 DEF RequestShutdown, vars, readerVars, readVars, localVars, dbVars
<1> QED
  BY <1>1, <1>2, <1>3, <1>4, <1>5, <1>6, <1>7, <1>8, <1>9 DEF Next, Worker, Environment, ManipStep

\* The entry at hand is what the listing says, and stamped.
LEMMA EntryExact ==
    ASSUME TypeInv, ListingsExact, Dated, pc = "manip", quiet, Position
    PROVE  /\ Present(ent.node) /\ ent.kind = fs[ent.node].kind
           /\ ent.mtime = fs[ent.node].mtime /\ ent.mtime # 0
BY FileTypes, EntType DEF ListingsExact, Exact, InRead, Scanning, Dated, FileType

LEMMA DirectoryRight ==
    ASSUME NoFaults, TypeInv, Position, RowInv, FreshInv, KindsStamped, StampsOfFiles, Dated,
           ListingsExact, quiet, EnterDirectory, NEW id, Entered(TRUE, id)
    PROVE  entries'[id].node = ent.node /\ Right(id)'
<1>1. /\ InManip("entry") /\ ent.kind = "dir" /\ fs' = fs
      /\ Present(ent.node) /\ fs[ent.node].kind = "dir"
      /\ ent.mtime = fs[ent.node].mtime /\ ent.mtime # 0
  BY EntryExact DEF EnterDirectory, DirectoryEntered, InManip, Return, treeVars
<1>2. ASSUME UpToDate(OldRow(ent.node), ent.mtime), OldRow(ent.node) \in Used PROVE FALSE
  <2>1. entries[OldRow(ent.node)].mtime = ent.mtime /\ entries[OldRow(ent.node)].node = ent.node
    BY <1>1, <1>2, RowIds DEF UpToDate, StoredMtime, Used, Entered
  <2> QED
    BY <1>1, <1>2, <2>1, DirectoryOldRow
<1>3. entries'[id].dir = TRUE
  BY <1>2 DEF Entered, Renewed
<1> QED
  BY <1>1, <1>3 DEF Entered, Grown, Right

LEMMA FileRight ==
    ASSUME NoFaults, TypeInv, Position, RowInv, FreshInv, StampsOfFiles, Dated,
           ListingsExact, quiet, Tidy, Digested, NEW D, MarksReturned(D), EnterFile
    PROVE  \E id : Entered(FALSE, id) /\ (Right(id)' \/ FileInHand(id)')
<1>0. "silent" \notin FaultKinds
  BY DEF NoFaults
<1>1. PICK id : /\ Entered(FALSE, id)
                /\ IF NeedsDigest(StoredMtime(OldRow(ent.node)))
                   THEN /\ stage' = "open" /\ entryId' = id
                        /\ UNCHANGED <<treeVars, readVars, historyVars, blkNo, ctx>>
                   ELSE Return
  BY <1>0, EnterFileEffect
<1>2. /\ InManip("entry") /\ pc = "manip" /\ stage = "entry" /\ AtEntry /\ Running
      /\ Present(ent.node) /\ fs[ent.node].kind = "file"
      /\ ent.mtime = fs[ent.node].mtime /\ ent.mtime # 0
  BY EntryExact DEF EnterFile, FileEntered, InManip, AtEntry, Running, InRead, Scanning
<1>3. CASE NeedsDigest(StoredMtime(OldRow(ent.node)))
  <2>1. ~entries'[entryId'].dir
    BY <1>0, <1>1, <1>3, EnteredFile
  <2> QED
    BY <1>1, <1>2, <1>3, <2>1 DEF FileInHand, FileStages, readVars
<1>4. CASE ~NeedsDigest(StoredMtime(OldRow(ent.node)))
  <2>1. UpToDate(OldRow(ent.node), ent.mtime) /\ OldRow(ent.node) # 0
    BY <1>2, <1>4 DEF NeedsDigest, StoredMtime, UpToDate
  <2>2. /\ id = OldRow(ent.node) /\ id \in Used
        /\ entries'[id].dir = entries[id].dir /\ entries'[id].mtime = entries[id].mtime
        /\ entries'[id].digest = entries[id].digest
    BY <1>1, <2>1 DEF Entered, Renewed
  <2>3. entries[id].mtime = ent.mtime /\ entries[id].node = ent.node
    BY <1>1, <1>4, <2>1, <2>2 DEF NeedsDigest, StoredMtime, Entered
  <2>4. ~entries[id].dir
    BY <1>2, <2>2, <2>3 DEF StampsOfFiles, OfFile
  <2>5. entries[id].alive = 1
    <3>1. entries[id].alive # 0
      BY <1>2, <2>2, <2>3 DEF MarksReturned
    <3>2. entries[id].alive \in {0, 1}
      BY <2>2, UsedRow DEF TypeInv, TypeOK, Rows, Row
    <3> QED
      BY <3>1, <3>2
  <2>6. entries[id].digest # Null
    BY <1>2, <2>2, <2>3, <2>5 DEF Digested
  <2>7. fs' = fs /\ entries'[id].node = ent.node
    BY <1>1, <1>4 DEF Return, treeVars, Entered, Grown
  <2>8. entries[id].dir = FALSE
    BY <2>2, <2>4, UsedRow DEF TypeInv, TypeOK, Rows, Row
  <2>9. Right(id)'
    BY <1>2, <2>2, <2>3, <2>6, <2>7, <2>8 DEF Right, Recorded
  <2> QED
    BY <1>1, <2>9
<1> QED
  BY <1>3, <1>4

LEMMA MarkedRightStep ==
    ASSUME NoFaults, TypeInv, Position, RowInv, FreshInv, KindsStamped, HandIsFile, StampsOfFiles,
           Dated, ListingsExact, Digested, NEW D, MarksReturned(D), MarkedRight, [Next]_vars
    PROVE  MarkedRight'
<1>0. "silent" \notin FaultKinds
  BY DEF NoFaults
<1>1. CASE BeginScan
  <2>1. Tidy' => \A i \in Used' : entries'[i].alive # 0
    BY <1>1, BeginUnmarked, Zenon
  <2> QED
    BY <2>1 DEF MarkedRight
<1>2. CASE TreeStep(Held)
  BY <1>2 DEF TreeStep, MarkedRight
<1>3. ASSUME UNCHANGED <<treeVars, gone, quiet>>, ~BeginScan, Running', quiet', Tidy',
             NEW i \in Used', entries'[i].alive = 0, entries'[i].node # Root
      PROVE  Right(i)' \/ FileInHand(i)'
  <2>1. Running /\ quiet /\ Tidy /\ fs' = fs
    BY <1>3, RunningStep, TidyStep DEF treeVars
  <2>2. \A j \in Used : entries[j].alive = 0 /\ entries[j].node # Root => Right(j) \/ FileInHand(j)
    BY <2>1 DEF MarkedRight
  <2>3. \A j \in Used : entries'[j] = entries[j] => (Right(j)' <=> Right(j))
    BY <2>1 DEF Right, Recorded
  <2>4. CASE entries' = entries /\ ~RecordDigest
    <3>1. i \in Used /\ entries[i].alive = 0 /\ entries[i].node # Root
      BY <1>3, <2>4 DEF Used
    <3> QED
      BY <1>3, <2>2, <2>3, <2>4, <3>1, HandKept
  <2>5. CASE AdmitRoot
    <3>1. PICK id : Grown(0, path, id)
      BY <1>0, <2>5, AdmitRootGrown
    <3>2. path = Root /\ \A j : ~FileInHand(j)
      BY <2>5, RootParent, ReaderTypes DEF AdmitRoot, RootUnknown, RootEntered, InManip,
         FileInHand, FileStages
    <3>3. i # id
      BY <1>3, <3>1, <3>2 DEF Grown
    <3> QED
      BY <1>3, <2>2, <2>3, <3>1, <3>2, <3>3 DEF Grown
  <2>6. CASE EnterDirectory \/ EnterFile
    <3>1. \E id : /\ \E dir : Entered(dir, id)
                  /\ Right(id)' \/ FileInHand(id)'
      <4>1. CASE EnterDirectory
        BY <1>0, <2>1, <4>1, EnterDirectoryEffect, DirectoryRight
      <4>2. CASE EnterFile
        BY <2>1, <4>2, FileRight
      <4> QED
        BY <2>6, <4>1, <4>2
    <3>2. PICK id, dir : Entered(dir, id) /\ (Right(id)' \/ FileInHand(id)')
      BY <3>1
    <3>3. \A j : ~FileInHand(j)
      BY <2>6 DEF EnterDirectory, DirectoryEntered, EnterFile, FileEntered, InManip, FileInHand,
         FileStages
    <3>4. CASE i = id
      BY <3>2, <3>4
    <3>5. CASE i # id
      BY <1>3, <2>2, <2>3, <3>2, <3>3, <3>5 DEF Entered, Grown
    <3> QED
      BY <3>4, <3>5
  <2>7. CASE RecordDigest
    <3>1. InManip("record") /\ pc = "manip" /\ stage = "record"
      BY <2>7 DEF RecordDigest, InManip
    <3>2. /\ entries[entryId].node = ent.node /\ ~entries[entryId].dir /\ ctx # Null
          /\ fs[ent.node].kind = "file" /\ ent.mtime = fs[ent.node].mtime
      BY <2>1, <3>1, EntryExact, NullAssumption
         DEF FreshInv, RowInHand, HandIsFile, FileStages, TypeInv, TypeOK
    <3>3. CASE i = entryId
      <4>1. /\ entries'[i].node = ent.node /\ ~entries'[i].dir
            /\ entries'[i].mtime = ent.mtime /\ entries'[i].digest = ctx
            /\ entries'[i].dir = entries[i].dir /\ i \in Used
        BY <2>7, <3>2, <3>3, RecordEffect
      <4>2. entries[i].dir \in BOOLEAN
        BY <4>1, UsedRow DEF TypeInv, TypeOK, Rows, Row
      <4> QED
        BY <2>1, <3>2, <4>1, <4>2 DEF Right, Recorded
    <3>4. CASE i # entryId
      <4>1. i \in Used /\ entries'[i] = entries[i]
        BY <1>3, <2>7, <3>4, RecordEffect
      <4> QED
        BY <1>3, <2>2, <2>3, <3>4, <4>1 DEF FileInHand
    <3> QED
      BY <3>3, <3>4
  <2>8. ~(Cleanup \/ CleanupPartial)
    BY <1>3 DEF Running, InRead, Scanning, Cleanup, CleanupPartial, CleanupThrows
  <2> QED
    BY <2>4, <2>5, <2>6, <2>7, <2>8, EntriesChange
<1> QED
  BY <1>1, <1>2, <1>3, QuietStep DEF MarkedRight

-----------------------------------------------------------------------------
(* One undisturbed scan.                                                   *)

ScanMirrors ==
    /\ Dated /\ KindsStamped /\ HandIsFile /\ StampsOfFiles
    /\ ListingsExact /\ GoneIsAbsent /\ Digested /\ RootListed /\ MarkedRight
    /\ \E D : Once(D) /\ MarksReturned(D) /\ ReturnedPresent(D)

LEMMA ScanMirrorsInit ==
    ASSUME FirstStamp > 0, Init
    PROVE  ScanMirrors
<1> USE DEF InRead, Scanning, Running
<1>1. pc = "idle" /\ Used = {} /\ (\A d \in Path : finds[d] = {}) /\ Dated
  BY DatedInit DEF Init, ReaderInit, Used
<1>2. /\ KindsStamped /\ HandIsFile /\ StampsOfFiles /\ ListingsExact /\ GoneIsAbsent /\ Digested
      /\ RootListed /\ MarkedRight
  BY <1>1 DEF KindsStamped, HandIsFile, StampsOfFiles, ListingsExact, GoneIsAbsent, Digested,
              RootListed, MarkedRight
<1>3. Once({}) /\ MarksReturned({}) /\ ReturnedPresent({})
  BY <1>1 DEF Once, MarksReturned, ReturnedPresent
<1> QED
  BY <1>1, <1>2, <1>3 DEF ScanMirrors

LEMMA ScanMirrorsStep ==
    ASSUME NoFaults, TypeInv, Position, Chain, RowInv, FreshInv, ScanMirrors, [Next]_vars
    PROVE  ScanMirrors'
<1>1. PICK D : Once(D) /\ MarksReturned(D) /\ ReturnedPresent(D)
  BY DEF ScanMirrors
<1>2. PICK E : E = Taken(D)
  OBVIOUS
<1>3. "silent" \notin FaultKinds /\ ReaderTypeOK /\ WalkStep
  BY IndexerWalkStep DEF TypeInv, TypeOK, NoFaults
<1>4. /\ Dated /\ KindsStamped /\ HandIsFile /\ StampsOfFiles /\ ListingsExact /\ GoneIsAbsent
      /\ Digested /\ RootListed /\ MarkedRight
  BY DEF ScanMirrors
<1>5. Dated' /\ KindsStamped' /\ HandIsFile' /\ StampsOfFiles'
  BY <1>3, <1>4, DatedStep, KindsStampedStep, HandIsFileStep, StampsOfFilesStep
<1>6. ListingsExact' /\ GoneIsAbsent' /\ Digested' /\ RootListed'
  BY <1>3, <1>4, ListingsExactStep, GoneIsAbsentStep, DigestedStep, RootListedStep
<1>7. MarkedRight'
  BY <1>1, <1>4, MarkedRightStep
<1>8. Once(E)' /\ MarksReturned(E)' /\ ReturnedPresent(E)'
  BY <1>1, <1>2, <1>3, <1>4, OnceStep, MarksReturnedStep, ReturnedPresentStep
<1> QED
  BY <1>5, <1>6, <1>7, <1>8 DEF ScanMirrors

\* How a scan gets to be over.
LEMMA DoneStep ==
    ASSUME [Next]_vars, pc' = "idle", end' = "done"
    PROVE  \/ Cleanup
           \/ pc = "idle" /\ end = "done" /\ entries' = entries /\ tidy' = tidy
<1>1. CASE Walk
  BY <1>1, LoopCases DEF Walk, Left, OpenDirectory, LoopPop, Descend, NextEntry, ReturnTo, StayHere,
     CloseDirectory
<1>2. CASE \/ AdmitShutdown \/ AdmitSkip \/ EnterDirectory \/ EnterFile \/ OpenFileFails
           \/ ReadFails \/ RecordDigest
  BY <1>2 DEF AdmitShutdown, AdmitSkip, EnterDirectory, DirectoryEntered, EnterFile, FileEntered,
     OpenFileFails, ReadFails,
              RecordDigest, Return, ManipReturns, ReturnTo, InManip, readVars
<1>3. CASE \/ AdmitUndefined \/ AdmitRoot \/ AdmitKnown \/ OpenFile \/ ReadBlock \/ TrimBlocks
           \/ ReadEnd \/ StatementThrows
  BY <1>3 DEF AdmitUndefined, AdmitRoot, RootUnknown, RootEntered, AdmitKnown, OpenFile,
     ReadBlock, BlockRead, TrimBlocks, ReadEnd,
              StatementThrows, ManipThrows, Leave, InManip, readerVars, readVars
<1>4. CASE CleanupFails \/ CleanupPartial \/ Crash \/ BeginScan
  BY <1>4 DEF CleanupFails, CleanupPartial, CleanupThrows, Crash, BeginScan, BeginRead
<1>5. CASE \/ Wake \/ Stop \/ Restart \/ RequestShutdown \/ UNCHANGED vars
           \/ TreeStep(Held) /\ UNCHANGED <<readVars, faults, dbVars, localVars, scanVars>>
  BY <1>5 DEF Wake, Stop, Restart, RequestShutdown, vars, readerVars, readVars, dbVars, scanVars
<1> QED
  BY <1>1, <1>2, <1>3, <1>4, <1>5 DEF Next, Worker, Environment, ManipStep

\* The rows that a scan leaves.
LEMMA KeptRows ==
    ASSUME NEW rank, IsRank(rank), TypeInv, RowInv, ScanInv, ScanMirrors,
           pc = "returned", end = "done", quiet, Tidy
    PROVE  /\ {entries[i].node : i \in {j \in Used : entries[j].alive = 0}} = Listed
           /\ \A i \in Used : entries[i].alive = 0 => Right(i)
<1> DEFINE Kept == {j \in Used : entries[j].alive = 0}
<1>1. PICK D : Once(D) /\ MarksReturned(D) /\ ReturnedPresent(D)
  BY DEF ScanMirrors
<1>2. Running /\ (\A n \in Node : Present(n) => HasMark(n))
  BY AllMarked DEF ScanMirrors, GoneIsAbsent, Running, Path
<1>3. \A i \in Used : entries[i].node \in Path /\ entries[i].dir \in BOOLEAN
  BY UsedRow DEF TypeInv, TypeOK, Rows, Row
<1>4. HasMark(Root) => Children(Root) # {}
  BY <1>2 DEF ScanMirrors, RootListed
<1>5. \A i \in Kept : entries[i].node \in Listed
  <2>1. \A i \in Kept : entries[i].node \in D \cup {Root}
    BY <1>1, <1>2 DEF MarksReturned
  <2>2. \A n \in D : Present(n)
    BY <1>1, <1>2 DEF ReturnedPresent
  <2>3. \A i \in Kept : entries[i].node = Root => HasMark(Root)
    BY DEF HasMark
  <2> QED
    BY <1>3, <1>4, <2>1, <2>2, <2>3 DEF Listed, Path
<1>6. \A p \in Listed : \E i \in Kept : entries[i].node = p
  <2>1. ASSUME NEW n \in Children(Root) PROVE \E i \in Kept : entries[i].node = Root
    <3>1. PICK j \in Used : entries[j].node = n /\ entries[j].alive = 0
      BY <1>2 DEF Children, HasMark
    <3>2. n # Root /\ Up[n] = Root
      BY TreeAssumption DEF Children
    <3>3. entries[j].parent \in Used /\ entries[entries[j].parent].node = Root
      BY <3>1, <3>2 DEF RowInv, RowTree, PathsFaithful
    <3>4. entries[entries[j].parent].alive = 0
      BY <3>1, <3>3, RowIds DEF RowInv, RowTree, MarkedUpward, Used
    <3> QED
      BY <3>3, <3>4
  <2> QED
    BY <1>2, <2>1 DEF Listed, HasMark
<1>7. ASSUME NEW i \in Used, entries[i].alive = 0 PROVE Right(i)
  <2>1. CASE entries[i].node # Root
    BY <1>2, <1>7, <2>1 DEF ScanMirrors, MarkedRight, FileInHand
  <2>2. CASE entries[i].node = Root
    <3>1. entries[i].dir = TRUE
      BY <1>3, <2>2 DEF ScanMirrors, StampsOfFiles, OfFile
    <3>2. HasMark(Root)
      BY <1>7, <2>2 DEF HasMark
    <3>3. fs[Root].kind = "dir"
      BY <1>4, <3>2 DEF Children, ScanInv, TreeUp
    <3> QED
      BY <2>2, <3>1, <3>3 DEF Right
  <2> QED
    BY <2>1, <2>2
<1> QED
  BY <1>5, <1>6, <1>7

LEMMA MirrorStep ==
    ASSUME NEW rank, IsRank(rank), TypeInv, RowInv, ScanInv, ScanMirrors, MirrorAfterScan,
           [Next]_vars
    PROVE  MirrorAfterScan'
<1> SUFFICES ASSUME pc' = "idle", end' = "done", quiet', Tidy'
             PROVE  Mirror' /\ \A i \in Used' : entries'[i].alive = 1
  BY DEF MirrorAfterScan, Tidy
<1>1. UNCHANGED <<treeVars, quiet>>
  BY QuietStep DEF TreeStep, BeginRead
<1>2. CASE Cleanup
  <2>1. pc = "returned" /\ end = "done" /\ quiet /\ Tidy
    BY <1>1, <1>2 DEF Cleanup, scanVars, Tidy
  <2>2. /\ {entries[i].node : i \in {j \in Used : entries[j].alive = 0}} = Listed
        /\ \A i \in Used : entries[i].alive = 0 => Right(i)
    BY <2>1, KeptRows
  <2>3. /\ Used' = {i \in Used : entries[i].alive = 0}
        /\ \A i \in Used' : /\ entries'[i].node = entries[i].node /\ entries'[i].dir = entries[i].dir
                             /\ entries'[i].mtime = entries[i].mtime
                             /\ entries'[i].digest = entries[i].digest
                             /\ entries'[i].alive = 1
    BY <1>2, CleanupEffect
  <2>4. NamesMatch'
    <3>1. Listed' = Listed
      BY <1>1 DEF treeVars, Listed, Present, Children
    <3> QED
      BY <2>2, <2>3, <3>1 DEF NamesMatch
  <2>5. \A i \in Used' : Right(i)'
    BY <1>1, <2>2, <2>3 DEF treeVars, Right, Recorded
  <2> QED
    BY <2>3, <2>4, <2>5 DEF Mirror, Right
<1>3. CASE pc = "idle" /\ end = "done" /\ entries' = entries /\ tidy' = tidy
  BY <1>1, <1>3 DEF MirrorAfterScan, Mirror, NamesMatch, Listed, Children, Present, Recorded, Used,
     treeVars, Tidy
<1> QED
  BY <1>2, <1>3, DoneStep

LEMMA MirrorInvariant ==
    ASSUME {"silent", "open", "read"} \cap FaultKinds = {}, Denied \cap Node = {},
           FirstStamp > 0, NEW rank, IsRank(rank)
    PROVE  Steps => []MirrorAfterScan
<1>0. NoFaults /\ "silent" \notin FaultKinds
  BY DEF NoFaults
<1>1. Init => ScanMirrors
  BY ScanMirrorsInit
<1>2. /\ TypeInv /\ Position /\ Chain /\ RowInv /\ FreshInv /\ ScanMirrors /\ [Next]_vars
      => ScanMirrors'
  BY <1>0, ScanMirrorsStep
<1>3. Init => MirrorAfterScan
  BY DEF Init, ReaderInit, MirrorAfterScan
<1>4. TypeInv /\ RowInv /\ ScanInv /\ ScanMirrors /\ MirrorAfterScan /\ [Next]_vars => MirrorAfterScan'
  BY MirrorStep
<1>5. Steps => []RowInv /\ []FreshInv /\ []ScanInv
  BY <1>0, RowInvariant, FreshInvariant, ScanInvariant
<1> QED
  BY <1>1, <1>2, <1>3, <1>4, <1>5, TypeInvariant, PositionInvariant, ChainInvariant, PTL DEF Steps

\* One scan that nothing disturbs makes the table the mirror of the tree, and
\* leaves no marks, whatever scans, failures, crashes and changes went before,
\* if the rows that it began with had no marks and no stamp without a digest.
THEOREM MirrorAlwaysAfterScan ==
    ASSUME {"silent", "open", "read"} \cap FaultKinds = {}, Denied \cap Node = {},
           FirstStamp > 0, NEW rank, IsRank(rank)
    PROVE  Spec => []MirrorAfterScan
BY MirrorInvariant, SpecSteps, PTL

-----------------------------------------------------------------------------
(* The names, after a scan that began with any rows: those that lost       *)
(* INSERTs left, or in SharedDb those of two trackers, if no step of the   *)
(* other disturbs the scan.  What the table says of this directory is then *)
(* found by name only.                                                     *)

\* The walk, which needs nothing of the table.
Walked(D) ==
    /\ Position /\ Chain /\ TreeUp /\ Lasting /\ KindsRight /\ Leveled /\ StageInRead
    /\ ListingsExact /\ GoneIsAbsent
    /\ D \subseteq Node /\ Once(D) /\ Explored(D) /\ ReturnedPresent(D)

LEMMA WalkedInit ==
    ASSUME Init
    PROVE  Walked({})
<1>1. Position /\ Chain /\ TreeUp /\ Lasting /\ KindsRight /\ Leveled /\ StageInRead
  BY TreeUpInit DEF Init, ReaderInit, Position, Chain, Lasting, KindsRight, Leveled, StageInRead,
     InRead, Scanning
<1>2. ListingsExact /\ GoneIsAbsent
  BY DEF Init, ReaderInit, ListingsExact, GoneIsAbsent, Running, InRead, Scanning
<1>3. Once({}) /\ Explored({}) /\ ReturnedPresent({})
  BY DEF Init, ReaderInit, Once, Explored, ReturnedPresent, Running, InRead, Scanning
<1> QED
  BY <1>1, <1>2, <1>3 DEF Walked

LEMMA WalkedStep ==
    ASSUME NEW rank, IsRank(rank), ReaderTypeOK, NEW D, Walked(D), [Next]_vars, NEW E, E = Taken(D)
    PROVE  Walked(E)'
<1> USE DEF Walked
<1>0. WalkStep /\ ReadStep
  BY IndexerWalkStep, IndexerReadStep
<1>1. Position' /\ Chain' /\ TreeUp' /\ Lasting' /\ KindsRight' /\ Leveled'
  BY <1>0, PositionStep, ChainStep, TreeUpStep, LastingStep, KindsRightStep, LeveledStep
<1>2. StageInRead' /\ ListingsExact' /\ GoneIsAbsent'
  BY StageStep, ListingsExactStep, GoneIsAbsentStep
<1>3. Once(E)' /\ Explored(E)'
  BY <1>0, OnceStep, ExploredStep
<1>4. E \subseteq Node /\ ReturnedPresent(E)'
  BY TakenNodes, ReturnedPresentStep
<1> QED
  BY <1>1, <1>2, <1>3, <1>4

LEMMA TypeKept ==
    ASSUME NEW S, TypeIn(S), UNCHANGED <<readerVars, localVars, scanVars>>,
           entries' \in RowsIn(S), blocks' \in [EntryId -> [BlockNo -> Block \cup {Null}]]
    PROVE  TypeIn(S)'
<1> USE DEF readerVars, readVars, historyVars, treeVars, localVars, scanVars
<1>1. ReaderTypeOK'
  BY DEF TypeIn, TypeOKIn, ReaderTypeOK
<1>2. Control' /\ DataBound'
  BY DEF TypeIn, Control, Scanning, DataBound
<1> QED
  BY <1>1, <1>2 DEF TypeIn, TypeOKIn, RowsIn

\* What a write that is refused does to its tracker.
Refused ==
    \/ /\ pc = "manip"
       /\ ManipThrows("database") /\ ClearLocals
       /\ UNCHANGED <<fs, clock, faults, visited, gone, quiet, parents, mode, shutdown, tidy>>
    \/ CleanupThrows /\ UNCHANGED faults

LEMMA RefusedType ==
    ASSUME NEW S, RowSet(S), TypeIn(S), Refused, UNCHANGED dbVars
    PROVE  TypeIn(S)'
<1>1. CASE pc = "manip" /\ ManipThrows("database") /\ ClearLocals
           /\ UNCHANGED <<fs, clock, faults, visited, gone, quiet, parents, mode, shutdown, tidy>>
  BY <1>1, ManipThrowsType DEF dbVars, TypeIn, TypeOKIn, ReaderTypeOK
<1>2. CASE CleanupThrows /\ UNCHANGED faults
  <2> USE DEF CleanupThrows, readVars, historyVars, treeVars, localVars, scanVars, dbVars
  <2>1. ReaderTypeOK'
    BY <1>2, ReaderTypeKept DEF TypeIn, TypeOKIn, ReaderTypeOK, Endings
  <2>2. Control' /\ DataBound'
    BY <1>2 DEF TypeIn, Control, Scanning, BetweenScans, DataBound
  <2> QED
    BY <1>2, <2>1, <2>2 DEF TypeIn, TypeOKIn
<1> QED
  BY <1>1, <1>2 DEF Refused

-----------------------------------------------------------------------------
(* Rows by name.                                                           *)

\* Row i is that of path p, under the row that parents has for its directory.
RowFor(i, p) ==
    /\ i \in Used /\ entries[i].alive = 0 /\ entries[i].name = NameOf[p]
    /\ IF p = Root THEN entries[i].parent = 0
       ELSE parents[Up[p]] # Null /\ entries[i].parent = parents[Up[p]]

ParentRows == Running => \A p \in Path : parents[p] # Null => RowFor(parents[p], p)

HandRow == pc = "manip" /\ stage \in FileStages => RowFor(entryId, ent.node)

\* The rows of what has been returned are there, with the mark,
ReturnedRows(D) ==
    GoingOn /\ quiet => \A n \in D : (AtEntry /\ ent.node = n) \/ \E i : RowFor(i, n)

\* no others have the mark,
MarkedRows(D) ==
    Running => \A i \in Used : entries[i].alive = 0 => \E p \in D \cup {Root} : RowFor(i, p)

\* and the root's only if something is in the root.
RootRow == Running /\ quiet => \A i : RowFor(i, Root) => Children(Root) # {}

OwnMarks(D) == ParentRows /\ HandRow /\ ReturnedRows(D) /\ MarkedRows(D) /\ RootRow

\* What the statements of the scan keep of the rows and of parents,
KeysKept ==
    \A i \in Used :
        /\ i \in Used'
        /\ entries'[i].parent = entries[i].parent /\ entries'[i].name = entries[i].name
        /\ entries[i].alive = 0 => entries'[i].alive = 0

ParentsKept == \A p \in Path : parents[p] # Null => parents'[p] = parents[p]

\* and what update_entry makes of the row id.
Keeps(p, n, id) ==
    /\ KeysKept
    /\ id \in Used' /\ entries'[id].alive = 0
    /\ entries'[id].parent = p /\ entries'[id].name = NameOf[n]
    /\ \A i \in Used' : i # id => i \in Used /\ entries'[i] = entries[i]

LEMMA RowForStays ==
    ASSUME KeysKept, ParentsKept, NEW i, NEW p \in Path, RowFor(i, p)
    PROVE  RowFor(i, p)'
<1>1. p # Root => Up[p] \in Path
  BY TreeAssumption DEF Path
<1> QED
  BY <1>1 DEF KeysKept, ParentsKept, RowFor

LEMMA UpdateKeeps ==
    ASSUME "names" \in tidy', NEW S, RowSet(S), entries \in RowsIn(S), faults \in Nat,
           NEW p \in EntryId, NEW n \in Path, NEW dir \in BOOLEAN, NEW mtime, NEW size \in Nat,
           NEW id, UpdateEntry(p, n, dir, mtime, size, id)
    PROVE  Keeps(p, n, id)
<1> DEFINE old == Selected(p, NameOf[n])
<1>1. Written(S, p, n, dir, size, id)
  BY UpdateEntryCases
<1>2. Null \notin S
  BY DEF RowSet
<1>3. ASSUME id \in Used, id = old, NEW r \in S, entries' = [entries EXCEPT ![id] = r],
             r.parent = entries[id].parent, r.name = entries[id].name, r.alive = 0
      PROVE  Keeps(p, n, id)
  <2>1. id \in RowId /\ entries[id].parent = p /\ entries[id].name = NameOf[n]
    BY <1>3, SelectedRow, RowIds DEF Used
  <2>2. entries'[id] = r /\ \A i \in RowId : i # id => entries'[i] = entries[i]
    BY <1>3, <2>1 DEF RowsIn
  <2>3. Used' = Used
    BY <1>2, <1>3, <2>1, <2>2 DEF Used
  <2>4. KeysKept
    BY <1>3, <2>2, <2>3 DEF KeysKept, Used
  <2> QED
    BY <1>3, <2>1, <2>2, <2>3, <2>4 DEF Keeps, Used
<1>4. ASSUME id \in RowId \ Used, entries' = [entries EXCEPT ![id] = NewRow(p, n, dir, size)],
             NewRow(p, n, dir, size) \in S
      PROVE  Keeps(p, n, id)
  <2>1. entries'[id] = NewRow(p, n, dir, size) /\ \A i \in RowId : i # id => entries'[i] = entries[i]
    BY <1>4 DEF RowsIn
  <2>2. /\ id \in Used' /\ \A i \in Used : i # id /\ i \in Used'
        /\ \A i \in Used' : i # id => i \in Used
    BY <1>2, <1>4, <2>1 DEF Used
  <2>3. /\ entries'[id].alive = 0 /\ entries'[id].parent = p /\ entries'[id].name = NameOf[n]
    BY <2>1 DEF NewRow
  <2>4. KeysKept
    BY <2>1, <2>2 DEF KeysKept, Used
  <2> QED
    BY <2>1, <2>2, <2>3, <2>4 DEF Keeps, Used
<1> QED
  BY <1>1, <1>3, <1>4 DEF Written

LEMMA AdmitRootKeeps ==
    ASSUME "names" \in tidy', NEW S, RowSet(S), TypeIn(S), Position, AdmitRoot
    PROVE  /\ path = Root /\ parents[Root] = Null /\ AtEntry /\ Running /\ ent' = ent
           /\ \E id \in EntryId : Keeps(0, Root, id) /\ parents' = [parents EXCEPT ![Root] = id]
<1>1. PICK id \in EntryId :
          UpdateEntry(0, path, TRUE, 0, 0, id) /\ parents' = [parents EXCEPT ![path] = id]
  BY DEF AdmitRoot, RootUnknown, RootEntered
<1>2. path = Root /\ path \in Path
  BY RootParent DEF AdmitRoot, RootUnknown, RootEntered, TypeIn, TypeOKIn
<1>3. entries \in RowsIn(S) /\ faults \in Nat
  BY DEF TypeIn, TypeOKIn, ReaderTypeOK
<1>4. Keeps(0, path, id)
  BY <1>1, <1>2, <1>3, UpdateKeeps, RowIds
<1> QED
  BY <1>1, <1>2, <1>4 DEF AdmitRoot, RootUnknown, RootEntered, InManip, AtEntry, Running, InRead,
     Scanning, readVars

LEMMA EnterKeeps ==
    ASSUME "names" \in tidy', NEW S, RowSet(S), TypeIn(S), Position, ParentRows,
           EnterDirectory \/ EnterFile
    PROVE  /\ ent.node \in Node /\ Up[ent.node] = path /\ path \in Path
           /\ parents[path] # Null /\ parents[path] # 0 /\ Running /\ ~AtEntry'
           /\ \E id \in EntryId :
                 /\ Keeps(parents[path], ent.node, id)
                 /\ \A p \in Path : \/ parents'[p] = parents[p]
                                    \/ p = ent.node /\ parents[p] = Null /\ parents'[p] = id
                 /\ stage' = "open" => entryId' = id /\ ent' = ent /\ parents' = parents
<1>1. InManip("entry") /\ Running
  BY DEF EnterDirectory, DirectoryEntered, EnterFile, FileEntered, InManip, Running, InRead,
     Scanning
<1>2. ent.node \in Node /\ Up[ent.node] = path /\ path \in Path
  BY <1>1 DEF InManip, Position, FindData, TypeIn, TypeOKIn, ReaderTypeOK
<1>3. parents[path] # Null /\ parents \in [Path -> EntryId \cup {Null}]
  BY <1>1 DEF InManip, TypeIn, TypeOKIn, Control
<1>4. parents[path] \in EntryId /\ parents[path] # 0
  BY <1>1, <1>2, <1>3, RowIds DEF ParentRows, RowFor, Used
<1>5. PICK id \in EntryId, dir \in BOOLEAN :
          /\ UpdateEntry(parents[path], ent.node, dir, ent.mtime, ent.size, id)
          /\ \/ parents' = [parents EXCEPT ![ent.node] = IF @ = Null THEN id ELSE @]
             \/ parents' = parents
          /\ stage' = "open" => entryId' = id /\ ent' = ent /\ parents' = parents
  <2>1. CASE EnterDirectory
    BY <2>1 DEF EnterDirectory, DirectoryEntered, Return, ClearLocals
  <2>2. CASE EnterFile
    BY <2>2 DEF EnterFile, FileEntered, Return, ClearLocals, readVars, scanVars
  <2> QED
    BY <2>1, <2>2
<1>6. /\ entries \in RowsIn(S) /\ faults \in Nat /\ ent.node \in Path /\ ent.size \in Nat
  BY EntIn DEF TypeIn, TypeOKIn, ReaderTypeOK
<1>7. Keeps(parents[path], ent.node, id)
  BY <1>4, <1>5, <1>6, UpdateKeeps
<1>8. \A p \in Path : \/ parents'[p] = parents[p]
                      \/ p = ent.node /\ parents[p] = Null /\ parents'[p] = id
  BY <1>3, <1>5, <1>6
<1>9. ~AtEntry'
  BY DEF EnterDirectory, DirectoryEntered, EnterFile, FileEntered, Return, ManipReturns, ReturnTo,
     AtEntry
<1> QED
  BY <1>1, <1>2, <1>3, <1>4, <1>5, <1>7, <1>8, <1>9

LEMMA RecordKeeps ==
    ASSUME NEW S, RowSet(S), TypeIn(S), HandRow, RecordDigest
    PROVE  /\ KeysKept /\ Used' = Used /\ parents' = parents /\ ~AtEntry' /\ Running
           /\ RowFor(entryId, ent.node)
           /\ \A i \in Used : i # entryId => entries'[i] = entries[i]
<1>1. RowFor(entryId, ent.node) /\ Running
  BY DEF RecordDigest, InManip, HandRow, FileStages, Running, InRead, Scanning
<1>2. entryId \in Used /\ entryId \in RowId /\ entries[entryId] \in S /\ Null \notin S
  BY <1>1, UsedIn DEF RowFor, TypeIn, TypeOKIn, RowSet
<1> DEFINE r == [entries[entryId] EXCEPT !.alive = 0, !.mtime = ent.mtime, !.digest = ctx]
<1>3. Updated(S, r, entries[entryId], 0)
  BY <1>2, EntIn, RowRecorded DEF TypeIn, TypeOKIn
<1>4. entries'[entryId] = r /\ \A i \in RowId : i # entryId => entries'[i] = entries[i]
  BY <1>2 DEF RecordDigest
<1> HIDE DEF r
<1>5. Used' = Used
  BY <1>2, <1>3, <1>4 DEF Used, Updated
<1>6. KeysKept
  BY <1>2, <1>3, <1>4, <1>5 DEF KeysKept, Updated, Used
<1>7. parents' = parents /\ ~AtEntry'
  BY DEF RecordDigest, Return, ManipReturns, ReturnTo, AtEntry, scanVars
<1> QED
  BY <1>1, <1>4, <1>5, <1>6, <1>7 DEF Used

\* parents is written where rows are.
LEMMA ParentsChange ==
    ASSUME [Next]_vars
    PROVE  parents' = parents \/ AdmitRoot \/ EnterDirectory \/ BeginScan
<1> USE DEF scanVars
<1>1. CASE Wake \/ Stop \/ Walk \/ Cleanup \/ CleanupFails \/ CleanupPartial
  BY <1>1 DEF Wake, Stop, Walk, Cleanup, CleanupFails, CleanupPartial, CleanupThrows
<1>2. CASE ManipStep
  BY <1>2 DEF ManipStep, AdmitShutdown, AdmitSkip, AdmitUndefined, AdmitKnown,
     EnterFile, FileEntered, OpenFile, OpenFileFails, ReadBlock, BlockRead, TrimBlocks, ReadEnd,
     ReadFails,
     RecordDigest, StatementThrows
<1>3. CASE Environment \/ UNCHANGED vars
  BY <1>3 DEF Environment, Restart, RequestShutdown, Crash, vars
<1> QED
  BY <1>1, <1>2, <1>3 DEF Next, Worker

LEMMA KeysStay ==
    ASSUME "names" \in tidy', NEW S, RowSet(S), TypeIn(S), Position, ParentRows, HandRow,
           [Next]_vars, Running', ~BeginScan
    PROVE  KeysKept /\ ParentsKept
<1>1. CASE entries' = entries /\ parents' = parents
  BY <1>1 DEF KeysKept, ParentsKept, Used
<1>2. CASE AdmitRoot
  <2>1. parents \in [Path -> EntryId \cup {Null}]
    BY DEF TypeIn, TypeOKIn
  <2> QED
    BY <1>2, <2>1, AdmitRootKeeps DEF Keeps, ParentsKept
<1>3. CASE EnterDirectory \/ EnterFile
  BY <1>3, EnterKeeps DEF Keeps, ParentsKept
<1>4. CASE RecordDigest
  BY <1>4, RecordKeeps DEF ParentsKept
<1>5. ~(Cleanup \/ CleanupPartial)
  BY DEF Running, InRead, Scanning, Cleanup, CleanupPartial, CleanupThrows
<1> QED
  BY <1>1, <1>2, <1>3, <1>4, <1>5, EntriesChange, ParentsChange

LEMMA ParentRowsStep ==
    ASSUME "names" \in tidy', NEW S, RowSet(S), TypeIn(S), Position, ParentRows, HandRow,
           [Next]_vars
    PROVE  ParentRows'
<1>1. CASE BeginScan
  BY <1>1 DEF BeginScan, ParentRows
<1>2. ASSUME ~BeginScan, Running', NEW p \in Path, NEW i, i = parents'[p], i # Null
      PROVE  RowFor(i, p)'
  <2>1. Running /\ KeysKept /\ ParentsKept
    BY <1>2, KeysStay, RunningStep
  <2>2. CASE parents[p] # Null
    <3>1. i = parents[p]
      BY <1>2, <2>1, <2>2 DEF ParentsKept
    <3>2. RowFor(i, p)
      BY <2>1, <2>2, <3>1 DEF ParentRows
    <3> QED
      BY <2>1, <3>2, RowForStays
  <2>3. CASE parents[p] = Null
    <3>1. CASE AdmitRoot
      <4>1. PICK id : Keeps(0, Root, id) /\ parents' = [parents EXCEPT ![Root] = id]
        BY <3>1, AdmitRootKeeps
      <4>2. p = Root /\ i = id
        BY <1>2, <2>3, <4>1 DEF TypeIn, TypeOKIn
      <4> QED
        BY <4>1, <4>2 DEF Keeps, RowFor
    <3>2. CASE EnterDirectory \/ EnterFile
      <4>1. PICK id : /\ Keeps(parents[path], ent.node, id)
                      /\ \A q \in Path : \/ parents'[q] = parents[q]
                                         \/ q = ent.node /\ parents[q] = Null /\ parents'[q] = id
        BY <3>2, EnterKeeps
      <4>2. p = ent.node /\ i = id /\ Keeps(parents[path], p, i)
        BY <1>2, <2>3, <4>1
      <4>3. p # Root /\ Up[p] = path /\ path \in Path /\ parents[path] # Null
        BY <3>2, <4>2, EnterKeeps, TreeAssumption
      <4> QED
        BY <2>1, <4>2, <4>3 DEF Keeps, RowFor, ParentsKept
    <3> QED
      BY <1>2, <2>3, <3>1, <3>2, ParentsChange
  <2> QED
    BY <2>2, <2>3
<1> QED
  BY <1>1, <1>2 DEF ParentRows, RowFor

LEMMA HandRowStep ==
    ASSUME "names" \in tidy', NEW S, RowSet(S), TypeIn(S), Position, ParentRows, HandRow,
           [Next]_vars
    PROVE  HandRow'
<1> SUFFICES ASSUME pc' = "manip", stage' \in FileStages
             PROVE  RowFor(entryId, ent.node)'
  BY DEF HandRow
<1>1. CASE EnterFile /\ stage' = "open"
  <2>1. /\ ent.node \in Node /\ Up[ent.node] = path /\ path \in Path /\ parents[path] # Null
        /\ ent' = ent /\ parents' = parents /\ Keeps(parents[path], ent.node, entryId')
    BY <1>1, EnterKeeps
  <2>2. ent.node # Root
    BY <2>1, TreeAssumption
  <2> QED
    BY <2>1, <2>2 DEF Keeps, RowFor
<1>2. CASE /\ pc = "manip" /\ stage \in FileStages
           /\ entryId' = entryId /\ ent' = ent /\ entries' = entries
  <2>1. ~BeginScan /\ Running' /\ ent.node \in Path
    BY <1>2, EntIn DEF BeginScan, Running, InRead, Scanning, TypeIn, TypeOKIn
  <2>2. RowFor(entryId, ent.node)
    BY <1>2 DEF HandRow
  <2> QED
    BY <1>2, <2>1, <2>2, KeysStay, RowForStays
<1> QED
  BY <1>1, <1>2, HandStep DEF TypeIn

LEMMA ReturnedRowsStep ==
    ASSUME "names" \in tidy', NEW S, RowSet(S), TypeIn(S), ParentRows, HandRow,
           NEW D, Walked(D), ReturnedRows(D), [Next]_vars, NEW E, E = Taken(D)
    PROVE  ReturnedRows(E)'
<1> USE DEF Walked
<1>0. ReaderTypeOK
  BY DEF TypeIn, TypeOKIn
<1>1. CASE BeginScan
  <2>1. ~InRead /\ BeginRead
    BY <1>1 DEF BeginScan, InRead, Scanning
  <2> QED
    BY <2>1, TakenCases DEF ReturnedRows
<1>2. ASSUME ~BeginScan, GoingOn', quiet', NEW n \in E
      PROVE  (AtEntry /\ ent.node = n)' \/ \E i : RowFor(i, n)'
  <2>1. GoingOn /\ Running' /\ KeysKept /\ ParentsKept
    <3>1. Running'
      BY <1>2 DEF GoingOn, Running
    <3> QED
      BY <1>0, <1>2, <3>1, WentOn, KeysStay, RunningStep
  <2>2. quiet /\ treeVars' = treeVars
    BY <1>2, QuietStep DEF TreeStep
  <2>3. CASE NextEntry /\ n = ent'.node
    BY <1>0, <2>3, TakenAtEntry
  <2>4. CASE ~(NextEntry /\ n = ent'.node)
    <3>1. n \in D /\ n \in Path
      BY <1>2, <2>4 DEF Taken, Path
    <3>2. CASE \E i : RowFor(i, n)
      BY <2>1, <3>1, <3>2, RowForStays
    <3>3. CASE AtEntry /\ ent.node = n /\ ~(AtEntry' /\ ent' = ent)
      <4>1. ~AdmitSkip
        BY <2>1, <2>2, <3>1, <3>3
           DEF AdmitSkip, Accessible, ReturnedPresent, GoingOn, Running
      <4>2. CASE EnterDirectory \/ EnterFile
        <5>1. PICK id : Keeps(parents[path], n, id)
          BY <3>3, <4>2, EnterKeeps
        <5>2. n # Root /\ Up[n] = path /\ path \in Path /\ parents[path] # Null
          BY <3>3, <4>2, EnterKeeps, TreeAssumption
        <5>3. RowFor(id, n)'
          BY <2>1, <5>1, <5>2 DEF Keeps, RowFor, ParentsKept
        <5> QED
          BY <5>3
      <4> QED
        BY <1>2, <3>3, <4>1, <4>2, EntryLeft
    <3> QED
      BY <2>1, <2>2, <3>1, <3>2, <3>3 DEF ReturnedRows
  <2> QED
    BY <2>3, <2>4
<1> QED
  BY <1>1, <1>2 DEF ReturnedRows

LEMMA MarkedRowsStep ==
    ASSUME "names" \in tidy', NEW S, RowSet(S), TypeIn(S), ParentRows, HandRow,
           NEW D, Walked(D), MarkedRows(D) \/ BeginScan, [Next]_vars, NEW E, E = Taken(D)
    PROVE  MarkedRows(E)'
<1> USE DEF Walked
<1>1. CASE BeginScan
  <2>1. "names" \in tidy' => \A i \in Used' : entries'[i].alive # 0
    BY <1>1, BeginUnmarked, Zenon
  <2> QED
    BY <2>1 DEF MarkedRows
<1>2. ASSUME ~BeginScan, Running', NEW i \in Used', entries'[i].alive = 0
      PROVE  \E p \in E \cup {Root} : RowFor(i, p)'
  <2>1. Running /\ KeysKept /\ ParentsKept /\ (InRead \/ ~BeginRead)
    BY <1>2, RunningStep, KeysStay DEF Running
  <2>2. D \subseteq E /\ E \subseteq D \cup E
    BY <2>1, TakenCases
  <2>3. ASSUME i \in Used, entries[i].alive = 0 PROVE \E p \in E \cup {Root} : RowFor(i, p)'
    <3>1. PICK p \in D \cup {Root} : RowFor(i, p)
      BY <1>2, <2>1, <2>3 DEF MarkedRows
    <3>2. p \in Path
      BY DEF Path
    <3> QED
      BY <2>1, <2>2, <3>1, <3>2, RowForStays
  <2>4. CASE entries' = entries
    BY <1>2, <2>3, <2>4 DEF Used
  <2>5. CASE AdmitRoot
    <3>1. PICK id : Keeps(0, Root, id)
      BY <2>5, AdmitRootKeeps
    <3>2. CASE i = id
      BY <3>1, <3>2 DEF Keeps, RowFor
    <3> QED
      BY <1>2, <2>3, <3>1, <3>2 DEF Keeps
  <2>6. CASE EnterDirectory \/ EnterFile
    <3>0. PICK n \in Path : n = ent.node
      BY EntIn DEF TypeIn, TypeOKIn
    <3>1. PICK id : Keeps(parents[path], n, id)
      BY <2>6, <3>0, EnterKeeps
    <3>2. n # Root /\ Up[n] = path /\ path \in Path /\ parents[path] # Null
      BY <2>6, <3>0, EnterKeeps, TreeAssumption
    <3>3. n \in D
      BY <2>6, <3>0 DEF EnterDirectory, DirectoryEntered, EnterFile, FileEntered, InManip, Once,
         InRead, Scanning, InHand
    <3>4. CASE i = id
      <4>1. RowFor(i, n)'
        BY <2>1, <3>1, <3>2, <3>4 DEF Keeps, RowFor, ParentsKept
      <4> QED
        BY <2>2, <3>3, <4>1
    <3> QED
      BY <1>2, <2>3, <3>1, <3>4 DEF Keeps
  <2>7. CASE RecordDigest
    BY <1>2, <2>3, <2>7, RecordKeeps DEF RowFor
  <2>8. ~(Cleanup \/ CleanupPartial)
    BY <1>2 DEF Running, InRead, Scanning, Cleanup, CleanupPartial, CleanupThrows
  <2> QED
    BY <2>4, <2>5, <2>6, <2>7, <2>8, EntriesChange
<1> QED
  BY <1>1, <1>2 DEF MarkedRows

LEMMA RootRowStep ==
    ASSUME "names" \in tidy', NEW S, RowSet(S), TypeIn(S), Position, ParentRows, HandRow,
           RootRow \/ BeginScan, [Next]_vars
    PROVE  RootRow'
<1>1. CASE BeginScan
  <2>1. "names" \in tidy' => \A i \in Used' : entries'[i].alive # 0
    BY <1>1, BeginUnmarked, Zenon
  <2> QED
    BY <2>1 DEF RootRow, RowFor
<1>2. ASSUME ~BeginScan, Running', quiet', NEW i, RowFor(i, Root)'
      PROVE  Children(Root)' # {}
  <2>1. Running
    BY <1>2, RunningStep
  <2>2. quiet /\ Children(Root)' = Children(Root)
    BY <1>2, QuietStep DEF TreeStep, Children, Present, treeVars
  <2>3. RowFor(i, Root) => Children(Root)' # {}
    BY <1>2, <2>1, <2>2 DEF RootRow
  <2>4. CASE entries' = entries
    BY <1>2, <2>3, <2>4 DEF RowFor, Used
  <2>5. CASE AdmitRoot
    <3>1. ent.node \in Children(Root)
      BY <2>5, AdmitRootKeeps DEF AdmitRoot, RootUnknown, RootEntered, Accessible, InManip,
         Position, FindData, Children
    <3> QED
      BY <2>2, <3>1
  <2>6. CASE EnterDirectory \/ EnterFile
    <3>1. PICK id : Keeps(parents[path], ent.node, id) /\ parents[path] # 0
      BY <2>6, EnterKeeps
    <3> QED
      BY <1>2, <2>3, <3>1 DEF Keeps, RowFor
  <2>7. CASE RecordDigest
    <3>1. /\ KeysKept /\ Used' = Used /\ entries[entryId].alive = 0 /\ entryId \in Used
          /\ \A j \in Used : j # entryId => entries'[j] = entries[j]
      BY <2>7, RecordKeeps DEF RowFor
    <3> QED
      BY <1>2, <2>3, <3>1 DEF KeysKept, RowFor
  <2>8. ~(Cleanup \/ CleanupPartial)
    BY <1>2 DEF Running, InRead, Scanning, Cleanup, CleanupPartial, CleanupThrows
  <2> QED
    BY <2>4, <2>5, <2>6, <2>7, <2>8, EntriesChange
<1> QED
  BY <1>1, <1>2 DEF RootRow

-----------------------------------------------------------------------------
(* The table after the scan: the directory, filed by name.                 *)

Filed ==
    \E m : /\ \A p \in Listed :
                 /\ m[p] \in Used /\ entries[m[p]].name = NameOf[p]
                 /\ entries[m[p]].parent = IF p = Root THEN 0 ELSE m[Up[p]]
           /\ \A i \in Used : \E p \in Listed : i = m[p]

FiledWhenDone == pc = "idle" /\ end = "done" /\ quiet => Filed

LEMMA UpListed ==
    ASSUME TreeUp, NEW n \in Node, n \in Listed
    PROVE  Up[n] \in Listed /\ Up[n] \in Path
<1>1. Present(n) /\ Root \notin Node
  BY TreeAssumption DEF Listed
<1>2. fs[Up[n]].kind = "dir" /\ Up[n] \in Path
  BY <1>1, TreeAssumption DEF TreeUp, Path
<1>3. CASE Up[n] = Root
  BY <1>1, <1>2, <1>3 DEF Listed, Children
<1>4. CASE Up[n] # Root
  BY <1>2, <1>4 DEF Listed, Path, Present
<1> QED
  BY <1>2, <1>3, <1>4

\* RowAt is what its equation says.
LEMMA RowAtIs ==
    ASSUME NEW rank, IsRank(rank)
    PROVE  /\ RowAt[Root] = Selected(0, NameOf[Root])
           /\ \A n \in Node :
                 RowAt[n] = IF RowAt[Up[n]] = 0 THEN 0 ELSE Selected(RowAt[Up[n]], NameOf[n])
<1> DEFINE E(f) == f = [p \in Path |->
                           IF p = Root THEN Selected(0, NameOf[Root])
                           ELSE IF f[Up[p]] = 0 THEN 0 ELSE Selected(f[Up[p]], NameOf[p])]
           G == [n \in Node |-> [i \in EntryId |-> IF i = 0 THEN 0 ELSE Selected(i, NameOf[n])]]
           c == Selected(0, NameOf[Root])
<1>1. Root \in Path /\ Root \notin Node /\ \A n \in Node : Up[n] \in Path /\ n \in Path
  BY TreeAssumption DEF Path
<1>2. PICK F \in [Path -> EntryId] :
          F[Root] = Selected(0, NameOf[Root]) /\ \A n \in Node : F[n] = G[n][F[Up[n]]]
  <2>1. G \in [Node -> [EntryId -> EntryId]] /\ c \in EntryId
    BY SelectedRow, RowIds
  <2>2. \E F \in [Path -> EntryId] : F[Root] = c /\ \A n \in Node : F[n] = G[n][F[Up[n]]]
    <3> HIDE DEF G, c
    <3> QED
      BY <2>1, TreeRecursion
  <2> QED
    BY <2>2
<1>3. \A n \in Node : F[n] = IF F[Up[n]] = 0 THEN 0 ELSE Selected(F[Up[n]], NameOf[n])
  BY <1>1, <1>2
<1>4. E(F)
  BY <1>1, <1>2, <1>3, \A p \in Path : p = Root \/ p \in Node DEF Path
<1>5. E(RowAt)
  BY <1>4 DEF RowAt
<1>6. \A p \in Path :
          RowAt[p] = IF p = Root THEN Selected(0, NameOf[Root])
                     ELSE IF RowAt[Up[p]] = 0 THEN 0 ELSE Selected(RowAt[Up[p]], NameOf[p])
  BY <1>5
<1> QED
  BY <1>1, <1>6

LEMMA FiledIsFound ==
    ASSUME NEW rank, IsRank(rank), UniqueKeys, TreeUp, Filed
    PROVE  {RowAt[p] : p \in Listed} = Used
<1>1. PICK m : /\ \A p \in Listed :
                     /\ m[p] \in Used /\ entries[m[p]].name = NameOf[p]
                     /\ entries[m[p]].parent = IF p = Root THEN 0 ELSE m[Up[p]]
               /\ \A i \in Used : \E p \in Listed : i = m[p]
  BY DEF Filed
<1> DEFINE S == {p \in Listed : RowAt[p] # m[p]}
<1>2. ASSUME NEW p \in Listed, NEW q, entries[m[p]].parent = q PROVE Selected(q, NameOf[p]) = m[p]
  <2>1. Selected(q, NameOf[p]) # 0
    BY <1>1, <1>2, SelectedRow
  <2> QED
    BY <1>1, <1>2, <2>1, SelectedRow DEF UniqueKeys
<1>3. S = {}
  <2>1. SUFFICES ASSUME S # {} PROVE FALSE
    OBVIOUS
  <2>2. PICK p \in S : \A q \in S : rank[p] <= rank[q]
    <3> S \in SUBSET Path
      BY DEF Listed, Path
    <3> HIDE DEF S
    <3> QED
      BY <2>1, FirstPath DEF IsRank
  <2>3. CASE p = Root
    BY <1>1, <1>2, <2>2, <2>3, RowAtIs
  <2>4. CASE p # Root
    <3>1. p \in Node
      BY <2>2, <2>4 DEF Listed
    <3>2. Up[p] \in Listed /\ Up[p] \in Path
      BY <2>2, <3>1, UpListed
    <3>3. rank[Up[p]] \in Nat /\ rank[p] \in Nat /\ rank[Up[p]] < rank[p]
      BY <3>1, <3>2 DEF IsRank, Path
    <3>4. RowAt[Up[p]] = m[Up[p]]
      BY <2>2, <3>2, <3>3
    <3>5. m[Up[p]] # 0
      BY <1>1, <3>2, RowIds DEF Used
    <3>6. RowAt[p] = Selected(m[Up[p]], NameOf[p])
      BY <3>1, <3>4, <3>5, RowAtIs
    <3> QED
      BY <1>1, <1>2, <2>2, <2>4, <3>6
  <2> QED
    BY <2>3, <2>4
<1> QED
  BY <1>1, <1>3

LEMMA CleanupKeeps ==
    ASSUME NEW S, RowSet(S), entries \in RowsIn(S), Cleanup
    PROVE  /\ Used' = {i \in Used : entries[i].alive = 0}
           /\ \A i \in Used' :
                 entries'[i].parent = entries[i].parent /\ entries'[i].name = entries[i].name
<1> DEFINE r(i) == [entries[i] EXCEPT !.alive = 1]
<1>1. \A i \in Used : /\ i \in RowId /\ entries[i] \in S /\ entries[i].alive \in {0, 1}
                      /\ Updated(S, r(i), entries[i], 1) /\ r(i) # Null
  <2>1. ASSUME NEW i \in Used
        PROVE  i \in RowId /\ entries[i] \in S /\ Updated(S, r(i), entries[i], 1)
    BY UsedIn, RowTouched
  <2> HIDE DEF r
  <2> QED
    BY <2>1 DEF RowSet, Updated
<1>2. \A i \in RowId : entries'[i] = IF i \in Used \ Unmet THEN r(i) ELSE Null
  BY DEF Cleanup, RowsReset
<1> HIDE DEF r
<1>3. \A i \in Used : i \in Unmet <=> entries[i].alive # 0
  BY <1>1 DEF Unmet
<1>4. Used' = {i \in Used : entries[i].alive = 0}
  BY <1>1, <1>2, <1>3 DEF Used
<1> QED
  BY <1>1, <1>2, <1>3, <1>4 DEF Updated

\* cleanup_entries leaves the rows of what is there.
LEMMA CleanupFiles ==
    ASSUME NEW rank, IsRank(rank), NEW S, RowSet(S), TypeIn(S), UniqueKeys, NEW D, Walked(D),
           OwnMarks(D), Cleanup, end = "done", quiet
    PROVE  Filed'
<1> USE DEF Walked, OwnMarks
<1>0. pc = "returned" /\ Running /\ GoingOn /\ ~AtEntry /\ fs' = fs
  BY DEF Cleanup, Running, GoingOn, AtEntry, treeVars
<1>1. \A n \in D : Present(n) /\ \E i : RowFor(i, n)
  BY <1>0 DEF ReturnedRows, ReturnedPresent
<1>2. \A n \in Node : Present(n) => n \in D
  <2>1. \A n \in Node \ gone : n \in D
    BY <1>0, AllReturned, IndexerAssumption DEF TypeIn, TypeOKIn
  <2> QED
    BY <1>0, <2>1 DEF GoneIsAbsent, Path
<1>3. \A i \in Used : entries[i].alive = 0 => \E p \in Listed : RowFor(i, p)
  <2>1. ASSUME NEW i \in Used, entries[i].alive = 0 PROVE \E p \in Listed : RowFor(i, p)
    <3>1. PICK p \in D \cup {Root} : RowFor(i, p)
      BY <1>0, <2>1 DEF MarkedRows
    <3> QED
      BY <1>0, <1>1, <3>1 DEF RootRow, Listed
  <2> QED
    BY <2>1
<1>4. \A p \in Listed : \E i : RowFor(i, p)
  <2>1. ASSUME NEW n \in Children(Root) PROVE \E i : RowFor(i, Root)
    <3>1. n \in Node /\ Present(n) /\ Up[n] = Root /\ n # Root
      BY TreeAssumption DEF Children
    <3>2. parents[Root] # Null
      BY <1>1, <1>2, <3>1 DEF RowFor
    <3> QED
      BY <1>0, <3>2 DEF ParentRows, Path
  <2> QED
    BY <1>1, <1>2, <2>1 DEF Listed
<1>5. ASSUME NEW i, NEW j, NEW p, RowFor(i, p), RowFor(j, p) PROVE i = j
  BY <1>5 DEF RowFor, UniqueKeys
<1> DEFINE m == [p \in Path |-> CHOOSE i : RowFor(i, p)]
<1>6. \A p \in Listed : RowFor(m[p], p)
  BY <1>4 DEF Listed, Path
<1> HIDE DEF m
<1>7. ASSUME NEW p \in Listed, p # Root PROVE entries[m[p]].parent = m[Up[p]]
  <2>1. Up[p] \in Listed /\ Up[p] \in Path
    BY <1>7, UpListed DEF Listed
  <2>2. parents[Up[p]] # Null /\ entries[m[p]].parent = parents[Up[p]]
    BY <1>6, <1>7 DEF RowFor
  <2>3. RowFor(parents[Up[p]], Up[p])
    BY <1>0, <2>1, <2>2 DEF ParentRows
  <2> QED
    BY <1>5, <1>6, <2>1, <2>2, <2>3
<1>8. /\ Used' = {i \in Used : entries[i].alive = 0}
      /\ \A i \in Used' :
            entries'[i].parent = entries[i].parent /\ entries'[i].name = entries[i].name
  BY CleanupKeeps DEF TypeIn, TypeOKIn
<1>9. Listed' = Listed
  BY <1>0 DEF Listed, Present, Children
<1>10. \A p \in Listed' : /\ m[p] \in Used' /\ entries'[m[p]].name = NameOf[p]
                          /\ entries'[m[p]].parent = IF p = Root THEN 0 ELSE m[Up[p]]
  BY <1>6, <1>7, <1>8, <1>9 DEF RowFor
<1>11. \A i \in Used' : \E p \in Listed' : i = m[p]
  BY <1>3, <1>5, <1>6, <1>8, <1>9
<1> QED
  BY <1>10, <1>11 DEF Filed

\* All that is kept of a scan that is alone, unless rows had the mark when it
\* began or an INSERT of it was lost.
Own(D) == "names" \in tidy => OwnMarks(D) /\ FiledWhenDone

LEMMA OwnInit ==
    ASSUME Init
    PROVE  Own({})
<1>1. ~Running /\ pc = "idle" /\ end = "none"
  BY DEF Init, ReaderInit, Running, InRead, Scanning
<1> QED
  BY <1>1 DEF Own, OwnMarks, ParentRows, HandRow, ReturnedRows, MarkedRows, RootRow, GoingOn,
     FiledWhenDone, InRead, Scanning, Running

\* It becomes true when the scan begins and is kept by its steps.
LEMMA OwnStep ==
    ASSUME NEW rank, IsRank(rank), NEW S, RowSet(S), TypeIn(S),
           UniqueKeys, NEW D, Walked(D), Own(D) \/ BeginScan, [Next]_vars, NEW E, E = Taken(D)
    PROVE  Own(E)'
<1> SUFFICES ASSUME "names" \in tidy'
             PROVE  OwnMarks(E)' /\ FiledWhenDone'
  BY DEF Own
<1>1. CASE BeginScan
  <2>1. /\ pc' = "loop" /\ \A p \in Path : parents'[p] = Null
    BY <1>1 DEF BeginScan, BeginRead
  <2>2. ~InRead /\ BeginRead
    BY <1>1 DEF BeginScan, InRead, Scanning
  <2>3. ParentRows' /\ HandRow'
    BY <2>1 DEF ParentRows, HandRow
  <2>4. ReturnedRows(E)'
    BY <2>2, TakenCases DEF ReturnedRows
  <2>5. "names" \in tidy' => \A i \in Used' : entries'[i].alive # 0
    BY <1>1, BeginUnmarked, Zenon
  <2>6. MarkedRows(E)' /\ RootRow'
    BY <2>5 DEF MarkedRows, RootRow, RowFor
  <2>7. FiledWhenDone'
    BY <2>1 DEF FiledWhenDone
  <2> QED
    BY <2>3, <2>4, <2>6, <2>7 DEF OwnMarks
<1>2. CASE ~BeginScan
  <2>0. OwnMarks(D) /\ FiledWhenDone
    BY <1>2, TidyStep DEF Own
  <2>1. OwnMarks(E)'
    BY <2>0, ParentRowsStep, HandRowStep, ReturnedRowsStep, MarkedRowsStep, RootRowStep
       DEF OwnMarks, Walked
  <2>2. ASSUME pc' = "idle", end' = "done", quiet' PROVE Filed'
    <3>1. UNCHANGED <<treeVars, quiet>>
      BY <2>2, QuietStep DEF TreeStep, BeginRead
    <3>2. CASE Cleanup
      BY <2>0, <2>2, <3>1, <3>2, CleanupFiles DEF Cleanup
    <3>3. CASE pc = "idle" /\ end = "done" /\ entries' = entries /\ tidy' = tidy
      <4>1. Filed
        BY <2>0, <2>2, <3>1, <3>3 DEF FiledWhenDone
      <4>2. Listed' = Listed /\ Used' = Used
        BY <3>1, <3>3 DEF Listed, Present, Children, treeVars, Used
      <4> QED
        BY <3>3, <4>1, <4>2 DEF Filed
    <3> QED
      BY <2>2, <3>2, <3>3, DoneStep
  <2> QED
    BY <2>1, <2>2 DEF FiledWhenDone
<1> QED
  BY <1>1, <1>2

\* What is kept of every scan, whether it is tidy or not.
ScanNames == \E D : Walked(D) /\ Own(D)

LEMMA NamesInvariant ==
    ASSUME NEW rank, IsRank(rank)
    PROVE  Steps => []NamesAfterScan
<1>1. Init => ScanNames
  BY WalkedInit, OwnInit DEF ScanNames
<1>2. TypeInv /\ UniqueKeys /\ ScanNames /\ [Next]_vars => ScanNames'
  <2> SUFFICES ASSUME TypeInv, UniqueKeys, [Next]_vars, NEW D, Walked(D), Own(D)
               PROVE  ScanNames'
    BY DEF ScanNames
  <2>1. RowSet(Row) /\ TypeIn(Row) /\ ReaderTypeOK
    BY OwnRows DEF TypeInv, TypeOK
  <2>2. PICK E : E = Taken(D)
    OBVIOUS
  <2>3. Walked(E)' /\ Own(E)'
    BY <2>1, <2>2, WalkedStep, OwnStep
  <2> QED
    BY <2>3 DEF ScanNames
<1>3. UniqueKeys /\ ScanNames => NamesAfterScan
  BY FiledIsFound DEF ScanNames, Walked, Own, FiledWhenDone, NamesAfterScan
<1> QED
  BY <1>1, <1>2, <1>3, TypeInvariant, KeysInvariant, PTL DEF Steps

\* One undisturbed scan repairs the names, for every tree and any number of
\* failures of every kind before it, lost INSERTs among them: after it each path
\* that is there is found by parent and name, and no row is left over.
THEOREM NamesAlwaysAfterScan ==
    ASSUME NEW rank, IsRank(rank)
    PROVE  Spec => []NamesAfterScan
BY NamesInvariant, SpecSteps, PTL

\* Nor do marks outlast a scan whose cleanup was done, however the scan ended: none
\* is there when the next begins.
Cleaned == pc = "idle" /\ end # "crashed" => \A i \in Used : entries[i].alive = 1

\* Between scans the worker writes nothing, and only cleanup_entries ends one.
LEMMA IdleStep ==
    ASSUME [Next]_vars, pc' = "idle"
    PROVE  Cleanup \/ end' = "crashed" \/ UNCHANGED <<pc, end, entries>>
<1>1. CASE Wake \/ Stop
  BY <1>1 DEF Wake, Stop, readerVars, readVars, dbVars
<1>2. CASE BeginScan
  BY <1>2 DEF BeginScan, BeginRead
<1>3. CASE Walk
  <2>1. CASE LoopAbort \/ LoopDone \/ LoopPop \/ OpenDirectory \/ OpenGone \/ OpenFails
    BY <2>1 DEF LoopAbort, LoopDone, LoopPop, OpenDirectory, OpenGone, OpenFails, Leave
  <2>2. CASE NextEntry \/ NextEnd \/ NextAborted \/ NextError
    BY <2>2 DEF NextEntry, NextEnd, NextAborted, NextError, CloseDirectory, Leave, ReturnTo
  <2>3. CASE Descend \/ StayHere
    BY <2>3 DEF Descend, StayHere
  <2> QED
    BY <1>3, <2>1, <2>2, <2>3 DEF Walk, ReaderLoop
<1>4. CASE ManipStep
  <2>1. CASE AdmitShutdown \/ AdmitSkip \/ AdmitUndefined \/ AdmitRoot \/ AdmitKnown
    BY <2>1 DEF AdmitShutdown, AdmitSkip, AdmitUndefined, AdmitRoot, RootUnknown, RootEntered,
       AdmitKnown, Return,
       ManipReturns, ReturnTo, ManipThrows, Leave, readVars, readerVars, InManip
  <2>2. CASE EnterDirectory \/ EnterFile \/ OpenFile \/ OpenFileFails
    BY <2>2 DEF EnterDirectory, DirectoryEntered, EnterFile, FileEntered, OpenFile, OpenFileFails,
       Return, ManipReturns, ReturnTo,
       readVars, readerVars, InManip
  <2>3. CASE ReadBlock \/ TrimBlocks \/ ReadEnd \/ ReadFails \/ RecordDigest \/ StatementThrows
    BY <2>3 DEF ReadBlock, BlockRead, TrimBlocks, ReadEnd, ReadFails, RecordDigest,
       StatementThrows, Return,
       ManipReturns, ReturnTo, ManipThrows, Leave, readVars, readerVars, InManip
  <2> QED
    BY <1>4, <2>1, <2>2, <2>3 DEF ManipStep
<1>5. CASE CleanupFails \/ CleanupPartial
  BY <1>5 DEF CleanupFails, CleanupPartial, CleanupThrows
<1>6. CASE Environment
  BY <1>6 DEF Environment, Restart, RequestShutdown, Crash, readerVars, readVars, dbVars
<1>7. CASE UNCHANGED vars
  BY <1>7 DEF vars, readerVars, readVars, dbVars
<1> QED
  BY <1>1, <1>2, <1>3, <1>4, <1>5, <1>6, <1>7 DEF Next, Worker

LEMMA CleanedStep ==
    ASSUME TypeInv, Cleaned, [Next]_vars
    PROVE  Cleaned'
<1>1. CASE Cleanup
  <2> SUFFICES ASSUME NEW i \in Used' PROVE entries'[i].alive = 1
    BY DEF Cleaned
  <2>1. i \in RowId /\ entries'[i] # Null
    BY DEF Used, RowId
  <2>2. i \in Used \ Unmet /\ entries'[i] = [entries[i] EXCEPT !.alive = 1]
    BY <1>1, <2>1 DEF Cleanup, RowsReset
  <2>3. entries[i] \in Row
    BY <2>2, UsedRow DEF TypeInv, TypeOK, Rows
  <2> QED
    BY <2>2, <2>3 DEF Row
<1>2. CASE pc' = "idle" /\ UNCHANGED <<pc, end, entries>>
  BY <1>2 DEF Cleaned, Used, RowId
<1> QED
  BY <1>1, <1>2, IdleStep DEF Cleaned

\* After a scan that was cleaned up, whatever it met, the next begins with no row
\* marked: with NamesAlwaysAfterScan, the second of two such scans repairs the
\* names if nothing disturbs it.
THEOREM NextScanUnmarked ==
    Spec => [][BeginScan /\ pc = "idle" /\ end # "crashed" => "names" \in tidy']_vars
<1>1. Init => Cleaned
  BY DEF Init, Cleaned, Used
<1>2. TypeInv /\ Cleaned /\ [Next]_vars => Cleaned'
  BY CleanedStep
<1>3. Cleaned => (BeginScan /\ pc = "idle" /\ end # "crashed" => "names" \in tidy')
  BY DEF Cleaned, BeginScan
<1> QED
  BY <1>1, <1>2, <1>3, TypeInvariant, SpecSteps, PTL DEF Steps
=============================================================================
