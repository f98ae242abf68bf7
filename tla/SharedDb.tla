------------------------------ MODULE SharedDb ------------------------------
(***************************************************************************)
(* Two directory_trackers, in two processes, whose names make the same     *)
(* database file: each runs the indexer (module Indexer, instantiated      *)
(* twice) on a directory of its own, and both work on one table entries    *)
(* and one table blocks_digests.  Nothing in a row says whose it is, and   *)
(* is_alive marks what either of them has met.                             *)
(*                                                                         *)
(* Each statement commits by itself, and those of the other tracker come   *)
(* between any two: also between the statements of one update_entry, which *)
(* Indexer takes for one step and this module takes apart.                 *)
(*                                                                         *)
(* The database is in WAL mode.  st_sel, left on the row it found, keeps   *)
(* its connection on the snapshot it reads until update_entry binds it     *)
(* anew.  A write fails with SQLITE_BUSY on a snapshot that is not the     *)
(* last, and while the other tracker's write is under way: no busy handler *)
(* waits.                                                                  *)
(***************************************************************************)
EXTENDS Integers, Sequences

CONSTANTS
    \* the directory of the first tracker, and what is common to both
    Node, Root, Up, KindsOf, Volatile, NameOf, Block, Content, FirstStamp, MaxChanges,
    Null, Recursive, ListDirectories, MaxLevel, FaultKinds, MaxFaults, MaxRowid, MaxBlocks, Modes,
    \* the directory of the second
    Node2, Root2, Up2, KindsOf2, Volatile2, NameOf2

VARIABLES
    entries, blocks,   \* the shared tables
    \* the first tracker, its directory and its scan
    fs, clock, pc, handle, path, stack, level, ent, abort, open, finds, end, faults,
    visited, gone, quiet, parents, stage, entryId, blkNo, ctx, mode, shutdown, tidy,
    \* the second
    fs2, clock2, pc2, handle2, path2, stack2, level2, ent2, abort2, open2, finds2, end2, faults2,
    visited2, gone2, quiet2, parents2, stage2, entryId2, blkNo2, ctx2, mode2, shutdown2, tidy2,
    call,      \* how far update_entry of each tracker is, and what its st_sel found
    snapshot,  \* what st_sel of each keeps: "none", "last" or "stale"
    alone      \* history: the trackers whose scan was not disturbed by the other so far

First == INSTANCE Indexer WITH Matching <- Node, Denied <- {}

Second == INSTANCE Indexer WITH
    Node <- Node2, Root <- Root2, Up <- Up2, KindsOf <- KindsOf2, Volatile <- Volatile2,
    NameOf <- NameOf2, Matching <- Node2, Denied <- {},
    fs <- fs2, clock <- clock2, pc <- pc2, handle <- handle2, path <- path2, stack <- stack2,
    level <- level2, ent <- ent2, abort <- abort2, open <- open2, finds <- finds2, end <- end2,
    faults <- faults2, visited <- visited2, gone <- gone2, quiet <- quiet2, parents <- parents2,
    stage <- stage2, entryId <- entryId2, blkNo <- blkNo2, ctx <- ctx2, mode <- mode2,
    shutdown <- shutdown2, tidy <- tidy2

\* Each of the two directories is one as module Indexer assumes.
ASSUME SharedAssumption ==
    /\ First!TreeAssumption /\ First!ReaderAssumption /\ First!IndexerAssumption /\ First!NullAssumption
    /\ Second!TreeAssumption /\ Second!ReaderAssumption /\ Second!IndexerAssumption /\ Second!NullAssumption

tables == <<entries, blocks>>
first == <<fs, clock, pc, handle, path, stack, level, ent, abort, open, finds, end, faults,
    visited, gone, quiet, parents, stage, entryId, blkNo, ctx, mode, shutdown, tidy>>
second == <<fs2, clock2, pc2, handle2, path2, stack2, level2, ent2, abort2, open2, finds2, end2,
    faults2, visited2, gone2, quiet2, parents2, stage2, entryId2, blkNo2, ctx2, mode2, shutdown2,
    tidy2>>
sharedVars == <<tables, first, second, call, snapshot, alone>>

-----------------------------------------------------------------------------
NoCall == [at |-> "none", id |-> 0, mtime |-> 0]

SharedInit ==
    /\ First!Init /\ Second!Init
    /\ call = [t \in {1, 2} |-> NoCall]
    /\ snapshot = [t \in {1, 2} |-> "none"]
    /\ alone = {1, 2}

Other(t) == 3 - t

\* Where update_entry is called, and with what: the row it is to insert, and
\* the time stamp listed.
FirstCalls == First!RootUnknown \/ First!InManip("entry")
SecondCalls == Second!RootUnknown \/ Second!InManip("entry")

FirstArgs ==
    IF stage = "admit" THEN [row |-> First!NewRow(0, path, TRUE, 0), mtime |-> 0, only |-> mode]
    ELSE [row |-> First!NewRow(parents[path], ent.node, ent.kind = "dir", ent.size),
          mtime |-> ent.mtime, only |-> mode]
SecondArgs ==
    IF stage2 = "admit" THEN [row |-> Second!NewRow(0, path2, TRUE, 0), mtime |-> 0, only |-> mode2]
    ELSE [row |-> Second!NewRow(parents2[path2], ent2.node, ent2.kind = "dir", ent2.size),
          mtime |-> ent2.mtime, only |-> mode2]

\* The tracker is at a statement that writes.
FirstWrites ==
    \/ call[1].at \in {"write", "update"} \/ pc = "returned"
    \/ First!InManip("trim") \/ First!InManip("record")
    \/ First!InManip("read") /\ blkNo < Len(fs[ent.node].data)
SecondWrites ==
    \/ call[2].at \in {"write", "update"} \/ pc2 = "returned"
    \/ Second!InManip("trim") \/ Second!InManip("record")
    \/ Second!InManip("read") /\ blkNo2 < Len(fs2[ent2.node].data)

\* A write of t's succeeds on the last snapshot only; it fails on an older one,
\* and it may while the other's is under way.
MayWrite(t) == snapshot[t] # "stale"
Busy(t) == snapshot[t] = "stale" \/ (IF t = 1 THEN SecondWrites ELSE FirstWrites)

\* What both keep when t has committed something, keeping own.
Committed(t, own) ==
    [snapshot EXCEPT ![t] = own, ![Other(t)] = IF @ = "none" THEN "none" ELSE "stale"]

\* A step of the other ends being alone, and so does a refusal.
Disturbs(t) == alone' = alone \ {Other(t)}
Refuses == alone' = {}

-----------------------------------------------------------------------------
(* The statements of update_entry, called by tracker t with a.             *)

WithKey(a) == First!Matches(a.row.parent, a.row.name)
Found(a) == First!Selected(a.row.parent, a.row.name)

KeptReset(id) == "none"  \* mutant: st_sel is reset when it was read
KeptBySelect(id) == IF id = 0 THEN "none" ELSE "last"

Goes(t, to) == call' = [call EXCEPT ![t].at = to]

\* A new row has no id yet: st_sel is asked once more.
NotAgain(t) == "return"  \* mutant: it is not
AfterInsert(t) == IF call[t].id = 0 THEN "again" ELSE "return"

Select(t, a) ==
    /\ call[t].at = "none"
    /\ call' = [call EXCEPT ![t] = [at |-> "write", id |-> Found(a), mtime |-> First!StoredMtime(Found(a))]]
    /\ snapshot' = [snapshot EXCEPT ![t] = KeptBySelect(Found(a))]
    /\ Disturbs(t)
    /\ UNCHANGED tables

UpToDate(t, a) == a.only /\ call[t].id # 0 /\ (call[t].mtime = a.mtime \/ a.mtime = 0)

Touch(t, a) ==
    /\ call[t].at = "write" /\ UpToDate(t, a) /\ MayWrite(t)
    /\ entries' = [i \in First!RowId |->
          IF i = call[t].id /\ i \in First!Used THEN [entries[i] EXCEPT !.alive = 0] ELSE entries[i]]
    /\ Goes(t, "return")
    /\ snapshot' = Committed(t, snapshot[t])
    /\ Disturbs(t)
    /\ UNCHANGED blocks

\* UNIQUE(parent_id, name): the INSERT makes a row of a new key, or
Insert(t, a) ==
    /\ call[t].at = "write" /\ ~UpToDate(t, a) /\ MayWrite(t)
    /\ WithKey(a) = {}
    /\ \E i \in First!NextRowids : entries' = [entries EXCEPT ![i] = a.row]
    /\ Goes(t, AfterInsert(t))
    /\ snapshot' = Committed(t, snapshot[t])
    /\ Disturbs(t)
    /\ UNCHANGED blocks

\* fails because the key is taken, which leads to the UPDATE, or
InsertMeetsKey(t, a) ==
    /\ call[t].at = "write" /\ ~UpToDate(t, a) /\ MayWrite(t)
    /\ WithKey(a) # {}
    /\ Goes(t, "update")
    /\ Disturbs(t)
    /\ UNCHANGED <<tables, snapshot>>

\* fails because the database is busy, which nobody notices, as in Indexer any
\* other failure of it.
InsertRefused(t, a) ==
    /\ call[t].at = "write" /\ ~UpToDate(t, a) /\ Busy(t)
    /\ Goes(t, AfterInsert(t))
    /\ Refuses
    /\ UNCHANGED <<tables, snapshot>>

\* By the key: the row may be gone again, or be another.
Update(t, a) ==
    /\ call[t].at = "update" /\ MayWrite(t)
    /\ entries' = [i \in First!RowId |->
          IF i \in WithKey(a)
          THEN [entries[i] EXCEPT !.alive = 0, !.dir = a.row.dir, !.size = a.row.size, !.digest = Null]
          ELSE entries[i]]
    /\ Goes(t, AfterInsert(t))
    /\ snapshot' = IF WithKey(a) = {} THEN snapshot ELSE Committed(t, snapshot[t])
    /\ Disturbs(t)
    /\ UNCHANGED blocks

SelectAgain(t, a) ==
    /\ call[t].at = "again"
    /\ call' = [call EXCEPT ![t].at = "return", ![t].id = Found(a)]
    /\ snapshot' = [snapshot EXCEPT ![t] = KeptBySelect(Found(a))]
    /\ Disturbs(t)
    /\ UNCHANGED tables

UpdateEntry(t, a) ==
    \/ Select(t, a) \/ Touch(t, a) \/ Insert(t, a) \/ InsertMeetsKey(t, a) \/ InsertRefused(t, a)
    \/ Update(t, a) \/ SelectAgain(t, a)

\* The statements of it that write and throw when they fail.  So does the
\* first SELECT; the second one is taken not to, as after an INSERT (after an
\* UPDATE, which a new row reaches only if the other made it meanwhile, it would).
Throwing(t, a) == call[t].at = "update" \/ (call[t].at = "write" /\ UpToDate(t, a))

-----------------------------------------------------------------------------
(* The first tracker.                                                      *)

FirstEntry ==
    /\ call[1] = NoCall => FirstCalls
    /\ UpdateEntry(1, FirstArgs)
    /\ UNCHANGED <<first, second>>

\* update_entry has returned.
FirstReturn ==
    /\ call[1].at = "return"
    /\ \/ First!InManip("admit") /\ First!RootEntered(call[1].id)
       \/ First!InManip("entry") /\ ent.kind = "dir" /\ First!DirectoryEntered(call[1].id)
       \/ First!InManip("entry") /\ ent.kind = "file" /\ First!FileEntered(call[1].id, call[1].mtime)
    /\ call' = [call EXCEPT ![1] = NoCall]
    /\ Disturbs(1)
    /\ UNCHANGED <<entries, faults, tidy, second, snapshot>>

\* Steps of Indexer that write, and when they do, be it what is there.
FirstStatement ==
    \/ First!ReadBlock \/ First!TrimBlocks \/ First!RecordDigest \/ First!Cleanup \/ First!CleanupPartial

FirstCommits ==
    \/ tables' # tables
    \/ First!ReadBlock /\ UNCHANGED faults
    \/ First!RecordDigest /\ entryId \in First!Used
    \/ First!Cleanup /\ First!Used # {}

\* Every other step is the indexer's.  Its connection goes with the scan.
FirstStep ==
    /\ IF call[1] # NoCall \/ FirstCalls
       THEN \/ First!Environment
            \/ First!StatementThrows /\ (call[1] = NoCall \/ Throwing(1, FirstArgs))
       ELSE First!Next
    /\ FirstStatement => MayWrite(1)
    /\ call' = [call EXCEPT ![1] = IF pc' = "manip" THEN @ ELSE NoCall]
    /\ LET own == IF pc' \in {"idle", "threw"} THEN "none" ELSE snapshot[1]
       IN  snapshot' = IF FirstCommits THEN Committed(1, own) ELSE [snapshot EXCEPT ![1] = own]
    /\ alone' = (alone \ {2}) \cup (IF stage = "awake" /\ stage' # "awake" THEN {1} ELSE {})
    /\ UNCHANGED second

\* The INSERT of a block's digest is refused, which nobody notices either;
FirstLosesBlock ==
    /\ First!BlockRead /\ Busy(1)
    /\ Refuses
    /\ UNCHANGED <<blocks, faults, second, call, snapshot>>

\* every other write that is refused throws.
FirstThrows ==
    /\ Busy(1)
    /\ \/ /\ \/ Throwing(1, FirstArgs)
             \/ First!InManip("trim") \/ First!InManip("record")
          /\ First!ManipThrows("database") /\ First!ClearLocals
          /\ UNCHANGED <<fs, clock, faults, visited, gone, quiet, parents, mode, shutdown, tidy>>
       \/ First!CleanupThrows /\ UNCHANGED faults
    /\ call' = [call EXCEPT ![1] = NoCall]
    /\ snapshot' = [snapshot EXCEPT ![1] = "none"]
    /\ Refuses
    /\ UNCHANGED <<tables, second>>

FirstNext == FirstEntry \/ FirstReturn \/ FirstStep \/ FirstLosesBlock \/ FirstThrows

(* The second tracker.                                                     *)

SecondEntry ==
    /\ call[2] = NoCall => SecondCalls
    /\ UpdateEntry(2, SecondArgs)
    /\ UNCHANGED <<first, second>>

\* update_entry has returned.
SecondReturn ==
    /\ call[2].at = "return"
    /\ \/ Second!InManip("admit") /\ Second!RootEntered(call[2].id)
       \/ Second!InManip("entry") /\ ent2.kind = "dir" /\ Second!DirectoryEntered(call[2].id)
       \/ Second!InManip("entry") /\ ent2.kind = "file" /\ Second!FileEntered(call[2].id, call[2].mtime)
    /\ call' = [call EXCEPT ![2] = NoCall]
    /\ Disturbs(2)
    /\ UNCHANGED <<entries, faults2, tidy2, first, snapshot>>

\* Steps of Indexer that write, and when they do, be it what is there.
SecondStatement ==
    \/ Second!ReadBlock \/ Second!TrimBlocks \/ Second!RecordDigest \/ Second!Cleanup \/ Second!CleanupPartial

SecondCommits ==
    \/ tables' # tables
    \/ Second!ReadBlock /\ UNCHANGED faults2
    \/ Second!RecordDigest /\ entryId2 \in Second!Used
    \/ Second!Cleanup /\ Second!Used # {}

\* Every other step is the indexer's.  Its connection goes with the scan.
SecondStep ==
    /\ IF call[2] # NoCall \/ SecondCalls
       THEN \/ Second!Environment
            \/ Second!StatementThrows /\ (call[2] = NoCall \/ Throwing(2, SecondArgs))
       ELSE Second!Next
    /\ SecondStatement => MayWrite(2)
    /\ call' = [call EXCEPT ![2] = IF pc2' = "manip" THEN @ ELSE NoCall]
    /\ LET own == IF pc2' \in {"idle", "threw"} THEN "none" ELSE snapshot[2]
       IN  snapshot' = IF SecondCommits THEN Committed(2, own) ELSE [snapshot EXCEPT ![2] = own]
    /\ alone' = (alone \ {1}) \cup (IF stage2 = "awake" /\ stage2' # "awake" THEN {2} ELSE {})
    /\ UNCHANGED first

\* The INSERT of a block's digest is refused, which nobody notices either;
SecondLosesBlock ==
    /\ Second!BlockRead /\ Busy(2)
    /\ Refuses
    /\ UNCHANGED <<blocks, faults2, first, call, snapshot>>

\* every other write that is refused throws.
SecondThrows ==
    /\ Busy(2)
    /\ \/ /\ \/ Throwing(2, SecondArgs)
             \/ Second!InManip("trim") \/ Second!InManip("record")
          /\ Second!ManipThrows("database") /\ Second!ClearLocals
          /\ UNCHANGED <<fs2, clock2, faults2, visited2, gone2, quiet2, parents2, mode2, shutdown2, tidy2>>
       \/ Second!CleanupThrows /\ UNCHANGED faults2
    /\ call' = [call EXCEPT ![2] = NoCall]
    /\ snapshot' = [snapshot EXCEPT ![2] = "none"]
    /\ Refuses
    /\ UNCHANGED <<tables, first>>

SecondNext == SecondEntry \/ SecondReturn \/ SecondStep \/ SecondLosesBlock \/ SecondThrows

-----------------------------------------------------------------------------
SharedNext == FirstNext \/ SecondNext

SharedSpec == SharedInit /\ [][SharedNext]_sharedVars

-----------------------------------------------------------------------------
\* The row that t's next writes by rowid are meant for: that of the touch, of
\* the digests of the blocks and of st_upd_after.
FirstInHand ==
    IF call[1].at = "write" THEN {call[1].id} \ {0}
    ELSE IF pc = "manip" /\ stage \in {"read", "trim", "record"} THEN {entryId} \ {0} ELSE {}
SecondInHand ==
    IF call[2].at = "write" THEN {call[2].id} \ {0}
    ELSE IF pc2 = "manip" /\ stage2 \in {"read", "trim", "record"} THEN {entryId2} \ {0} ELSE {}

IsFor(i, p, n) == i \in First!Used /\ entries[i].parent = p /\ entries[i].name = n

\* What a tracker writes by rowid reaches the row it looked for, by parent and
\* name, and never one that the other made meanwhile under the same rowid, nor
\* block rows of none: while st_sel stays on its row the first commit of the
\* other's makes all of these writes fail.
RowInHandKept ==
    /\ MayWrite(1) => \A i \in FirstInHand : IsFor(i, FirstArgs.row.parent, FirstArgs.row.name)
    /\ MayWrite(2) => \A i \in SecondInHand : IsFor(i, SecondArgs.row.parent, SecondArgs.row.name)

\* The last undisturbed scan wins, whatever the other's statements and refusals
\* did before: after it each path of its tracker's directory has its row, found
\* by parent and name.  Nothing else is left if no row was marked when it began
\* ("names" in tidy): rows that the other one, in the middle of its scan or
\* thrown out of it, had marked by then stay for one scan more.
LastScanWins ==
    /\ pc = "idle" /\ end = "done" /\ quiet /\ 1 \in alone =>
          /\ {First!RowAt[p] : p \in First!Listed} \subseteq First!Used
          /\ "names" \in tidy => {First!RowAt[p] : p \in First!Listed} = First!Used
    /\ pc2 = "idle" /\ end2 = "done" /\ quiet2 /\ 2 \in alone =>
          /\ {Second!RowAt[p] : p \in Second!Listed} \subseteq Second!Used
          /\ "names" \in tidy2 => {Second!RowAt[p] : p \in Second!Listed} = Second!Used
=============================================================================
