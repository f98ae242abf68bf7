------------------------------ MODULE Indexer -------------------------------
(***************************************************************************)
(* directory_indexer::reindex as the tracker's worker drives it: scan      *)
(* after scan of one directory into the tables entries and blocks_digests  *)
(* of one SQLite database.                                                 *)
(*                                                                         *)
(* reindex runs directory_reader::read (module Reader, its actions are     *)
(* taken as they are) with a manipulator that writes to the database: here *)
(* that call is broken into one step per statement, since every statement  *)
(* outside cleanup_entries commits by itself.  A crash, an exception, the  *)
(* shutdown flag and other programs' changes to the tree may come between  *)
(* any two steps.                                                          *)
(*                                                                         *)
(* is_alive means the opposite of its name: 0 marks the rows the current   *)
(* scan has met, 1 those it has not (yet), which cleanup_entries deletes.  *)
(***************************************************************************)
EXTENDS Reader

CONSTANTS
    NameOf,     \* NameOf[p]: the name of p; of the root, its whole path
    MaxRowid,   \* the largest rowid (2^63 - 1 in SQLite)
    MaxBlocks,  \* the longest file, in blocks
    Modes       \* the values of modified_only_ that scans are run with

ASSUME IndexerAssumption ==
    /\ Recursive /\ ListDirectories /\ MaxLevel = 0 /\ Matching = Node
    /\ DOMAIN NameOf = Path
    /\ \A m, n \in Node : Up[m] = Up[n] /\ NameOf[m] = NameOf[n] => m = n
    /\ MaxRowid \in Nat /\ MaxBlocks \in Nat
    /\ \A c \in Content : Len(c) <= MaxBlocks
    /\ Modes \subseteq BOOLEAN

VARIABLES
    entries,   \* table entries, by rowid
    blocks,    \* table blocks_digests, by entry_id and block_no
    parents,   \* the map parents: rowids of the directories met in this scan
    stage,     \* how far the manipulator, or the worker between scans, is
    entryId,   \* entry_id
    blkNo,     \* blk_no
    ctx,       \* what the cdc512 context has digested
    mode,      \* modified_only_
    shutdown,  \* *p_shutdown
    tidy       \* history: "names" if no row was marked when the scan began and no INSERT of
               \* it into entries was lost; "digests" if no row then was without its digest

dbVars == <<entries, blocks>>
localVars == <<stage, entryId, blkNo, ctx>>
scanVars == <<parents, mode, shutdown, tidy>>
vars == <<readerVars, dbVars, localVars, scanVars>>

-----------------------------------------------------------------------------
RowId == 1 .. MaxRowid
EntryId == 0 .. MaxRowid
BlockNo == 1 .. MaxBlocks
Name == {NameOf[p] : p \in Path}

\* A column that is NULL reads as 0, so that 0 stands for NULL in mtime and
\* file_size.  A digest determines what was digested and is represented by
\* it.  node is no column: it is the path that the row was inserted for.
Row == [alive : {0, 1}, parent : EntryId, name : Name, dir : BOOLEAN, mtime : Nat,
        size : Nat, digest : Seq(Block) \cup {Null}, node : Path]

NewRow(p, n, dir, size) ==
    [alive |-> 0, parent |-> p, name |-> NameOf[n], dir |-> dir, mtime |-> 0,
     size |-> size, digest |-> Null, node |-> n]

ASSUME NullAssumption ==
    Null \notin Row /\ Null \notin EntryId /\ Null \notin Block /\ Null \notin Seq(Block)

Used == {i \in RowId : entries[i] # Null}

NoBlocks == [k \in BlockNo |-> Null]

\* st_sel: the row of name n under parent p.
MatchesName(p, n) == {i \in Used : entries[i].name = n}  \* mutant: under any parent
Matches(p, n) == {i \in Used : entries[i].parent = p /\ entries[i].name = n}
Selected(p, n) == IF Matches(p, n) = {} THEN 0 ELSE CHOOSE i \in Matches(p, n) : TRUE
StoredMtime(id) == IF id = 0 THEN 0 ELSE entries[id].mtime

\* The rowid SQLite gives to a new row: one more than the largest in use or,
\* when that is the largest possible, any that is free.
NextRowids ==
    {i \in RowId \ Used :
        \/ MaxRowid \in Used
        \/ (\A j \in Used : j < i) /\ (i > 1 => i - 1 \in Used)}

-----------------------------------------------------------------------------
Init ==
    /\ ReaderInit
    /\ entries = [i \in RowId |-> Null]
    /\ blocks = [i \in EntryId |-> NoBlocks]
    /\ parents = [p \in Path |-> Null]
    /\ stage = "awake" /\ entryId = 0 /\ blkNo = 0 /\ ctx = <<>>
    /\ mode \in Modes /\ shutdown = FALSE /\ tidy = {"names", "digests"}

ClearLocals == stage' = "admit" /\ entryId' = 0 /\ blkNo' = 0 /\ ctx' = <<>>

-----------------------------------------------------------------------------
(* The worker between scans.                                               *)

Waiting == pc \in {"idle", "threw"} /\ stage = "admit"

\* The wait times out, the predicate having found shutdown_ unset.
Wake ==
    /\ Waiting /\ ~shutdown
    /\ stage' = "awake"
    /\ UNCHANGED <<readerVars, dbVars, scanVars, entryId, blkNo, ctx>>

\* The wait ends because shutdown_ is set, and the thread with it.
Stop ==
    /\ Waiting /\ shutdown
    /\ stage' = "stopped"
    /\ UNCHANGED <<readerVars, dbVars, scanVars, entryId, blkNo, ctx>>

\* run() once more.
Restart ==
    /\ stage = "stopped"
    /\ stage' = "awake" /\ shutdown' = FALSE
    /\ UNCHANGED <<readerVars, dbVars, parents, mode, tidy, entryId, blkNo, ctx>>

\* shutdown() stores the flag, at any moment of the worker.
RequestShutdown ==
    /\ ~shutdown
    /\ Strike("shutdown")
    /\ shutdown' = TRUE
    /\ UNCHANGED <<treeVars, readVars, historyVars, dbVars, localVars, parents, mode, tidy>>

BeginScan ==
    /\ pc \in {"idle", "threw"} /\ stage = "awake"
    /\ BeginRead
    /\ ClearLocals
    /\ parents' = [p \in Path |-> Null]
    /\ mode' \in Modes
    /\ tidy' = {k \in {"names"} : \A i \in Used : entries[i].alive = 1} \cup
               {k \in {"digests"} : \A i \in Used : entries[i].mtime # 0 => entries[i].digest # Null}
    /\ UNCHANGED <<dbVars, shutdown>>

\* The process dies: what is committed stays, everything else starts again.
Crash ==
    /\ Strike("crash")
    /\ pc' = "idle" /\ end' = "crashed" /\ stage' = "awake"
    /\ stack' = <<>> /\ open' = {} /\ shutdown' = FALSE
    /\ entryId' = 0 /\ blkNo' = 0 /\ ctx' = <<>>
    /\ UNCHANGED <<treeVars, dbVars, historyVars, handle, path, level, ent, abort, finds,
                   parents, mode, tidy>>

Walk == ReaderLoop /\ UNCHANGED <<dbVars, localVars, scanVars>>

-----------------------------------------------------------------------------
(* The manipulator, up to update_blocks.                                   *)

InManip(s) == pc = "manip" /\ stage = s

Return == ManipReturns /\ ClearLocals /\ UNCHANGED <<treeVars, historyVars>>

Accessible(n) == Present(n)

AdmitShutdown ==
    /\ InManip("admit") /\ shutdown
    /\ abort' = TRUE
    /\ Return
    /\ UNCHANGED <<faults, dbVars, scanVars>>

AdmitSkip ==
    /\ InManip("admit") /\ ~shutdown
    /\ ~Accessible(ent.node)
    /\ Return
    /\ UNCHANGED <<abort, faults, dbVars, scanVars>>

AdmitUndefined ==
    /\ InManip("admit") /\ ~shutdown
    /\ Accessible(ent.node)
    /\ parents[path] = Null /\ level > 1
    /\ ManipThrows("undefined") /\ ClearLocals
    /\ UNCHANGED <<treeVars, historyVars, faults, dbVars, scanVars>>

\* update_entry finds the row up to date and only touches it.
UpToDate(id, mtime) == mode /\ id # 0 /\ (mtime = StoredMtime(id) \/ mtime = 0)

NotTouched(id) == entries  \* mutant: no touch
Touched(id) == [entries EXCEPT ![id].alive = 0]

\* update_entry goes on after an INSERT that failed.
Lost == Strike("silent") /\ tidy' = {}

\* update_entry for n under parent p, returning id.  The INSERT is tried
\* first; that it finds the key taken leads to the UPDATE, which leaves mtime
\* alone, and any other failure of it passes unnoticed, as does a failure of
\* the SELECT after it, which leaves the id of a new row at 0.
UpdateEntry(p, n, dir, mtime, size, id) ==
    LET old == Selected(p, NameOf[n])
    IN  \/ /\ UpToDate(old, mtime)
           /\ id = old
           /\ entries' = Touched(old)
           /\ UNCHANGED <<faults, tidy>>
        \/ /\ ~UpToDate(old, mtime) /\ old # 0
           /\ id = old
           /\ entries' = [entries EXCEPT ![old] =
                 [@ EXCEPT !.alive = 0, !.dir = dir, !.size = size, !.digest = Null]]
           /\ UNCHANGED <<faults, tidy>>
        \/ /\ old = 0
           /\ id \in NextRowids
           /\ entries' = [entries EXCEPT ![id] = NewRow(p, n, dir, size)]
           /\ UNCHANGED <<faults, tidy>>
        \/ /\ ~UpToDate(old, mtime)
           /\ id = old
           /\ UNCHANGED entries
           /\ Lost
        \/ /\ old = 0
           /\ id = 0
           /\ \E i \in NextRowids : entries' = [entries EXCEPT ![i] = NewRow(p, n, dir, size)]
           /\ Lost

\* The first call below the root, which is not in parents yet.
RootUnknown ==
    /\ InManip("admit") /\ ~shutdown
    /\ Accessible(ent.node)
    /\ parents[path] = Null /\ level = 1

\* update_entry has returned id for the root.
RootEntered(id) ==
    /\ parents' = [parents EXCEPT ![path] = id]
    /\ stage' = "entry"
    /\ UNCHANGED <<treeVars, readVars, historyVars, blocks, entryId, blkNo, ctx, mode, shutdown>>

\* The root itself gets its row.
AdmitRoot ==
    /\ RootUnknown
    /\ \E id \in EntryId : UpdateEntry(0, path, TRUE, 0, 0, id) /\ RootEntered(id)

AdmitAnyhow ==    \* mutant: the result of parents.find not tested
    /\ InManip("admit") /\ ~shutdown
    /\ Accessible(ent.node)
    /\ stage' = "entry"
    /\ UNCHANGED <<readerVars, dbVars, scanVars, entryId, blkNo, ctx>>

AdmitKnown ==
    /\ InManip("admit") /\ ~shutdown
    /\ Accessible(ent.node)
    /\ parents[path] # Null
    /\ stage' = "entry"
    /\ UNCHANGED <<readerVars, dbVars, scanVars, entryId, blkNo, ctx>>

\* A directory is entered in parents (emplace keeps what is there).
DirectoryEntered(id) ==
    /\ parents' = [parents EXCEPT ![ent.node] = IF @ = Null THEN id ELSE @]
    /\ Return
    /\ UNCHANGED <<abort, blocks, mode, shutdown>>

EnterDirectory ==
    /\ InManip("entry") /\ ent.kind = "dir"
    /\ \E id \in EntryId :
          /\ UpdateEntry(parents[path], ent.node, TRUE, ent.mtime, ent.size, id)
          /\ DirectoryEntered(id)

NewOnly(stored) == stored = 0  \* mutant: modified files not digested again
NeedsDigest(stored) == ~mode \/ stored # ent.mtime

\* A file goes on to update_blocks when it was modified.
FileEntered(id, stored) ==
    /\ IF NeedsDigest(stored)
       THEN /\ stage' = "open" /\ entryId' = id
            /\ UNCHANGED <<treeVars, readVars, historyVars, blkNo, ctx>>
       ELSE Return /\ UNCHANGED abort
    /\ UNCHANGED <<blocks, parents, mode, shutdown>>

EnterFile ==
    /\ InManip("entry") /\ ent.kind = "file"
    /\ LET stored == StoredMtime(Selected(parents[path], NameOf[ent.node]))
       IN  \E id \in EntryId :
             /\ UpdateEntry(parents[path], ent.node, FALSE, ent.mtime, ent.size, id)
             /\ FileEntered(id, stored)

-----------------------------------------------------------------------------
(* update_blocks and what follows it.                                      *)

OpenFile ==
    /\ InManip("open")
    /\ fs[ent.node].kind = "file" /\ ent.node \notin Denied
    /\ stage' = "read"
    /\ UNCHANGED <<readerVars, dbVars, scanVars, entryId, blkNo, ctx>>

\* The file is not there any more, is no file, or may not be opened (another
\* program having it open for itself): no digest, and no error.
OpenFileFails ==
    /\ InManip("open")
    /\ IF fs[ent.node].kind = "file" /\ ent.node \notin Denied
       THEN Strike("open") ELSE UNCHANGED faults
    /\ Return
    /\ UNCHANGED <<abort, dbVars, scanVars>>

\* update_block_digest: INSERT or, the key being taken, UPDATE; any other
\* failure of the INSERT passes unnoticed.
UpdateBlockDigest(id, k, digest) ==
    \/ blocks' = [blocks EXCEPT ![id][k] = digest] /\ UNCHANGED faults
    \/ UNCHANGED blocks /\ Strike("silent")

\* One block is read and its digest stored.
BlockRead ==
    /\ InManip("read")
    /\ blkNo < Len(fs[ent.node].data)
    /\ ctx' = Append(ctx, fs[ent.node].data[blkNo + 1])
    /\ blkNo' = blkNo + 1
    /\ stage' = "trim"
    /\ UNCHANGED <<treeVars, readVars, historyVars, entries, entryId, scanVars>>

ReadBlock ==
    /\ BlockRead
    /\ UpdateBlockDigest(entryId, blkNo + 1, fs[ent.node].data[blkNo + 1])

LaterButOne(k) == k > blkNo + 1  \* mutant: off by one
Later(k) == k > blkNo

\* The rows of all later blocks go.
TrimBlocks ==
    /\ InManip("trim")
    /\ blocks' = [blocks EXCEPT ![entryId] =
                    [k \in BlockNo |-> IF Later(k) THEN Null ELSE @[k]]]
    /\ stage' = "read"
    /\ UNCHANGED <<readerVars, entries, entryId, blkNo, ctx, scanVars>>

\* _read returns 0.
ReadEnd ==
    /\ InManip("read")
    /\ blkNo >= Len(fs[ent.node].data)
    /\ stage' = "record"
    /\ UNCHANGED <<readerVars, dbVars, entryId, blkNo, ctx, scanVars>>

\* _read returns -1: no digest, and no error.
ReadStops ==    \* mutant: taken for the end of the file
    /\ InManip("read")
    /\ Strike("read")
    /\ stage' = "record"
    /\ UNCHANGED <<treeVars, readVars, historyVars, dbVars, entryId, blkNo, ctx, scanVars>>

ReadFails ==
    /\ InManip("read")
    /\ Strike("read")
    /\ ManipReturns /\ ClearLocals
    /\ UNCHANGED <<treeVars, historyVars, abort, dbVars, scanVars>>

\* st_upd_after, WHERE rowid = entry_id.
RecordDigest ==
    /\ InManip("record")
    /\ entries' = [i \in RowId |->
          IF i = entryId /\ i \in Used
          THEN [entries[i] EXCEPT !.alive = 0, !.mtime = ent.mtime, !.digest = ctx]
          ELSE entries[i]]
    /\ Return
    /\ UNCHANGED <<abort, faults, blocks, scanVars>>

\* A statement fails with exceptions enabled.
StatementThrows ==
    /\ pc = "manip" /\ (stage = "admit" => ~shutdown /\ parents[path] = Null /\ level = 1)
    /\ stage # "open"
    /\ stage = "read" => blkNo < Len(fs[ent.node].data)
    /\ Strike("throw")
    /\ ManipThrows("database") /\ ClearLocals
    /\ UNCHANGED <<treeVars, historyVars, dbVars, scanVars>>

-----------------------------------------------------------------------------
(* cleanup_entries, which follows however read() returned.                 *)

Met == {i \in Used : entries[i].alive = 0}  \* mutant: is_alive taken at its word
Unmet == {i \in Used : entries[i].alive = 1}

BlocksKept == UNCHANGED blocks  \* mutant: entries deleted without their blocks
BlocksDropped == blocks' = [i \in EntryId |-> IF i \in Unmet THEN NoBlocks ELSE blocks[i]]

RowsDropped == [i \in RowId |-> IF i \in Unmet THEN Null ELSE entries[i]]

RowsNotReset == RowsDropped  \* mutant: is_alive not reset
RowsReset == [i \in RowId |-> IF i \in Used \ Unmet THEN [entries[i] EXCEPT !.alive = 1] ELSE Null]

Cleanup ==
    /\ pc = "returned"
    /\ BlocksDropped
    /\ entries' = RowsReset
    /\ pc' = "idle"
    /\ UNCHANGED <<treeVars, handle, path, stack, level, ent, abort, open, finds, end, faults,
                   historyVars, localVars, scanVars>>

CleanupThrows ==
    /\ pc = "returned"
    /\ pc' = "threw" /\ end' = "database"
    /\ UNCHANGED <<treeVars, handle, path, stack, level, ent, abort, open, finds, historyVars,
                   localVars, scanVars>>

\* BEGIN, the first statement or COMMIT fails: nothing changes.
CleanupFails ==
    /\ Strike("throw")
    /\ CleanupThrows
    /\ UNCHANGED dbVars

\* The second or the third statement fails and ~transaction commits what the
\* ones before it did.
CleanupPartial ==
    /\ Strike("partial")
    /\ CleanupThrows
    /\ BlocksDropped
    /\ entries' \in {entries, RowsDropped}

-----------------------------------------------------------------------------
\* The path the indexer has open.
Held == IF InManip("read") \/ InManip("trim") THEN {ent.node} ELSE {}

ManipStep ==
    \/ AdmitShutdown \/ AdmitSkip \/ AdmitUndefined \/ AdmitRoot \/ AdmitKnown
    \/ EnterDirectory \/ EnterFile
    \/ OpenFile \/ OpenFileFails \/ ReadBlock \/ TrimBlocks \/ ReadEnd \/ ReadFails
    \/ RecordDigest \/ StatementThrows

Worker ==
    \/ Wake \/ Stop \/ BeginScan \/ Walk \/ ManipStep
    \/ Cleanup \/ CleanupFails \/ CleanupPartial

Environment ==
    \/ Restart \/ RequestShutdown \/ Crash
    \/ TreeStep(Held) /\ UNCHANGED <<readVars, faults, dbVars, localVars, scanVars>>

Next == Worker \/ Environment

\* The operating system schedules the worker thread, and the application that
\* shut the tracker down runs it again.
Fairness == WF_vars(Worker) /\ WF_vars(Restart)

Spec == Init /\ [][Next]_vars /\ Fairness

-----------------------------------------------------------------------------
TypeOK ==
    /\ ReaderTypeOK
    /\ entries \in [RowId -> Row \cup {Null}]
    /\ blocks \in [EntryId -> [BlockNo -> Block \cup {Null}]]
    /\ parents \in [Path -> EntryId \cup {Null}]
    /\ stage \in {"awake", "stopped", "admit", "entry", "open", "read", "trim", "record"}
    /\ entryId \in EntryId /\ blkNo \in 0 .. MaxBlocks /\ ctx \in Seq(Block)
    /\ mode \in BOOLEAN /\ shutdown \in BOOLEAN /\ tidy \subseteq {"names", "digests"}

\* No two rows have the same parent and name, so that st_sel has one answer.
UniqueKeys ==
    \A i, j \in Used :
        entries[i].parent = entries[j].parent /\ entries[i].name = entries[j].name => i = j

\* Following parent_id from a row leads through the rows of the directories
\* above it to the row of the root: rows are deleted and rowids reused without
\* a row ever being left under a missing or a foreign parent.
PathsFaithful ==
    \A i \in Used :
        LET r == entries[i]
        IN  /\ r.name = NameOf[r.node]
            /\ IF r.node = Root THEN r.parent = 0
               ELSE r.parent \in Used /\ entries[r.parent].node = Up[r.node]

\* A row met in this scan has a parent met in this scan, so that cleanup never
\* takes a parent from under its child.
MarkedUpward ==
    \A i \in Used :
        entries[i].alive = 0 /\ entries[i].parent # 0 =>
            entries[i].parent \in Used /\ entries[entries[i].parent].alive = 0

\* Every block row belongs to a row of entries: none leaks when a row is
\* deleted, and the next owner of a rowid finds none.
BlocksOwned == \A i \in EntryId : blocks[i] # NoBlocks => i \in Used

Recorded(i) ==
    /\ entries[i].digest # Null
    /\ fs[entries[i].node].kind = "file"
    /\ entries[i].mtime = fs[entries[i].node].mtime

\* A row that says it describes the file as it is now does: a digest with the
\* file's time stamp is the digest of the file's data, with its size, whenever
\* the file was changed, replaced or truncated during earlier scans or this one.
DigestFresh ==
    \A i \in Used : Recorded(i) =>
        entries[i].digest = fs[entries[i].node].data /\ entries[i].size = Len(entries[i].digest)

StoredBlocks(d) == [k \in BlockNo |-> IF k \in DOMAIN d THEN d[k] ELSE Null]

\* So are its block rows, save for an empty file, and but for half a cleanup,
\* which takes all of them: there never is a mixture of old and new, or a part.
BlocksFresh ==
    \A i \in Used : Recorded(i) /\ entries[i].digest # <<>> =>
        blocks[i] \in {StoredBlocks(fs[entries[i].node].data), NoBlocks}

\* What should have a row, and the rows having it; for Mirror their kinds are
\* right too and every file has been digested as it is.
Listed == {n \in Node : Present(n)} \cup {p \in {Root} : Children(p) # {}}

NamesMatch == {entries[i].node : i \in Used} = Listed

\* The row that a reader of the table finds for path p, by parent and name.
RowAt[p \in Path] ==
    IF p = Root THEN Selected(0, NameOf[Root])
    ELSE IF RowAt[Up[p]] = 0 THEN 0 ELSE Selected(RowAt[Up[p]], NameOf[p])

\* All that INSERTs lost unnoticed leave to be repaired by later scans: the
\* tree of names, though not what the rows say of size and kind.
NamesMirror == NamesMatch /\ PathsFaithful

Mirror ==
    /\ NamesMatch
    /\ \A i \in Used :
          /\ entries[i].dir = (fs[entries[i].node].kind = "dir")
          /\ ~entries[i].dir => Recorded(i)

\* One scan that nothing disturbed is enough, if the scan before it left no
\* marks (a scan that failed does, and what vanished meanwhile stays one more)
\* and no file without a digest under its old time stamp (a scan of all files,
\* not the modified only, does when it fails).
MirrorAfterScan ==
    pc = "idle" /\ end = "done" /\ quiet /\ {"names", "digests"} \subseteq tidy =>
        /\ Mirror
        /\ \A i \in Used : entries[i].alive = 1

\* Lost INSERTs of earlier scans leave rows without a parent, and directories
\* filed under none.  One undisturbed scan that loses none itself repairs the
\* names: every path there is has its row, found by parent and name, and no row
\* is left over.
NamesAfterScan ==
    pc = "idle" /\ end = "done" /\ quiet /\ "names" \in tidy => {RowAt[p] : p \in Listed} = Used

\* A scan that ran to its end deletes the row of no entry that was there all
\* the while; the row of the root goes only when nothing was in the root.
RemovalJustified ==
    [][\A i \in Used : entries'[i] = Null /\ end = "done" =>
          \/ entries[i].node \in gone
          \/ entries[i].node = Root /\ \A n \in Node : Up[n] = Root => n \in gone]_vars

\* Once the tree is left alone and no more failures strike, the table comes to
\* mirror it and stays so, whatever happened before.
Converges == <>[]Mirror

(* What the comments of the code say and the code does not do.             *)

\* "skip inaccessible files or directories" (indexer.cpp:919): one that may
\* not be opened does not end the scan.
InaccessibleSkipped == end # "denied"

\* "file block checksum" (indexer.cpp:670): the block rows of a recorded file
\* are the checksums of the blocks that it has.
BlockRowsAreFileBlocks ==
    \A i \in Used : Recorded(i) => blocks[i] = StoredBlocks(fs[entries[i].node].data)
=============================================================================
