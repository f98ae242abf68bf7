------------------------------- MODULE System -------------------------------
(***************************************************************************)
(* One directory_tracker in its process, whole: what module Tracker takes  *)
(* for one step, the call of reindex, is here the scan of module Indexer,  *)
(* and what Indexer takes for its environment, the flag and run(), is here *)
(* the owner of module Tracker.  The flag is one variable for both.        *)
(*                                                                         *)
(* The process may die at any moment and be started again: the database    *)
(* stays, the tracker is constructed anew.                                 *)
(***************************************************************************)
EXTENDS Tracker, Sequences

CONSTANTS
    Node, Root, Up, KindsOf, Volatile, NameOf, Block, Content, FirstStamp, MaxChanges,
    Null, Recursive, ListDirectories, MaxLevel, Matching, Denied, FaultKinds, MaxFaults,
    MaxRowid, MaxBlocks, Modes

VARIABLES
    fs, clock, pc, handle, path, stack, level, ent, abort, open, finds, end, faults,
    visited, gone, quiet, entries, blocks, parents, stage, entryId, blkNo, ctx, mode, tidy

\* The flag as reindex knows it: before run() has set it, it is nothing.
Flag == shutdown /\ (thread \/ stage = "stopped")

Indexing == INSTANCE Indexer WITH shutdown <- Flag

ASSUME SystemAssumption ==
    /\ Indexing!TreeAssumption /\ Indexing!ReaderAssumption
    /\ Indexing!IndexerAssumption /\ Indexing!NullAssumption

indexerVars == <<fs, clock, pc, handle, path, stack, level, ent, abort, open, finds, end, faults,
    visited, gone, quiet, entries, blocks, parents, stage, entryId, blkNo, ctx, mode, tidy>>
systemVars == <<vars, indexerVars>>

-----------------------------------------------------------------------------
SystemInit == Init /\ Indexing!Init

(* The owner.                                                              *)

\* The worker of a first run() finds its scan to be begun, that of a later
\* one is woken.
SystemRun ==
    /\ Run
    /\ IF stage = "stopped" THEN Indexing!Restart /\ UNCHANGED blocks ELSE UNCHANGED indexerVars

SystemShutdown == Shutdown /\ UNCHANGED stage /\ Indexing!RequestShutdown

OwnerElse ==
    /\ RunTwice \/ ShutdownIdle \/ Notify \/ Join
    /\ UNCHANGED indexerVars

(* The worker.                                                             *)

Connects == (Connect \/ ConnectFails) /\ UNCHANGED indexerVars

ScanStep ==
    /\ At("reindex")
    /\ UNCHANGED vars
    /\ \/ Indexing!BeginScan \/ Indexing!Walk \/ Indexing!ManipStep
       \/ Indexing!Cleanup \/ Indexing!CleanupFails \/ Indexing!CleanupPartial

ScanReturns ==
    /\ Indexing!Waiting
    /\ IF pc = "idle" THEN ReindexReturns ELSE ReindexThrows
    /\ UNCHANGED indexerVars

Waits ==
    /\ Look \/ FallAsleep \/ Deadline
    /\ CASE worker' = "connect" -> Indexing!Wake
         [] worker' = "leaving" -> Indexing!Stop
         [] OTHER -> UNCHANGED indexerVars

WaitEnds == Waits /\ Deadline

Leaves == Leave /\ UNCHANGED indexerVars

SystemWorker == Connects \/ ScanStep \/ ScanReturns \/ Waits \/ Leaves

(* The rest of the world.                                                  *)

\* The process is killed.
Die ==
    /\ Running /\ process' = "crashed"
    /\ UNCHANGED <<ownerVars, shutdown, worker, db, error, late, rested, indexerVars>>

\* However it ended, it is started again, and a tracker constructed anew; the
\* scan is gone, and the database is what its last statement left.
StartAgain ==
    /\ ~Running /\ process' = "running"
    /\ owner' = "free" /\ thread' = FALSE /\ shutdown' \in BOOLEAN
    /\ worker' = "none" /\ db' = "closed" /\ error' = FALSE /\ late' = 0 /\ rested' = TRUE
    /\ Indexing!Crash

World ==
    \/ SpuriousWakeup /\ UNCHANGED indexerVars
    \/ /\ UNCHANGED vars
       /\ Indexing!TreeStep(Indexing!Held)
       /\ UNCHANGED <<pc, handle, path, stack, level, ent, abort, open, finds, end, faults, entries,
                      blocks, parents, stage, entryId, blkNo, ctx, mode, tidy>>

SystemNext == SystemRun \/ SystemShutdown \/ OwnerElse \/ SystemWorker \/ Die \/ StartAgain \/ World

\* As in Tracker; of the scan only that its thread is scheduled.
SystemFairness ==
    /\ WF_systemVars(SystemWorker) /\ SF_systemVars(WaitEnds)
    /\ WF_systemVars(OwnerElse /\ Notify) /\ WF_systemVars(OwnerElse /\ Join)

SystemSpec == SystemInit /\ [][SystemNext]_systemVars /\ SystemFairness

-----------------------------------------------------------------------------
(* The properties of Tracker, whose scans now are those of Indexer: from    *)
(* ShutdownReturns and KeepsScanning follows that each of them, however the *)
(* tree moves and whatever fails in it, comes to an end.                    *)

\* The flag, run() and the deadline come to the indexer as it expects them of
\* its environment: never a scan's first step without a wakeup, a restart
\* before the last scan is over or a flag taken back inside a scan.
ImplementsIndexer == Indexing!Init /\ [][Indexing!Next]_(Indexing!vars)

\* If in the end the tracker runs and is left running, the names in the table
\* come to be those of the directory: by the minute's scans alone, whatever
\* shutdowns, with a scan aborted and its rows deleted, deaths of the process
\* or lost INSERTs came before.
RunningMirrors == <>[](thread /\ ~shutdown /\ Running) => <>[]Indexing!NamesMirror

\* One such scan is enough, if the tree is left alone in it, no row was marked
\* when it began and none of its own INSERTs is lost: then every path is found
\* by parent and name, and no row is left over.
NamesRepaired == Indexing!NamesAfterScan
=============================================================================
