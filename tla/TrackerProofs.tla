--------------------------- MODULE TrackerProofs ----------------------------
(***************************************************************************)
(* Safety of modules Tracker and System, for any number of runs, scans,    *)
(* wakeups and deaths of the process, and every tree.                      *)
(***************************************************************************)
EXTENDS System, TLAPS

Calling == {"notify", "notify-destroy", "join", "join-destroy"}

\* The owner has a thread exactly while there is a worker, and keeps it while
\* it is inside shutdown(); only a worker in the loop has a connection.
Handshake ==
    /\ thread <=> worker # "none"
    /\ owner \in Calling => thread
    /\ owner = "destroyed" => ~thread
    /\ worker \in {"none", "ended"} => db = "closed"

\* After a late scan the flag is still up, so that the worker, which looks at
\* it before every further scan, begins no second one.
Lateness ==
    /\ late \in {0, 1}
    /\ late = 1 /\ Running => shutdown
    /\ worker = "connect" => late = 0

\* The worker is on its way to a scan only after run() or a deadline.
Rest == worker = "connect" => rested

Inv == TypeOK /\ Handshake /\ Lateness /\ Rest

LEMMA InvInit ==
    ASSUME Init
    PROVE  Inv
<1>1. TypeOK
  BY DEF Init, TypeOK
<1>2. Handshake
  BY DEF Init, Handshake, Calling
<1>3. Lateness /\ Rest
  BY DEF Init, Lateness, Rest, Running
<1> QED
  BY <1>1, <1>2, <1>3 DEF Inv

LEMMA OwnerStep ==
    ASSUME Inv, Owner
    PROVE  Inv'
<1> USE DEF Inv, TypeOK, Handshake, Lateness, Rest, Calling, Running, ownerVars
<1>1. CASE Run
  <2>1. TypeOK'
    BY <1>1 DEF Run
  <2>2. Handshake'
    BY <1>1 DEF Run
  <2>3. Lateness' /\ Rest'
    BY <1>1 DEF Run
  <2> QED
    BY <2>1, <2>2, <2>3
<1>2. CASE RunTwice
  BY <1>2 DEF RunTwice
<1>3. CASE Shutdown
  BY <1>3 DEF Shutdown
<1>4. CASE ShutdownIdle
  BY <1>4 DEF ShutdownIdle
<1>5. CASE Notify
  BY <1>5 DEF Notify
<1>6. CASE Join
  BY <1>6 DEF Join
<1> QED
  BY <1>1, <1>2, <1>3, <1>4, <1>5, <1>6 DEF Owner

LEMMA WorkerStep ==
    ASSUME Inv, Worker \/ SpuriousWakeup
    PROVE  Inv'
<1> USE DEF Inv, TypeOK, Handshake, Lateness, Rest, Calling, Running, ownerVars, At
<1>1. CASE Connect
  <2>1. late = 0 /\ worker' = "reindex" /\ UNCHANGED <<process, owner, thread, shutdown, error>>
    BY <1>1 DEF Connect
  <2>2. late' = late \/ (late' = late + 1 /\ shutdown)
    BY <1>1, Zenon DEF Connect
  <2>3. late' = 0 \/ (late' = 1 /\ shutdown)
    BY <2>1, <2>2
  <2>4. TypeOK'
    <3>1. late' \in Nat
      BY <2>3
    <3> QED
      BY <1>1, <3>1, Zenon DEF Connect
  <2>5. Handshake'
    BY <1>1 DEF Connect
  <2>6. Lateness' /\ Rest'
    BY <2>1, <2>3
  <2> QED
    BY <2>4, <2>5, <2>6
<1>2. CASE ConnectFails
  BY <1>2 DEF ConnectFails
<1>3. CASE ReindexReturns \/ ReindexThrows
  BY <1>3 DEF ReindexReturns, ReindexThrows
<1>4. CASE Look \/ FallAsleep \/ SpuriousWakeup
  BY <1>4 DEF Look, FallAsleep, SpuriousWakeup
<1>5. CASE Deadline
  BY <1>5 DEF Deadline
<1>6. CASE Leave
  BY <1>6 DEF Leave
<1> QED
  BY <1>1, <1>2, <1>3, <1>4, <1>5, <1>6 DEF Worker

\* The process dies, and is started again.
LEMMA ProcessStep ==
    ASSUME Inv, Die \/ StartAgain
    PROVE  Inv'
<1> USE DEF Inv, TypeOK, Handshake, Lateness, Rest, Calling, Running
<1>1. CASE Die
  BY <1>1 DEF Die, ownerVars
<1>2. CASE StartAgain
  <2>1. TypeOK'
    BY <1>2 DEF StartAgain
  <2>2. Handshake' /\ Lateness' /\ Rest'
    BY <1>2 DEF StartAgain
  <2> QED
    BY <2>1, <2>2
<1> QED
  BY <1>1, <1>2

\* What the steps of System are to the tracker.
LEMMA TrackerSees ==
    ASSUME [SystemNext]_systemVars
    PROVE  [Next]_vars \/ Die \/ StartAgain
<1>1. CASE SystemRun \/ SystemShutdown \/ OwnerElse
  BY <1>1 DEF SystemRun, SystemShutdown, OwnerElse, Next, Owner
<1>2. CASE SystemWorker
  BY <1>2 DEF SystemWorker, Connects, ScanStep, ScanReturns, Waits, Leaves, Next, Worker
<1>3. CASE World
  BY <1>3 DEF World, Next
<1>4. CASE UNCHANGED systemVars
  BY <1>4 DEF systemVars
<1> QED
  BY <1>1, <1>2, <1>3, <1>4 DEF SystemNext

LEMMA InvStep ==
    ASSUME Inv, [SystemNext]_systemVars
    PROVE  Inv'
<1>1. CASE UNCHANGED vars
  BY <1>1 DEF vars, Inv, TypeOK, Handshake, Lateness, Rest, Running
<1> QED
  BY <1>1, TrackerSees, OwnerStep, WorkerStep, ProcessStep DEF Next

LEMMA Invariant == SystemSpec => []Inv
<1>1. SystemInit => Inv
  BY InvInit DEF SystemInit
<1>2. Inv /\ [SystemNext]_systemVars => Inv'
  BY InvStep
<1> QED
  BY <1>1, <1>2, PTL DEF SystemSpec

\* When shutdown() or the destructor has returned, no worker is left that could
\* use the tracker's members, and no connection is left open.
THEOREM NothingLeftBehind == SystemSpec => []NothingSurvives
<1>1. Inv => NothingSurvives
  BY DEF Inv, Handshake, NothingSurvives
<1> QED
  BY <1>1, Invariant, PTL

\* The worker begins at most one scan after shutdown() has stored the flag.
THEOREM OneLateScan == SystemSpec => []AtMostOneLateScan
<1>1. Inv => AtMostOneLateScan
  BY DEF Inv, Lateness, AtMostOneLateScan
<1> QED
  BY <1>1, Invariant, PTL

\* No notification and no spurious wakeup makes the worker scan again before
\* the deadline.
THEOREM RestBetweenScans == SystemSpec => ScansSpaced
<1>1. Inv /\ [SystemNext]_systemVars => [worker # "reindex" /\ worker' = "reindex" => rested]_vars
  <2>1. ASSUME Inv, [Next]_vars \/ Die \/ StartAgain, worker # "reindex", worker' = "reindex"
        PROVE  rested
    <3>1. worker = "connect"
      BY <2>1 DEF Next, Owner, Worker, Run, RunTwice, Shutdown, ShutdownIdle, Notify, Join,
                  Connect, ConnectFails, ReindexReturns, ReindexThrows, Look, FallAsleep,
                  Deadline, Leave, SpuriousWakeup, At, ownerVars, Die, StartAgain, vars
    <3> QED
      BY <2>1, <3>1 DEF Inv, Rest
  <2> QED
    BY <2>1, TrackerSees
<1> QED
  BY <1>1, Invariant, PTL DEF SystemSpec, ScansSpaced
-----------------------------------------------------------------------------
(* The tracker is an environment as Indexer assumes it.                    *)

\* The owner takes the flag back only where the worker has not seen it, and a
\* worker that has left its loop has left its scan stopped.
FlagKept ==
    /\ thread /\ owner = "free" /\ Running => ~shutdown
    /\ worker \in {"leaving", "ended"} => stage = "stopped"

LEMMA FlagStep ==
    ASSUME FlagKept, [SystemNext]_systemVars
    PROVE  FlagKept'
<1> USE DEF FlagKept, Running, At, ownerVars, indexerVars, vars
<1>1. CASE SystemRun
  BY <1>1 DEF SystemRun, Run
<1>2. CASE SystemShutdown
  BY <1>2 DEF SystemShutdown, Shutdown
<1>3. CASE OwnerElse
  BY <1>3 DEF OwnerElse, RunTwice, ShutdownIdle, Notify, Join
<1>4. CASE Connects \/ ScanReturns \/ Leaves
  BY <1>4 DEF Connects, Connect, ConnectFails, ScanReturns, ReindexReturns, ReindexThrows, Leaves,
     Leave
<1>5. CASE ScanStep
  BY <1>5 DEF ScanStep
<1>6. CASE Waits
  <2>1. UNCHANGED <<process, owner, thread, shutdown>> /\ worker' # "ended"
    BY <1>6 DEF Waits, Look, FallAsleep, Deadline
  <2>2. worker' = "leaving" => stage' = "stopped"
    <3>1. worker' = "leaving" => Indexing!Stop
      BY <1>6 DEF Waits
    <3> QED
      BY <3>1 DEF Indexing!Stop
  <2> QED
    BY <2>1, <2>2
<1>7. CASE Die
  BY <1>7 DEF Die
<1>8. CASE StartAgain
  BY <1>8 DEF StartAgain
<1>9. CASE World
  BY <1>9 DEF World, SpuriousWakeup
<1>10. CASE UNCHANGED systemVars
  BY <1>10 DEF systemVars
<1> QED
  BY <1>1, <1>2, <1>3, <1>4, <1>5, <1>6, <1>7, <1>8, <1>9, <1>10 DEF SystemNext, SystemWorker

\* The indexer's share of a step in which only the tracker moves.
LEMMA IndexerRests ==
    ASSUME UNCHANGED indexerVars, Flag' = Flag
    PROVE  UNCHANGED Indexing!vars
<1> QED
  BY DEF indexerVars, Indexing!vars, Indexing!readerVars, Indexing!treeVars, Indexing!readVars,
         Indexing!historyVars, Indexing!dbVars, Indexing!localVars, Indexing!scanVars

ScanOrRest == [Indexing!Next]_(Indexing!vars)

LEMMA RefinementStep ==
    ASSUME FlagKept, [SystemNext]_systemVars
    PROVE  ScanOrRest
<1> USE DEF ScanOrRest, Indexing!Next, Indexing!Worker, Indexing!Environment
<1>1. CASE SystemRun
  <2>1. CASE stage = "stopped"
    BY <1>1, <2>1 DEF SystemRun
  <2>2. CASE stage # "stopped"
    <3>1. UNCHANGED indexerVars /\ ~thread /\ ~shutdown'
      BY <1>1, <2>2 DEF SystemRun, Run
    <3>2. Flag' = Flag
      BY <2>2, <3>1 DEF Flag
    <3> QED
      BY <3>1, <3>2, IndexerRests
  <2> QED
    BY <2>1, <2>2
<1>2. CASE SystemShutdown
  BY <1>2 DEF SystemShutdown
<1>3. CASE OwnerElse
  <2>1. UNCHANGED indexerVars /\ stage' = stage
    BY <1>3 DEF OwnerElse, indexerVars
  <2>2. CASE RunTwice
    <3>1. ~shutdown /\ ~shutdown'
      BY <2>2 DEF RunTwice, FlagKept
    <3> QED
      BY <2>1, <3>1, IndexerRests DEF Flag
  <2>3. CASE ShutdownIdle \/ Notify
    BY <2>1, <2>3, IndexerRests DEF ShutdownIdle, Notify, Flag
  <2>4. CASE Join
    <3>1. stage = "stopped" /\ shutdown' = shutdown
      BY <2>4 DEF Join, FlagKept
    <3> QED
      BY <2>1, <3>1, IndexerRests DEF Flag
  <2> QED
    BY <1>3, <2>2, <2>3, <2>4 DEF OwnerElse
<1>4. CASE Connects \/ ScanReturns \/ Leaves
  <2>1. UNCHANGED indexerVars /\ stage' = stage /\ thread' = thread /\ shutdown' = shutdown
    BY <1>4 DEF Connects, Connect, ConnectFails, ScanReturns, ReindexReturns, ReindexThrows, Leaves,
                Leave, indexerVars, ownerVars
  <2> QED
    BY <2>1, IndexerRests DEF Flag
<1>5. CASE ScanStep
  BY <1>5 DEF ScanStep
<1>6. CASE Waits
  <2>1. CASE worker' = "connect"
    BY <1>6, <2>1 DEF Waits
  <2>2. CASE worker' = "leaving"
    BY <1>6, <2>2 DEF Waits
  <2>3. CASE worker' \notin {"connect", "leaving"}
    <3>1. UNCHANGED indexerVars
      BY <1>6, <2>3 DEF Waits
    <3>2. stage' = stage /\ thread' = thread /\ shutdown' = shutdown
      BY <1>6, <3>1 DEF Waits, Look, FallAsleep, Deadline, indexerVars, ownerVars
    <3> QED
      BY <3>1, <3>2, IndexerRests DEF Flag
  <2> QED
    BY <2>1, <2>2, <2>3
<1>7. CASE Die \/ (SpuriousWakeup /\ UNCHANGED indexerVars)
  <2>1. UNCHANGED indexerVars /\ stage' = stage /\ thread' = thread /\ shutdown' = shutdown
    BY <1>7 DEF Die, SpuriousWakeup, indexerVars, ownerVars
  <2> QED
    BY <2>1, IndexerRests DEF Flag
<1>8. CASE StartAgain
  BY <1>8 DEF StartAgain
<1>9. CASE World
  <2>1. CASE /\ UNCHANGED vars
             /\ Indexing!TreeStep(Indexing!Held)
             /\ UNCHANGED <<pc, handle, path, stack, level, ent, abort, open, finds, end, faults, entries,
                            blocks, parents, stage, entryId, blkNo, ctx, mode, tidy>>
    BY <2>1 DEF vars, Flag, Indexing!readVars, Indexing!dbVars, Indexing!localVars,
       Indexing!scanVars
  <2> HIDE DEF ScanOrRest
  <2> QED
    BY <1>7, <1>9, <2>1 DEF World
<1>10. CASE UNCHANGED systemVars
  BY <1>10, IndexerRests DEF systemVars, vars, indexerVars, Flag
<1> HIDE DEF ScanOrRest
<1> QED
  BY <1>1, <1>2, <1>3, <1>4, <1>5, <1>6, <1>7, <1>8, <1>9, <1>10 DEF SystemNext, SystemWorker

\* What module Indexer takes for its environment is what the tracker is to it:
\* so all that is proved of Indexer holds of its scans in here.
THEOREM IndexerImplemented == SystemSpec => ImplementsIndexer
<1>1. SystemInit => FlagKept /\ Indexing!Init
  BY DEF SystemInit, Init, FlagKept
<1>2. FlagKept /\ [SystemNext]_systemVars => FlagKept'
  BY FlagStep
<1>3. FlagKept /\ [SystemNext]_systemVars => [Indexing!Next]_(Indexing!vars)
  BY RefinementStep DEF ScanOrRest
<1> QED
  BY <1>1, <1>2, <1>3, PTL DEF SystemSpec, ImplementsIndexer
-----------------------------------------------------------------------------
(* What is proved of Indexer, of the scans in here: module IndexerProofs,  *)
(* instantiated as System does Indexer.  Indexing and Proved are the same  *)
(* instance under two names: written out they are equal.                   *)

Proved == INSTANCE IndexerProofs WITH shutdown <- Flag

LEMMA ScansAssumed ==
    /\ Proved!TreeAssumption
    /\ Proved!ReaderAssumption
    /\ Proved!IndexerAssumption
    /\ Proved!NullAssumption
BY SystemAssumption DEF
   Indexing!TreeAssumption, Indexing!ReaderAssumption, Indexing!IndexerAssumption,
   Indexing!NullAssumption, Indexing!Path, Indexing!Row, Indexing!EntryId, Indexing!Name,
   Proved!TreeAssumption, Proved!ReaderAssumption, Proved!IndexerAssumption,
   Proved!NullAssumption, Proved!Path, Proved!Row, Proved!EntryId, Proved!Name

LEMMA SameNext == Indexing!Next <=> Proved!Next
<1>1. /\ Indexing!Wake <=> Proved!Wake
      /\ Indexing!Stop <=> Proved!Stop
      /\ Indexing!Restart <=> Proved!Restart
      /\ Indexing!RequestShutdown <=> Proved!RequestShutdown
      /\ Indexing!Crash <=> Proved!Crash
  BY DEF
     Indexing!Crash, Indexing!dbVars, Indexing!historyVars, Indexing!localVars,
     Indexing!readerVars, Indexing!readVars, Indexing!RequestShutdown, Indexing!Restart,
     Indexing!scanVars, Indexing!Stop, Indexing!Strike, Indexing!treeVars, Indexing!Waiting,
     Indexing!Wake, Proved!Crash, Proved!dbVars, Proved!historyVars, Proved!localVars,
     Proved!readerVars, Proved!readVars, Proved!RequestShutdown, Proved!Restart,
     Proved!scanVars, Proved!Stop, Proved!Strike, Proved!treeVars, Proved!Waiting, Proved!Wake
<1>2. /\ Indexing!BeginScan <=> Proved!BeginScan
      /\ Indexing!Cleanup <=> Proved!Cleanup
      /\ Indexing!CleanupFails <=> Proved!CleanupFails
      /\ Indexing!CleanupPartial <=> Proved!CleanupPartial
  BY DEF
     Indexing!BeginRead, Indexing!BeginScan, Indexing!BlockNo, Indexing!BlocksDropped,
     Indexing!Cleanup, Indexing!CleanupFails, Indexing!CleanupPartial, Indexing!CleanupThrows,
     Indexing!ClearLocals, Indexing!dbVars, Indexing!EntryId, Indexing!historyVars,
     Indexing!localVars, Indexing!NoBlocks, Indexing!Path, Indexing!Present, Indexing!RowId,
     Indexing!RowsDropped, Indexing!RowsReset, Indexing!scanVars, Indexing!Strike,
     Indexing!treeVars, Indexing!Unmet, Indexing!Used, Proved!BeginRead, Proved!BeginScan,
     Proved!BlockNo, Proved!BlocksDropped, Proved!Cleanup, Proved!CleanupFails,
     Proved!CleanupPartial, Proved!CleanupThrows, Proved!ClearLocals, Proved!dbVars,
     Proved!EntryId, Proved!historyVars, Proved!localVars, Proved!NoBlocks, Proved!Path,
     Proved!Present, Proved!RowId, Proved!RowsDropped, Proved!RowsReset, Proved!scanVars,
     Proved!Strike, Proved!treeVars, Proved!Unmet, Proved!Used
<1>3. /\ Indexing!Held = Proved!Held
      /\ \A h : Indexing!TreeStep(h) <=> Proved!TreeStep(h)
  BY DEF
     Indexing!Children, Indexing!CreateEntry, Indexing!Directory, Indexing!EntriesAt,
     Indexing!File, Indexing!FsChange, Indexing!Held, Indexing!InManip, Indexing!Mount,
     Indexing!Nothing, Indexing!Path, Indexing!Present, Indexing!RemoveEntry,
     Indexing!RewriteFile, Indexing!Tick, Indexing!TreeStep, Indexing!Unmount, Proved!Children,
     Proved!CreateEntry, Proved!Directory, Proved!EntriesAt, Proved!File, Proved!FsChange,
     Proved!Held, Proved!InManip, Proved!Mount, Proved!Nothing, Proved!Path, Proved!Present,
     Proved!RemoveEntry, Proved!RewriteFile, Proved!Tick, Proved!TreeStep, Proved!Unmount
<1>4. /\ Indexing!LoopAbort <=> Proved!LoopAbort
      /\ Indexing!OpenDirectory <=> Proved!OpenDirectory
      /\ Indexing!OpenGone <=> Proved!OpenGone
      /\ Indexing!OpenFails <=> Proved!OpenFails
      /\ Indexing!LoopDone <=> Proved!LoopDone
      /\ Indexing!LoopPop <=> Proved!LoopPop
  BY DEF
     Indexing!Children, Indexing!Front, Indexing!historyVars, Indexing!Last, Indexing!Leave,
     Indexing!LevelOf, Indexing!Listing, Indexing!LoopAbort, Indexing!LoopDone,
     Indexing!LoopPop, Indexing!OpenDirectory, Indexing!OpenFails, Indexing!OpenGone,
     Indexing!Present, Indexing!Scanning, Indexing!ScopeExits, Indexing!ToSet,
     Indexing!treeVars, Proved!Children, Proved!Front, Proved!historyVars, Proved!Last,
     Proved!Leave, Proved!LevelOf, Proved!Listing, Proved!LoopAbort, Proved!LoopDone,
     Proved!LoopPop, Proved!OpenDirectory, Proved!OpenFails, Proved!OpenGone, Proved!Present,
     Proved!Scanning, Proved!ScopeExits, Proved!ToSet, Proved!treeVars
<1>5. /\ Indexing!NextEntry <=> Proved!NextEntry
      /\ Indexing!NextEnd <=> Proved!NextEnd
      /\ Indexing!NextAborted <=> Proved!NextAborted
      /\ Indexing!NextError <=> Proved!NextError
      /\ Indexing!Descend <=> Proved!Descend
      /\ Indexing!StayHere <=> Proved!StayHere
  BY DEF
     Indexing!Calls, Indexing!CloseDirectory, Indexing!Descend, Indexing!historyVars,
     Indexing!Leave, Indexing!MayDescend, Indexing!NextAborted, Indexing!NextEnd,
     Indexing!NextEntry, Indexing!NextError, Indexing!ReturnTo, Indexing!Scanning,
     Indexing!ScopeExits, Indexing!StayHere, Indexing!Strike, Indexing!ToSet, Indexing!treeVars,
     Proved!Calls, Proved!CloseDirectory, Proved!Descend, Proved!historyVars, Proved!Leave,
     Proved!MayDescend, Proved!NextAborted, Proved!NextEnd, Proved!NextEntry, Proved!NextError,
     Proved!ReturnTo, Proved!Scanning, Proved!ScopeExits, Proved!StayHere, Proved!Strike,
     Proved!ToSet, Proved!treeVars
<1>6. /\ Indexing!AdmitShutdown <=> Proved!AdmitShutdown
      /\ Indexing!AdmitSkip <=> Proved!AdmitSkip
      /\ Indexing!AdmitUndefined <=> Proved!AdmitUndefined
      /\ Indexing!AdmitRoot <=> Proved!AdmitRoot
      /\ Indexing!AdmitKnown <=> Proved!AdmitKnown
  BY DEF
     Indexing!Accessible, Indexing!AdmitKnown, Indexing!AdmitRoot, Indexing!RootUnknown,
     Indexing!RootEntered, Indexing!AdmitShutdown,
     Indexing!AdmitSkip, Indexing!AdmitUndefined, Indexing!ClearLocals, Indexing!dbVars,
     Indexing!EntryId, Indexing!historyVars, Indexing!InManip, Indexing!Leave, Indexing!Lost,
     Indexing!ManipReturns, Indexing!ManipThrows, Indexing!Matches, Indexing!NewRow,
     Indexing!NextRowids, Indexing!Present, Indexing!readerVars, Indexing!readVars,
     Indexing!Return, Indexing!ReturnTo, Indexing!RowId, Indexing!Scanning, Indexing!scanVars,
     Indexing!ScopeExits, Indexing!Selected, Indexing!StoredMtime, Indexing!Strike,
     Indexing!ToSet, Indexing!Touched, Indexing!treeVars, Indexing!UpdateEntry,
     Indexing!UpToDate, Indexing!Used, Proved!Accessible, Proved!AdmitKnown, Proved!AdmitRoot,
     Proved!RootUnknown, Proved!RootEntered,
     Proved!AdmitShutdown, Proved!AdmitSkip, Proved!AdmitUndefined, Proved!ClearLocals,
     Proved!dbVars, Proved!EntryId, Proved!historyVars, Proved!InManip, Proved!Leave,
     Proved!Lost, Proved!ManipReturns, Proved!ManipThrows, Proved!Matches, Proved!NewRow,
     Proved!NextRowids, Proved!Present, Proved!readerVars, Proved!readVars, Proved!Return,
     Proved!ReturnTo, Proved!RowId, Proved!Scanning, Proved!scanVars, Proved!ScopeExits,
     Proved!Selected, Proved!StoredMtime, Proved!Strike, Proved!ToSet, Proved!Touched,
     Proved!treeVars, Proved!UpdateEntry, Proved!UpToDate, Proved!Used
<1>7. /\ Indexing!EnterDirectory <=> Proved!EnterDirectory
      /\ Indexing!EnterFile <=> Proved!EnterFile
  BY DEF
     Indexing!ClearLocals, Indexing!EnterDirectory, Indexing!DirectoryEntered, Indexing!EnterFile,
     Indexing!FileEntered, Indexing!EntryId,
     Indexing!historyVars, Indexing!InManip, Indexing!Lost, Indexing!ManipReturns,
     Indexing!Matches, Indexing!NeedsDigest, Indexing!NewRow, Indexing!NextRowids,
     Indexing!readVars, Indexing!Return, Indexing!ReturnTo, Indexing!RowId, Indexing!Selected,
     Indexing!StoredMtime, Indexing!Strike, Indexing!Touched, Indexing!treeVars,
     Indexing!UpdateEntry, Indexing!UpToDate, Indexing!Used, Proved!ClearLocals,
     Proved!EnterDirectory, Proved!DirectoryEntered, Proved!EnterFile, Proved!FileEntered,
     Proved!EntryId, Proved!historyVars,
     Proved!InManip, Proved!Lost, Proved!ManipReturns, Proved!Matches, Proved!NeedsDigest,
     Proved!NewRow, Proved!NextRowids, Proved!readVars, Proved!Return, Proved!ReturnTo,
     Proved!RowId, Proved!Selected, Proved!StoredMtime, Proved!Strike, Proved!Touched,
     Proved!treeVars, Proved!UpdateEntry, Proved!UpToDate, Proved!Used
<1>8. /\ Indexing!OpenFile <=> Proved!OpenFile
      /\ Indexing!OpenFileFails <=> Proved!OpenFileFails
      /\ Indexing!ReadBlock <=> Proved!ReadBlock
      /\ Indexing!TrimBlocks <=> Proved!TrimBlocks
  BY DEF
     Indexing!BlockNo, Indexing!ClearLocals, Indexing!dbVars, Indexing!historyVars,
     Indexing!InManip, Indexing!Later, Indexing!ManipReturns, Indexing!OpenFile,
     Indexing!OpenFileFails, Indexing!ReadBlock, Indexing!BlockRead, Indexing!readerVars,
     Indexing!readVars,
     Indexing!Return, Indexing!ReturnTo, Indexing!scanVars, Indexing!Strike, Indexing!treeVars,
     Indexing!TrimBlocks, Indexing!UpdateBlockDigest, Proved!BlockNo, Proved!ClearLocals,
     Proved!dbVars, Proved!historyVars, Proved!InManip, Proved!Later, Proved!ManipReturns,
     Proved!OpenFile, Proved!OpenFileFails, Proved!ReadBlock, Proved!BlockRead, Proved!readerVars,
     Proved!readVars, Proved!Return, Proved!ReturnTo, Proved!scanVars, Proved!Strike,
     Proved!treeVars, Proved!TrimBlocks, Proved!UpdateBlockDigest
<1>9. /\ Indexing!ReadEnd <=> Proved!ReadEnd
      /\ Indexing!ReadFails <=> Proved!ReadFails
      /\ Indexing!RecordDigest <=> Proved!RecordDigest
      /\ Indexing!StatementThrows <=> Proved!StatementThrows
  BY DEF
     Indexing!ClearLocals, Indexing!dbVars, Indexing!historyVars, Indexing!InManip,
     Indexing!Leave, Indexing!ManipReturns, Indexing!ManipThrows, Indexing!ReadEnd,
     Indexing!readerVars, Indexing!ReadFails, Indexing!readVars, Indexing!RecordDigest,
     Indexing!Return, Indexing!ReturnTo, Indexing!RowId, Indexing!Scanning, Indexing!scanVars,
     Indexing!ScopeExits, Indexing!StatementThrows, Indexing!Strike, Indexing!ToSet,
     Indexing!treeVars, Indexing!Used, Proved!ClearLocals, Proved!dbVars, Proved!historyVars,
     Proved!InManip, Proved!Leave, Proved!ManipReturns, Proved!ManipThrows, Proved!ReadEnd,
     Proved!readerVars, Proved!ReadFails, Proved!readVars, Proved!RecordDigest, Proved!Return,
     Proved!ReturnTo, Proved!RowId, Proved!Scanning, Proved!scanVars, Proved!ScopeExits,
     Proved!StatementThrows, Proved!Strike, Proved!ToSet, Proved!treeVars, Proved!Used
<1> QED
  BY <1>1, <1>2, <1>3, <1>4, <1>5, <1>6, <1>7, <1>8, <1>9 DEF
     Indexing!Next, Indexing!Worker, Indexing!Environment, Indexing!Walk, Indexing!ReaderLoop,
     Indexing!ManipStep, Indexing!readVars, Indexing!dbVars, Indexing!localVars,
     Indexing!scanVars, Proved!Next, Proved!Worker, Proved!Environment, Proved!Walk,
     Proved!ReaderLoop, Proved!ManipStep, Proved!readVars, Proved!dbVars, Proved!localVars,
     Proved!scanVars

LEMMA SameInit ==
    /\ Indexing!Init <=> Proved!Init
BY DEF
   Indexing!BlockNo, Indexing!Directory, Indexing!EntriesAt, Indexing!EntryId, Indexing!File,
   Indexing!Init, Indexing!NoBlocks, Indexing!NoFind, Indexing!Nothing, Indexing!Path,
   Indexing!Present, Indexing!ReaderInit, Indexing!RowId, Indexing!TreeInit, Proved!BlockNo,
   Proved!Directory, Proved!EntriesAt, Proved!EntryId, Proved!File, Proved!Init,
   Proved!NoBlocks, Proved!NoFind, Proved!Nothing, Proved!Path, Proved!Present,
   Proved!ReaderInit, Proved!RowId, Proved!TreeInit

LEMMA SameVars == UNCHANGED Indexing!vars <=> UNCHANGED Proved!vars
BY DEF
   Indexing!dbVars, Indexing!historyVars, Indexing!localVars, Indexing!readerVars,
   Indexing!readVars, Indexing!scanVars, Indexing!treeVars, Indexing!vars, Proved!dbVars,
   Proved!historyVars, Proved!localVars, Proved!readerVars, Proved!readVars, Proved!scanVars,
   Proved!treeVars, Proved!vars

LEMMA ScansStep == ImplementsIndexer => Proved!Steps
<1>1. [Indexing!Next]_(Indexing!vars) => [Proved!Next]_(Proved!vars)
  BY SameNext, SameVars
<1> QED
  BY <1>1, SameInit, PTL DEF ImplementsIndexer, Proved!Steps

\* The definitions that the theorems below are about.
LEMMA SameRows ==
    /\ Indexing!TypeOK <=> Proved!TypeOK
    /\ Indexing!UniqueKeys <=> Proved!UniqueKeys
    /\ Indexing!PathsFaithful <=> Proved!PathsFaithful
    /\ Indexing!BlocksOwned <=> Proved!BlocksOwned
    /\ Indexing!DigestFresh <=> Proved!DigestFresh
    /\ Indexing!BlocksFresh <=> Proved!BlocksFresh
BY DEF
   Indexing!BlockNo, Indexing!BlocksFresh, Indexing!BlocksOwned, Indexing!DigestFresh,
   Indexing!Endings, Indexing!Entry, Indexing!EntryId, Indexing!FindData, Indexing!Name,
   Indexing!NoBlocks, Indexing!NoFind, Indexing!Path, Indexing!PathsFaithful,
   Indexing!ReaderTypeOK, Indexing!Recorded, Indexing!Row, Indexing!RowId,
   Indexing!StoredBlocks, Indexing!TypeOK, Indexing!UniqueKeys, Indexing!Used, Proved!BlockNo,
   Proved!BlocksFresh, Proved!BlocksOwned, Proved!DigestFresh, Proved!Endings, Proved!Entry,
   Proved!EntryId, Proved!FindData, Proved!Name, Proved!NoBlocks, Proved!NoFind, Proved!Path,
   Proved!PathsFaithful, Proved!ReaderTypeOK, Proved!Recorded, Proved!Row, Proved!RowId,
   Proved!StoredBlocks, Proved!TypeOK, Proved!UniqueKeys, Proved!Used

LEMMA SameMirror ==
    /\ Indexing!MirrorAfterScan <=> Proved!MirrorAfterScan
BY DEF
   Indexing!Children, Indexing!Listed, Indexing!Mirror, Indexing!MirrorAfterScan,
   Indexing!NamesMatch, Indexing!Present, Indexing!Recorded, Indexing!RowId, Indexing!Used,
   Proved!Children, Proved!Listed, Proved!Mirror, Proved!MirrorAfterScan, Proved!NamesMatch,
   Proved!Present, Proved!Recorded, Proved!RowId, Proved!Used

LEMMA SameNames == Indexing!NamesAfterScan <=> Proved!NamesAfterScan
BY DEF
   Indexing!Children, Indexing!Listed, Indexing!Matches, Indexing!NamesAfterScan, Indexing!Path,
   Indexing!Present, Indexing!RowAt, Indexing!RowId, Indexing!Selected, Indexing!Used,
   Proved!Children, Proved!Listed, Proved!Matches, Proved!NamesAfterScan, Proved!Path,
   Proved!Present, Proved!RowAt, Proved!RowId, Proved!Selected, Proved!Used

LEMMA ScansSteps == SystemSpec => Proved!Steps
BY IndexerImplemented, ScansStep, PTL

\* Wherever run(), shutdown(), the deadline and the deaths of the process fall in
\* a scan, tracker and tables keep their types, and no two rows have one parent
\* and name.
THEOREM SystemTypeCorrect == SystemSpec => [](TypeOK /\ Indexing!TypeOK /\ Indexing!UniqueKeys)
<1>1. Proved!Steps => []Proved!TypeInv
  BY ScansAssumed, Proved!TypeInvariant
<1>2. Proved!Steps => []Proved!UniqueKeys
  BY ScansAssumed, Proved!KeysInvariant
<1>3. Proved!TypeInv /\ Proved!UniqueKeys => Indexing!TypeOK /\ Indexing!UniqueKeys
  BY SameRows DEF Proved!TypeInv
<1>4. Inv => TypeOK
  BY DEF Inv
<1> QED
  BY <1>1, <1>2, <1>3, <1>4, Invariant, ScansSteps, PTL

\* Nor do they ever hold a row whose directory's row is missing or another's, or
\* blocks without an entry, over any number of lives of the process, as long as no
\* INSERT is lost.
THEOREM TablesAlwaysFaithful ==
    ASSUME "silent" \notin FaultKinds
    PROVE  SystemSpec => [](Indexing!PathsFaithful /\ Indexing!BlocksOwned)
<1>1. Proved!Steps => []Proved!RowInv
  BY ScansAssumed, Proved!RowInvariant
<1>2. Proved!RowInv => Indexing!PathsFaithful /\ Indexing!BlocksOwned
  BY SameRows DEF Proved!RowInv, Proved!RowTree
<1> QED
  BY <1>1, <1>2, ScansSteps, PTL

\* A digest, or a row of blocks, under a file's present time stamp is that of its
\* present data, though the scan that wrote it was cut off by shutdown(), or the
\* process by its death, between any two statements.
THEOREM TablesAlwaysFresh ==
    ASSUME "silent" \notin FaultKinds
    PROVE  SystemSpec => [](Indexing!DigestFresh /\ Indexing!BlocksFresh)
<1>1. Proved!Steps => []Proved!FreshInv
  BY ScansAssumed, Proved!FreshInvariant
<1>2. Proved!FreshInv => Indexing!DigestFresh /\ Indexing!BlocksFresh
  BY SameRows DEF Proved!FreshInv
<1> QED
  BY <1>1, <1>2, ScansSteps, PTL

\* A scan that ran to its end deletes the row of nothing that was there all the
\* while, the root's apart, if no INSERT fails unnoticed and paths form a tree; a
\* scan that shutdown() stopped may.
THEOREM DeletionsAlwaysJustified ==
    ASSUME "silent" \notin FaultKinds, NEW rank, Proved!IsRank(rank)
    PROVE  SystemSpec => Indexing!RemovalJustified
<1>1. Proved!Steps => Proved!RemovalJustified
  BY ScansAssumed, Proved!RemovalsJustified
<1> DEFINE Left(i) == \/ entries[i].node \in gone
                      \/ entries[i].node = Root /\ \A n \in Node : Up[n] = Root => n \in gone
           A == \A i \in Proved!Used : entries'[i] = Null /\ end = "done" => Left(i)
           B == \A i \in Indexing!Used : entries'[i] = Null /\ end = "done" => Left(i)
<1>2. [A]_(Proved!vars) => [B]_(Indexing!vars)
  <2>1. Indexing!Used = Proved!Used
    BY DEF Indexing!Used, Indexing!RowId, Proved!Used, Proved!RowId
  <2> HIDE DEF Left
  <2> QED
    BY <2>1, SameVars
<1>3. Proved!RemovalJustified => Indexing!RemovalJustified
  BY <1>2, PTL DEF Proved!RemovalJustified, Indexing!RemovalJustified
<1> QED
  BY <1>1, <1>3, ScansSteps, PTL

\* After a scan that nothing disturbed, of those that the tracker begins by
\* itself minute by minute, the table mirrors the directory, if there were no
\* marks before and no digest was missing, every file can be read, no stamp is 0
\* and no INSERT ever failed unnoticed.
THEOREM MirrorsAfterScans ==
    ASSUME {"silent", "open", "read"} \cap FaultKinds = {}, Denied \cap Node = {},
           FirstStamp > 0, NEW rank, Proved!IsRank(rank)
    PROVE  SystemSpec => []Indexing!MirrorAfterScan
<1>1. Proved!Steps => []Proved!MirrorAfterScan
  BY ScansAssumed, Proved!MirrorInvariant
<1> QED
  BY <1>1, SameMirror, ScansSteps, PTL

\* Nor does it matter for the names what INSERTs earlier scans have lost, or in
\* how many lives of the process: one scan that begins with no row marked, loses
\* no INSERT and finds the tree still puts each path where it is looked for.
THEOREM NamesAlwaysRepaired ==
    ASSUME NEW rank, Proved!IsRank(rank)
    PROVE  SystemSpec => []NamesRepaired
<1>1. Proved!Steps => []Proved!NamesAfterScan
  BY ScansAssumed, Proved!NamesInvariant
<1> QED
  BY <1>1, SameNames, ScansSteps, PTL DEF NamesRepaired

\* To one who reads the table by path, the whole process with its owner, its lives
\* and the world is an index: its steps are those of module Index or none, and it
\* keeps what Index promises, as long as no INSERT fails unnoticed.
THEOREM SystemIsIndex ==
    ASSUME "silent" \notin FaultKinds
    PROVE  SystemSpec => /\ Proved!ImplementsIndex
                         /\ [](Proved!Observed!Rooted /\ Proved!Observed!Fresh)
<1>1. Proved!Steps => Proved!ImplementsIndex
  BY ScansAssumed, Proved!StepsImplementIndex
<1>2. Proved!ImplementsIndex => [](Proved!Observed!Rooted /\ Proved!Observed!Fresh)
  BY ScansAssumed, Proved!IndexPromises, PTL DEF Proved!ImplementsIndex
<1> QED
  BY <1>1, <1>2, ScansSteps, PTL
=============================================================================
