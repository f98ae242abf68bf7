--------------------------- MODULE SharedDbProofs ---------------------------
(***************************************************************************)
(* What a tracker writes by rowid reaches the row it looked for, whatever  *)
(* statements of the other's come between: RowInHandKept is an invariant   *)
(* of SharedSpec, for any two directories.                                 *)
(*                                                                         *)
(* The inductive invariant says, beside the types, for each of the two,    *)
(* that a row is in hand only while st_sel keeps a snapshot, and that on   *)
(* the last snapshot it is still the row of the parent and name looked     *)
(* for.  A step of the tracker's own keeps the row or lets it go; a step   *)
(* of the other's either leaves entries alone or makes the snapshot stale. *)
(*                                                                         *)
(* The types come from module IndexerProofs, instantiated like the         *)
(* indexers of the two trackers are.                                       *)
(***************************************************************************)
EXTENDS SharedDb, TLAPS

OfFirst == INSTANCE IndexerProofs WITH Matching <- Node, Denied <- {}

OfSecond == INSTANCE IndexerProofs WITH
    Node <- Node2, Root <- Root2, Up <- Up2, KindsOf <- KindsOf2, Volatile <- Volatile2,
    NameOf <- NameOf2, Matching <- Node2, Denied <- {},
    fs <- fs2, clock <- clock2, pc <- pc2, handle <- handle2, path <- path2, stack <- stack2,
    level <- level2, ent <- ent2, abort <- abort2, open <- open2, finds <- finds2, end <- end2,
    faults <- faults2, visited <- visited2, gone <- gone2, quiet <- quiet2, parents <- parents2,
    stage <- stage2, entryId <- entryId2, blkNo <- blkNo2, ctx <- ctx2, mode <- mode2,
    shutdown <- shutdown2, tidy <- tidy2

-----------------------------------------------------------------------------
(* First and OfFirst are the same instance of Indexer under two names, and *)
(* so are Second and OfSecond: written out they are equal.                 *)

LEMMA FirstAssumed ==
    /\ OfFirst!TreeAssumption
    /\ OfFirst!ReaderAssumption
    /\ OfFirst!IndexerAssumption
    /\ OfFirst!NullAssumption
BY SharedAssumption DEF
       First!TreeAssumption, First!ReaderAssumption, First!IndexerAssumption,
       First!NullAssumption, First!Path, First!Row, First!EntryId, First!Name,
       OfFirst!TreeAssumption, OfFirst!ReaderAssumption, OfFirst!IndexerAssumption,
       OfFirst!NullAssumption, OfFirst!Path, OfFirst!Row, OfFirst!EntryId, OfFirst!Name

LEMMA FirstSame == First!Next <=> OfFirst!Next
<1>1. /\ First!Wake <=> OfFirst!Wake
      /\ First!Stop <=> OfFirst!Stop
      /\ First!Restart <=> OfFirst!Restart
      /\ First!RequestShutdown <=> OfFirst!RequestShutdown
      /\ First!Crash <=> OfFirst!Crash
  BY DEF
     First!Crash, First!dbVars, First!historyVars, First!localVars, First!readerVars,
     First!readVars, First!RequestShutdown, First!Restart, First!scanVars, First!Stop,
     First!Strike, First!treeVars, First!Waiting, First!Wake, OfFirst!Crash, OfFirst!dbVars,
     OfFirst!historyVars, OfFirst!localVars, OfFirst!readerVars, OfFirst!readVars,
     OfFirst!RequestShutdown, OfFirst!Restart, OfFirst!scanVars, OfFirst!Stop, OfFirst!Strike,
     OfFirst!treeVars, OfFirst!Waiting, OfFirst!Wake
<1>2. /\ First!BeginScan <=> OfFirst!BeginScan
      /\ First!Cleanup <=> OfFirst!Cleanup
      /\ First!CleanupFails <=> OfFirst!CleanupFails
      /\ First!CleanupPartial <=> OfFirst!CleanupPartial
  BY DEF
     First!BeginRead, First!BeginScan, First!BlockNo, First!BlocksDropped, First!Cleanup,
     First!CleanupFails, First!CleanupPartial, First!CleanupThrows, First!ClearLocals,
     First!dbVars, First!EntryId, First!historyVars, First!localVars, First!NoBlocks,
     First!Path, First!Present, First!RowId, First!RowsDropped, First!RowsReset, First!scanVars,
     First!Strike, First!treeVars, First!Unmet, First!Used, OfFirst!BeginRead,
     OfFirst!BeginScan, OfFirst!BlockNo, OfFirst!BlocksDropped, OfFirst!Cleanup,
     OfFirst!CleanupFails, OfFirst!CleanupPartial, OfFirst!CleanupThrows, OfFirst!ClearLocals,
     OfFirst!dbVars, OfFirst!EntryId, OfFirst!historyVars, OfFirst!localVars, OfFirst!NoBlocks,
     OfFirst!Path, OfFirst!Present, OfFirst!RowId, OfFirst!RowsDropped, OfFirst!RowsReset,
     OfFirst!scanVars, OfFirst!Strike, OfFirst!treeVars, OfFirst!Unmet, OfFirst!Used
<1>3. /\ First!Held = OfFirst!Held
      /\ \A h : First!TreeStep(h) <=> OfFirst!TreeStep(h)
  BY DEF
     First!Children, First!CreateEntry, First!Directory, First!EntriesAt, First!File,
     First!FsChange, First!Held, First!InManip, First!Mount, First!Nothing, First!Path,
     First!Present, First!RemoveEntry, First!RewriteFile, First!Tick, First!TreeStep,
     First!Unmount, OfFirst!Children, OfFirst!CreateEntry, OfFirst!Directory, OfFirst!EntriesAt,
     OfFirst!File, OfFirst!FsChange, OfFirst!Held, OfFirst!InManip, OfFirst!Mount,
     OfFirst!Nothing, OfFirst!Path, OfFirst!Present, OfFirst!RemoveEntry, OfFirst!RewriteFile,
     OfFirst!Tick, OfFirst!TreeStep, OfFirst!Unmount
<1>4. /\ First!LoopAbort <=> OfFirst!LoopAbort
      /\ First!OpenDirectory <=> OfFirst!OpenDirectory
      /\ First!OpenGone <=> OfFirst!OpenGone
      /\ First!OpenFails <=> OfFirst!OpenFails
      /\ First!LoopDone <=> OfFirst!LoopDone
      /\ First!LoopPop <=> OfFirst!LoopPop
  BY DEF
     First!Children, First!Front, First!historyVars, First!Last, First!Leave, First!LevelOf,
     First!Listing, First!LoopAbort, First!LoopDone, First!LoopPop, First!OpenDirectory,
     First!OpenFails, First!OpenGone, First!Present, First!Scanning, First!ScopeExits,
     First!ToSet, First!treeVars, OfFirst!Children, OfFirst!Front, OfFirst!historyVars,
     OfFirst!Last, OfFirst!Leave, OfFirst!LevelOf, OfFirst!Listing, OfFirst!LoopAbort,
     OfFirst!LoopDone, OfFirst!LoopPop, OfFirst!OpenDirectory, OfFirst!OpenFails,
     OfFirst!OpenGone, OfFirst!Present, OfFirst!Scanning, OfFirst!ScopeExits, OfFirst!ToSet,
     OfFirst!treeVars
<1>5. /\ First!NextEntry <=> OfFirst!NextEntry
      /\ First!NextEnd <=> OfFirst!NextEnd
      /\ First!NextAborted <=> OfFirst!NextAborted
      /\ First!NextError <=> OfFirst!NextError
      /\ First!Descend <=> OfFirst!Descend
      /\ First!StayHere <=> OfFirst!StayHere
  BY DEF
     First!Calls, First!CloseDirectory, First!Descend, First!historyVars, First!Leave,
     First!MayDescend, First!NextAborted, First!NextEnd, First!NextEntry, First!NextError,
     First!ReturnTo, First!Scanning, First!ScopeExits, First!StayHere, First!Strike,
     First!ToSet, First!treeVars, OfFirst!Calls, OfFirst!CloseDirectory, OfFirst!Descend,
     OfFirst!historyVars, OfFirst!Leave, OfFirst!MayDescend, OfFirst!NextAborted,
     OfFirst!NextEnd, OfFirst!NextEntry, OfFirst!NextError, OfFirst!ReturnTo, OfFirst!Scanning,
     OfFirst!ScopeExits, OfFirst!StayHere, OfFirst!Strike, OfFirst!ToSet, OfFirst!treeVars
<1>6. /\ First!AdmitShutdown <=> OfFirst!AdmitShutdown
      /\ First!AdmitSkip <=> OfFirst!AdmitSkip
      /\ First!AdmitUndefined <=> OfFirst!AdmitUndefined
      /\ First!AdmitRoot <=> OfFirst!AdmitRoot
      /\ First!AdmitKnown <=> OfFirst!AdmitKnown
  BY DEF
     First!Accessible, First!AdmitKnown, First!AdmitRoot, First!AdmitShutdown, First!AdmitSkip,
     First!AdmitUndefined, First!ClearLocals, First!dbVars, First!EntryId, First!historyVars,
     First!InManip, First!Leave, First!Lost, First!ManipReturns, First!ManipThrows,
     First!Matches, First!NewRow, First!NextRowids, First!Present, First!readerVars,
     First!readVars, First!Return, First!ReturnTo, First!RootEntered, First!RootUnknown,
     First!RowId, First!Scanning, First!scanVars, First!ScopeExits, First!Selected,
     First!StoredMtime, First!Strike, First!ToSet, First!Touched, First!treeVars,
     First!UpdateEntry, First!UpToDate, First!Used, OfFirst!Accessible, OfFirst!AdmitKnown,
     OfFirst!AdmitRoot, OfFirst!AdmitShutdown, OfFirst!AdmitSkip, OfFirst!AdmitUndefined,
     OfFirst!ClearLocals, OfFirst!dbVars, OfFirst!EntryId, OfFirst!historyVars, OfFirst!InManip,
     OfFirst!Leave, OfFirst!Lost, OfFirst!ManipReturns, OfFirst!ManipThrows, OfFirst!Matches,
     OfFirst!NewRow, OfFirst!NextRowids, OfFirst!Present, OfFirst!readerVars, OfFirst!readVars,
     OfFirst!Return, OfFirst!ReturnTo, OfFirst!RootEntered, OfFirst!RootUnknown, OfFirst!RowId,
     OfFirst!Scanning, OfFirst!scanVars, OfFirst!ScopeExits, OfFirst!Selected,
     OfFirst!StoredMtime, OfFirst!Strike, OfFirst!ToSet, OfFirst!Touched, OfFirst!treeVars,
     OfFirst!UpdateEntry, OfFirst!UpToDate, OfFirst!Used
<1>7. /\ First!EnterDirectory <=> OfFirst!EnterDirectory
      /\ First!EnterFile <=> OfFirst!EnterFile
  BY DEF
     First!ClearLocals, First!DirectoryEntered, First!EnterDirectory, First!EnterFile,
     First!EntryId, First!FileEntered, First!historyVars, First!InManip, First!Lost,
     First!ManipReturns, First!Matches, First!NeedsDigest, First!NewRow, First!NextRowids,
     First!readVars, First!Return, First!ReturnTo, First!RowId, First!Selected,
     First!StoredMtime, First!Strike, First!Touched, First!treeVars, First!UpdateEntry,
     First!UpToDate, First!Used, OfFirst!ClearLocals, OfFirst!DirectoryEntered,
     OfFirst!EnterDirectory, OfFirst!EnterFile, OfFirst!EntryId, OfFirst!FileEntered,
     OfFirst!historyVars, OfFirst!InManip, OfFirst!Lost, OfFirst!ManipReturns, OfFirst!Matches,
     OfFirst!NeedsDigest, OfFirst!NewRow, OfFirst!NextRowids, OfFirst!readVars, OfFirst!Return,
     OfFirst!ReturnTo, OfFirst!RowId, OfFirst!Selected, OfFirst!StoredMtime, OfFirst!Strike,
     OfFirst!Touched, OfFirst!treeVars, OfFirst!UpdateEntry, OfFirst!UpToDate, OfFirst!Used
<1>8. /\ First!OpenFile <=> OfFirst!OpenFile
      /\ First!OpenFileFails <=> OfFirst!OpenFileFails
      /\ First!ReadBlock <=> OfFirst!ReadBlock
      /\ First!TrimBlocks <=> OfFirst!TrimBlocks
  BY DEF
     First!BlockNo, First!BlockRead, First!ClearLocals, First!dbVars, First!historyVars,
     First!InManip, First!Later, First!ManipReturns, First!OpenFile, First!OpenFileFails,
     First!ReadBlock, First!readerVars, First!readVars, First!Return, First!ReturnTo,
     First!scanVars, First!Strike, First!treeVars, First!TrimBlocks, First!UpdateBlockDigest,
     OfFirst!BlockNo, OfFirst!BlockRead, OfFirst!ClearLocals, OfFirst!dbVars,
     OfFirst!historyVars, OfFirst!InManip, OfFirst!Later, OfFirst!ManipReturns,
     OfFirst!OpenFile, OfFirst!OpenFileFails, OfFirst!ReadBlock, OfFirst!readerVars,
     OfFirst!readVars, OfFirst!Return, OfFirst!ReturnTo, OfFirst!scanVars, OfFirst!Strike,
     OfFirst!treeVars, OfFirst!TrimBlocks, OfFirst!UpdateBlockDigest
<1>9. /\ First!ReadEnd <=> OfFirst!ReadEnd
      /\ First!ReadFails <=> OfFirst!ReadFails
      /\ First!RecordDigest <=> OfFirst!RecordDigest
      /\ First!StatementThrows <=> OfFirst!StatementThrows
  BY DEF
     First!ClearLocals, First!dbVars, First!historyVars, First!InManip, First!Leave,
     First!ManipReturns, First!ManipThrows, First!ReadEnd, First!readerVars, First!ReadFails,
     First!readVars, First!RecordDigest, First!Return, First!ReturnTo, First!RowId,
     First!Scanning, First!scanVars, First!ScopeExits, First!StatementThrows, First!Strike,
     First!ToSet, First!treeVars, First!Used, OfFirst!ClearLocals, OfFirst!dbVars,
     OfFirst!historyVars, OfFirst!InManip, OfFirst!Leave, OfFirst!ManipReturns,
     OfFirst!ManipThrows, OfFirst!ReadEnd, OfFirst!readerVars, OfFirst!ReadFails,
     OfFirst!readVars, OfFirst!RecordDigest, OfFirst!Return, OfFirst!ReturnTo, OfFirst!RowId,
     OfFirst!Scanning, OfFirst!scanVars, OfFirst!ScopeExits, OfFirst!StatementThrows,
     OfFirst!Strike, OfFirst!ToSet, OfFirst!treeVars, OfFirst!Used
<1> QED
  BY <1>1, <1>2, <1>3, <1>4, <1>5, <1>6, <1>7, <1>8, <1>9 DEF
     First!Next, First!Worker, First!Environment, First!Walk, First!ReaderLoop, First!ManipStep,
     First!readVars, First!dbVars, First!localVars, First!scanVars, OfFirst!Next,
     OfFirst!Worker, OfFirst!Environment, OfFirst!Walk, OfFirst!ReaderLoop, OfFirst!ManipStep,
     OfFirst!readVars, OfFirst!dbVars, OfFirst!localVars, OfFirst!scanVars

LEMMA FirstParts ==
    /\ \A s : First!InManip(s) <=> OfFirst!InManip(s)
    /\ \A id : First!RootEntered(id) <=> OfFirst!RootEntered(id)
    /\ \A id : First!DirectoryEntered(id) <=> OfFirst!DirectoryEntered(id)
    /\ \A id, stored : First!FileEntered(id, stored) <=> OfFirst!FileEntered(id, stored)
    /\ First!BlockRead <=> OfFirst!BlockRead
BY DEF
   First!BlockRead, First!ClearLocals, First!DirectoryEntered, First!FileEntered,
   First!historyVars, First!InManip, First!ManipReturns, First!NeedsDigest, First!readVars,
   First!Return, First!ReturnTo, First!RootEntered, First!scanVars, First!treeVars,
   OfFirst!BlockRead, OfFirst!ClearLocals, OfFirst!DirectoryEntered, OfFirst!FileEntered,
   OfFirst!historyVars, OfFirst!InManip, OfFirst!ManipReturns, OfFirst!NeedsDigest,
   OfFirst!readVars, OfFirst!Return, OfFirst!ReturnTo, OfFirst!RootEntered, OfFirst!scanVars,
   OfFirst!treeVars

LEMMA FirstRefused ==
    (call[1] = NoCall \/ pc = "manip") /\ FirstThrows => OfFirst!Refused /\ UNCHANGED OfFirst!dbVars
BY DEF
   FirstThrows, Throwing, NoCall, tables, OfFirst!dbVars, OfFirst!Refused, First!InManip,
   First!CleanupThrows,
   First!ClearLocals, First!historyVars, First!Leave, First!localVars, First!ManipThrows,
   First!Scanning, First!scanVars, First!ScopeExits, First!ToSet, First!treeVars,
   OfFirst!CleanupThrows, OfFirst!ClearLocals, OfFirst!historyVars, OfFirst!Leave,
   OfFirst!localVars, OfFirst!ManipThrows, OfFirst!Scanning, OfFirst!scanVars,
   OfFirst!ScopeExits, OfFirst!ToSet, OfFirst!treeVars

LEMMA FirstInit == First!Init => OfFirst!Init
BY DEF
   First!BlockNo, First!Directory, First!EntriesAt, First!EntryId, First!File, First!Init,
   First!NoBlocks, First!NoFind, First!Nothing, First!Path, First!Present, First!ReaderInit,
   First!RowId, First!TreeInit, OfFirst!BlockNo, OfFirst!Directory, OfFirst!EntriesAt,
   OfFirst!EntryId, OfFirst!File, OfFirst!Init, OfFirst!NoBlocks, OfFirst!NoFind,
   OfFirst!Nothing, OfFirst!Path, OfFirst!Present, OfFirst!ReaderInit, OfFirst!RowId,
   OfFirst!TreeInit

LEMMA SecondAssumed ==
    /\ OfSecond!TreeAssumption
    /\ OfSecond!ReaderAssumption
    /\ OfSecond!IndexerAssumption
    /\ OfSecond!NullAssumption
BY SharedAssumption DEF
       Second!TreeAssumption, Second!ReaderAssumption, Second!IndexerAssumption,
       Second!NullAssumption, Second!Path, Second!Row, Second!EntryId, Second!Name,
       OfSecond!TreeAssumption, OfSecond!ReaderAssumption, OfSecond!IndexerAssumption,
       OfSecond!NullAssumption, OfSecond!Path, OfSecond!Row, OfSecond!EntryId, OfSecond!Name

LEMMA SecondSame == Second!Next <=> OfSecond!Next
<1>1. /\ Second!Wake <=> OfSecond!Wake
      /\ Second!Stop <=> OfSecond!Stop
      /\ Second!Restart <=> OfSecond!Restart
      /\ Second!RequestShutdown <=> OfSecond!RequestShutdown
      /\ Second!Crash <=> OfSecond!Crash
  BY DEF
     Second!Crash, Second!dbVars, Second!historyVars, Second!localVars, Second!readerVars,
     Second!readVars, Second!RequestShutdown, Second!Restart, Second!scanVars, Second!Stop,
     Second!Strike, Second!treeVars, Second!Waiting, Second!Wake, OfSecond!Crash,
     OfSecond!dbVars, OfSecond!historyVars, OfSecond!localVars, OfSecond!readerVars,
     OfSecond!readVars, OfSecond!RequestShutdown, OfSecond!Restart, OfSecond!scanVars,
     OfSecond!Stop, OfSecond!Strike, OfSecond!treeVars, OfSecond!Waiting, OfSecond!Wake
<1>2. /\ Second!BeginScan <=> OfSecond!BeginScan
      /\ Second!Cleanup <=> OfSecond!Cleanup
      /\ Second!CleanupFails <=> OfSecond!CleanupFails
      /\ Second!CleanupPartial <=> OfSecond!CleanupPartial
  BY DEF
     Second!BeginRead, Second!BeginScan, Second!BlockNo, Second!BlocksDropped, Second!Cleanup,
     Second!CleanupFails, Second!CleanupPartial, Second!CleanupThrows, Second!ClearLocals,
     Second!dbVars, Second!EntryId, Second!historyVars, Second!localVars, Second!NoBlocks,
     Second!Path, Second!Present, Second!RowId, Second!RowsDropped, Second!RowsReset,
     Second!scanVars, Second!Strike, Second!treeVars, Second!Unmet, Second!Used,
     OfSecond!BeginRead, OfSecond!BeginScan, OfSecond!BlockNo, OfSecond!BlocksDropped,
     OfSecond!Cleanup, OfSecond!CleanupFails, OfSecond!CleanupPartial, OfSecond!CleanupThrows,
     OfSecond!ClearLocals, OfSecond!dbVars, OfSecond!EntryId, OfSecond!historyVars,
     OfSecond!localVars, OfSecond!NoBlocks, OfSecond!Path, OfSecond!Present, OfSecond!RowId,
     OfSecond!RowsDropped, OfSecond!RowsReset, OfSecond!scanVars, OfSecond!Strike,
     OfSecond!treeVars, OfSecond!Unmet, OfSecond!Used
<1>3. /\ Second!Held = OfSecond!Held
      /\ \A h : Second!TreeStep(h) <=> OfSecond!TreeStep(h)
  BY DEF
     Second!Children, Second!CreateEntry, Second!Directory, Second!EntriesAt, Second!File,
     Second!FsChange, Second!Held, Second!InManip, Second!Mount, Second!Nothing, Second!Path,
     Second!Present, Second!RemoveEntry, Second!RewriteFile, Second!Tick, Second!TreeStep,
     Second!Unmount, OfSecond!Children, OfSecond!CreateEntry, OfSecond!Directory,
     OfSecond!EntriesAt, OfSecond!File, OfSecond!FsChange, OfSecond!Held, OfSecond!InManip,
     OfSecond!Mount, OfSecond!Nothing, OfSecond!Path, OfSecond!Present, OfSecond!RemoveEntry,
     OfSecond!RewriteFile, OfSecond!Tick, OfSecond!TreeStep, OfSecond!Unmount
<1>4. /\ Second!LoopAbort <=> OfSecond!LoopAbort
      /\ Second!OpenDirectory <=> OfSecond!OpenDirectory
      /\ Second!OpenGone <=> OfSecond!OpenGone
      /\ Second!OpenFails <=> OfSecond!OpenFails
      /\ Second!LoopDone <=> OfSecond!LoopDone
      /\ Second!LoopPop <=> OfSecond!LoopPop
  BY DEF
     Second!Children, Second!Front, Second!historyVars, Second!Last, Second!Leave,
     Second!LevelOf, Second!Listing, Second!LoopAbort, Second!LoopDone, Second!LoopPop,
     Second!OpenDirectory, Second!OpenFails, Second!OpenGone, Second!Present, Second!Scanning,
     Second!ScopeExits, Second!ToSet, Second!treeVars, OfSecond!Children, OfSecond!Front,
     OfSecond!historyVars, OfSecond!Last, OfSecond!Leave, OfSecond!LevelOf, OfSecond!Listing,
     OfSecond!LoopAbort, OfSecond!LoopDone, OfSecond!LoopPop, OfSecond!OpenDirectory,
     OfSecond!OpenFails, OfSecond!OpenGone, OfSecond!Present, OfSecond!Scanning,
     OfSecond!ScopeExits, OfSecond!ToSet, OfSecond!treeVars
<1>5. /\ Second!NextEntry <=> OfSecond!NextEntry
      /\ Second!NextEnd <=> OfSecond!NextEnd
      /\ Second!NextAborted <=> OfSecond!NextAborted
      /\ Second!NextError <=> OfSecond!NextError
      /\ Second!Descend <=> OfSecond!Descend
      /\ Second!StayHere <=> OfSecond!StayHere
  BY DEF
     Second!Calls, Second!CloseDirectory, Second!Descend, Second!historyVars, Second!Leave,
     Second!MayDescend, Second!NextAborted, Second!NextEnd, Second!NextEntry, Second!NextError,
     Second!ReturnTo, Second!Scanning, Second!ScopeExits, Second!StayHere, Second!Strike,
     Second!ToSet, Second!treeVars, OfSecond!Calls, OfSecond!CloseDirectory, OfSecond!Descend,
     OfSecond!historyVars, OfSecond!Leave, OfSecond!MayDescend, OfSecond!NextAborted,
     OfSecond!NextEnd, OfSecond!NextEntry, OfSecond!NextError, OfSecond!ReturnTo,
     OfSecond!Scanning, OfSecond!ScopeExits, OfSecond!StayHere, OfSecond!Strike, OfSecond!ToSet,
     OfSecond!treeVars
<1>6. /\ Second!AdmitShutdown <=> OfSecond!AdmitShutdown
      /\ Second!AdmitSkip <=> OfSecond!AdmitSkip
      /\ Second!AdmitUndefined <=> OfSecond!AdmitUndefined
      /\ Second!AdmitRoot <=> OfSecond!AdmitRoot
      /\ Second!AdmitKnown <=> OfSecond!AdmitKnown
  BY DEF
     Second!Accessible, Second!AdmitKnown, Second!AdmitRoot, Second!AdmitShutdown,
     Second!AdmitSkip, Second!AdmitUndefined, Second!ClearLocals, Second!dbVars, Second!EntryId,
     Second!historyVars, Second!InManip, Second!Leave, Second!Lost, Second!ManipReturns,
     Second!ManipThrows, Second!Matches, Second!NewRow, Second!NextRowids, Second!Present,
     Second!readerVars, Second!readVars, Second!Return, Second!ReturnTo, Second!RootEntered,
     Second!RootUnknown, Second!RowId, Second!Scanning, Second!scanVars, Second!ScopeExits,
     Second!Selected, Second!StoredMtime, Second!Strike, Second!ToSet, Second!Touched,
     Second!treeVars, Second!UpdateEntry, Second!UpToDate, Second!Used, OfSecond!Accessible,
     OfSecond!AdmitKnown, OfSecond!AdmitRoot, OfSecond!AdmitShutdown, OfSecond!AdmitSkip,
     OfSecond!AdmitUndefined, OfSecond!ClearLocals, OfSecond!dbVars, OfSecond!EntryId,
     OfSecond!historyVars, OfSecond!InManip, OfSecond!Leave, OfSecond!Lost,
     OfSecond!ManipReturns, OfSecond!ManipThrows, OfSecond!Matches, OfSecond!NewRow,
     OfSecond!NextRowids, OfSecond!Present, OfSecond!readerVars, OfSecond!readVars,
     OfSecond!Return, OfSecond!ReturnTo, OfSecond!RootEntered, OfSecond!RootUnknown,
     OfSecond!RowId, OfSecond!Scanning, OfSecond!scanVars, OfSecond!ScopeExits,
     OfSecond!Selected, OfSecond!StoredMtime, OfSecond!Strike, OfSecond!ToSet, OfSecond!Touched,
     OfSecond!treeVars, OfSecond!UpdateEntry, OfSecond!UpToDate, OfSecond!Used
<1>7. /\ Second!EnterDirectory <=> OfSecond!EnterDirectory
      /\ Second!EnterFile <=> OfSecond!EnterFile
  BY DEF
     Second!ClearLocals, Second!DirectoryEntered, Second!EnterDirectory, Second!EnterFile,
     Second!EntryId, Second!FileEntered, Second!historyVars, Second!InManip, Second!Lost,
     Second!ManipReturns, Second!Matches, Second!NeedsDigest, Second!NewRow, Second!NextRowids,
     Second!readVars, Second!Return, Second!ReturnTo, Second!RowId, Second!Selected,
     Second!StoredMtime, Second!Strike, Second!Touched, Second!treeVars, Second!UpdateEntry,
     Second!UpToDate, Second!Used, OfSecond!ClearLocals, OfSecond!DirectoryEntered,
     OfSecond!EnterDirectory, OfSecond!EnterFile, OfSecond!EntryId, OfSecond!FileEntered,
     OfSecond!historyVars, OfSecond!InManip, OfSecond!Lost, OfSecond!ManipReturns,
     OfSecond!Matches, OfSecond!NeedsDigest, OfSecond!NewRow, OfSecond!NextRowids,
     OfSecond!readVars, OfSecond!Return, OfSecond!ReturnTo, OfSecond!RowId, OfSecond!Selected,
     OfSecond!StoredMtime, OfSecond!Strike, OfSecond!Touched, OfSecond!treeVars,
     OfSecond!UpdateEntry, OfSecond!UpToDate, OfSecond!Used
<1>8. /\ Second!OpenFile <=> OfSecond!OpenFile
      /\ Second!OpenFileFails <=> OfSecond!OpenFileFails
      /\ Second!ReadBlock <=> OfSecond!ReadBlock
      /\ Second!TrimBlocks <=> OfSecond!TrimBlocks
  BY DEF
     Second!BlockNo, Second!BlockRead, Second!ClearLocals, Second!dbVars, Second!historyVars,
     Second!InManip, Second!Later, Second!ManipReturns, Second!OpenFile, Second!OpenFileFails,
     Second!ReadBlock, Second!readerVars, Second!readVars, Second!Return, Second!ReturnTo,
     Second!scanVars, Second!Strike, Second!treeVars, Second!TrimBlocks,
     Second!UpdateBlockDigest, OfSecond!BlockNo, OfSecond!BlockRead, OfSecond!ClearLocals,
     OfSecond!dbVars, OfSecond!historyVars, OfSecond!InManip, OfSecond!Later,
     OfSecond!ManipReturns, OfSecond!OpenFile, OfSecond!OpenFileFails, OfSecond!ReadBlock,
     OfSecond!readerVars, OfSecond!readVars, OfSecond!Return, OfSecond!ReturnTo,
     OfSecond!scanVars, OfSecond!Strike, OfSecond!treeVars, OfSecond!TrimBlocks,
     OfSecond!UpdateBlockDigest
<1>9. /\ Second!ReadEnd <=> OfSecond!ReadEnd
      /\ Second!ReadFails <=> OfSecond!ReadFails
      /\ Second!RecordDigest <=> OfSecond!RecordDigest
      /\ Second!StatementThrows <=> OfSecond!StatementThrows
  BY DEF
     Second!ClearLocals, Second!dbVars, Second!historyVars, Second!InManip, Second!Leave,
     Second!ManipReturns, Second!ManipThrows, Second!ReadEnd, Second!readerVars,
     Second!ReadFails, Second!readVars, Second!RecordDigest, Second!Return, Second!ReturnTo,
     Second!RowId, Second!Scanning, Second!scanVars, Second!ScopeExits, Second!StatementThrows,
     Second!Strike, Second!ToSet, Second!treeVars, Second!Used, OfSecond!ClearLocals,
     OfSecond!dbVars, OfSecond!historyVars, OfSecond!InManip, OfSecond!Leave,
     OfSecond!ManipReturns, OfSecond!ManipThrows, OfSecond!ReadEnd, OfSecond!readerVars,
     OfSecond!ReadFails, OfSecond!readVars, OfSecond!RecordDigest, OfSecond!Return,
     OfSecond!ReturnTo, OfSecond!RowId, OfSecond!Scanning, OfSecond!scanVars,
     OfSecond!ScopeExits, OfSecond!StatementThrows, OfSecond!Strike, OfSecond!ToSet,
     OfSecond!treeVars, OfSecond!Used
<1> QED
  BY <1>1, <1>2, <1>3, <1>4, <1>5, <1>6, <1>7, <1>8, <1>9 DEF
     Second!Next, Second!Worker, Second!Environment, Second!Walk, Second!ReaderLoop,
     Second!ManipStep, Second!readVars, Second!dbVars, Second!localVars, Second!scanVars,
     OfSecond!Next, OfSecond!Worker, OfSecond!Environment, OfSecond!Walk, OfSecond!ReaderLoop,
     OfSecond!ManipStep, OfSecond!readVars, OfSecond!dbVars, OfSecond!localVars,
     OfSecond!scanVars

LEMMA SecondParts ==
    /\ \A s : Second!InManip(s) <=> OfSecond!InManip(s)
    /\ \A id : Second!RootEntered(id) <=> OfSecond!RootEntered(id)
    /\ \A id : Second!DirectoryEntered(id) <=> OfSecond!DirectoryEntered(id)
    /\ \A id, stored : Second!FileEntered(id, stored) <=> OfSecond!FileEntered(id, stored)
    /\ Second!BlockRead <=> OfSecond!BlockRead
BY DEF
   Second!BlockRead, Second!ClearLocals, Second!DirectoryEntered, Second!FileEntered,
   Second!historyVars, Second!InManip, Second!ManipReturns, Second!NeedsDigest, Second!readVars,
   Second!Return, Second!ReturnTo, Second!RootEntered, Second!scanVars, Second!treeVars,
   OfSecond!BlockRead, OfSecond!ClearLocals, OfSecond!DirectoryEntered, OfSecond!FileEntered,
   OfSecond!historyVars, OfSecond!InManip, OfSecond!ManipReturns, OfSecond!NeedsDigest,
   OfSecond!readVars, OfSecond!Return, OfSecond!ReturnTo, OfSecond!RootEntered,
   OfSecond!scanVars, OfSecond!treeVars

LEMMA SecondRefused ==
    (call[2] = NoCall \/ pc2 = "manip") /\ SecondThrows => OfSecond!Refused /\ UNCHANGED OfSecond!dbVars
BY DEF
   SecondThrows, Throwing, NoCall, tables, OfSecond!dbVars, OfSecond!Refused, Second!InManip,
   Second!CleanupThrows, Second!ClearLocals, Second!historyVars, Second!Leave, Second!localVars,
   Second!ManipThrows, Second!Scanning, Second!scanVars, Second!ScopeExits, Second!ToSet,
   Second!treeVars, OfSecond!CleanupThrows, OfSecond!ClearLocals, OfSecond!historyVars,
   OfSecond!Leave, OfSecond!localVars, OfSecond!ManipThrows, OfSecond!Scanning,
   OfSecond!scanVars, OfSecond!ScopeExits, OfSecond!ToSet, OfSecond!treeVars

LEMMA SecondInit == Second!Init => OfSecond!Init
BY DEF
   Second!BlockNo, Second!Directory, Second!EntriesAt, Second!EntryId, Second!File, Second!Init,
   Second!NoBlocks, Second!NoFind, Second!Nothing, Second!Path, Second!Present,
   Second!ReaderInit, Second!RowId, Second!TreeInit, OfSecond!BlockNo, OfSecond!Directory,
   OfSecond!EntriesAt, OfSecond!EntryId, OfSecond!File, OfSecond!Init, OfSecond!NoBlocks,
   OfSecond!NoFind, OfSecond!Nothing, OfSecond!Path, OfSecond!Present, OfSecond!ReaderInit,
   OfSecond!RowId, OfSecond!TreeInit

-----------------------------------------------------------------------------
(* Types.                                                                  *)

\* The rows of both.
AnyRow == OfFirst!Row \cup OfSecond!Row

\* What the statements of either make of a row, its own or the other's.
LEMMA AnyRows == OfFirst!RowSet(AnyRow) /\ OfSecond!RowSet(AnyRow)
<1>1. Null \notin AnyRow
  BY FirstAssumed, SecondAssumed DEF AnyRow, OfFirst!NullAssumption, OfSecond!NullAssumption
<1>2. ASSUME NEW r \in AnyRow
      PROVE  {"alive", "parent", "name", "node"} \subseteq DOMAIN r /\ r.alive \in {0, 1}
  BY DEF AnyRow, OfFirst!Row, OfSecond!Row
<1>3. ASSUME NEW r \in AnyRow, NEW a \in {0, 1}, NEW d \in BOOLEAN, NEW s \in Nat,
             NEW t \in Seq(Block) \cup {Null}, NEW m \in Nat
      PROVE  /\ [r EXCEPT !.alive = a] \in AnyRow
             /\ [r EXCEPT !.alive = a, !.dir = d, !.size = s, !.digest = t] \in AnyRow
             /\ [r EXCEPT !.alive = a, !.mtime = m, !.digest = t] \in AnyRow
  <2>1. CASE r \in OfFirst!Row
    BY <2>1, Zenon DEF AnyRow, OfFirst!Row
  <2>2. CASE r \in OfSecond!Row
    BY <2>2, Zenon DEF AnyRow, OfSecond!Row
  <2> QED
    BY <2>1, <2>2 DEF AnyRow
<1>4. OfFirst!Row \subseteq AnyRow /\ OfSecond!Row \subseteq AnyRow
  BY DEF AnyRow
<1> QED
  BY <1>1, <1>2, <1>3, <1>4, Zenon DEF OfFirst!RowSet, OfSecond!RowSet

RowIds == 1 .. MaxRowid
Ids == 0 .. MaxRowid

Tables == [RowIds -> AnyRow \cup {Null}]
BlockTables == [Ids -> [1 .. MaxBlocks -> Block \cup {Null}]]

\* Both have the same table in hand.
LEMMA SameTables ==
    /\ First!RowId = RowIds /\ First!EntryId = Ids /\ Second!RowId = RowIds /\ Second!EntryId = Ids
    /\ OfFirst!RowId = RowIds /\ OfFirst!EntryId = Ids
    /\ OfSecond!RowId = RowIds /\ OfSecond!EntryId = Ids
    /\ OfFirst!RowsIn(AnyRow) = Tables /\ OfSecond!RowsIn(AnyRow) = Tables
    /\ [OfFirst!EntryId -> [OfFirst!BlockNo -> Block \cup {Null}]] = BlockTables
    /\ [OfSecond!EntryId -> [OfSecond!BlockNo -> Block \cup {Null}]] = BlockTables
    /\ 0 \in Ids /\ RowIds \subseteq Ids
BY FirstAssumed DEF First!RowId, First!EntryId, Second!RowId, Second!EntryId, RowIds, Ids, Tables,
   BlockTables,
   OfFirst!RowsIn, OfFirst!RowId, OfFirst!EntryId, OfFirst!BlockNo, OfFirst!IndexerAssumption,
   OfSecond!RowsIn, OfSecond!RowId, OfSecond!EntryId, OfSecond!BlockNo

Statements == {"write", "update", "again", "return"}
HeldAt == {"open", "read", "trim", "record"}

CallType == call \in [{1, 2} -> [at : Statements \cup {"none"}, id : Ids, mtime : Nat]]
SnapshotType == snapshot \in [{1, 2} -> {"none", "last", "stale"}]

SharedTypes == entries \in Tables /\ blocks \in BlockTables /\ CallType /\ SnapshotType

\* What a step may do to the tracker o when it is the other's.
Spared(o) ==
    /\ call'[o] = call[o]
    /\ \/ snapshot'[o] = IF snapshot[o] = "none" THEN "none" ELSE "stale"
       \/ snapshot'[o] = snapshot[o] /\ entries' = entries

\* The row i, if any, is the one that a looks for.
Kept(t, i, a) ==
    i # 0 => /\ snapshot[t] # "none"
             /\ snapshot[t] = "last" => IsFor(i, a.row.parent, a.row.name)

-----------------------------------------------------------------------------
(* The statements of update_entry.                                         *)

LEMMA NoCallType == NoCall \in [at : Statements \cup {"none"}, id : Ids, mtime : Nat]
BY SameTables DEF NoCall

LEMMA Snapshots ==
    ASSUME NEW t \in {1, 2}, NEW own \in {"none", "last", "stale"}, SnapshotType
    PROVE  /\ Committed(t, own) \in [{1, 2} -> {"none", "last", "stale"}]
           /\ Committed(t, own)[t] = own
           /\ Committed(t, own)[Other(t)] = IF snapshot[Other(t)] = "none" THEN "none" ELSE "stale"
BY DEF SnapshotType, Committed, Other

LEMMA CallGoes ==
    ASSUME NEW t \in {1, 2}, NEW to \in Statements, CallType, Goes(t, to)
    PROVE  /\ CallType' /\ call'[Other(t)] = call[Other(t)]
           /\ call'[t].at = to /\ call'[t].id = call[t].id
BY DEF CallType, Goes, Other, Statements

LEMMA FoundType ==
    ASSUME NEW a, entries \in Tables
    PROVE  /\ Found(a) \in Ids /\ First!StoredMtime(Found(a)) \in Nat
           /\ Found(a) # 0 => IsFor(Found(a), a.row.parent, a.row.name)
<1>1. \A i \in First!Used : entries[i].mtime \in Nat
  <2>1. \A r \in AnyRow : r.mtime \in Nat
    BY DEF AnyRow, OfFirst!Row, OfSecond!Row
  <2> QED
    BY <2>1, SameTables DEF Tables, First!Used
<1>2. CASE First!Matches(a.row.parent, a.row.name) = {}
  BY <1>2, SameTables DEF Found, First!Selected, First!StoredMtime
<1>3. CASE First!Matches(a.row.parent, a.row.name) # {}
  <2>1. Found(a) \in First!Matches(a.row.parent, a.row.name)
    BY <1>3 DEF Found, First!Selected
  <2>2. Found(a) \in First!Used /\ Found(a) \in RowIds
    BY <2>1, SameTables DEF First!Matches, First!Used
  <2> QED
    BY <1>1, <2>1, <2>2, SameTables DEF First!StoredMtime, First!Matches, IsFor
<1> QED
  BY <1>2, <1>3

\* No row written under its key becomes another's or none.
LEMMA RowStays ==
    ASSUME NEW r \in AnyRow, NEW b \in AnyRow
    PROVE  \A q \in {[r EXCEPT !.alive = 0],
                     [r EXCEPT !.alive = 0, !.dir = b.dir, !.size = b.size, !.digest = Null]} :
              q \in AnyRow /\ q # Null /\ q.parent = r.parent /\ q.name = r.name
<1>1. Null \notin AnyRow /\ {"parent", "name"} \subseteq DOMAIN r
  BY AnyRows, Zenon DEF OfFirst!RowSet
<1>2. /\ [r EXCEPT !.alive = 0] \in AnyRow
      /\ [r EXCEPT !.alive = 0, !.dir = b.dir, !.size = b.size, !.digest = Null] \in AnyRow
  <2>1. b.dir \in BOOLEAN /\ b.size \in Nat
    BY DEF AnyRow, OfFirst!Row, OfSecond!Row
  <2> QED
    BY <2>1, AnyRows, Zenon DEF OfFirst!RowSet
<1> QED
  BY <1>1, <1>2, Zenon

LEMMA TouchedRows ==
    ASSUME NEW t, NEW a, a.row \in AnyRow, entries \in Tables, Touch(t, a) \/ Update(t, a)
    PROVE  /\ entries' \in Tables
           /\ \A i : IsFor(i, a.row.parent, a.row.name) => IsFor(i, a.row.parent, a.row.name)'
<1>1. \A i \in RowIds : \/ entries'[i] = entries[i]
                       \/ /\ entries[i] # Null
                          /\ \/ entries'[i] = [entries[i] EXCEPT !.alive = 0]
                             \/ entries'[i] = [entries[i] EXCEPT !.alive = 0, !.dir = a.row.dir,
                                                  !.size = a.row.size, !.digest = Null]
  BY SameTables, Zenon DEF Touch, Update, WithKey, First!Matches, First!Used
<1>2. DOMAIN entries' = RowIds /\ entries' = [i \in RowIds |-> entries'[i]]
  BY SameTables, Zenon DEF Touch, Update
<1>3. \A i \in RowIds : /\ entries'[i] \in AnyRow \cup {Null}
                        /\ entries[i] # Null => /\ entries'[i] # Null
                                                /\ entries'[i].parent = entries[i].parent
                                                /\ entries'[i].name = entries[i].name
  <2>1. TAKE i \in RowIds
  <2>2. entries[i] \in AnyRow \cup {Null}
    BY DEF Tables
  <2>3. CASE entries'[i] = entries[i]
    BY <2>2, <2>3
  <2>4. CASE entries[i] # Null /\ entries'[i] # entries[i]
    <3> DEFINE changed == {[entries[i] EXCEPT !.alive = 0],
                           [entries[i] EXCEPT !.alive = 0, !.dir = a.row.dir,
                               !.size = a.row.size, !.digest = Null]}
    <3>1. entries'[i] \in changed
      BY <1>1, <2>4, Zenon
    <3>2. \A q \in changed : /\ q \in AnyRow /\ q # Null
                            /\ q.parent = entries[i].parent /\ q.name = entries[i].name
      BY <2>2, <2>4, RowStays, Zenon
    <3> HIDE DEF changed
    <3> QED
      BY <3>1, <3>2
  <2> QED
    BY <1>1, <2>3, <2>4, Zenon
<1> QED
  BY <1>2, <1>3, SameTables DEF Tables, IsFor, First!Used

\* The types after a statement, and what the other tracker keeps.
LEMMA StatementSpares ==
    ASSUME NEW t \in {1, 2}, NEW a, a.row \in AnyRow, SharedTypes, UpdateEntry(t, a)
    PROVE  SharedTypes' /\ Spared(Other(t))
<1>0. Other(t) \in {1, 2} /\ Other(t) # t /\ snapshot[t] \in {"none", "last", "stale"}
  BY DEF Other, SharedTypes, SnapshotType
<1>1. CASE Select(t, a) \/ SelectAgain(t, a)
  <2>1. KeptBySelect(Found(a)) \in {"none", "last", "stale"}
    BY DEF KeptBySelect
  <2>2. CallType' /\ call'[Other(t)] = call[Other(t)]
    BY <1>0, <1>1, FoundType DEF Select, SelectAgain, SharedTypes, CallType, Statements
  <2> QED
    BY <1>0, <1>1, <2>1, <2>2 DEF Select, SelectAgain, SharedTypes, SnapshotType, Spared, tables
<1>2. CASE Touch(t, a)
  <2>1. CallType' /\ call'[Other(t)] = call[Other(t)]
    BY <1>2, CallGoes DEF Touch, SharedTypes, Statements
  <2>2. SnapshotType' /\ snapshot'[Other(t)] = IF snapshot[Other(t)] = "none" THEN "none" ELSE "stale"
    BY <1>0, <1>2, Snapshots DEF Touch, SharedTypes, SnapshotType
  <2> QED
    BY <1>2, <2>1, <2>2, TouchedRows DEF Touch, SharedTypes, Spared
<1>3. CASE Insert(t, a)
  <2>1. CallType' /\ call'[Other(t)] = call[Other(t)]
    BY <1>3, CallGoes DEF Insert, AfterInsert, SharedTypes, Statements
  <2>2. SnapshotType' /\ snapshot'[Other(t)] = IF snapshot[Other(t)] = "none" THEN "none" ELSE "stale"
    BY <1>0, <1>3, Snapshots DEF Insert, SharedTypes, SnapshotType
  <2>3. entries' \in Tables
    BY <1>3, Zenon DEF Insert, SharedTypes, Tables
  <2> QED
    BY <1>3, <2>1, <2>2, <2>3 DEF Insert, SharedTypes, Spared
<1>4. CASE InsertMeetsKey(t, a) \/ InsertRefused(t, a)
  <2>1. CallType' /\ call'[Other(t)] = call[Other(t)]
    BY <1>4, CallGoes DEF InsertMeetsKey, InsertRefused, AfterInsert, SharedTypes, Statements
  <2> QED
    BY <1>4, <2>1 DEF InsertMeetsKey, InsertRefused, SharedTypes, SnapshotType, Spared, tables
<1>5. CASE Update(t, a)
  <2>1. CallType' /\ call'[Other(t)] = call[Other(t)]
    BY <1>5, CallGoes, Zenon DEF Update, AfterInsert, SharedTypes, Statements
  <2>2. WithKey(a) = {} => entries' = entries
    BY <1>5, SameTables DEF Update, SharedTypes, Tables
  <2>3. /\ SnapshotType'
        /\ WithKey(a) = {} => snapshot' = snapshot
        /\ WithKey(a) # {} =>
              snapshot'[Other(t)] = IF snapshot[Other(t)] = "none" THEN "none" ELSE "stale"
    BY <1>0, <1>5, Snapshots, Zenon DEF Update, SharedTypes, SnapshotType
  <2> QED
    BY <1>5, <2>1, <2>2, <2>3, TouchedRows, Zenon DEF Update, SharedTypes, Spared
<1> QED
  BY <1>1, <1>2, <1>3, <1>4, <1>5 DEF UpdateEntry

\* The row st_sel found stays the one looked for.
LEMMA StatementKeeps ==
    ASSUME NEW t \in {1, 2}, NEW a, a.row \in AnyRow, SharedTypes, UpdateEntry(t, a),
           call[t].at # "none" => Kept(t, call[t].id, a)
    PROVE  call'[t].at \in Statements /\ Kept(t, call[t].id, a)'
<1>0. snapshot[t] \in {"none", "last", "stale"}
  BY DEF SharedTypes, SnapshotType
<1>1. CASE Select(t, a) \/ SelectAgain(t, a)
  <2>1. call'[t].at \in Statements /\ call'[t].id = Found(a)
    BY <1>1 DEF Select, SelectAgain, SharedTypes, CallType, Statements
  <2>2. snapshot'[t] = KeptBySelect(Found(a)) /\ entries' = entries
    BY <1>1 DEF Select, SelectAgain, SharedTypes, SnapshotType, tables
  <2> QED
    BY <2>1, <2>2, FoundType DEF Kept, KeptBySelect, IsFor, First!Used, SharedTypes
<1>2. CASE Touch(t, a)
  <2>1. call'[t].at \in Statements /\ call'[t].id = call[t].id
    BY <1>2, CallGoes DEF Touch, SharedTypes, Statements
  <2>2. snapshot'[t] = snapshot[t] /\ call[t].at # "none"
    BY <1>0, <1>2, Snapshots DEF Touch, SharedTypes
  <2> QED
    BY <1>2, <2>1, <2>2, TouchedRows DEF Kept, SharedTypes
<1>3. CASE Insert(t, a)
  <2>1. call[t].id = 0
    BY <1>0, <1>3 DEF Insert, Kept, MayWrite, WithKey, First!Matches, IsFor
  <2>2. call'[t].at \in Statements /\ call'[t].id = call[t].id
    BY <1>3, CallGoes DEF Insert, AfterInsert, SharedTypes, Statements
  <2> QED
    BY <2>1, <2>2 DEF Kept
<1>4. CASE InsertMeetsKey(t, a) \/ InsertRefused(t, a)
  <2>1. call'[t].at \in Statements /\ call'[t].id = call[t].id
    BY <1>4, CallGoes DEF InsertMeetsKey, InsertRefused, AfterInsert, SharedTypes, Statements
  <2> QED
    BY <1>4, <2>1 DEF InsertMeetsKey, InsertRefused, Kept, IsFor, First!Used, tables
<1>5. CASE Update(t, a)
  <2>1. call'[t].at \in Statements /\ call'[t].id = call[t].id
    BY <1>5, CallGoes, Zenon DEF Update, AfterInsert, SharedTypes, Statements
  <2>2. snapshot'[t] = snapshot[t] /\ call[t].at # "none"
    BY <1>0, <1>5, Snapshots, Zenon DEF Update, SharedTypes
  <2> QED
    BY <1>5, <2>1, <2>2, TouchedRows DEF Kept, SharedTypes
<1> QED
  BY <1>1, <1>2, <1>3, <1>4, <1>5 DEF UpdateEntry

-----------------------------------------------------------------------------
(* The first tracker.                                                      *)

FirstHolds ==
    IF call[1].at # "none" THEN {call[1].id} \ {0}
    ELSE IF pc = "manip" /\ stage \in HeldAt THEN {entryId} \ {0} ELSE {}

FirstInv ==
    /\ stage \in HeldAt \cup {"entry"} => pc = "manip"
    /\ \/ call[1] = NoCall
       \/ call[1].at \in Statements /\ pc = "manip" /\ stage \in {"admit", "entry"}
    /\ \A i \in FirstHolds : Kept(1, i, FirstArgs)

LEMMA FirstArgsKey ==
    /\ FirstArgs.row.parent = IF stage = "admit" THEN 0 ELSE parents[path]
    /\ FirstArgs.row.name = NameOf[IF stage = "admit" THEN path ELSE ent.node]
BY DEF FirstArgs, First!NewRow

LEMMA FirstArgsSame ==
    ASSUME UNCHANGED <<path, ent, parents>>, (stage' = "admit") = (stage = "admit")
    PROVE  UNCHANGED <<FirstArgs.row.parent, FirstArgs.row.name>>
<1>1. /\ FirstArgs'.row.parent = IF stage' = "admit" THEN 0 ELSE parents'[path']
      /\ FirstArgs'.row.name = NameOf[IF stage' = "admit" THEN path' ELSE ent'.node]
  BY DEF FirstArgs, First!NewRow
<1> QED
  BY <1>1, FirstArgsKey

\* A step of the other's.
LEMMA FirstSpared ==
    ASSUME FirstInv, SnapshotType, UNCHANGED first, Spared(1)
    PROVE  FirstInv'
<1>1. FirstHolds' = FirstHolds
  BY DEF first, FirstHolds, Spared
<1>2. UNCHANGED <<FirstArgs.row.parent, FirstArgs.row.name>>
  BY FirstArgsSame DEF first
<1>3. \A i \in FirstHolds : Kept(1, i, FirstArgs)'
  <2>1. CASE snapshot'[1] = IF snapshot[1] = "none" THEN "none" ELSE "stale"
    BY <2>1 DEF FirstInv, Kept
  <2>2. CASE snapshot'[1] = snapshot[1] /\ entries' = entries
    BY <1>2, <2>2 DEF FirstInv, Kept, IsFor, First!Used
  <2> QED
    BY <2>1, <2>2 DEF Spared
<1> QED
  BY <1>1, <1>3 DEF FirstInv, Spared, first

\* The steps of the indexer's that may come during a call.
LEMMA FirstPauses ==
    ASSUME First!Environment \/ First!StatementThrows
    PROVE  /\ pc = "manip" =>
                 \/ (pc' # "manip" \/ stage = "stopped") /\ stage' \notin HeldAt \cup {"entry"}
                 \/ UNCHANGED <<pc, stage, path, ent, parents, entries, entryId>>
           /\ UNCHANGED entries
           /\ stage' \in HeldAt \cup {"entry"} => stage' = stage /\ pc' = pc
<1>1. CASE First!Restart
  BY <1>1 DEF First!Restart, First!readerVars, First!readVars, First!dbVars, HeldAt
<1>2. CASE First!RequestShutdown
  BY <1>2 DEF First!RequestShutdown, First!readVars, First!dbVars, First!localVars
<1>3. CASE First!Crash
  BY <1>3 DEF First!Crash, First!dbVars, HeldAt
<1>4. CASE /\ First!TreeStep(First!Held)
           /\ UNCHANGED <<First!readVars, faults, First!dbVars, First!localVars, First!scanVars>>
  BY <1>4 DEF First!readVars, First!dbVars, First!localVars, First!scanVars
<1>5. CASE First!StatementThrows
  BY <1>5 DEF First!StatementThrows, First!ManipThrows, First!Leave, First!ClearLocals,
              First!dbVars, HeldAt
<1> QED
  BY <1>1, <1>2, <1>3, <1>4, <1>5 DEF First!Environment

\* Of the others only EnterFile, which FirstReturn stands for, takes a row in
\* hand.
LEMMA FirstMoves ==
    ASSUME First!Next, ~First!InManip("entry"), stage \in HeldAt \cup {"entry"} => pc = "manip"
    PROVE  /\ stage' \in HeldAt \cup {"entry"} => pc' = "manip"
           /\ stage' \in HeldAt =>
                 stage \in HeldAt /\ UNCHANGED <<entries, entryId, path, ent, parents>>
<1>1. CASE First!Environment \/ First!StatementThrows
  BY <1>1, FirstPauses
<1>2. CASE First!Wake \/ First!Stop \/ First!BeginScan
  BY <1>2 DEF First!Wake, First!Stop, First!BeginScan, First!ClearLocals, HeldAt
<1>3. CASE First!Walk
  <2>1. stage' = stage /\ pc # "manip"
    BY <1>3 DEF First!Walk, First!localVars, First!ReaderLoop, First!LoopAbort,
       First!OpenDirectory, First!OpenGone, First!OpenFails, First!LoopDone, First!LoopPop,
       First!NextEntry, First!NextEnd, First!NextAborted, First!NextError, First!Descend,
       First!StayHere
  <2> QED
    BY <2>1
<1>4. CASE \/ First!AdmitShutdown \/ First!AdmitSkip \/ First!AdmitUndefined \/ First!AdmitRoot
           \/ First!AdmitKnown \/ First!EnterDirectory \/ First!EnterFile
  BY <1>4, Zenon DEF First!AdmitShutdown, First!AdmitSkip, First!AdmitUndefined, First!AdmitRoot,
     First!RootUnknown, First!RootEntered, First!AdmitKnown, First!EnterDirectory,
     First!EnterFile, First!InManip, First!Return, First!ManipReturns, First!ClearLocals,
     First!ManipThrows, First!Leave, First!readerVars, First!readVars, HeldAt
<1>5. CASE First!OpenFile \/ First!ReadBlock \/ First!TrimBlocks \/ First!ReadEnd
  BY <1>5 DEF First!OpenFile, First!ReadBlock, First!BlockRead, First!TrimBlocks, First!ReadEnd,
     First!InManip, First!readerVars, First!readVars, First!dbVars, First!scanVars, HeldAt
<1>6. CASE First!OpenFileFails \/ First!ReadFails \/ First!RecordDigest
  BY <1>6, Zenon DEF First!OpenFileFails, First!ReadFails, First!RecordDigest, First!Return,
     First!ClearLocals, HeldAt
<1>7. CASE First!Cleanup \/ First!CleanupFails \/ First!CleanupPartial
  BY <1>7 DEF First!Cleanup, First!CleanupFails, First!CleanupPartial, First!CleanupThrows,
     First!localVars, HeldAt
<1> QED
  BY <1>1, <1>2, <1>3, <1>4, <1>5, <1>6, <1>7 DEF First!Next, First!Worker, First!ManipStep

\* The types of the first with whatever table.
LEMMA FirstKept ==
    ASSUME OfFirst!TypeIn(AnyRow), UNCHANGED first, entries' \in Tables, blocks' \in BlockTables
    PROVE  OfFirst!TypeIn(AnyRow)'
<1>1. UNCHANGED <<OfFirst!readerVars, OfFirst!localVars, OfFirst!scanVars>>
  BY DEF first, OfFirst!readerVars, OfFirst!treeVars, OfFirst!readVars, OfFirst!historyVars,
         OfFirst!localVars, OfFirst!scanVars
<1> QED
  BY <1>1, FirstAssumed, SameTables, OfFirst!TypeKept

LEMMA FirstTables ==
    /\ OfFirst!TypeIn(AnyRow) => entries \in Tables /\ blocks \in BlockTables
    /\ OfFirst!TypeIn(AnyRow)' => entries' \in Tables /\ blocks' \in BlockTables
BY SameTables DEF OfFirst!TypeIn, OfFirst!TypeOKIn

LEMMA FirstRow ==
    ASSUME OfFirst!TypeIn(AnyRow), pc = "manip", stage \in {"admit", "entry"}
    PROVE  FirstArgs.row \in AnyRow
<1>1. /\ path \in OfFirst!Path /\ ent.node \in OfFirst!Path /\ ent.size \in Nat
      /\ stage = "entry" => parents[path] \in Ids
  BY SameTables, FirstAssumed, OfFirst!EntIn
     DEF OfFirst!TypeIn, OfFirst!TypeOKIn, OfFirst!ReaderTypeOK, OfFirst!Control
<1>2. \A p \in Ids, n \in OfFirst!Path, dir \in BOOLEAN, size \in Nat :
           First!NewRow(p, n, dir, size) \in OfFirst!Row
  BY SameTables DEF First!NewRow, OfFirst!Row, OfFirst!Name, OfFirst!Path
<1> QED
  BY <1>1, <1>2, SameTables, Zenon DEF FirstArgs, AnyRow

LEMMA FirstEntryInv ==
    ASSUME SharedTypes, OfFirst!TypeIn(AnyRow), FirstInv, FirstEntry
    PROVE  SharedTypes' /\ OfFirst!TypeIn(AnyRow)' /\ FirstInv' /\ Spared(2)
<1>1. PICK a : a = FirstArgs
  OBVIOUS
<1>2. UpdateEntry(1, a) /\ UNCHANGED first /\ pc = "manip" /\ stage \in {"admit", "entry"}
  BY <1>1 DEF FirstEntry, FirstInv, FirstCalls, First!RootUnknown, First!InManip
<1>9. a.row \in AnyRow
  BY <1>1, <1>2, FirstRow
<1>3. SharedTypes' /\ Spared(2)
  BY <1>2, <1>9, StatementSpares DEF Other
<1>4. call[1].at # "none" => Kept(1, call[1].id, a)
  BY <1>1 DEF FirstInv, FirstHolds, Kept
<1>5. call'[1].at \in Statements /\ Kept(1, call[1].id, a)'
  BY <1>2, <1>4, <1>9, StatementKeeps
<1>6. a.row.parent = FirstArgs'.row.parent /\ a.row.name = FirstArgs'.row.name
  BY <1>1, <1>2, FirstArgsSame DEF first
<1>7. \A i \in FirstHolds' : Kept(1, i, FirstArgs)'
  <2>1. FirstHolds' = {call'[1].id} \ {0}
    BY <1>5 DEF FirstHolds, Statements
  <2> QED
    BY <1>5, <1>6, <2>1 DEF Kept, IsFor
<1> QED
  BY <1>2, <1>3, <1>5, <1>7, FirstKept DEF FirstInv, first, SharedTypes

LEMMA FirstReturnInv ==
    ASSUME SharedTypes, OfFirst!TypeIn(AnyRow), FirstInv, FirstReturn
    PROVE  SharedTypes' /\ OfFirst!TypeIn(AnyRow)' /\ FirstInv' /\ Spared(2)
<1>1. /\ call'[1] = NoCall /\ call'[2] = call[2] /\ CallType'
      /\ entries' = entries /\ snapshot' = snapshot
  BY NoCallType DEF FirstReturn, SharedTypes, CallType
<1>0. OfFirst!TypeIn(AnyRow)'
  <2>1. /\ call[1].id \in OfFirst!EntryId /\ faults' \in Nat /\ tidy' \subseteq {"names", "digests"}
        /\ entries' \in OfFirst!RowsIn(AnyRow)
    BY SameTables DEF FirstReturn, SharedTypes, CallType, OfFirst!TypeIn, OfFirst!TypeOKIn,
       OfFirst!ReaderTypeOK
  <2>2. \/ OfFirst!InManip("admit") /\ OfFirst!RootEntered(call[1].id)
        \/ /\ OfFirst!InManip("entry")
           /\ \/ OfFirst!DirectoryEntered(call[1].id)
              \/ OfFirst!FileEntered(call[1].id, call[1].mtime)
    BY FirstParts DEF FirstReturn
  <2> QED
    BY <2>1, <2>2, AnyRows, FirstAssumed, OfFirst!EnteredType, Zenon
<1>2. SharedTypes' /\ Spared(2)
  BY <1>0, <1>1, FirstTables DEF SharedTypes, SnapshotType, Spared
<1>3. CASE \/ stage' = "admit"
           \/ stage' = "entry" /\ pc' = "manip"
  BY <1>0, <1>1, <1>2, <1>3 DEF FirstInv, FirstHolds, NoCall, HeldAt
<1>4. CASE /\ stage' = "open" /\ entryId' = call[1].id /\ stage = "entry"
           /\ UNCHANGED <<pc, path, ent, parents>>
  <2>1. FirstHolds' \subseteq FirstHolds /\ pc' = "manip"
    BY <1>1, <1>4 DEF FirstHolds, FirstReturn, FirstInv, NoCall, HeldAt
  <2>2. UNCHANGED <<FirstArgs.row.parent, FirstArgs.row.name>>
    BY <1>4, FirstArgsSame
  <2> QED
    BY <1>0, <1>1, <1>2, <1>4, <2>1, <2>2 DEF FirstInv, Kept, IsFor, First!Used, HeldAt
<1> QED
  BY <1>0, <1>2, <1>3, <1>4 DEF FirstReturn, First!InManip, First!RootEntered,
     First!DirectoryEntered, First!FileEntered, First!Return, First!ClearLocals, First!readVars

LEMMA FirstStepInv ==
    ASSUME SharedTypes, OfFirst!TypeIn(AnyRow), FirstInv, FirstStep
    PROVE  SharedTypes' /\ OfFirst!TypeIn(AnyRow)' /\ FirstInv' /\ Spared(2)
<1>0. First!Next
  BY DEF FirstStep, First!Next, First!Worker, First!ManipStep
<1>1. OfFirst!TypeIn(AnyRow)'
  BY <1>0, FirstSame, AnyRows, FirstAssumed, OfFirst!TypeStep
<1>2. /\ CallType' /\ call'[2] = call[2]
      /\ call'[1] = IF pc' = "manip" THEN call[1] ELSE NoCall
  BY NoCallType DEF FirstStep, SharedTypes, CallType
<1>3. PICK own \in {"none", "last", "stale"} :
           /\ own = IF pc' \in {"idle", "threw"} THEN "none" ELSE snapshot[1]
           /\ snapshot' = IF FirstCommits THEN Committed(1, own) ELSE [snapshot EXCEPT ![1] = own]
  BY Zenon DEF FirstStep, SharedTypes, SnapshotType
<1>4. SnapshotType' /\ snapshot'[1] = own
  BY <1>3, Snapshots DEF SharedTypes, SnapshotType
<1>5. Spared(2)
  <2>1. CASE FirstCommits
    BY <1>2, <1>3, <2>1, Snapshots DEF SharedTypes, Spared, Other
  <2>2. CASE ~FirstCommits
    BY <1>2, <1>3, <2>2 DEF FirstCommits, SharedTypes, SnapshotType, Spared, tables
  <2> QED
    BY <2>1, <2>2
<1>6. ASSUME First!Environment \/ First!StatementThrows PROVE FirstInv'
  <2>1. CASE pc = "manip" /\ UNCHANGED <<pc, stage, path, ent, parents, entries, entryId>>
    <3>1. FirstHolds' = FirstHolds /\ snapshot'[1] = snapshot[1] /\ call'[1] = call[1]
      BY <1>2, <1>3, <1>4, <2>1 DEF FirstHolds
    <3>2. UNCHANGED <<FirstArgs.row.parent, FirstArgs.row.name>>
      BY <2>1, FirstArgsSame
    <3>3. \A i \in FirstHolds : Kept(1, i, FirstArgs)'
      BY <2>1, <3>1, <3>2 DEF FirstInv, Kept, IsFor, First!Used
    <3> QED
      BY <2>1, <3>1, <3>3 DEF FirstInv
  <2>2. CASE (pc' # "manip" \/ stage = "stopped") /\ stage' \notin HeldAt \cup {"entry"}
    <3>1. call'[1] = NoCall
      BY <1>2, <2>2 DEF FirstInv
    <3> QED
      BY <2>2, <3>1 DEF FirstInv, FirstHolds, NoCall
  <2>3. CASE pc # "manip"
    <3>1. stage' \notin HeldAt \cup {"entry"} /\ call[1] = NoCall
      BY <1>6, <2>3, FirstPauses DEF FirstInv
    <3> QED
      BY <1>2, <3>1 DEF FirstInv, FirstHolds, NoCall
  <2> QED
    BY <1>6, <2>1, <2>2, <2>3, FirstPauses
<1>7. ASSUME call[1] = NoCall, ~FirstCalls PROVE FirstInv'
  <2>1. /\ stage' \in HeldAt \cup {"entry"} => pc' = "manip"
        /\ stage' \in HeldAt =>
              stage \in HeldAt /\ UNCHANGED <<entries, entryId, path, ent, parents>>
    BY <1>0, <1>7, FirstMoves DEF FirstInv, FirstCalls
  <2>2. call'[1] = NoCall
    BY <1>2, <1>7
  <2>3. CASE stage' \in HeldAt
    <3>1. FirstHolds' = FirstHolds /\ snapshot'[1] = snapshot[1]
      BY <1>3, <1>4, <1>7, <2>1, <2>2, <2>3 DEF FirstHolds, FirstInv
    <3>2. UNCHANGED <<FirstArgs.row.parent, FirstArgs.row.name>>
      BY <2>1, <2>3, FirstArgsSame DEF HeldAt
    <3> QED
      BY <2>1, <2>2, <2>3, <3>1, <3>2 DEF FirstInv, Kept, IsFor, First!Used
  <2>4. CASE stage' \notin HeldAt
    BY <2>1, <2>2, <2>4 DEF FirstInv, FirstHolds, NoCall
  <2> QED
    BY <2>3, <2>4
<1> QED
  BY <1>1, <1>2, <1>4, <1>5, <1>6, <1>7, FirstTables DEF FirstStep, SharedTypes

LEMMA FirstRefusedInv ==
    ASSUME SharedTypes, OfFirst!TypeIn(AnyRow), FirstInv, FirstLosesBlock \/ FirstThrows
    PROVE  SharedTypes' /\ OfFirst!TypeIn(AnyRow)' /\ FirstInv' /\ Spared(2)
<1>1. CASE FirstLosesBlock
  <2>1. /\ pc = "manip" /\ stage = "read" /\ stage' = "trim"
        /\ UNCHANGED <<pc, entries, entryId, path, ent, parents, call, snapshot>>
    BY <1>1 DEF FirstLosesBlock, First!BlockRead, First!InManip, First!readVars, First!scanVars
  <2>0. OfFirst!TypeIn(AnyRow)'
    <3>1. /\ OfFirst!BlockRead /\ faults' \in Nat
          /\ blocks' \in [OfFirst!EntryId -> [OfFirst!BlockNo -> Block \cup {Null}]]
      BY <1>1, FirstParts, SameTables
         DEF FirstLosesBlock, SharedTypes, OfFirst!TypeIn, OfFirst!TypeOKIn, OfFirst!ReaderTypeOK
    <3> QED
      BY <3>1, AnyRows, FirstAssumed, OfFirst!BlockReadType
  <2>2. SharedTypes' /\ Spared(2)
    BY <2>0, <2>1, FirstTables DEF SharedTypes, CallType, SnapshotType, Spared
  <2>3. FirstHolds' = FirstHolds
    BY <2>1 DEF FirstHolds, HeldAt
  <2>4. UNCHANGED <<FirstArgs.row.parent, FirstArgs.row.name>>
    BY <2>1, FirstArgsSame
  <2> QED
    BY <2>0, <2>1, <2>2, <2>3, <2>4 DEF FirstInv, Kept, IsFor, First!Used, HeldAt
<1>2. CASE FirstThrows
  <2>0. OfFirst!TypeIn(AnyRow)'
    BY <1>2, FirstRefused, AnyRows, FirstAssumed, OfFirst!RefusedType DEF FirstInv
  <2>1. pc' = "threw" /\ stage' \notin HeldAt \cup {"entry"}
    BY <1>2 DEF FirstThrows, First!ManipThrows, First!Leave, First!ClearLocals,
                First!CleanupThrows, First!localVars, FirstInv, HeldAt
  <2>2. call'[1] = NoCall /\ call'[2] = call[2] /\ CallType' /\ SnapshotType' /\ Spared(2)
    BY <1>2, NoCallType DEF FirstThrows, SharedTypes, CallType, SnapshotType, Spared, tables
  <2> QED
    BY <2>0, <2>1, <2>2, FirstTables DEF SharedTypes, FirstInv, FirstHolds, NoCall
<1> QED
  BY <1>1, <1>2

LEMMA FirstNextInv ==
    ASSUME SharedTypes, OfFirst!TypeIn(AnyRow), FirstInv, FirstNext
    PROVE  SharedTypes' /\ OfFirst!TypeIn(AnyRow)' /\ FirstInv' /\ Spared(2) /\ UNCHANGED second
<1>1. UNCHANGED second
  BY DEF FirstNext, FirstEntry, FirstReturn, FirstStep, FirstLosesBlock, FirstThrows
<1> QED
  BY <1>1, FirstEntryInv, FirstReturnInv, FirstStepInv, FirstRefusedInv DEF FirstNext

-----------------------------------------------------------------------------
(* The second tracker.                                                     *)

SecondHolds ==
    IF call[2].at # "none" THEN {call[2].id} \ {0}
    ELSE IF pc2 = "manip" /\ stage2 \in HeldAt THEN {entryId2} \ {0} ELSE {}

SecondInv ==
    /\ stage2 \in HeldAt \cup {"entry"} => pc2 = "manip"
    /\ \/ call[2] = NoCall
       \/ call[2].at \in Statements /\ pc2 = "manip" /\ stage2 \in {"admit", "entry"}
    /\ \A i \in SecondHolds : Kept(2, i, SecondArgs)

LEMMA SecondArgsKey ==
    /\ SecondArgs.row.parent = IF stage2 = "admit" THEN 0 ELSE parents2[path2]
    /\ SecondArgs.row.name = NameOf2[IF stage2 = "admit" THEN path2 ELSE ent2.node]
BY DEF SecondArgs, Second!NewRow

LEMMA SecondArgsSame ==
    ASSUME UNCHANGED <<path2, ent2, parents2>>, (stage2' = "admit") = (stage2 = "admit")
    PROVE  UNCHANGED <<SecondArgs.row.parent, SecondArgs.row.name>>
<1>1. /\ SecondArgs'.row.parent = IF stage2' = "admit" THEN 0 ELSE parents2'[path2']
      /\ SecondArgs'.row.name = NameOf2[IF stage2' = "admit" THEN path2' ELSE ent2'.node]
  BY DEF SecondArgs, Second!NewRow
<1> QED
  BY <1>1, SecondArgsKey

\* A step of the other's.
LEMMA SecondSpared ==
    ASSUME SecondInv, SnapshotType, UNCHANGED second, Spared(2)
    PROVE  SecondInv'
<1>1. SecondHolds' = SecondHolds
  BY DEF second, SecondHolds, Spared
<1>2. UNCHANGED <<SecondArgs.row.parent, SecondArgs.row.name>>
  BY SecondArgsSame DEF second
<1>3. \A i \in SecondHolds : Kept(2, i, SecondArgs)'
  <2>1. CASE snapshot'[2] = IF snapshot[2] = "none" THEN "none" ELSE "stale"
    BY <2>1 DEF SecondInv, Kept
  <2>2. CASE snapshot'[2] = snapshot[2] /\ entries' = entries
    BY <1>2, <2>2 DEF SecondInv, Kept, IsFor, First!Used
  <2> QED
    BY <2>1, <2>2 DEF Spared
<1> QED
  BY <1>1, <1>3 DEF SecondInv, Spared, second

\* The steps of the indexer's that may come during a call.
LEMMA SecondPauses ==
    ASSUME Second!Environment \/ Second!StatementThrows
    PROVE  /\ pc2 = "manip" =>
                 \/ (pc2' # "manip" \/ stage2 = "stopped") /\ stage2' \notin HeldAt \cup {"entry"}
                 \/ UNCHANGED <<pc2, stage2, path2, ent2, parents2, entries, entryId2>>
           /\ UNCHANGED entries
           /\ stage2' \in HeldAt \cup {"entry"} => stage2' = stage2 /\ pc2' = pc2
<1>1. CASE Second!Restart
  BY <1>1 DEF Second!Restart, Second!readerVars, Second!readVars, Second!dbVars, HeldAt
<1>2. CASE Second!RequestShutdown
  BY <1>2 DEF Second!RequestShutdown, Second!readVars, Second!dbVars, Second!localVars
<1>3. CASE Second!Crash
  BY <1>3 DEF Second!Crash, Second!dbVars, HeldAt
<1>4. CASE /\ Second!TreeStep(Second!Held)
           /\ UNCHANGED <<Second!readVars, faults2, Second!dbVars, Second!localVars, Second!scanVars>>
  BY <1>4 DEF Second!readVars, Second!dbVars, Second!localVars, Second!scanVars
<1>5. CASE Second!StatementThrows
  BY <1>5 DEF Second!StatementThrows, Second!ManipThrows, Second!Leave, Second!ClearLocals,
              Second!dbVars, HeldAt
<1> QED
  BY <1>1, <1>2, <1>3, <1>4, <1>5 DEF Second!Environment

\* Of the others only EnterFile, which SecondReturn stands for, takes a row in
\* hand.
LEMMA SecondMoves ==
    ASSUME Second!Next, ~Second!InManip("entry"), stage2 \in HeldAt \cup {"entry"} => pc2 = "manip"
    PROVE  /\ stage2' \in HeldAt \cup {"entry"} => pc2' = "manip"
           /\ stage2' \in HeldAt =>
                 stage2 \in HeldAt /\ UNCHANGED <<entries, entryId2, path2, ent2, parents2>>
<1>1. CASE Second!Environment \/ Second!StatementThrows
  BY <1>1, SecondPauses
<1>2. CASE Second!Wake \/ Second!Stop \/ Second!BeginScan
  BY <1>2 DEF Second!Wake, Second!Stop, Second!BeginScan, Second!ClearLocals, HeldAt
<1>3. CASE Second!Walk
  <2>1. stage2' = stage2 /\ pc2 # "manip"
    BY <1>3 DEF Second!Walk, Second!localVars, Second!ReaderLoop, Second!LoopAbort,
       Second!OpenDirectory, Second!OpenGone, Second!OpenFails, Second!LoopDone, Second!LoopPop,
       Second!NextEntry, Second!NextEnd, Second!NextAborted, Second!NextError, Second!Descend,
       Second!StayHere
  <2> QED
    BY <2>1
<1>4. CASE \/ Second!AdmitShutdown \/ Second!AdmitSkip \/ Second!AdmitUndefined \/ Second!AdmitRoot
           \/ Second!AdmitKnown \/ Second!EnterDirectory \/ Second!EnterFile
  BY <1>4, Zenon DEF Second!AdmitShutdown, Second!AdmitSkip, Second!AdmitUndefined,
     Second!AdmitRoot,
     Second!RootUnknown, Second!RootEntered, Second!AdmitKnown, Second!EnterDirectory,
     Second!EnterFile, Second!InManip, Second!Return, Second!ManipReturns, Second!ClearLocals,
     Second!ManipThrows, Second!Leave, Second!readerVars, Second!readVars, HeldAt
<1>5. CASE Second!OpenFile \/ Second!ReadBlock \/ Second!TrimBlocks \/ Second!ReadEnd
  BY <1>5 DEF Second!OpenFile, Second!ReadBlock, Second!BlockRead, Second!TrimBlocks,
     Second!ReadEnd,
     Second!InManip, Second!readerVars, Second!readVars, Second!dbVars, Second!scanVars, HeldAt
<1>6. CASE Second!OpenFileFails \/ Second!ReadFails \/ Second!RecordDigest
  BY <1>6, Zenon DEF Second!OpenFileFails, Second!ReadFails, Second!RecordDigest, Second!Return,
     Second!ClearLocals, HeldAt
<1>7. CASE Second!Cleanup \/ Second!CleanupFails \/ Second!CleanupPartial
  BY <1>7 DEF Second!Cleanup, Second!CleanupFails, Second!CleanupPartial, Second!CleanupThrows,
     Second!localVars, HeldAt
<1> QED
  BY <1>1, <1>2, <1>3, <1>4, <1>5, <1>6, <1>7 DEF Second!Next, Second!Worker, Second!ManipStep

\* The types of the second with whatever table.
LEMMA SecondKept ==
    ASSUME OfSecond!TypeIn(AnyRow), UNCHANGED second, entries' \in Tables, blocks' \in BlockTables
    PROVE  OfSecond!TypeIn(AnyRow)'
<1>1. UNCHANGED <<OfSecond!readerVars, OfSecond!localVars, OfSecond!scanVars>>
  BY DEF second, OfSecond!readerVars, OfSecond!treeVars, OfSecond!readVars, OfSecond!historyVars,
         OfSecond!localVars, OfSecond!scanVars
<1> QED
  BY <1>1, SecondAssumed, SameTables, OfSecond!TypeKept

LEMMA SecondTables ==
    /\ OfSecond!TypeIn(AnyRow) => entries \in Tables /\ blocks \in BlockTables
    /\ OfSecond!TypeIn(AnyRow)' => entries' \in Tables /\ blocks' \in BlockTables
BY SameTables DEF OfSecond!TypeIn, OfSecond!TypeOKIn

LEMMA SecondRow ==
    ASSUME OfSecond!TypeIn(AnyRow), pc2 = "manip", stage2 \in {"admit", "entry"}
    PROVE  SecondArgs.row \in AnyRow
<1>1. /\ path2 \in OfSecond!Path /\ ent2.node \in OfSecond!Path /\ ent2.size \in Nat
      /\ stage2 = "entry" => parents2[path2] \in Ids
  BY SameTables, SecondAssumed, OfSecond!EntIn
     DEF OfSecond!TypeIn, OfSecond!TypeOKIn, OfSecond!ReaderTypeOK, OfSecond!Control
<1>2. \A p \in Ids, n \in OfSecond!Path, dir \in BOOLEAN, size \in Nat :
           Second!NewRow(p, n, dir, size) \in OfSecond!Row
  BY SameTables DEF Second!NewRow, OfSecond!Row, OfSecond!Name, OfSecond!Path
<1> QED
  BY <1>1, <1>2, SameTables, Zenon DEF SecondArgs, AnyRow

LEMMA SecondEntryInv ==
    ASSUME SharedTypes, OfSecond!TypeIn(AnyRow), SecondInv, SecondEntry
    PROVE  SharedTypes' /\ OfSecond!TypeIn(AnyRow)' /\ SecondInv' /\ Spared(1)
<1>1. PICK a : a = SecondArgs
  OBVIOUS
<1>2. UpdateEntry(2, a) /\ UNCHANGED second /\ pc2 = "manip" /\ stage2 \in {"admit", "entry"}
  BY <1>1 DEF SecondEntry, SecondInv, SecondCalls, Second!RootUnknown, Second!InManip
<1>9. a.row \in AnyRow
  BY <1>1, <1>2, SecondRow
<1>3. SharedTypes' /\ Spared(1)
  BY <1>2, <1>9, StatementSpares DEF Other
<1>4. call[2].at # "none" => Kept(2, call[2].id, a)
  BY <1>1 DEF SecondInv, SecondHolds, Kept
<1>5. call'[2].at \in Statements /\ Kept(2, call[2].id, a)'
  BY <1>2, <1>4, <1>9, StatementKeeps
<1>6. a.row.parent = SecondArgs'.row.parent /\ a.row.name = SecondArgs'.row.name
  BY <1>1, <1>2, SecondArgsSame DEF second
<1>7. \A i \in SecondHolds' : Kept(2, i, SecondArgs)'
  <2>1. SecondHolds' = {call'[2].id} \ {0}
    BY <1>5 DEF SecondHolds, Statements
  <2> QED
    BY <1>5, <1>6, <2>1 DEF Kept, IsFor
<1> QED
  BY <1>2, <1>3, <1>5, <1>7, SecondKept DEF SecondInv, second, SharedTypes

LEMMA SecondReturnInv ==
    ASSUME SharedTypes, OfSecond!TypeIn(AnyRow), SecondInv, SecondReturn
    PROVE  SharedTypes' /\ OfSecond!TypeIn(AnyRow)' /\ SecondInv' /\ Spared(1)
<1>1. /\ call'[2] = NoCall /\ call'[1] = call[1] /\ CallType'
      /\ entries' = entries /\ snapshot' = snapshot
  BY NoCallType DEF SecondReturn, SharedTypes, CallType
<1>0. OfSecond!TypeIn(AnyRow)'
  <2>1. /\ call[2].id \in OfSecond!EntryId /\ faults2' \in Nat /\ tidy2' \subseteq {"names", "digests"}
        /\ entries' \in OfSecond!RowsIn(AnyRow)
    BY SameTables DEF SecondReturn, SharedTypes, CallType, OfSecond!TypeIn, OfSecond!TypeOKIn,
       OfSecond!ReaderTypeOK
  <2>2. \/ OfSecond!InManip("admit") /\ OfSecond!RootEntered(call[2].id)
        \/ /\ OfSecond!InManip("entry")
           /\ \/ OfSecond!DirectoryEntered(call[2].id)
              \/ OfSecond!FileEntered(call[2].id, call[2].mtime)
    BY SecondParts DEF SecondReturn
  <2> QED
    BY <2>1, <2>2, AnyRows, SecondAssumed, OfSecond!EnteredType, Zenon
<1>2. SharedTypes' /\ Spared(1)
  BY <1>0, <1>1, SecondTables DEF SharedTypes, SnapshotType, Spared
<1>3. CASE \/ stage2' = "admit"
           \/ stage2' = "entry" /\ pc2' = "manip"
  BY <1>0, <1>1, <1>2, <1>3 DEF SecondInv, SecondHolds, NoCall, HeldAt
<1>4. CASE /\ stage2' = "open" /\ entryId2' = call[2].id /\ stage2 = "entry"
           /\ UNCHANGED <<pc2, path2, ent2, parents2>>
  <2>1. SecondHolds' \subseteq SecondHolds /\ pc2' = "manip"
    BY <1>1, <1>4 DEF SecondHolds, SecondReturn, SecondInv, NoCall, HeldAt
  <2>2. UNCHANGED <<SecondArgs.row.parent, SecondArgs.row.name>>
    BY <1>4, SecondArgsSame
  <2> QED
    BY <1>0, <1>1, <1>2, <1>4, <2>1, <2>2 DEF SecondInv, Kept, IsFor, First!Used, HeldAt
<1> QED
  BY <1>0, <1>2, <1>3, <1>4 DEF SecondReturn, Second!InManip, Second!RootEntered,
     Second!DirectoryEntered, Second!FileEntered, Second!Return, Second!ClearLocals, Second!readVars

LEMMA SecondStepInv ==
    ASSUME SharedTypes, OfSecond!TypeIn(AnyRow), SecondInv, SecondStep
    PROVE  SharedTypes' /\ OfSecond!TypeIn(AnyRow)' /\ SecondInv' /\ Spared(1)
<1>0. Second!Next
  BY DEF SecondStep, Second!Next, Second!Worker, Second!ManipStep
<1>1. OfSecond!TypeIn(AnyRow)'
  BY <1>0, SecondSame, AnyRows, SecondAssumed, OfSecond!TypeStep
<1>2. /\ CallType' /\ call'[1] = call[1]
      /\ call'[2] = IF pc2' = "manip" THEN call[2] ELSE NoCall
  BY NoCallType DEF SecondStep, SharedTypes, CallType
<1>3. PICK own \in {"none", "last", "stale"} :
           /\ own = IF pc2' \in {"idle", "threw"} THEN "none" ELSE snapshot[2]
           /\ snapshot' = IF SecondCommits THEN Committed(2, own) ELSE [snapshot EXCEPT ![2] = own]
  BY Zenon DEF SecondStep, SharedTypes, SnapshotType
<1>4. SnapshotType' /\ snapshot'[2] = own
  BY <1>3, Snapshots DEF SharedTypes, SnapshotType
<1>5. Spared(1)
  <2>1. CASE SecondCommits
    BY <1>2, <1>3, <2>1, Snapshots DEF SharedTypes, Spared, Other
  <2>2. CASE ~SecondCommits
    BY <1>2, <1>3, <2>2 DEF SecondCommits, SharedTypes, SnapshotType, Spared, tables
  <2> QED
    BY <2>1, <2>2
<1>6. ASSUME Second!Environment \/ Second!StatementThrows PROVE SecondInv'
  <2>1. CASE pc2 = "manip" /\ UNCHANGED <<pc2, stage2, path2, ent2, parents2, entries, entryId2>>
    <3>1. SecondHolds' = SecondHolds /\ snapshot'[2] = snapshot[2] /\ call'[2] = call[2]
      BY <1>2, <1>3, <1>4, <2>1 DEF SecondHolds
    <3>2. UNCHANGED <<SecondArgs.row.parent, SecondArgs.row.name>>
      BY <2>1, SecondArgsSame
    <3>3. \A i \in SecondHolds : Kept(2, i, SecondArgs)'
      BY <2>1, <3>1, <3>2 DEF SecondInv, Kept, IsFor, First!Used
    <3> QED
      BY <2>1, <3>1, <3>3 DEF SecondInv
  <2>2. CASE (pc2' # "manip" \/ stage2 = "stopped") /\ stage2' \notin HeldAt \cup {"entry"}
    <3>1. call'[2] = NoCall
      BY <1>2, <2>2 DEF SecondInv
    <3> QED
      BY <2>2, <3>1 DEF SecondInv, SecondHolds, NoCall
  <2>3. CASE pc2 # "manip"
    <3>1. stage2' \notin HeldAt \cup {"entry"} /\ call[2] = NoCall
      BY <1>6, <2>3, SecondPauses DEF SecondInv
    <3> QED
      BY <1>2, <3>1 DEF SecondInv, SecondHolds, NoCall
  <2> QED
    BY <1>6, <2>1, <2>2, <2>3, SecondPauses
<1>7. ASSUME call[2] = NoCall, ~SecondCalls PROVE SecondInv'
  <2>1. /\ stage2' \in HeldAt \cup {"entry"} => pc2' = "manip"
        /\ stage2' \in HeldAt =>
              stage2 \in HeldAt /\ UNCHANGED <<entries, entryId2, path2, ent2, parents2>>
    BY <1>0, <1>7, SecondMoves DEF SecondInv, SecondCalls
  <2>2. call'[2] = NoCall
    BY <1>2, <1>7
  <2>3. CASE stage2' \in HeldAt
    <3>1. SecondHolds' = SecondHolds /\ snapshot'[2] = snapshot[2]
      BY <1>3, <1>4, <1>7, <2>1, <2>2, <2>3 DEF SecondHolds, SecondInv
    <3>2. UNCHANGED <<SecondArgs.row.parent, SecondArgs.row.name>>
      BY <2>1, <2>3, SecondArgsSame DEF HeldAt
    <3> QED
      BY <2>1, <2>2, <2>3, <3>1, <3>2 DEF SecondInv, Kept, IsFor, First!Used
  <2>4. CASE stage2' \notin HeldAt
    BY <2>1, <2>2, <2>4 DEF SecondInv, SecondHolds, NoCall
  <2> QED
    BY <2>3, <2>4
<1> QED
  BY <1>1, <1>2, <1>4, <1>5, <1>6, <1>7, SecondTables DEF SecondStep, SharedTypes

LEMMA SecondRefusedInv ==
    ASSUME SharedTypes, OfSecond!TypeIn(AnyRow), SecondInv, SecondLosesBlock \/ SecondThrows
    PROVE  SharedTypes' /\ OfSecond!TypeIn(AnyRow)' /\ SecondInv' /\ Spared(1)
<1>1. CASE SecondLosesBlock
  <2>1. /\ pc2 = "manip" /\ stage2 = "read" /\ stage2' = "trim"
        /\ UNCHANGED <<pc2, entries, entryId2, path2, ent2, parents2, call, snapshot>>
    BY <1>1 DEF SecondLosesBlock, Second!BlockRead, Second!InManip, Second!readVars, Second!scanVars
  <2>0. OfSecond!TypeIn(AnyRow)'
    <3>1. /\ OfSecond!BlockRead /\ faults2' \in Nat
          /\ blocks' \in [OfSecond!EntryId -> [OfSecond!BlockNo -> Block \cup {Null}]]
      BY <1>1, SecondParts, SameTables
         DEF SecondLosesBlock, SharedTypes, OfSecond!TypeIn, OfSecond!TypeOKIn,
         OfSecond!ReaderTypeOK
    <3> QED
      BY <3>1, AnyRows, SecondAssumed, OfSecond!BlockReadType
  <2>2. SharedTypes' /\ Spared(1)
    BY <2>0, <2>1, SecondTables DEF SharedTypes, CallType, SnapshotType, Spared
  <2>3. SecondHolds' = SecondHolds
    BY <2>1 DEF SecondHolds, HeldAt
  <2>4. UNCHANGED <<SecondArgs.row.parent, SecondArgs.row.name>>
    BY <2>1, SecondArgsSame
  <2> QED
    BY <2>0, <2>1, <2>2, <2>3, <2>4 DEF SecondInv, Kept, IsFor, First!Used, HeldAt
<1>2. CASE SecondThrows
  <2>0. OfSecond!TypeIn(AnyRow)'
    BY <1>2, SecondRefused, AnyRows, SecondAssumed, OfSecond!RefusedType DEF SecondInv
  <2>1. pc2' = "threw" /\ stage2' \notin HeldAt \cup {"entry"}
    BY <1>2 DEF SecondThrows, Second!ManipThrows, Second!Leave, Second!ClearLocals,
                Second!CleanupThrows, Second!localVars, SecondInv, HeldAt
  <2>2. call'[2] = NoCall /\ call'[1] = call[1] /\ CallType' /\ SnapshotType' /\ Spared(1)
    BY <1>2, NoCallType DEF SecondThrows, SharedTypes, CallType, SnapshotType, Spared, tables
  <2> QED
    BY <2>0, <2>1, <2>2, SecondTables DEF SharedTypes, SecondInv, SecondHolds, NoCall
<1> QED
  BY <1>1, <1>2

LEMMA SecondNextInv ==
    ASSUME SharedTypes, OfSecond!TypeIn(AnyRow), SecondInv, SecondNext
    PROVE  SharedTypes' /\ OfSecond!TypeIn(AnyRow)' /\ SecondInv' /\ Spared(1) /\ UNCHANGED first
<1>1. UNCHANGED first
  BY DEF SecondNext, SecondEntry, SecondReturn, SecondStep, SecondLosesBlock, SecondThrows
<1> QED
  BY <1>1, SecondEntryInv, SecondReturnInv, SecondStepInv, SecondRefusedInv DEF SecondNext

-----------------------------------------------------------------------------
(* Both.                                                                   *)

SharedInv ==
    /\ SharedTypes /\ OfFirst!TypeIn(AnyRow) /\ OfSecond!TypeIn(AnyRow)
    /\ FirstInv /\ SecondInv

LEMMA SharedInitInv == SharedInit => SharedInv
<1>1. ASSUME SharedInit PROVE SharedInv
  <2>0. OfFirst!TypeIn(AnyRow) /\ OfSecond!TypeIn(AnyRow)
    <3>1. OfFirst!TypeIn(OfFirst!Row) /\ OfSecond!TypeIn(OfSecond!Row)
      BY <1>1, FirstInit, SecondInit, FirstAssumed, SecondAssumed, OfFirst!TypeInit,
         OfFirst!OwnRows,
         OfSecond!TypeInit, OfSecond!OwnRows DEF SharedInit
    <3> QED
      BY <3>1 DEF AnyRow, OfFirst!TypeIn, OfFirst!TypeOKIn, OfFirst!RowsIn, OfSecond!TypeIn,
         OfSecond!TypeOKIn, OfSecond!RowsIn
  <2>1. SharedTypes
    BY <1>1, <2>0, NoCallType, FirstTables DEF SharedInit, SharedTypes, CallType, SnapshotType
  <2>2. FirstInv
    BY <1>1 DEF SharedInit, First!Init, FirstInv, FirstHolds, NoCall, HeldAt
  <2>3. SecondInv
    BY <1>1 DEF SharedInit, Second!Init, SecondInv, SecondHolds, NoCall, HeldAt
  <2> QED
    BY <2>0, <2>1, <2>2, <2>3 DEF SharedInv
<1> QED
  BY <1>1

LEMMA SharedInvStep == SharedInv /\ [SharedNext]_sharedVars => SharedInv'
<1>1. ASSUME SharedInv, FirstNext PROVE SharedInv'
  BY <1>1, FirstNextInv, SecondSpared, SecondKept DEF SharedInv, SharedTypes
<1>2. ASSUME SharedInv, SecondNext PROVE SharedInv'
  BY <1>2, SecondNextInv, FirstSpared, FirstKept DEF SharedInv, SharedTypes
<1>3. ASSUME SharedInv, UNCHANGED sharedVars PROVE SharedInv'
  <2>1. UNCHANGED <<entries, blocks, call, snapshot>> /\ UNCHANGED first /\ UNCHANGED second
    BY <1>3 DEF sharedVars, tables
  <2>2. Spared(1) /\ Spared(2)
    BY <2>1 DEF Spared
  <2>3. SharedTypes'
    BY <1>3, <2>1 DEF SharedInv, SharedTypes, CallType, SnapshotType
  <2> QED
    BY <1>3, <2>1, <2>2, <2>3, FirstSpared, SecondSpared, FirstKept, SecondKept DEF SharedInv,
       SharedTypes
<1> QED
  BY <1>1, <1>2, <1>3 DEF SharedNext

LEMMA SharedInvKeeps == SharedInv => RowInHandKept
<1>1. ASSUME SharedInv PROVE RowInHandKept
  <2>1. snapshot[1] \in {"none", "last", "stale"} /\ snapshot[2] \in {"none", "last", "stale"}
    BY <1>1 DEF SharedInv, SharedTypes, SnapshotType
  <2>2. FirstInHand \subseteq FirstHolds /\ 0 \notin FirstHolds
    BY <1>1 DEF SharedInv, FirstInv, FirstInHand, FirstHolds, HeldAt, Statements, NoCall
  <2>3. SecondInHand \subseteq SecondHolds /\ 0 \notin SecondHolds
    BY <1>1 DEF SharedInv, SecondInv, SecondInHand, SecondHolds, HeldAt, Statements, NoCall
  <2> QED
    BY <1>1, <2>1, <2>2, <2>3 DEF SharedInv, FirstInv, SecondInv, Kept, RowInHandKept, MayWrite
<1> QED
  BY <1>1

\* Whatever two trackers on one database file do, statement by statement, the
\* touch, the digests of the blocks and st_upd_after (indexer.cpp:803-948)
\* reach, by rowid, the row of the parent and name looked for, or fail.
THEOREM RowInHandAlwaysKept == SharedSpec => []RowInHandKept
<1>1. SharedSpec => []SharedInv
  BY SharedInitInv, SharedInvStep, PTL DEF SharedSpec
<1> QED
  BY <1>1, SharedInvKeeps, PTL
=============================================================================
