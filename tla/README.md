# A verification development for spacenet

spacenet mirrors directories into SQLite databases. A `directory_tracker` runs a
worker thread that scans one directory about once a minute; each scan
(`directory_indexer::reindex`) walks the tree with a `directory_reader`, keeps one row
per entry in the table `entries` and one digest per 4096-byte block of each
modified file in `blocks_digests`, and finally deletes the rows of what it did not meet.

This directory holds TLA+ modules for the reader, the indexer, the tracker and what they
are built on (digests, the SQL wrapper, the start-up), for the whole of a tracker with its
process, and for two trackers on one database; TLC configurations that check them on small
instances; and proofs, checked by TLAPS, of the safety properties that matter most. Paths below are relative to the repository.

## 1. The system

| part | source | state | operations |
|---|---|---|---|
| `directory_reader` | `include/indexer.hpp:85-124`, `src/indexer.cpp:373-641` | the current find handle, `path_`, the stack of suspended handles, `level_`, the find data of the entry, `abort_` | `read(manipulator)` |
| `directory_indexer` | `include/indexer.hpp:128-146`, `src/indexer.cpp:645-1015` | tables `entries` and `blocks_digests`; during a scan the map `parents`, `entry_id`, `blk_no`, a `cdc512` context | `reindex(db, dir, p_shutdown)` |
| `directory_tracker` | `include/tracker.hpp`, `src/tracker.cpp` | `thread_`, `shutdown_`, `mtx_`, `cv_`, `error_`, the worker's connection | `run()`, `shutdown()`, destructor, `worker()` |
| sqlite3pp | `include/sqlite3pp/sqlite3pp.h` | connection, statement, transaction; whether errors throw | `connect`, `execute`, `execute_all`, `step`, `reset`, `~transaction` |
| `cdc512` | `src/cdc512.cpp`, `include/cdc512.hpp` | eight 64-bit words, a byte count | `init`, `update`, `finish`, `to_short_string` |
| `rand` (ISAAC) | `include/rand.hpp` | 256 words and three registers | `srand`, `isaac`, `get`; instantiated nowhere |
| database naming | `src/tracker.cpp:92-133` | none | `make_name`, `make_digest_name` |
| path helpers | `src/indexer.cpp:45-370` | none | `access`, `mkdir`, `home_path`, `temp_name`, `path2rel`, ... |
| `locale_traits`, `std_ext`, `scope_exit` | `src/locale_traits.cpp`, `include/*.hpp` | none | conversions, scope guards |
| `main`, the Qt window, the tests | `src/main.cpp`, `tests/` | none | |

How they interact. The owner of a tracker calls `run()` and `shutdown()` in its own
thread; the worker calls `reindex`, which hands `read()` a manipulator, a callback run
for every entry inside the traversal. The manipulator writes to the database and, when
it sees the shutdown flag, sets the reader's `abort_`. Other programs change the
directory all the while. Only the Windows branch of `read()` compiles, and it is the one
modelled.

What is hard here:

- *The tree moves.* A listing is taken at one time, `access()`, opening a subdirectory and
  reading a file happen later, and the row is written later still.
- *The callback suspends a loop.* `read()` has one current handle and a stack of suspended
  ones, closed by scope guards on six ways out.
- *Every statement commits by itself,* except in `cleanup_entries`, whose transaction
  commits in its destructor when an exception leaves it (`sqlite3pp.h:1032`). A crash, an
  exception or a shutdown between any two statements leaves a state that later scans
  have to cope with. A shutdown only aborts the traversal: `cleanup_entries` still runs.
- *Failures that pass unnoticed.* `update_entry` switches exceptions off to use the failure
  of an INSERT as the sign that the row exists; every other failure of it is dropped too.
- *Rowids are reused* after a DELETE, while `parents` and `entry_id` hold rowids.
- *Statements are shared and never reset when done with*: a step's error, a row and with it a
  read snapshot, or parameters may be left over from an earlier call.
- *One database may serve two trackers*: names are filtered before they are digested, and
  nothing in a row says whose it is.
- *Several trackers start at once* and make the same directory.
- *Files are read as text* and padded, though their size is that of the bytes.
- *The flag and the notification* of `shutdown()` are given without holding the mutex of
  the condition variable.

What makes each part correct. Reader: no handle leaks and none is used after it was
closed; path, handle, stack and level agree; a traversal that ends has met everything
that was there throughout, each entry once, directories before their contents; it
always ends. Indexer: one row per parent and name; parents are faithful; cleanup
neither deletes what is there nor orphans rows; a digest filed under a file's present
time stamp is the digest of its present data; in the end the table mirrors the tree.
Tracker: `shutdown()` returns, leaves nothing running, and lets at most one more scan
begin; scans keep coming and keep their distance. Digests: two contents of a file never share
size, digest and rows; data in pieces has the digest it has as a whole. SQL wrapper: what is
kept of a failing text is its beginning, nothing stays locked, an error passes unnoticed
only where the caller means it to. Start-up: every tracker comes to run, and two share a
database only if their names say so. The list `hazards` of PROJECT.json
names, with their lines, the places where this can go wrong.

## 2. The modules

| module | what it is |
|---|---|
| `FileTree` | the environment: a file system that other programs change |
| `Reader` (extends `FileTree`) | `directory_reader::read` with any manipulator |
| `Indexer` (extends `Reader`) | `reindex` and the worker's loop around it, with SQLite, failures and crashes |
| `Index` (extends `FileTree`) | abstract: what an observer of the database is promised |
| `IndexMap` (extends `Indexer`) | the refinement mapping from `Indexer` to `Index` |
| `Tracker` | owner and worker of a `directory_tracker`; `reindex` is one step |
| `System` (extends `Tracker`, an instance of `Indexer`) | a tracker in its process, whole |
| `SharedDb` (two instances of `Indexer`) | two trackers on one database |
| `Startup` | `directory_tracker::run`: names of databases, `mkdir`, up to the first connection |
| `FileDigest` | `update_blocks`, byte by byte |
| `Cdc512`, `Uint64` | the digest, on words of any kind; 64-bit words by limbs of 16 bits |
| `Statement` | prepared statements, `update_entry`, `update_block_digest`, the exception switch |
| `Script` | `execute_all` and the transaction around it |
| `MC*` | instances for TLC |
| `ReaderProofs`, `IndexerProofs`, `TrackerProofs`, `StartupProofs`, `Cdc512Proofs`, `FileDigestProofs`, `SqlProofs`, `SharedDbProofs` | theorems (those about `FileTree` and `Index` are in `ReaderProofs` and `IndexerProofs`, those about `Statement` and `Script` in `SqlProofs`) |

`Indexer` takes the digest of data to be the data, a call of `update_entry` to be one
step, and a scan to begin and end by itself. `Cdc512` and `FileDigest` look
below the first of these, `Statement` and `Script` below the second, which `SharedDb` takes apart as well, where
somebody else can come between its statements; `System` replaces the third.

**FileTree.** `fs` maps each path to what is there, `clock` is the stamp of the latest
change. Other programs create, rewrite and remove entries, and the volume may go and
come back. Two assumptions: a change gives a path a time stamp it never had (detection of
modification by `mtime` cannot work otherwise), and a file held open by the indexer cannot
be removed (`_SH_DENYNO` does not share deletion). It can be rewritten while it is read.

**Reader.** `read()` is a loop around a loop, so there is one control point, `pc`, for each
place where it looks at the outside: `loop` (head of the outer loop: abort, open a
directory, resume a suspended one or leave), `next` (`FindNextFileW`), `manip` (inside the
manipulator), `descend` (after a directory entry), and `returned`/`threw`. Each action is
the code between two such points; the scope guards of `indexer.cpp:394-408` and `480-491`
are the operators `ScopeExits`, `Leave` and `CloseDirectory`. `open` is the set of handles open in the
system. The listing is read ahead when a handle is opened, so `finds` is as old as the
handle. After a `break` on `abort_`, `GetLastError()` is what some earlier call left:
`NextAborted` takes either branch. Masks are the set `Matching`; the dot entries are left
out. `visited`, `gone` and `quiet` are history for the properties.

**Indexer.** It takes the reader's loop as it is (`Walk`) and replaces the arbitrary manipulator by
`reindex`'s, one action per statement or system call (`stage`): `Admit*` up to the first row, then
`EnterDirectory`/`EnterFile`, `OpenFile`, `ReadBlock`, `TrimBlocks`, `ReadEnd`, `RecordDigest`.
`UpdateEntry` is `update_entry`: up to date and only touched, updated, inserted, an INSERT
lost, or an INSERT done and the SELECT after it lost, so that the row is there but its id is taken to be 0.
`Cleanup` is `cleanup_entries`; `CleanupPartial` is the commit of some of its statements by
`~transaction`. `is_alive` means the opposite of its name: 0 marks the rows met in this scan. A NULL column reads
as 0, as in the code; a digest is represented by what was digested; `node` in a row is
no column but the path the row was inserted for. `NextRowids` is SQLite's allocation: one more
than the largest rowid, or any free one when that is the largest possible. `Crash`, `RequestShutdown`,
`StatementThrows`, and the failures named in `FaultKinds`, each costing one of `MaxFaults`, may come
between any two steps. `tidy` is history, two facts about the scan in progress: `"names"`, that no row was
marked when it began and it has lost no INSERT of an entry since (`Lost`), and `"digests"`, that no row then had
a time stamp without a digest.

**Tracker.** `wait_until` with a predicate is the loop the library defines it to be: `look`, `dozing`
(looked, not yet asleep: a notification is lost), `asleep`. `Deadline`, `Notify` and
`SpuriousWakeup` end the sleep. `shutdown_` is uninitialised before `run()`. `RunTwice` (`run()` on
a running tracker destroys a joinable thread) and `ConnectFails` (a failed connect leads
`execute_all` to measure a null string) end the process.

**Index, IndexMap.** `rows` maps indexed paths to what is recorded of them: no rowids, marks,
statements or scans. A path comes up under an indexed directory, is refreshed (its digest forgotten),
gets the digest of the file as it is at the stamp recorded, or goes with all that is below it.
`RowsByPath` reads the table so; that it is a function needs one row per path. The
refinement says of the indexer what no single invariant does: no step, however a scan is cut short, takes a
directory from above its entries or files a digest under a stamp it does not belong to.

**System.** `Tracker`'s worker and owner, with an instance of `Indexer` for the scan. While the worker is at
`reindex` the steps are the scan's (`ScanStep`), and `ScanReturns` hands back how it ended; what is
environment to `Indexer` alone is here the owner and the deadline (`SystemRun` is its `Restart`, `SystemShutdown`
its `RequestShutdown`, `Waits` its `Wake` and `Stop`). There is one flag, and before `run()` has set it
the indexer does not see it. `Die` ends the process at any moment; `StartAgain` is `Indexer`'s `Crash` together
with the construction of a new tracker, whose flag is uninitialised. Shutdowns and deaths are counted with the failures.

**SharedDb.** Two instances of `Indexer`, in two processes, on one pair of tables. A call of `update_entry` is no step here:
`call` says how far that of each tracker is, and its statements are actions of their own (`Select`, `Touch`, `Insert`,
`InsertMeetsKey`, where `UNIQUE(parent_id, name)` leads to `Update`, `SelectAgain`), so that the other's commits fall between them too.
`FirstReturn` goes on with the rest of the handler as `Indexer` has it (`RootEntered`, `DirectoryEntered`, `FileEntered`);
every other step of the indexer is `FirstStep`. `snapshot` is what `st_sel`, never reset, keeps of the database for each
connection once it has found a row: `"last"`, or `"stale"` when the other has committed since. A write fails with `SQLITE_BUSY` on a
stale one, and may fail while the other's write is under way (`Busy`), for no busy handler is set. Nobody notices
that of an INSERT (`InsertRefused` of a row, `FirstLosesBlock` of a block's digest); all other refused
writes throw (`FirstThrows`). The second tracker has the same actions. `alone` is history: the trackers whose scan met no step of the
other's and no refusal. The SELECT after an INSERT is taken not to fail here.

**Startup.** Of the path to the directory of the databases only the depth counts: `deepest` is the
last level that exists. `target` is the stack of `mkdir`'s recursive calls, one action per system call: `MakeDirectory`,
`MakeExists` (`ERROR_ALREADY_EXISTS` has become `EEXIST` when it is compared), `MakeParent`, `MakeFails`.
`MakeName` filters the characters (`Kept` is the loop that does it, written as a function because the provers know
nothing of `SelectSeq`) and digests what is left if that is not the whole name; the digest is injective
here. Other programs remove directories.

**FileDigest.** `Raw` is what a read of a block gets, `Text` what `_read` in text mode makes of it
(Ctrl-Z, CR LF, also across the end of the block), `Padded` the block after `memset`. A file is digested,
rewritten, and digested again over the rows of the first time.

**Cdc512.** The eight lines of `shuffle` and of the mixing with a second state are folds of one `Row` each; a line is the
three statements `Subtract`, `Flip`, `AddUp`, whose operands come from the state itself (`Row`) or from the other one
(`RowWith`). `Update`, `WholeBlock`, `LastBlock`, `Finish` are the parts of `update` and `finish`. Words, their operations and
the initial state are parameters. `MCCdc512` runs the state machine on words of two bits in blocks of eight bytes, and
evaluates the same operators on 64-bit words (`Wide`, with `Uint64` and the constants of the source) for the repository's
test vectors. `twin` is a second context, given the same data.

**Statement.** A statement is where its last step left it, the error of that step and its
parameters; `Bind` resets it on `SQLITE_MISUSE`, `Execute` goes no further if the reset returns an error.
The two routines are traced step by step, with the switch of exceptions and what their scope guards restore.
Another connection inserts rows at any time.

**Script.** The statements of a text one by one; a statement may fail to be prepared or executed, an
error may roll the transaction back, COMMIT and close may fail. `leaked` is the handle that is overwritten
when a later statement of the text cannot be prepared. `Texts` gives the three texts of the program.

## 3. What the runs check

Bounds are CONSTANTs in the .cfg files; between them the passing runs fire every action.

| run | configuration | question |
|---|---|---|
| `read` | `MCReader.cfg` | Traversal of `root/{a/{b/{c/{e}}, f}, d}`, one level deeper than `max_level_` 2 (no caller in the repository sets it, so that the program itself reads without a limit), with a mask that excludes `f` and a directory `d` that may not be opened; two changes to `b`, `d` or the whole volume, one exception or failing `FindNextFileW`. Handles, order, completeness, termination. |
| `index_tree` | `MCTree.cfg` | `root/{a/{b}, f}`, `a` a directory or a file, `b` and `f` of one name; three changes in `a` and `b`, both modes, and one exception, crash, shutdown or half a cleanup at any step. The tree of rows, and what cleanup deletes. |
| `index_converges` | `MCConverge.cfg` | `root/{a/{b}}`, `b` named like `a`; files of 0, 1 and 2 blocks, two changes, the volume included, one failure of any kind but a lost INSERT. What is recorded is the file's; the table comes to mirror the tree and stays so; `Indexer` implements `Index`. |
| `system` | `MCSystem.cfg` | A directory with one entry, one change; two exceptions, shutdowns, lost INSERTs or deaths of the process inside scans and waits. |
| `shared_db` | `MCSharedDb.cfg` | Two trackers, each with one file of one block, of one name; three scans between them, in every interleaving of their statements, those inside `update_entry` included, with every refusal that `SQLITE_BUSY` makes possible. |
| `startup` | `MCStartup.cfg` | Three trackers with every choice of four names, two levels of directories to be made, two removals. |
| `file_digest` | `MCFileDigest.cfg` | Every pair of 162 files in blocks of two bytes. |
| `cdc512` | `MCCdc512.cfg` | Words of two bits, all twins that differ in one or two words, fed in pieces; and the digests `tests/cdc512_test.cpp` expects. |
| `script` | `MCScript.cfg` | The three texts (6, 5 and 3 statements), every failure at every statement. |
| `statements` | `MCStatement.cfg` | Three calls on two keys and values, two failures, one foreign row. |
| `inaccessible_directory`, `truncated_file` | `MCInaccessible.cfg`, `MCTruncated.cfg` | Disagreements with comments, see below. |

Why the bounds suffice to meet the hazards: a stack of two suspended handles is the
least on which popping in the wrong order shows; two changes are enough to remove an
entry and create another under it or in its place during one scan, three allow that before and
during it; one failure per run of scans reaches every statement boundary, two a failure while recovering from one.
`MaxRowid` leaves one or two rowids more than rows, so that reuse after deletion happens, including at the largest rowid.
The state spaces are finite without any constraint: `MaxChanges`, `MaxFaults`, `MaxRowid`,
`MaxBlocks`, `MaxRemovals`, `MaxCalls`, `MaxOthers`, `MaxUpdates`, `MaxScans` bound the guards, and `late` in `Tracker` never passes 1.
Blocks of two bytes are the least with a boundary inside a CR LF pair and a partial block; three calls are enough for a
statement that failed in the first to be used by the second and asked about by the third; three trackers are enough for one
to overtake another that overtakes a third.

`MCSharedDb` reduces the interleavings: a step of one tracker that reads and writes nothing the other one touches (the
traversal between two calls of the manipulator, opening a file, the return of `update_entry`) goes before the other's steps
(`Private`). No property looks at what changes there. `begun` counts the scans of both; after `MaxScans` = 3 of them both trackers
wait for good. Three are what the hazards take: one scan that is interrupted by another and leaves marks or misplaced
rows, and one after them that has to cope. The two directories need four rows, `MaxRowid` = 5 leaves one to be reused.

What some of the properties say, briefly (each has a comment at its definition):

- `Complete`: a traversal that ran to its end has called the manipulator for each expected
  entry that was there throughout, whatever happened to the rest.
- `PathsFaithful`, `MarkedUpward`: following `parent_id` leads through the rows of the
  directories above; marked rows are closed under it.
- `DigestFresh`, `BlocksFresh`: a row with the file's present stamp has the digest, size and
  blocks of its present data, though the stamp comes from the listing and the data
  was read later. The argument is that the stamp recorded is the older one.
- `MirrorAfterScan`: one undisturbed scan suffices, unless the scan before it failed and left
  marks; then a vanished entry survives one scan more (`tidy`).
- `NamesRepaired`: the same of the names alone, and after lost INSERTs: one undisturbed scan that loses none itself has
  each path found by parent and name, and no row left over. What a lost INSERT leaves in size or kind is not
  repaired, so it says nothing of them.
- `RemovalJustified`: cleanup after a complete traversal deletes only what was gone at
  some moment of it.
- `Converges`: liveness of the whole loop.
- `ImplementsIndex`, `ImplementsIndexer`: refinements. The second shows that what `Indexer` assumes of whoever
  drives it is what `Tracker` does.
- `RunningMirrors`: the names in the table of a tracker that is left running come to be those of its directory (`NamesMirror`),
  whatever shutdowns (after which rows not met are deleted), lost INSERTs and deaths of the process came before. It is about
  names because a lost INSERT leaves a size or a kind behind that is not repaired.
- `RowInHandKept`: what a tracker writes by rowid (the touch, the digests of the blocks, `st_upd_after`) reaches the row of the parent
  and name that it looked for, never one that the other tracker made under the same rowid in the meantime. Nothing in the code
  says so; the snapshot that `st_sel` keeps, because it is never reset, makes each such write fail as soon as the other
  has committed anything.
- `LastScanWins`: of two trackers on one database, one whose scan was undisturbed has a row for each of its paths, found by parent and
  name. The other's rows are gone then if no row was marked when the scan began (`"names"` in its `tidy`). If the other
  one was in the middle of a scan, or was thrown out of one by `SQLITE_BUSY`, the rows it had marked stay for one scan more. A scan in
  which a write is refused is a disturbed one, and nothing is said of it.
- `StartsUndisturbed`: as long as nobody removes directories, every worker finds the directory of its database and `run()`
  throws only to a tracker that another one has overtaken in making it.
- `RowsFaithful`, `SizeAndDigestIdentify`: the rows of blocks are those of the last reading; padding hides nothing that the size
  does not tell.
- `StaysApart`: mixing is injective in the state.
- `EntryWritten`, `BlockWritten`: a call that returns has written its own data under its own key, unless
  a statement failed in this very call.
- `AtMostOneLateScan`, `ScansSpaced`, `ShutdownReturns`: see the comments in `Tracker`. They are checked on `System`, whose
  scans take as long as they take.

**Fairness.** Reader: weak fairness of the reader's own steps; the thread is scheduled and
every system call returns. Indexer: weak fairness of the worker's steps together and of `Restart`, the
application that runs a stopped tracker again; changes and failures are finite in number
(`MaxChanges`, `MaxFaults`) and not fair. System: weak fairness of the worker, of `Notify` and of `Join`
(the owner goes on inside `shutdown()`; whether it calls anything is up to it) and strong fairness of the deadline, because
spurious wakeups may come again and again but the deadline of one wait is a fixed
point in time; of the scan only that its thread is scheduled; of `run()` nothing
is assumed, so `RunningMirrors` is about a tracker that is left running. Startup: each thread is scheduled, a caller whose
`run()` threw calls it again, and the home directory comes back.

`MCSystem.cfg` switches the deadlock check off because the owner may destroy the tracker;
`MCStartup`, `MCFileDigest`, `MCCdc512`, `MCScript` and `MCStatement`
because what they model comes to its end.

Every property of a passing run has a mutant in PROJECT.json: a definition with a
plausible slip under which the property fails. The mutated forms stand beside the definitions and are
marked `mutant`.

### Disagreements between code and comments

Two runs are expected to find a violation; each counterexample is a behaviour of the code
that a comment of the repository excludes.

| run | property | what the code does |
|---|---|---|
| `inaccessible_directory` | `InaccessibleSkipped` | `access()` only tests existence on Windows; a directory that may not be opened makes `read()` throw, so that the scan ends there each time (`indexer.cpp:468`; comment at 919). |
| `truncated_file` | `BlockRowsAreFileBlocks` | For a file truncated to nothing the loop is left before the statement that deletes block rows (`indexer.cpp:891`; comment at 670). |

Met while modelling, without a run of their own; the modules behave so:

- A directory skipped because it was gone is read all the same if it is back, and its entries find no parent
  (`AdmitUndefined`; `indexer.cpp:921`, assertion at 931).
- A lost INSERT leaves children under parent 0, or the old size beside the new stamp and digest
  (`UpdateEntry`; `indexer.cpp:831`, comments at 654 and 659).
- On a shared database the map `parents` outlives the rows it names: the other tracker may have deleted them and reused their
  rowids, so that entries are filed under a row of the other directory or under none (`SharedDb`; `indexer.cpp:938`, comments at 654 and 661). The
  writes by rowid are safe from this only because `st_sel` is never reset (`RowInHandKept`).
- A Ctrl-Z byte ends the reading; `file_size` counts what follows, but no block of it has a row
  (`FileDigest`; `indexer.cpp:866`, comments at 669-670).
- A COMMIT that fails in `~transaction` while an exception is on its way throws again and ends the process
  (`Script`; `sqlite3pp.h:1032`, comment at 1029-1031).
- Half a cleanup after an aborted scan deletes the blocks of rows that stay and are not digested again
  (`CleanupPartial`; hence the `NoBlocks` in `BlocksFresh`).
- A scan of all files that is cut short leaves rows without digest under an unchanged `mtime`, which scans of
  modified files pass over; and a file whose stamp is 0 is never digested (`UpToDate`; hence `tidy` in `MirrorAfterScan`, and
  `Modes = {TRUE}`, `FirstStamp = 1` in `MCConverge.cfg`).

## 4. What is proved

`tlapm` checks every proof of the eight modules `*Proofs` to the last leaf. The
theorems hold for every tree, name assignment, content, number of changes and failures,
and every number of rowids, trackers, statements or bits, under the named assumptions of the modules (`TreeAssumption`,
`ReaderAssumption`, `IndexerAssumption`, `NullAssumption`, `StartupAssumption`, `ScriptAssumption`,
`StatementAssumption`, `SharedAssumption`, `SystemAssumption`, `DigestAssumption`, `WordAssumption` and the others of `Cdc512`), which say what the
constants are: `Up` maps nodes to paths, siblings have different names, `Null` is no value,
the reader runs recursively with directories listed and no mask, as `reindex` sets it up.

| theorem | statement | assumes |
|---|---|---|
| `TypeCorrect` | `Spec => []TypeOK` (Indexer) | |
| `KeysUnique` | `Spec => []UniqueKeys` | |
| `StackAlwaysAncestry` | `ReaderSpec => []StackIsAncestry` | |
| `HandlesAlwaysOwned` | `ReaderSpec => []HandlesOwned` | paths form a tree: `IsRank(rank)`, a directory is numbered before what it holds |
| `EntriesHandedOnce` | `ReaderSpec => VisitOnce` | |
| `ReadIsComplete` | `ReaderSpec => []Complete` | `IsRank(rank)` |
| `PathsAlwaysFaithful` | `Spec => []PathsFaithful` | no INSERT is lost: `"silent" \notin FaultKinds` |
| `MarksClosedUpward` | `Spec => []MarkedUpward` | the same |
| `BlocksAlwaysOwned` | `Spec => []BlocksOwned` | the same |
| `DigestsAlwaysFresh` | `Spec => []DigestFresh` (Indexer) | `"silent" \notin FaultKinds` |
| `BlocksAlwaysFresh` | `Spec => []BlocksFresh` (Indexer) | the same |
| `IndexImplemented` | `Spec => ImplementsIndex` (IndexMap) | the same |
| `IndexPromises`, `PromisesKept` | what `Index` promises (`IndexTypeOK`, `Rooted`, `Fresh`) holds of `IndexSpec`, and so of the indexer's table read by path | the second the same |
| `RemovalsAlwaysJustified` | `Spec => RemovalJustified` | the same and `IsRank(rank)` |
| `MirrorAlwaysAfterScan` | `Spec => []MirrorAfterScan` | the same two; every file can be opened and read, no directory is denied, time stamps are not 0 |
| `NamesAlwaysAfterScan` | `Spec => []NamesAfterScan` | `IsRank(rank)`; any INSERT of another scan may be lost |
| `NextScanUnmarked` | a scan that follows one whose cleanup was done begins with `"names"` in `tidy` | |
| `IndexerImplemented` | `SystemSpec => ImplementsIndexer` (System) | |
| `SystemTypeCorrect` | `SystemSpec => [](TypeOK /\ Indexing!TypeOK /\ Indexing!UniqueKeys)` | |
| `TablesAlwaysFaithful`, `TablesAlwaysFresh` | the same of `PathsFaithful` and `BlocksOwned`, of `DigestFresh` and `BlocksFresh` | `"silent" \notin FaultKinds` |
| `DeletionsAlwaysJustified`, `MirrorsAfterScans` | of `RemovalJustified` and `MirrorAfterScan` | as their likes above |
| `NamesAlwaysRepaired` | `SystemSpec => []NamesRepaired` | `IsRank(rank)` |
| `SystemIsIndex` | `SystemSpec` implements `Index` and keeps its promises | `"silent" \notin FaultKinds` |
| `NothingLeftBehind` | `SystemSpec => []NothingSurvives` | |
| `OneLateScan` | `SystemSpec => []AtMostOneLateScan` | |
| `RestBetweenScans` | `SystemSpec => ScansSpaced` | |
| `StaysApartAlways` | `CdcSpec => []StaysApart` | words form a group under `Add`, `Xor` is its own inverse, `Swap` is injective |
| `PiecesAlwaysMakeWhole` | `CdcSpec => []PiecesMakeWhole` | the same |
| `RowsAlwaysFaithful`, `SizeAndDigestAlwaysIdentify` | `DigestSpec => []RowsFaithful`, `[]SizeAndDigestIdentify` | |
| `AlwaysUndisturbed`, `SharingAlwaysExplained` | `StartupSpec => []StartsUndisturbed`, `[]SharingExplained` | |
| `AlwaysPrefix`, `NeverLocked`, `AlwaysThrough` | `ScriptSpec => []KeptIsPrefix`, `[]NoLockLeft`, `[]ReturnsThrough` | |
| `AlwaysRestored`, `AlwaysNoticed`, `BlocksWritten`, `EntriesWritten` | `StatementSpec => []ExceptionsRestored`, `[]OnlyInsertsFailUnnoticed`, `BlockWritten`, `EntryWritten` | |
| `RowInHandAlwaysKept` | `SharedSpec => []RowInHandKept` | |
| `StartupTypeCorrect` | types of `Startup` | |

`IndexPromises`, `PromisesKept`, `NamesAlwaysAfterScan`, `NextScanUnmarked`, what is said of `SystemSpec` beyond the properties of the run `system`,
`KeysUnique` and `StartupTypeCorrect` are not properties of a run. `IndexImplemented` carries what
`Index` promises over to what an observer of Indexer's database sees, and `PromisesKept` says so; `IndexerImplemented`
carries what Indexer's steps keep over to the scans of the whole system, and the theorems about `SystemSpec` in the table say what.

**The argument for the indexer** has seven layers, each an invariant that uses the ones before.

1. `TypeInv` = `TypeOK` and what is known at the control points. `TypeOK` alone is not
   inductive: that `parents[path]` is a rowid where it is used as `parent_id` needs that the stage
   `entry` is reached only with the parent known (`Control`), and that `blkNo` is a block number needs that no
   file outgrows `MaxBlocks` (`DataBound`). An abandoned scan must leave no stage behind.
2. `UniqueKeys`, from the fact that an INSERT makes a row only where `st_sel` found none (elsewhere it fails by the schema's
   UNIQUE, which leads to the UPDATE). It needs nothing of what the rows say, only that they have the two columns of the key
   (`Keyed`; `UniqueStep`), so that it survives lost INSERTs.
3. `Position`: while `read()` is inside, handle and path name the same directory, the level
   counts the stack, the bottom of the stack is the root, and every entry still to be
   returned lies in its directory. That `level_ = 1` means "at the root" is what `AdmitRoot` rests on.
4. `RowInv`: `PathsFaithful`, `MarkedUpward` and `BlocksOwned` together with what the scan holds on to. `PathsFaithful` is
   lost by a cleanup that deletes a parent and keeps its child; so it needs
   `MarkedUpward`. That needs each row inserted or touched to have a marked
   parent, hence `ParentsKnown`: every rowid in the map `parents` is still the marked row
   of its directory. `EntryKnown` says the same of `entry_id` during the reading of a file. The
   key lemma is `SelectedIsRow`: the row that `st_sel` finds by parent and name is the row of
   the path in hand, for parents are faithful and siblings differ in name.
5. `FreshInv`: `DigestFresh` and `BlocksFresh` together with what makes a stamp trustworthy. A row takes its stamp
   from a listing and its digest from data read later, so the invariant says what a listing is worth meanwhile. No
   row's stamp is ahead of its file (`Stamped`); nothing listed is ahead of the file or behind a row of it
   (`ListingsOld`), and each node is listed once (`ListedOnce`), or an older entry could follow a newer one. The row
   of the file being read has no digest and already the listed size (`RowInHand`), because only a changed stamp or
   size, or a missing digest, leads to reading at all (`ModifiedNotUpToDate`). While the file is what its entry says,
   what has been read is a beginning of its data and the block rows follow it (`DataInHand`). Every change of
   the tree bears a later stamp than all before it (lemma `ChangeStamps`), so a file changed during its read is never again as listed.
6. `ScanInv` follows the marks along the walk. `ReaderProofs` shows of the loop of `read()` that there is a set `D` of
   entries it has handed out (below); `Marked(D)` adds that each of them has a marked row by now, except the one in hand
   before its `update_entry`. With `ReadIsComplete`'s invariant, at the end every entry that was there throughout is in `D`
   (`AllMarked`), so what cleanup deletes was gone at some moment (`DeletedUnmet`): `RemovalsAlwaysJustified`.
7. `ScanMirrors` is the converse, for a scan in which nothing changes. What was listed is still so (`ListingsExact`),
   every mark is that of an entry in `D` if there was none at the start (`MarksReturned`; this is `tidy`), every marked row tells
   kind, time stamp and, once its entry is done, size and digest of its file (`MarkedRight`). A row that is up to date by its
   stamp must not be of the wrong kind: a path changes from file to directory only under a new stamp (`KindsStamped`), and
   rows of directories have no stamp (`StampsOfFiles`). Cleanup leaves the marked rows: `MirrorAlwaysAfterScan`. Its
   assumptions are the limits of the code: a file that cannot be read is passed over and its row keeps no digest, a directory
   that may not be opened ends the scan, and a stamp of 0 is taken for none.

That no INSERT is lost is needed: a lost one puts children under parent 0 (see above). `KeysUnique` does not need it, and
neither does `NamesAlwaysAfterScan`, the safe half of what `RunningMirrors` and `Converges` say in time: after lost INSERTs
nothing is known of the rows a scan finds: `PathsFaithful`, and with it `RowInv`, is false. Its invariant is `Walked(D)`, what
`ReaderProofs` knows of the walk, and, while `"names"` is in `tidy`, `Own(D)`: what the rows say by parent and name, never by the path they
were made for. The rows that the map `parents` has, and the one in hand, are filed under it (`ParentRows`, `HandRow`); each entry
handed out has such a row with the mark (`ReturnedRows`), and every marked row is one of these (`MarkedRows`). Cleanup then leaves a
table that is the directory, `Filed`, where with unique keys a search by parent and name finds each path's row (`FiledIsFound`; the recursive
search `RowAt` is had from `TreeRecursion`). `"names"` is given up by the scan that loses an INSERT, which is all that this needs. `NextScanUnmarked` (`Cleaned`: between
scans no row is marked, unless the process died or the cleanup failed) says when it is had: a second undisturbed scan has it from the first.

All of it is proved of `Steps`, `Spec` without its fairness, and so of the whole system too: `TrackerProofs` instantiates `IndexerProofs`
as `System` does `Indexer`, shows the two instances to be the same (`SameNext`, written out they are equal) and `SystemSpec` to
imply `Steps` of the second (`ScansSteps`, from `IndexerImplemented`). What a scan keeps is then kept wherever `run()`, `shutdown()`, the
deadline and the deaths of the process fall. `SystemAssumption` says of System's constants what `Indexer` assumes of its own.

**The argument for the reader**: `Chain` says of the stack with the path on top that each directory holds the next, down from the
root; `Owned` that the open handles are those of the stack and, inside the inner loop, the current one. That a directory on the
stack is not opened a second time, and so not closed too early, is what `Ranked` and the assumption that paths form a tree are for.

`visited` does not suffice for the two others, as it does not tell an entry that was passed over (a mask, the level) from one not yet
reached. The proofs follow the set `D` of the entries taken from a listing so far; it is no variable, but each step of the walk gives
the next one (`Taken`). `Once(D)`: a node is in `D`, or ahead in the listing of an open handle, or below a directory not opened
so far, and in one place only. `Explored(D)`: a lasting directory of `D` that the levels reach has all its
lasting entries in `D`, or it is the one about to be opened, or its handle is open and they are in `D` or ahead in its listing.
`Handed(D)`: what `D` holds and the reader returns was visited. When `read()` is through no handle is open, and by induction down the tree
`D` has all that lasted (`AllReturned`). `Depth` is a recursive function; what it returns, and the induction, are had from a least
counterexample (`LeastNat`, `FirstPath`), for theorems of induction are out of the provers' reach.

**The argument for the refinements.** `IndexMap` reads the table by path, which makes sense because a path has one row (`OneRow`: a
second one would have the same parent, which is the one row of its directory, and the same name, against `UniqueKeys`). Then an
INSERT is `Insert` (the parent's row is there: `RowInv`), an UPDATE is `Refresh`, touching a row is nothing, the recording of a
digest is `Record` (`FreshInv` says what the digest describes), and a cleanup, whole or half, is `Sweep` of a set that is closed downward
because the marked rows are closed upward. `System` implements `Indexer` because the owner takes the flag back only where the worker has
not seen it, and a worker that has left its loop has left its scan stopped (`FlagKept`).

**The argument for the tracker**: `Handshake` (a thread exactly while there is a worker; kept by the owner inside
`shutdown()`), `Lateness` (after a late scan the flag is still up, and a worker about to begin a
scan has begun none late) and `Rest`, also across the death of the process and its next start.

**The argument for the statements**: `Table` says what kind of thing each statement can find, `Sought` that what `st_sel` has
found is the row of the key its parameters hold, `WrittenSoFar` what has reached that row at each point of `update_entry`. Rows
that others insert meanwhile have other keys or are the one being sought, so that the INSERT fails and the SELECT after it finds theirs.

**The argument for the shared database**: `SharedInv` has the types of the tables and, of each tracker (`FirstInv`, `SecondInv`), the
types of its variables and `Kept`: a row is in hand only while `st_sel` keeps a snapshot, and while that is the last one, the row is still
there with the parent and name looked for. A tracker's own steps take the row from `st_sel`, keep it or let it go
(`StatementKeeps`, `FirstReturnInv`, `FirstStepInv`); those of the other leave the entries alone or make the snapshot stale
(`StatementSpares`, `FirstSpared`), and so do the deaths of its process, which end one snapshot and not both. The types come from `IndexerProofs`,
instantiated once for each tracker; that the indexers of `SharedDb` are those of the instances is `FirstSame` and `SecondSame` (written out
they are equal). `LastScanWins` is left to TLC: a proof would need `Own(D)` of tables that change between the statements of `update_entry`.

**The argument for the start-up**: `StartsUndisturbed` from what each recursion level of `mkdir` knows of the directories below it;
`SharingExplained` from `NamesMade` (a file's name is what `MakeName` returned for its tracker) and from what the loop of `Kept` keeps, letter by
letter, again by a least counterexample.

**The argument for the digests.** `StaysApart`: each line of mixing can be undone, so its folds are injective. `PiecesMakeWhole`:
`Midway` relates a context fed in pieces to one that gets them joined, block by block, for which the folds over blocks must be seen to
compose (`ChainUnique`). `RowsFaithful`: `Progress` says how far the loop over blocks has come, `RowsAre` that the rows
so far are the blocks of the text so far and `Tells` that size and digest give back a file that text mode leaves alone: the size
gives the number of blocks and the length of the last one, and the padding is what is beyond it (`CeilDivIs`, `PlainText`).

Only model-checked: all liveness properties (`ReadEnds`, `Converges`, `ShutdownReturns`, `KeepsScanning`, `RunningMirrors`, `AllRun`),
which are out of the prover's reach, though `MirrorAlwaysAfterScan` and `NamesAlwaysRepaired` say what the end of a scan has to
do with `Converges` and `RunningMirrors`; `LastScanWins`; and `TestVectors`, which is an evaluation.

## 5. What is not modelled

- `rand` (ISAAC): a template that nothing instantiates; `tests/rand_test` has its use commented out.
- `temp_path`, `temp_name`, `get_cwd`, `path2rel`: not used by the program, or by tests only. `mkdir`, `access` and `home_path`
  are in `Startup` and `Indexer`.
- `std_ext`, `locale_traits`: pure functions on text, which the models take as names. `scope_exit` appears as what the guards do.
- `sqlite3pp` beyond the program's uses: attach, backup, hooks, user functions, column access.
- SQLite, its extension header and the modern C++ wrapper: third-party code, 213 of the repository's 218 thousand lines. It
  appears as the environment: atomic statements, rowid allocation, snapshots, failures. The share of all lines that the
  modules cover is small for this reason alone.
- `main`, the QML window, the tests: no logic of their own. The digests that `cdc512_test` expects are checked.
- The branch of `read()` for systems other than Windows, which does not compile.

## 6. Plan

Done, in this order: `FileTree` and `Reader`; `Indexer`; `Tracker`; `Index` with `IndexMap`; `System`; `FileDigest`; `Startup`
and `SharedDb`; `Statement` and `Script`; `Cdc512`; the proofs of section 4; last, what is proved of `Indexer` carried over to `System`,
and the repair of what lost INSERTs leave.
Every safety property that a passing run checks is also a theorem, but for `LastScanWins` and `TestVectors`.
