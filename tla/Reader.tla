------------------------------- MODULE Reader -------------------------------
(***************************************************************************)
(* directory_reader::read: the traversal of a directory tree with one      *)
(* explicit stack of suspended FindFirstFile handles, calling manipulator_ *)
(* for every entry the mask admits.                                        *)
(*                                                                         *)
(* read() is one loop around an inner loop, so the model has one control   *)
(* point per place where it looks at the outside world:                    *)
(*   loop     the head of the outer loop (abort, open, pop or leave)       *)
(*   next     FindNextFileW, the condition of the inner loop               *)
(*   manip    inside manipulator_                                          *)
(*   descend  after a directory entry, where read() may go down            *)
(* Other programs change the tree between any two steps.                   *)
(***************************************************************************)
EXTENDS FileTree, FiniteSets, SequencesExt

CONSTANTS
    Null,             \* INVALID_HANDLE_VALUE; also "no value" elsewhere
    Recursive,        \* recursive_
    ListDirectories,  \* list_directories_
    MaxLevel,         \* max_level_
    Matching,         \* the entries whose name passes mask_ and exclude_
    Denied,           \* paths the program may not open
    FaultKinds,       \* the kinds of failure that may strike
    MaxFaults         \* bound on the number of failures

ASSUME ReaderAssumption ==
    /\ Null \notin Path
    /\ Recursive \in BOOLEAN
    /\ ListDirectories \in BOOLEAN
    /\ MaxLevel \in Nat
    /\ Matching \subseteq Node
    /\ Denied \subseteq Path
    /\ MaxFaults \in Nat

VARIABLES
    pc,       \* where read() is
    handle,   \* the current find handle, named by its directory, or Null
    path,     \* path_
    stack,    \* the suspended handles with their paths
    level,    \* level_
    ent,      \* the find data of the current entry
    abort,    \* abort_
    open,     \* the find handles that are open in the system
    finds,    \* finds[d]: the entries the handle of d has still to return
    end,      \* how the last read() ended
    faults,   \* failures left to strike
    (* history of the current read(), for the properties only *)
    visited,  \* the paths manipulator_ was called for
    gone,     \* the paths that were absent at some moment of the read
    quiet     \* nothing changed in the tree since the read began

readVars == <<pc, handle, path, stack, level, ent, abort, open, finds, end>>
historyVars == <<visited, gone, quiet>>
readerVars == <<treeVars, readVars, faults, historyVars>>

-----------------------------------------------------------------------------
FindData == [node : Node, kind : {"dir", "file"}, mtime : Nat, size : Nat]

NoFind == [node |-> Root, kind |-> "dir", mtime |-> 0, size |-> 0]

\* What FindFirstFileW and FindNextFileW will report of directory d.  The
\* system reads the listing ahead, so that it is as old as the handle.
Listing(d) ==
    {[node |-> n, kind |-> fs[n].kind, mtime |-> fs[n].mtime, size |-> Len(fs[n].data)]
        : n \in Children(d)}

Scanning == pc \in {"next", "manip", "descend"}

Calls(e) == e.node \in Matching /\ (e.kind = "dir" => ListDirectories)

\* Where read() goes on once the entry's manipulator_ call is over.
ReturnTo(e) == IF e.kind = "dir" THEN "descend" ELSE "next"

LevelWithoutRoot(s) == Len(s)   \* mutant: the root not counted
LevelOf(s) == Len(s) + 1

\* Whether read() goes down into the directory it has just met.
OneDeeper == Recursive /\ (MaxLevel = 0 \/ Len(stack) <= MaxLevel)     \* mutant: off by one
MayDescend == Recursive /\ (MaxLevel = 0 \/ Len(stack) < MaxLevel)

\* What the scope exits close when read() is left: the handles on the stack
\* and, inside the inner loop, the current one.
StackOnly == {s.handle : s \in ToSet(stack)}  \* mutant: no scope exit in the inner loop
ScopeExits == {s.handle : s \in ToSet(stack)} \cup (IF Scanning THEN {handle} ELSE {})

Strike(kind) ==
    /\ kind \in FaultKinds
    /\ faults > 0
    /\ faults' = faults - 1

-----------------------------------------------------------------------------
ReaderInit ==
    /\ TreeInit
    /\ pc = "idle" /\ end = "none"
    /\ handle = Null /\ path = Root /\ stack = <<>> /\ level = 0
    /\ ent = NoFind /\ abort = FALSE
    /\ open = {} /\ finds = [d \in Path |-> {}]
    /\ faults = MaxFaults
    /\ visited = {} /\ gone = {} /\ quiet = TRUE

BeginRead ==
    /\ pc' = "loop" /\ end' = "none"
    /\ handle' = Null /\ path' = Root /\ stack' = <<>> /\ abort' = FALSE
    /\ visited' = {} /\ gone' = {p \in Path : ~Present(p)} /\ quiet' = TRUE
    /\ UNCHANGED <<treeVars, level, ent, open, finds, faults>>

Begin == pc \in {"idle", "returned", "threw"} /\ BeginRead

\* Leaving read(), by return or by exception.
Leave(to, how) ==
    /\ pc' = to /\ end' = how
    /\ open' = open \ ScopeExits
    /\ stack' = <<>>
    /\ UNCHANGED <<handle, path, ent, abort, finds>>

LoopAbort ==
    /\ pc = "loop" /\ abort
    /\ Leave("returned", "aborted")
    /\ UNCHANGED <<treeVars, level, faults, historyVars>>

OpenDirectory ==
    /\ pc = "loop" /\ ~abort /\ handle = Null
    /\ fs[path].kind = "dir" /\ path \notin Denied
    /\ handle' = path /\ open' = open \cup {path}
    /\ finds' = [finds EXCEPT ![path] = Listing(path)]
    /\ level' = LevelOf(stack)
    /\ pc' = "next"
    /\ UNCHANGED <<treeVars, path, stack, ent, abort, end, faults, historyVars>>

\* ERROR_PATH_NOT_FOUND leaves read() without a word.
OpenGone ==
    /\ pc = "loop" /\ ~abort /\ handle = Null
    /\ ~Present(path)
    /\ level' = LevelOf(stack)
    /\ Leave("returned", "gone")
    /\ UNCHANGED <<treeVars, faults, historyVars>>

\* Any other error throws.
OpenFails ==
    /\ pc = "loop" /\ ~abort /\ handle = Null
    /\ \/ fs[path].kind = "file" /\ Leave("threw", "notdir")
       \/ fs[path].kind = "dir" /\ path \in Denied /\ Leave("threw", "denied")
    /\ level' = LevelOf(stack)
    /\ UNCHANGED <<treeVars, faults, historyVars>>

LoopDone ==
    /\ pc = "loop" /\ ~abort /\ handle # Null
    /\ stack = <<>>
    /\ Leave("returned", "done")
    /\ UNCHANGED <<treeVars, level, faults, historyVars>>

\* Mutant: the suspended directory is opened anew.
LoopReopen ==
    /\ pc = "loop" /\ ~abort /\ handle # Null
    /\ stack # <<>>
    /\ handle' = Null /\ path' = Last(stack).path
    /\ open' = open \ {Last(stack).handle}
    /\ stack' = Front(stack)
    /\ UNCHANGED <<treeVars, pc, level, ent, abort, finds, end, faults, historyVars>>

LoopPop ==
    /\ pc = "loop" /\ ~abort /\ handle # Null
    /\ stack # <<>>
    /\ handle' = Last(stack).handle /\ path' = Last(stack).path
    /\ stack' = Front(stack)
    /\ level' = LevelOf(Front(stack))
    /\ pc' = "next"
    /\ UNCHANGED <<treeVars, ent, abort, open, finds, end, faults, historyVars>>

NextEntry ==
    /\ pc = "next" /\ ~abort
    /\ \E e \in finds[handle] :
          /\ ent' = e
          /\ finds' = [finds EXCEPT ![handle] = @ \ {e}]
          /\ pc' = IF Calls(e) THEN "manip" ELSE ReturnTo(e)
    /\ UNCHANGED <<treeVars, handle, path, stack, level, abort, open, end, faults, historyVars>>

\* The end of a directory: the inner scope exit closes its handle.  handle
\* itself keeps the value, which tells the outer loop not to open.
CloseDirectory ==
    /\ pc' = "loop"
    /\ open' = open \ {handle}
    /\ UNCHANGED <<handle, path, stack, ent, abort, finds, end>>

NextEnd ==
    /\ pc = "next"
    /\ finds[handle] = {}
    /\ CloseDirectory
    /\ UNCHANGED <<treeVars, level, faults, historyVars>>

\* Breaking out on abort_ leaves GetLastError() at whatever an earlier call
\* set: only by luck is it ERROR_NO_MORE_FILES.
NextAborted ==
    /\ pc = "next" /\ abort
    /\ finds[handle] # {}
    /\ CloseDirectory \/ Leave("threw", "stale")
    /\ UNCHANGED <<treeVars, level, faults, historyVars>>

\* FindNextFileW fails.
NextError ==
    /\ pc = "next"
    /\ Strike("readdir")
    /\ Leave("threw", "readdir")
    /\ UNCHANGED <<treeVars, level, historyVars>>

Descend ==
    /\ pc = "descend"
    /\ MayDescend
    /\ stack' = Append(stack, [handle |-> handle, path |-> path])
    /\ path' = ent.node
    /\ handle' = Null
    /\ pc' = "loop"
    /\ UNCHANGED <<treeVars, level, ent, abort, open, finds, end, faults, historyVars>>

StayHere ==
    /\ pc = "descend"
    /\ ~MayDescend
    /\ pc' = "next"
    /\ UNCHANGED <<treeVars, handle, path, stack, level, ent, abort, open, finds, end, faults, historyVars>>

\* manipulator_ comes back.
ManipReturns ==
    /\ pc' = ReturnTo(ent)
    /\ UNCHANGED <<handle, path, stack, level, ent, open, finds, end>>

ManipThrows(how) ==
    /\ Leave("threw", how)
    /\ UNCHANGED level

\* Any manipulator: it may set abort_, and it may throw.
Manipulate ==
    /\ pc = "manip"
    /\ visited' = visited \cup {ent.node}
    /\ \/ abort' \in {abort, TRUE} /\ ManipReturns /\ UNCHANGED faults
       \/ Strike("manip") /\ ManipThrows("manip")
    /\ UNCHANGED <<treeVars, gone, quiet>>

ReaderLoop ==
    \/ LoopAbort \/ OpenDirectory \/ OpenGone \/ OpenFails \/ LoopDone \/ LoopPop
    \/ NextEntry \/ NextEnd \/ NextAborted \/ NextError \/ Descend \/ StayHere

\* Other programs, and what the history remembers of them.
TreeStep(held) ==
    /\ FsChange(held)
    /\ gone' = gone \cup {p \in Path : fs'[p].kind = "none"}
    /\ quiet' = FALSE
    /\ UNCHANGED visited

ReaderNext ==
    \/ Begin
    \/ ReaderLoop
    \/ Manipulate
    \/ TreeStep({}) /\ UNCHANGED <<readVars, faults>>

ReaderSpec ==
    ReaderInit /\ [][ReaderNext]_readerVars /\ WF_readerVars(ReaderLoop \/ Manipulate)

-----------------------------------------------------------------------------
\* How a read() can end; the last three are what the indexer adds.
Endings == {"none", "done", "gone", "aborted", "notdir", "denied", "stale", "readdir", "manip",
            "undefined", "database", "crashed"}

ReaderTypeOK ==
    /\ fs \in [Path -> Entry] /\ clock \in Nat
    /\ pc \in {"idle", "loop", "next", "manip", "descend", "returned", "threw"}
    /\ handle \in Path \cup {Null} /\ path \in Path
    /\ stack \in Seq([handle : Path, path : Path]) /\ level \in Nat
    /\ ent \in FindData \cup {NoFind} /\ abort \in BOOLEAN
    /\ open \subseteq Path /\ finds \in [Path -> SUBSET FindData]
    /\ end \in Endings /\ faults \in Nat
    /\ visited \subseteq Node /\ gone \subseteq Path /\ quiet \in BOOLEAN

\* A find handle is open exactly while read() can still reach it: none leaks
\* on a return, an abort or an exception, and the inner loop never asks a
\* closed one.
HandlesOwned ==
    /\ open = {s.handle : s \in ToSet(stack)} \cup (IF Scanning THEN {handle} ELSE {})
    /\ Scanning => \A i \in DOMAIN stack : stack[i].handle # handle

\* The directory in path_ is the one the current handle enumerates, the stack
\* holds its ancestors up to the root and level_ counts them.  The indexer's
\* parents map and its level_ > 1 test rely on all three.
StackIsAncestry ==
    /\ Scanning => handle = path /\ level = Len(stack) + 1
    /\ \A i \in DOMAIN stack : stack[i].handle = stack[i].path
    /\ (Scanning \/ pc = "loop") =>
          LET trail == Append([i \in DOMAIN stack |-> stack[i].path], path)
          IN  trail[1] = Root /\ \A i \in DOMAIN stack : Up[trail[i + 1]] = trail[i]

\* How many directories below the root's own level n is.
Depth[n \in Path] == IF n = Root THEN 0 ELSE 1 + Depth[Up[n]]

Expected(n) ==
    /\ n \in Matching
    /\ fs[n].kind = "dir" => ListDirectories
    /\ Depth[n] > 1 => Recursive /\ (MaxLevel = 0 \/ Depth[n] <= MaxLevel + 1)

\* A read() that ran to its end called the manipulator for every expected
\* entry that was there throughout, whatever other programs did meanwhile to
\* the rest of the tree, and for nothing below the level limit.
Complete ==
    pc = "returned" /\ end = "done" =>
        /\ \A n \in Node \ gone : Expected(n) => n \in visited
        /\ \A n \in visited : Depth[n] > 1 => MaxLevel = 0 \/ Depth[n] <= MaxLevel + 1

\* No path is handed to the manipulator twice in one read(): going back to a
\* suspended directory resumes its enumeration.
VisitOnce == [][pc = "manip" /\ pc' # "manip" => ent.node \notin visited]_readerVars

\* Every read() comes to an end, while the tree changes under it too.
ReadEnds == pc = "loop" ~> pc \in {"returned", "threw"}
=============================================================================
