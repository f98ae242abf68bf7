---------------------------- MODULE ReaderProofs ----------------------------
(***************************************************************************)
(* Theorems about modules FileTree and Reader, for every tree, mask, level *)
(* limit and manipulator, and every number of changes and failures.        *)
(***************************************************************************)
EXTENDS Reader, SequenceTheorems, FiniteSetTheorems, WellFoundedInduction, TLAPS

-----------------------------------------------------------------------------
(* Module FileTree: what other programs do keeps its type and stamps what  *)
(* it changes.                                                             *)

TreeType == fs \in [Path -> Entry] /\ clock \in Nat

LEMMA EntryTypes ==
    ASSUME NEW t \in Nat
    PROVE  /\ Nothing \in Entry /\ Directory(t) \in Entry
           /\ \A c \in Content : File(t, c) \in Entry
           /\ \A n \in Node : EntriesAt(n, t) \subseteq Entry
<1>1. Nothing \in Entry /\ Directory(t) \in Entry
  BY DEF Nothing, Directory, Entry
<1>2. ASSUME NEW c \in Content PROVE File(t, c) \in Entry
  BY <1>2, TreeAssumption DEF File, Entry
<1> QED
  BY <1>1, <1>2 DEF EntriesAt

LEMMA TreeTypeStep ==
    ASSUME TreeType, NEW held, FsChange(held)
    PROVE  TreeType'
<1>1. clock' \in Nat
  BY DEF TreeType, FsChange, CreateEntry, RewriteFile, RemoveEntry, Unmount, Mount, Tick
<1>2. /\ Nothing \in Entry /\ Directory(clock + 1) \in Entry
      /\ \A c \in Content : File(clock + 1, c) \in Entry
      /\ \A n \in Node : EntriesAt(n, clock + 1) \subseteq Entry
  BY EntryTypes DEF TreeType
<1>3. fs' \in [Path -> Entry]
  BY <1>2 DEF TreeType, FsChange, CreateEntry, RewriteFile, RemoveEntry, Unmount, Mount, Path
<1> QED
  BY <1>1, <1>3 DEF TreeType

\* Every change has a time stamp of its own, and what is not as it was is gone
\* or bears it.
LEMMA ChangeStamps ==
    ASSUME TreeType, NEW held, FsChange(held)
    PROVE  /\ clock' = clock + 1
           /\ \A q \in Path : fs'[q] = fs[q] \/ fs'[q] = Nothing \/ fs'[q].mtime = clock + 1
<1>1. clock' = clock + 1
  BY DEF FsChange, CreateEntry, RewriteFile, RemoveEntry, Unmount, Mount, Tick
<1>2. \A n \in Node : \A e \in EntriesAt(n, clock + 1) : e.mtime = clock + 1
  BY DEF EntriesAt, Directory, File
<1>3. ASSUME NEW n \in Node, CreateEntry(n)
      PROVE  \A q \in Path : fs'[q] = fs[q] \/ fs'[q].mtime = clock + 1
  BY <1>2, <1>3 DEF TreeType, CreateEntry
<1>4. ASSUME NEW n \in Node, RewriteFile(n)
      PROVE  \A q \in Path : fs'[q] = fs[q] \/ fs'[q].mtime = clock + 1
  BY <1>4 DEF TreeType, RewriteFile, File
<1>5. ASSUME NEW n \in Node, RemoveEntry(n, held)
      PROVE  \A q \in Path : fs'[q] = fs[q] \/ fs'[q] = Nothing
  BY <1>5 DEF TreeType, RemoveEntry
<1>6. CASE Unmount
  BY <1>1, <1>6 DEF Unmount
<1>7. ASSUME Mount
      PROVE  \A q \in Path : fs'[q] = fs[q] \/ fs'[q].mtime = clock + 1
  BY <1>7 DEF TreeType, Mount, Directory
<1> QED
  BY <1>1, <1>3, <1>4, <1>5, <1>6, <1>7 DEF FsChange

-----------------------------------------------------------------------------
(* The sequences that read() uses as a stack.                              *)

LEMMA FrontLast ==
    ASSUME NEW S, NEW s \in Seq(S), s # <<>>
    PROVE  /\ Front(s) \in Seq(S) /\ Len(Front(s)) = Len(s) - 1
           /\ \A i \in 1 .. Len(s) - 1 : Front(s)[i] = s[i]
           /\ Last(s) \in S /\ Last(s) = s[Len(s)]
           /\ Len(s) \in Nat \ {0}
<1>1. Len(s) \in Nat \ {0} /\ DOMAIN s = 1 .. Len(s)
  BY LenProperties, EmptySeq
<1>2. /\ SubSeq(s, 1, Len(s) - 1) \in Seq(S)
      /\ Len(SubSeq(s, 1, Len(s) - 1)) = Len(s) - 1
      /\ \A i \in 1 .. Len(s) - 1 : SubSeq(s, 1, Len(s) - 1)[i] = s[i]
  BY <1>1, SubSeqProperties
<1>3. s[Len(s)] \in S
  BY <1>1, ElementOfSeq
<1> QED
  BY <1>1, <1>2, <1>3 DEF Front, Last

-----------------------------------------------------------------------------
(* What FindNextFileW returns has its type.                                *)

LEMMA ListingType ==
    ASSUME TreeType, NEW d \in Path
    PROVE  /\ Listing(d) \subseteq FindData
           /\ \A e \in Listing(d) : Up[e.node] = d
<1>1. ASSUME NEW n \in Children(d)
      PROVE  [node |-> n, kind |-> fs[n].kind, mtime |-> fs[n].mtime, size |-> Len(fs[n].data)]
                \in FindData
  <2>1. n \in Node /\ fs[n] \in Entry /\ fs[n].kind # "none"
    BY <1>1 DEF Children, Present, TreeType, Path
  <2>2. Len(fs[n].data) \in Nat
    BY <2>1, LenProperties DEF Entry
  <2> QED
    BY <2>1, <2>2 DEF Entry, FindData
<1> QED
  BY <1>1 DEF Listing, Children

-----------------------------------------------------------------------------
(* Module Reader: types.                                                   *)

Frame == [handle : Path, path : Path]

\* What Leave does, whatever its arguments.
Left ==
    /\ pc' \in {"returned", "threw"} /\ end' \in Endings
    /\ stack' = <<>> /\ open' = open \ ScopeExits
    /\ UNCHANGED <<handle, path, ent, abort, finds>>

LEMMA LeftType ==
    ASSUME ReaderTypeOK, Left, level' \in Nat, faults' \in Nat,
           fs' = fs, clock' = clock, visited' = visited, gone' = gone, quiet' = quiet
    PROVE  ReaderTypeOK'
<1>1. stack' \in Seq([handle : Path, path : Path])
  BY EmptySeq DEF Left
<1>2. open' \subseteq Path
  BY DEF Left, ReaderTypeOK
<1> QED
  BY <1>1, <1>2 DEF Left, ReaderTypeOK

LEMMA ReaderLoopType ==
    ASSUME ReaderTypeOK, ReaderLoop, Scanning => handle \in Path
    PROVE  ReaderTypeOK'
<1> USE DEF treeVars, historyVars
<1>0. LevelOf(stack) \in Nat /\ level \in Nat /\ faults \in Nat
  BY LenProperties DEF LevelOf, ReaderTypeOK
<1>1. CASE LoopAbort
  <2>1. Left
    BY <1>1 DEF LoopAbort, Leave, Left, Endings
  <2> QED
    BY <1>0, <1>1, <2>1, LeftType DEF LoopAbort
<1>2. CASE OpenDirectory
  <2>1. Listing(path) \subseteq FindData
    BY ListingType DEF TreeType, ReaderTypeOK
  <2> QED
    BY <1>0, <1>2, <2>1 DEF OpenDirectory, ReaderTypeOK
<1>3. CASE OpenGone
  <2>1. Left
    BY <1>3 DEF OpenGone, Leave, Left, Endings
  <2> QED
    BY <1>0, <1>3, <2>1, LeftType DEF OpenGone
<1>4. CASE OpenFails
  <2>1. Left
    BY <1>4 DEF OpenFails, Leave, Left, Endings
  <2> QED
    BY <1>0, <1>4, <2>1, LeftType DEF OpenFails
<1>5. CASE LoopDone
  <2>1. Left
    BY <1>5 DEF LoopDone, Leave, Left, Endings
  <2> QED
    BY <1>0, <1>5, <2>1, LeftType DEF LoopDone
<1>6. CASE LoopPop
  <2>1. stack \in Seq(Frame) /\ stack # <<>>
    BY <1>6 DEF LoopPop, Frame, ReaderTypeOK
  <2>2. Front(stack) \in Seq(Frame) /\ Last(stack) \in Frame
    BY <2>1, FrontLast
  <2>3. LevelOf(Front(stack)) \in Nat
    BY <2>2, LenProperties DEF LevelOf
  <2>4. Last(stack).handle \in Path /\ Last(stack).path \in Path
    BY <2>2 DEF Frame
  <2> QED
    BY <1>6, <2>2, <2>3, <2>4 DEF LoopPop, Frame, ReaderTypeOK
<1>7. CASE NextEntry
  BY <1>7 DEF NextEntry, Scanning, ReturnTo, ReaderTypeOK
<1>8. CASE NextEnd
  BY <1>8 DEF NextEnd, CloseDirectory, ReaderTypeOK
<1>9. CASE NextAborted
  <2>1. CASE CloseDirectory
    BY <1>9, <2>1 DEF NextAborted, CloseDirectory, ReaderTypeOK
  <2>2. CASE Leave("threw", "stale")
    <3>1. Left
      BY <2>2 DEF Leave, Left, Endings
    <3> QED
      BY <1>0, <1>9, <3>1, LeftType DEF NextAborted
  <2> QED
    BY <1>9, <2>1, <2>2 DEF NextAborted
<1>10. CASE NextError
  <2>1. Left
    BY <1>10 DEF NextError, Leave, Left, Endings
  <2>2. faults' \in Nat
    BY <1>0, <1>10 DEF NextError, Strike
  <2> QED
    BY <1>0, <1>10, <2>1, <2>2, LeftType DEF NextError
<1>11. CASE Descend
  <2>1. [handle |-> handle, path |-> path] \in Frame
    BY <1>11 DEF Descend, Scanning, Frame, ReaderTypeOK
  <2>2. Append(stack, [handle |-> handle, path |-> path]) \in Seq(Frame)
    BY <2>1, AppendProperties DEF Frame, ReaderTypeOK
  <2> QED
    BY <1>11, <2>2 DEF Descend, Frame, FindData, NoFind, Path, ReaderTypeOK
<1>12. CASE StayHere
  BY <1>12 DEF StayHere, ReaderTypeOK
<1> QED
  BY <1>1, <1>2, <1>3, <1>4, <1>5, <1>6, <1>7, <1>8, <1>9, <1>10, <1>11, <1>12 DEF ReaderLoop

LEMMA EmptyLen == \A S : <<>> \in Seq(S) /\ Len(<<>>) = 0
<1> QED
  BY EmptySeq

\* A step that leaves read() where it is, but for pc and abort.
LEMMA ReaderTypeKept ==
    ASSUME ReaderTypeOK,
           pc' \in {"idle", "loop", "next", "manip", "descend", "returned", "threw"},
           abort' \in BOOLEAN, faults' \in Nat, end' \in Endings,
           fs' = fs, clock' = clock, handle' = handle, path' = path, stack' = stack,
           level' = level, ent' = ent, open' = open, finds' = finds,
           visited' = visited, gone' = gone, quiet' = quiet
    PROVE  ReaderTypeOK'
<1> QED
  BY DEF ReaderTypeOK

LEMMA StrikeType ==
    ASSUME faults \in Nat, NEW kind, Strike(kind)
    PROVE  faults' \in Nat
<1> QED
  BY DEF Strike

LEMMA ReaderLoopControl ==
    ASSUME ReaderTypeOK, ReaderLoop, Scanning => handle \in Path
    PROVE  /\ pc \in {"loop", "next", "descend"}
           /\ (Scanning => handle \in Path)'
           /\ fs' = fs
<1> USE DEF treeVars, Scanning
<1>1. CASE LoopAbort \/ LoopDone \/ OpenGone \/ OpenFails \/ NextError
  BY <1>1 DEF LoopAbort, LoopDone, OpenGone, OpenFails, NextError, Leave
<1>2. CASE OpenDirectory
  BY <1>2 DEF OpenDirectory, ReaderTypeOK
<1>3. CASE LoopPop
  <2>1. stack \in Seq(Frame) /\ stack # <<>>
    BY <1>3 DEF LoopPop, Frame, ReaderTypeOK
  <2>2. Last(stack) \in Frame
    BY <2>1, FrontLast
  <2>3. Last(stack).handle \in Path
    BY <2>2 DEF Frame
  <2> QED
    BY <1>3, <2>3 DEF LoopPop
<1>4. CASE NextEntry
  BY <1>4 DEF NextEntry
<1>5. CASE NextEnd \/ NextAborted
  BY <1>5 DEF NextEnd, NextAborted, CloseDirectory, Leave
<1>6. CASE Descend \/ StayHere
  BY <1>6 DEF Descend, StayHere
<1> QED
  BY <1>1, <1>2, <1>3, <1>4, <1>5, <1>6 DEF ReaderLoop

-----------------------------------------------------------------------------
(* Module Reader: where read() is.  The level and the handle must say what *)
(* directory path_ names, and an entry must lie in it.                     *)

InRead == Scanning \/ pc = "loop"

Position ==
    /\ Scanning => handle = path /\ level = Len(stack) + 1
    /\ \A i \in 1 .. Len(stack) : stack[i].handle = stack[i].path
    /\ InRead => IF Len(stack) = 0 THEN path = Root ELSE stack[1].path = Root
    /\ \A d \in Path : \A e \in finds[d] : Up[e.node] = d
    /\ pc = "manip" => ent \in FindData /\ Up[ent.node] = path

LEMMA LeftPosition ==
    ASSUME Position, Left
    PROVE  Position'
<1> QED
  BY EmptyLen DEF Position, Left, InRead, Scanning

LEMMA ReaderLoopPosition ==
    ASSUME ReaderTypeOK, Position, ReaderLoop
    PROVE  Position'
<1> USE DEF InRead, Scanning
<1>1. CASE LoopAbort \/ LoopDone \/ OpenGone \/ OpenFails \/ NextError
  <2>1. Left
    BY <1>1 DEF LoopAbort, LoopDone, OpenGone, OpenFails, NextError, Leave, Left, Endings
  <2> QED
    BY <2>1, LeftPosition
<1>2. CASE OpenDirectory
  <2>1. \A e \in Listing(path) : Up[e.node] = path
    BY ListingType DEF ReaderTypeOK, TreeType
  <2>2. \A d \in Path : \A e \in finds'[d] : Up[e.node] = d
    BY <1>2, <2>1 DEF OpenDirectory, Position, ReaderTypeOK
  <2> QED
    BY <1>2, <2>2 DEF OpenDirectory, Position, LevelOf
<1>3. CASE LoopPop
  <2>1. stack \in Seq(Frame) /\ stack # <<>>
    BY <1>3 DEF LoopPop, Frame, ReaderTypeOK
  <2>2. /\ Len(stack) \in Nat \ {0} /\ Len(Front(stack)) = Len(stack) - 1
        /\ \A i \in 1 .. Len(stack) - 1 : Front(stack)[i] = stack[i]
        /\ Last(stack) = stack[Len(stack)]
    BY <2>1, FrontLast
  <2>3. stack[Len(stack)].handle = stack[Len(stack)].path
    BY <2>2 DEF Position
  <2>4. handle' = path' /\ level' = Len(stack') + 1
    BY <1>3, <2>2, <2>3 DEF LoopPop, LevelOf
  <2>5. \A i \in 1 .. Len(stack') : stack'[i].handle = stack'[i].path
    BY <1>3, <2>2 DEF LoopPop, Position
  <2>6. IF Len(stack') = 0 THEN path' = Root ELSE stack'[1].path = Root
    BY <1>3, <2>2 DEF LoopPop, Position
  <2> QED
    BY <1>3, <2>4, <2>5, <2>6 DEF LoopPop, Position
<1>4. CASE NextEntry
  <2>1. PICK e \in finds[handle] :
            /\ ent' = e /\ finds' = [finds EXCEPT ![handle] = @ \ {e}]
            /\ pc' = IF Calls(e) THEN "manip" ELSE ReturnTo(e)
    BY <1>4 DEF NextEntry
  <2>2. handle = path /\ path \in Path
    BY <1>4 DEF NextEntry, Position, ReaderTypeOK
  <2>3. e \in FindData /\ Up[e.node] = path
    BY <2>1, <2>2 DEF Position, ReaderTypeOK
  <2>4. \A d \in Path : \A f \in finds'[d] : Up[f.node] = d
    BY <2>1, <2>2 DEF Position, ReaderTypeOK
  <2> QED
    BY <1>4, <2>1, <2>3, <2>4 DEF NextEntry, Position, ReturnTo
<1>5. CASE NextEnd
  BY <1>5 DEF NextEnd, CloseDirectory, Position
<1>6. CASE NextAborted
  <2>1. CASE CloseDirectory
    BY <1>6, <2>1 DEF NextAborted, CloseDirectory, Position
  <2>2. CASE Leave("threw", "stale")
    <3>1. Left
      BY <2>2 DEF Leave, Left, Endings
    <3> QED
      BY <3>1, LeftPosition
  <2> QED
    BY <1>6, <2>1, <2>2 DEF NextAborted
<1>7. CASE Descend
  <2> DEFINE top == [handle |-> handle, path |-> path]
  <2>1. handle = path /\ path \in Path
    BY <1>7 DEF Descend, Position, ReaderTypeOK
  <2>2. top \in Frame /\ stack \in Seq(Frame)
    BY <2>1 DEF Frame, ReaderTypeOK
  <2>3. Len(stack) \in Nat
    BY <2>2, LenProperties
  <2>4. /\ Len(stack') = Len(stack) + 1 /\ stack'[Len(stack) + 1] = top
        /\ \A i \in 1 .. Len(stack) : stack'[i] = stack[i]
    <3> HIDE DEF top
    <3>1. stack' = Append(stack, top)
      BY <1>7 DEF Descend, top
    <3> QED
      BY <2>2, <3>1, AppendProperties
  <2>5. \A i \in 1 .. Len(stack') : stack'[i].handle = stack'[i].path
    <3>1. ASSUME NEW i \in 1 .. Len(stack) + 1
          PROVE  stack'[i].handle = stack'[i].path
      <4>1. CASE i = Len(stack) + 1
        BY <2>1, <2>4, <4>1
      <4>2. CASE i \in 1 .. Len(stack)
        BY <2>4, <4>2 DEF Position
      <4> QED
        BY <2>3, <4>1, <4>2
    <3> QED
      BY <2>4, <3>1
  <2>6. Len(stack') # 0 /\ stack'[1].path = Root
    <3>1. CASE Len(stack) = 0
      BY <1>7, <2>4, <3>1 DEF Descend, Position
    <3>2. CASE Len(stack) # 0
      BY <1>7, <2>3, <2>4, <3>2 DEF Descend, Position
    <3> QED
      BY <2>3, <3>1, <3>2
  <2> QED
    BY <1>7, <2>5, <2>6 DEF Descend, Position
<1>8. CASE StayHere
  BY <1>8 DEF StayHere, Position
<1> QED
  BY <1>1, <1>2, <1>3, <1>4, <1>5, <1>6, <1>7, <1>8 DEF ReaderLoop

\* All that a step can do to read(), whatever the manipulator is and whoever
\* takes it: nothing, or a step of its loop, or the manipulator returns to it,
\* or it is left, or begins; the last two are cleanup_entries and a crash.
ReadStep ==
    \/ ReaderLoop
    \/ UNCHANGED readVars
    \/ pc = "manip" /\ ManipReturns
    \/ Left
    \/ pc \in {"idle", "returned", "threw"} /\ BeginRead
    \/ /\ pc = "returned" /\ pc' \in {"idle", "threw"}
       /\ UNCHANGED <<handle, path, stack, level, ent, open, finds>>
    \/ pc' = "idle" /\ stack' = <<>> /\ open' = {} /\ finds' = finds

LEMMA PositionStep ==
    ASSUME ReaderTypeOK, Position, ReadStep
    PROVE  Position'
<1>1. CASE ReaderLoop
  BY <1>1, ReaderLoopPosition
<1>2. CASE UNCHANGED readVars
  BY <1>2 DEF readVars, Position, InRead, Scanning
<1>3. CASE pc = "manip" /\ ManipReturns
  BY <1>3 DEF ManipReturns, ReturnTo, Position, InRead, Scanning
<1>4. CASE Left
  BY <1>4, LeftPosition
<1>5. CASE BeginRead
  BY <1>5, EmptyLen DEF BeginRead, Position, InRead, Scanning
<1>6. CASE /\ pc = "returned" /\ pc' \in {"idle", "threw"}
           /\ UNCHANGED <<handle, path, stack, level, ent, open, finds>>
  BY <1>6 DEF Position, InRead, Scanning
<1>7. CASE pc' = "idle" /\ stack' = <<>> /\ open' = {} /\ finds' = finds
  BY <1>7, EmptyLen DEF Position, InRead, Scanning
<1> QED
  BY <1>1, <1>2, <1>3, <1>4, <1>5, <1>6, <1>7 DEF ReadStep

-----------------------------------------------------------------------------
(* Module Reader: the stack.  It leads from the root down to path_.        *)

Chain ==
    /\ ~InRead => stack = <<>>
    /\ InRead => \A i \in 2 .. Len(stack) : Up[stack[i].path] = stack[i - 1].path
    /\ InRead /\ Len(stack) # 0 => Up[path] = stack[Len(stack)].path
    /\ pc = "descend" => ent \in FindData /\ Up[ent.node] = path

\* What is on the stack.
LEMMA Frames ==
    ASSUME ReaderTypeOK
    PROVE  /\ Len(stack) \in Nat /\ DOMAIN stack = 1 .. Len(stack)
           /\ \A i \in 1 .. Len(stack) : stack[i].path \in Path /\ stack[i].handle \in Path
<1>1. stack \in Seq(Frame)
  BY DEF ReaderTypeOK, Frame
<1>2. Len(stack) \in Nat /\ DOMAIN stack = 1 .. Len(stack)
  BY <1>1, LenProperties
<1>3. \A i \in 1 .. Len(stack) : stack[i] \in Frame
  BY <1>1, ElementOfSeq
<1> QED
  BY <1>2, <1>3 DEF Frame

LEMMA Popped ==
    ASSUME ReaderTypeOK, LoopPop
    PROVE  /\ Len(stack) \in Nat \ {0} /\ Len(stack') = Len(stack) - 1
           /\ \A i \in 1 .. Len(stack) - 1 : stack'[i] = stack[i]
           /\ path' = stack[Len(stack)].path /\ handle' = stack[Len(stack)].handle
           /\ pc = "loop" /\ pc' = "next" /\ open' = open
<1>1. stack \in Seq(Frame) /\ stack # <<>>
  BY DEF LoopPop, Frame, ReaderTypeOK
<1> QED
  BY <1>1, FrontLast DEF LoopPop

LEMMA Pushed ==
    ASSUME ReaderTypeOK, Position, Descend
    PROVE  /\ Len(stack') = Len(stack) + 1
           /\ stack'[Len(stack) + 1].path = path /\ stack'[Len(stack) + 1].handle = handle
           /\ \A i \in 1 .. Len(stack) : stack'[i] = stack[i]
           /\ path' = ent.node
           /\ pc = "descend" /\ pc' = "loop" /\ open' = open
<1> DEFINE top == [handle |-> handle, path |-> path]
<1>1. top.path = path /\ top.handle = handle
  OBVIOUS
<1>2. top \in Frame /\ stack \in Seq(Frame)
  BY DEF Descend, Position, Scanning, Frame, ReaderTypeOK
<1>3. stack' = Append(stack, top)
  BY DEF Descend
<1> HIDE DEF top
<1>4. /\ Len(stack') = Len(stack) + 1 /\ stack'[Len(stack) + 1] = top
      /\ \A i \in 1 .. Len(stack) : stack'[i] = stack[i]
  BY <1>2, <1>3, AppendProperties
<1> QED
  BY <1>1, <1>4 DEF Descend

\* A step of the inner loop that stays in its directory.
LEMMA InnerStep ==
    ASSUME ReaderTypeOK, Position, Chain, NextEntry \/ StayHere
    PROVE  /\ Chain'
           /\ UNCHANGED <<handle, path, stack, open>> /\ Scanning /\ Scanning'
<1> USE DEF InRead, Scanning
<1>1. CASE NextEntry
  <2>1. PICK e \in finds[handle] :
            ent' = e /\ pc' = IF Calls(e) THEN "manip" ELSE ReturnTo(e)
    BY <1>1 DEF NextEntry
  <2>2. handle = path /\ path \in Path
    BY <1>1 DEF NextEntry, Position, ReaderTypeOK
  <2>3. e \in FindData /\ Up[e.node] = path
    BY <2>1, <2>2 DEF Position, ReaderTypeOK
  <2> QED
    BY <1>1, <2>1, <2>3 DEF NextEntry, Chain, ReturnTo
<1>2. CASE StayHere
  BY <1>2 DEF StayHere, Chain
<1> QED
  BY <1>1, <1>2

\* What the steps of the loop do to the stack and the open handles.
LEMMA LoopCases ==
    ASSUME ReaderLoop
    PROVE  \/ Left
           \/ OpenDirectory \/ LoopPop \/ Descend
           \/ NextEntry \/ StayHere
           \/ pc = "next" /\ CloseDirectory
<1>1. CASE LoopAbort \/ LoopDone \/ OpenGone \/ OpenFails \/ NextError
  BY <1>1 DEF LoopAbort, LoopDone, OpenGone, OpenFails, NextError, Leave, Left, Endings
<1>2. CASE NextEnd
  BY <1>2 DEF NextEnd
<1>3. CASE NextAborted
  BY <1>3 DEF NextAborted, Leave, Left, Endings
<1> QED
  BY <1>1, <1>2, <1>3 DEF ReaderLoop

LEMMA ChainStep ==
    ASSUME ReaderTypeOK, Position, Chain, ReadStep
    PROVE  Chain'
<1> USE DEF InRead, Scanning
<1>1. CASE Left
  BY <1>1 DEF Left, Chain
<1>2. CASE OpenDirectory
  BY <1>2 DEF OpenDirectory, Chain
<1>3. CASE LoopPop
  <2>1. \A i \in 2 .. Len(stack) - 1 : Up[stack'[i].path] = stack'[i - 1].path
    BY <1>3, Popped DEF Chain
  <2>2. Len(stack) >= 2 => Up[path'] = stack'[Len(stack) - 1].path
    BY <1>3, Popped DEF Chain
  <2> QED
    BY <1>3, <2>1, <2>2, Popped DEF Chain
<1>4. CASE Descend
  <2>1. Len(stack) \in Nat
    BY Frames
  <2>2. \A i \in 2 .. Len(stack) + 1 : Up[stack'[i].path] = stack'[i - 1].path
    <3>1. ASSUME NEW i \in 2 .. Len(stack)
          PROVE  Up[stack'[i].path] = stack'[i - 1].path
      BY <1>4, <2>1, <3>1, Pushed DEF Chain
    <3>2. Len(stack) # 0 => Up[stack'[Len(stack) + 1].path] = stack'[Len(stack)].path
      BY <1>4, <2>1, Pushed DEF Chain
    <3> QED
      BY <2>1, <3>1, <3>2
  <2> QED
    BY <1>4, <2>1, <2>2, Pushed DEF Chain
<1>5. CASE NextEntry \/ StayHere
  BY <1>5, InnerStep
<1>6. CASE pc = "next" /\ CloseDirectory
  BY <1>6 DEF CloseDirectory, Chain
<1>7. CASE UNCHANGED readVars
  BY <1>7 DEF readVars, Chain
<1>8. CASE pc = "manip" /\ ManipReturns
  BY <1>8 DEF ManipReturns, ReturnTo, Chain, Position
<1>9. CASE pc \in {"idle", "returned", "threw"} /\ BeginRead
  BY <1>9, EmptyLen DEF BeginRead, Chain
<1>10. CASE /\ pc = "returned" /\ pc' \in {"idle", "threw"}
            /\ UNCHANGED <<handle, path, stack, level, ent, open, finds>>
  BY <1>10 DEF Chain
<1>11. CASE pc' = "idle" /\ stack' = <<>> /\ open' = {} /\ finds' = finds
  BY <1>11 DEF Chain
<1> QED
  BY <1>1, <1>2, <1>3, <1>4, <1>5, <1>6, <1>7, <1>8, <1>9, <1>10, <1>11, LoopCases DEF ReadStep

LEMMA ChainIsAncestry ==
    ASSUME ReaderTypeOK, Position, Chain
    PROVE  StackIsAncestry
<1>1. Len(stack) \in Nat /\ DOMAIN stack = 1 .. Len(stack)
  BY Frames
<1>2. ASSUME InRead
      PROVE  LET trail == Append([i \in DOMAIN stack |-> stack[i].path], path)
             IN  trail[1] = Root /\ \A i \in DOMAIN stack : Up[trail[i + 1]] = trail[i]
  <2> DEFINE above == [i \in 1 .. Len(stack) |-> stack[i].path]
             trail == Append(above, path)
  <2>1. above \in Seq(Path) /\ Len(above) = Len(stack) /\ path \in Path
    <3>1. above \in [1 .. Len(stack) -> Path]
      BY Frames
    <3> HIDE DEF above
    <3> QED
      BY <1>1, <3>1, SeqDef, LenProperties DEF ReaderTypeOK
  <2>2. \A i \in 1 .. Len(stack) : above[i] = stack[i].path
    OBVIOUS
  <2> HIDE DEF above
  <2>3. trail[Len(stack) + 1] = path /\ \A i \in 1 .. Len(stack) : trail[i] = above[i]
    BY <2>1, AppendProperties
  <2> HIDE DEF trail
  <2>4. trail[1] = Root
    BY <1>1, <1>2, <2>2, <2>3 DEF Position
  <2>5. ASSUME NEW i \in 1 .. Len(stack) PROVE Up[trail[i + 1]] = trail[i]
    <3>1. CASE i = Len(stack)
      BY <1>1, <1>2, <2>2, <2>3, <3>1 DEF Chain
    <3>2. CASE i + 1 \in 2 .. Len(stack)
      BY <1>1, <1>2, <2>2, <2>3, <3>2 DEF Chain
    <3>3. i = Len(stack) \/ i + 1 \in 2 .. Len(stack)
      <4>1. Len(stack) \in Nat
        BY Frames
      <4> QED
        BY <4>1
    <3> QED
      BY <3>1, <3>2, <3>3
  <2> QED
    BY <1>1, <2>4, <2>5 DEF trail, above
<1> QED
  BY <1>1, <1>2 DEF StackIsAncestry, Position, InRead

-----------------------------------------------------------------------------
(* Module Reader: the handles.  rank numbers the paths so that a directory *)
(* comes before what it holds; no suspended handle is then the current one.*)

Ranked(rank) ==
    InRead =>
        /\ \A i, j \in 1 .. Len(stack) : i < j => rank[stack[i].path] < rank[stack[j].path]
        /\ \A i \in 1 .. Len(stack) : rank[stack[i].path] < rank[path]

Suspended == {stack[i].handle : i \in 1 .. Len(stack)}

Owned == open = Suspended \cup (IF Scanning THEN {handle} ELSE {})

IsRank(rank) ==
    /\ rank \in [Path -> Nat]
    /\ \A n \in Node : rank[Up[n]] < rank[n]

LEMMA RankedStep ==
    ASSUME NEW rank, IsRank(rank), ReaderTypeOK, Position, Chain, Ranked(rank), ReadStep
    PROVE  Ranked(rank)'
<1> USE DEF InRead, Scanning
<1>1. CASE Left
  BY <1>1 DEF Left, Ranked
<1>2. CASE OpenDirectory
  BY <1>2 DEF OpenDirectory, Ranked
<1>3. CASE LoopPop
  BY <1>3, Popped DEF Ranked
<1>4. CASE Descend
  <2>1. Len(stack) \in Nat /\ \A i \in 1 .. Len(stack) : rank[stack[i].path] \in Nat
    BY Frames DEF IsRank
  <2>2. rank[path] < rank[path'] /\ rank[path] \in Nat /\ rank[path'] \in Nat
    BY <1>4, Pushed DEF Chain, IsRank, FindData, Path, ReaderTypeOK
  <2>3. \A i \in 1 .. Len(stack) : rank[stack'[i].path] < rank[path]
    BY <1>4, Pushed DEF Ranked
  <2>4. stack'[Len(stack) + 1].path = path
    BY <1>4, Pushed
  <2>5. \A i, j \in 1 .. Len(stack) : i < j => rank[stack'[i].path] < rank[stack'[j].path]
    BY <1>4, Pushed DEF Ranked
  <2>6. \A i, j \in 1 .. Len(stack) + 1 : i < j => rank[stack'[i].path] < rank[stack'[j].path]
    <3>1. ASSUME NEW i \in 1 .. Len(stack) + 1, NEW j \in 1 .. Len(stack) + 1, i < j
          PROVE  rank[stack'[i].path] < rank[stack'[j].path]
      <4>1. i \in 1 .. Len(stack) /\ (j \in 1 .. Len(stack) \/ j = Len(stack) + 1)
        BY <2>1, <3>1
      <4> QED
        BY <2>3, <2>4, <2>5, <3>1, <4>1
    <3> QED
      BY <3>1
  <2>7. \A i \in 1 .. Len(stack) + 1 : rank[stack'[i].path] < rank[path']
    <3>1. ASSUME NEW i \in 1 .. Len(stack) PROVE rank[stack'[i].path] < rank[path']
      <4>1. rank[stack'[i].path] \in Nat
        BY <1>4, <2>1, Pushed
      <4> QED
        BY <2>2, <2>3, <4>1
    <3> QED
      BY <2>1, <2>2, <2>4, <3>1
  <2> QED
    BY <1>4, <2>6, <2>7, Pushed DEF Ranked
<1>5. CASE NextEntry \/ StayHere
  BY <1>5, InnerStep DEF Ranked
<1>6. CASE pc = "next" /\ CloseDirectory
  BY <1>6 DEF CloseDirectory, Ranked
<1>7. CASE UNCHANGED readVars
  BY <1>7 DEF readVars, Ranked
<1>8. CASE pc = "manip" /\ ManipReturns
  BY <1>8 DEF ManipReturns, ReturnTo, Ranked
<1>9. CASE pc \in {"idle", "returned", "threw"} /\ BeginRead
  BY <1>9, EmptyLen DEF BeginRead, Ranked
<1>10. CASE /\ pc = "returned" /\ pc' \in {"idle", "threw"}
            /\ UNCHANGED <<handle, path, stack, level, ent, open, finds>>
  BY <1>10 DEF Ranked
<1>11. CASE pc' = "idle" /\ stack' = <<>> /\ open' = {} /\ finds' = finds
  BY <1>11 DEF Ranked
<1> QED
  BY <1>1, <1>2, <1>3, <1>4, <1>5, <1>6, <1>7, <1>8, <1>9, <1>10, <1>11, LoopCases DEF ReadStep

LEMMA OnStack ==
    ASSUME ReaderTypeOK
    PROVE  {s.handle : s \in ToSet(stack)} = Suspended
BY Frames DEF ToSet, Suspended

\* No suspended handle is the current one.
LEMMA NotSuspended ==
    ASSUME NEW rank, IsRank(rank), ReaderTypeOK, Position, Ranked(rank), Scanning
    PROVE  handle \notin Suspended
<1>1. ASSUME NEW i \in 1 .. Len(stack) PROVE stack[i].handle # handle
  <2>1. stack[i].handle = stack[i].path /\ handle = path
    BY DEF Position
  <2>2. rank[stack[i].path] < rank[path] /\ rank[path] \in Nat
    BY DEF Ranked, InRead, IsRank, ReaderTypeOK
  <2> QED
    BY <2>1, <2>2
<1> QED
  BY <1>1 DEF Suspended

LEMMA OwnedStep ==
    ASSUME NEW rank, IsRank(rank), ReaderTypeOK, Position, Chain, Ranked(rank), Owned, ReadStep
    PROVE  Owned'
<1> USE DEF Scanning
<1>0. stack' = <<>> => Suspended' = {}
  BY EmptyLen DEF Suspended
<1>1. CASE Left
  BY <1>0, <1>1, OnStack DEF Left, ScopeExits, Owned
<1>2. CASE OpenDirectory
  BY <1>2 DEF OpenDirectory, Owned, Suspended
<1>3. CASE LoopPop
  <2>1. Suspended = Suspended' \cup {handle'}
    BY <1>3, Popped DEF Suspended
  <2> QED
    BY <1>3, <2>1, Popped DEF Owned
<1>4. CASE Descend
  <2>1. Len(stack) \in Nat
    BY Frames
  <2>2. Suspended' = Suspended \cup {handle}
    BY <1>4, <2>1, Pushed DEF Suspended
  <2> QED
    BY <1>4, <2>2, Pushed DEF Owned
<1>5. CASE NextEntry \/ StayHere
  BY <1>5, InnerStep DEF Owned, Suspended
<1>6. CASE pc = "next" /\ CloseDirectory
  <2>1. handle \notin Suspended
    BY <1>6, NotSuspended
  <2> QED
    BY <1>6, <2>1 DEF CloseDirectory, Owned, Suspended
<1>7. CASE UNCHANGED readVars
  BY <1>7 DEF readVars, Owned, Suspended
<1>8. CASE pc = "manip" /\ ManipReturns
  BY <1>8 DEF ManipReturns, ReturnTo, Owned, Suspended
<1>9. CASE pc \in {"idle", "returned", "threw"} /\ BeginRead
  <2>1. Suspended = {}
    BY <1>9, EmptyLen DEF Chain, InRead, Suspended
  <2> QED
    BY <1>0, <1>9, <2>1 DEF BeginRead, Owned
<1>10. CASE /\ pc = "returned" /\ pc' \in {"idle", "threw"}
            /\ UNCHANGED <<handle, path, stack, level, ent, open, finds>>
  BY <1>10 DEF Owned, Suspended
<1>11. CASE pc' = "idle" /\ stack' = <<>> /\ open' = {} /\ finds' = finds
  BY <1>0, <1>11 DEF Owned
<1> QED
  BY <1>1, <1>2, <1>3, <1>4, <1>5, <1>6, <1>7, <1>8, <1>9, <1>10, <1>11, LoopCases DEF ReadStep

LEMMA OwnedIsHandlesOwned ==
    ASSUME NEW rank, IsRank(rank), ReaderTypeOK, Position, Ranked(rank), Owned
    PROVE  HandlesOwned
<1>1. open = {s.handle : s \in ToSet(stack)} \cup (IF Scanning THEN {handle} ELSE {})
  BY OnStack DEF Owned
<1>2. Scanning => \A i \in DOMAIN stack : stack[i].handle # handle
  BY NotSuspended, Frames DEF Suspended
<1> QED
  BY <1>1, <1>2 DEF HandlesOwned

-----------------------------------------------------------------------------
(* Module Reader by itself: any mask, level limit and manipulator.  None   *)
(* of this cites IndexerAssumption.                                        *)

ReaderInv ==
    /\ ReaderTypeOK /\ (Scanning => handle \in Path)
    /\ Position /\ Chain

LEMMA ReaderInvInit ==
    ASSUME ReaderInit
    PROVE  ReaderInv /\ Owned /\ \A rank : Ranked(rank)
<1>1. fs \in [Path -> Entry] /\ clock \in Nat
  BY EntryTypes, TreeAssumption DEF ReaderInit, TreeInit
<1>2. ReaderTypeOK
  BY <1>1, EmptyLen, ReaderAssumption DEF ReaderInit, ReaderTypeOK, Path, Endings
<1> QED
  BY <1>2, EmptyLen
     DEF ReaderInit, ReaderInv, Position, Chain, Owned, Ranked, InRead, Scanning, Suspended

LEMMA ReaderReadStep ==
    ASSUME [ReaderNext]_readerVars
    PROVE  ReadStep
<1>1. CASE Manipulate
  BY <1>1 DEF Manipulate, ManipThrows, Leave, Left, Endings, ReadStep
<1>2. CASE Begin \/ ReaderLoop
  BY <1>2 DEF Begin, ReadStep
<1>3. CASE UNCHANGED readVars
  BY <1>3 DEF ReadStep
<1> QED
  BY <1>1, <1>2, <1>3 DEF ReaderNext, readerVars

LEMMA ReaderTypeStep ==
    ASSUME ReaderTypeOK, Scanning => handle \in Path, Position, [ReaderNext]_readerVars
    PROVE  ReaderTypeOK' /\ (Scanning => handle \in Path)'
<1> USE DEF Scanning
<1>1. CASE ReaderLoop
  BY <1>1, ReaderLoopType, ReaderLoopControl
<1>2. CASE Begin
  BY <1>2, EmptyLen DEF Begin, BeginRead, treeVars, ReaderTypeOK, Path, Endings
<1>3. CASE Manipulate
  <2>1. visited' \subseteq Node
    BY <1>3 DEF Manipulate, Position, ReaderTypeOK, FindData
  <2>2. faults' \in Nat
    <3>1. faults \in Nat /\ (faults' = faults \/ Strike("manip"))
      BY <1>3 DEF Manipulate, ReaderTypeOK
    <3> QED
      BY <3>1, StrikeType
  <2>3. abort' \in BOOLEAN
    <3>1. abort' \in {abort, TRUE}
      BY <1>3 DEF Manipulate, ManipThrows, Leave
    <3> QED
      BY <3>1, Zenon DEF ReaderTypeOK
  <2>4. CASE ManipReturns
    BY <1>3, <2>1, <2>2, <2>3, <2>4 DEF Manipulate, ManipReturns, ReturnTo, treeVars, ReaderTypeOK
  <2>5. CASE ManipThrows("manip")
    BY <1>3, <2>1, <2>2, <2>3, <2>5, EmptyLen
       DEF Manipulate, ManipThrows, Leave, treeVars, ReaderTypeOK, Endings
  <2> QED
    BY <1>3, <2>4, <2>5 DEF Manipulate
<1>4. CASE TreeStep({}) /\ UNCHANGED <<readVars, faults>>
  <2>1. TreeType'
    BY <1>4, TreeTypeStep DEF TreeStep, ReaderTypeOK, TreeType
  <2> QED
    BY <1>4, <2>1 DEF TreeStep, TreeType, readVars, ReaderTypeOK
<1>5. CASE UNCHANGED readerVars
  BY <1>5 DEF readerVars, readVars, treeVars, historyVars, ReaderTypeOK
<1> QED
  BY <1>1, <1>2, <1>3, <1>4, <1>5 DEF ReaderNext

LEMMA ReaderInvariant == ReaderSpec => []ReaderInv
<1>1. ReaderInit => ReaderInv
  BY ReaderInvInit
<1>2. ReaderInv /\ [ReaderNext]_readerVars => ReaderInv'
  BY ReaderTypeStep, ReaderReadStep, PositionStep, ChainStep DEF ReaderInv
<1> QED
  BY <1>1, <1>2, PTL DEF ReaderSpec

\* The indexer's parents map and its test level_ > 1 rely on where read() says
\* it is: path_ is what the current handle enumerates, the stack leads up from
\* it to the root, and level_ counts it, whatever mask, level limit and
\* manipulator read() is given and whatever becomes of the tree.
THEOREM StackAlwaysAncestry == ReaderSpec => []StackIsAncestry
<1>1. ReaderInv => StackIsAncestry
  BY ChainIsAncestry DEF ReaderInv
<1> QED
  BY <1>1, ReaderInvariant, PTL

\* In a tree, where a directory can be numbered before what it holds, no find
\* handle leaks on any way out of read() and none is asked after it was closed.
THEOREM HandlesAlwaysOwned ==
    ASSUME NEW rank, IsRank(rank)
    PROVE  ReaderSpec => []HandlesOwned
<1>1. ReaderInit => Ranked(rank) /\ Owned
  BY ReaderInvInit
<1>2. ReaderInv /\ Ranked(rank) /\ Owned /\ [ReaderNext]_readerVars => Ranked(rank)' /\ Owned'
  BY ReaderReadStep, RankedStep, OwnedStep DEF ReaderInv
<1>3. ReaderInv /\ Ranked(rank) /\ Owned => HandlesOwned
  BY OwnedIsHandlesOwned DEF ReaderInv
<1> QED
  BY <1>1, <1>2, <1>3, ReaderInvariant, PTL DEF ReaderSpec

-----------------------------------------------------------------------------
(* Definitions along the tree, as that of how deep a path is, by induction *)
(* along rank: a set of numbers has a least one.                           *)

LEMMA LeastNat ==
    ASSUME NEW T \in SUBSET Nat, T # {}
    PROVE  \E k \in T : \A j \in T : k <= j
<1> DEFINE I(k) == 1 .. k
           R == StrictSubsetOrdering(Nat)
           U == {I(k) : k \in T}
<1>1. U \subseteq FiniteSubsetsOf(Nat)
  <2>1. ASSUME NEW k \in T PROVE I(k) \in FiniteSubsetsOf(Nat)
    <3>1. IsFiniteSet(1 .. k)
      BY FS_Interval
    <3> QED
      BY <3>1 DEF FiniteSubsetsOf
  <2> QED
    BY <2>1
<1>2. U # {}
  OBVIOUS
<1>3. PICK u \in U : \A v \in U : <<v, u>> \notin R
  <2>1. IsWellFoundedOn(R, FiniteSubsetsOf(Nat))
    BY FS_StrictSubsetOrderingWellFounded
  <2> HIDE DEF U, R
  <2> QED
    BY <1>1, <1>2, <2>1, WFMin
<1>4. PICK k \in T : u = I(k)
  BY <1>3
<1>5. ASSUME NEW j \in T, ~(k <= j) PROVE FALSE
  <2>1. k \in Nat /\ j \in Nat /\ j < k
    BY <1>5
  <2>2. I(j) \subseteq I(k) /\ k \in I(k) /\ k \notin I(j)
    BY <2>1
  <2>3. I(j) \in SUBSET Nat /\ I(k) \in SUBSET Nat
    OBVIOUS
  <2>4. <<I(j), I(k)>> \in R
    BY <2>2, <2>3 DEF StrictSubsetOrdering
  <2> QED
    BY <1>3, <1>4, <2>4
<1> QED
  BY <1>5

\* Of the paths of a kind one comes first.
LEMMA FirstPath ==
    ASSUME NEW rank \in [Path -> Nat], NEW S \in SUBSET Path, S # {}
    PROVE  \E p \in S : \A q \in S : rank[p] <= rank[q]
<1>1. {rank[p] : p \in S} \in SUBSET Nat /\ {rank[p] : p \in S} # {}
  OBVIOUS
<1>2. PICK k \in {rank[p] : p \in S} : \A j \in {rank[p] : p \in S} : k <= j
  BY <1>1, LeastNat
<1> QED
  BY <1>2

\* f goes by G from what c is at the root, down to rank k.
GoesTo(rank, k, V, c, G, f) ==
    /\ f \in [Path -> V] /\ f[Root] = c
    /\ \A n \in Node : rank[n] <= k => f[n] = G[n][f[Up[n]]]

LEMMA GoesAgree ==
    ASSUME NEW rank, IsRank(rank), NEW k \in Nat, NEW j \in Nat, NEW V, NEW c, NEW G, NEW f, NEW g,
           GoesTo(rank, k, V, c, G, f), GoesTo(rank, j, V, c, G, g)
    PROVE  \A p \in Path : rank[p] <= k /\ rank[p] <= j => f[p] = g[p]
<1> DEFINE S == {p \in Path : rank[p] <= k /\ rank[p] <= j /\ f[p] # g[p]}
<1>1. SUFFICES ASSUME S # {} PROVE FALSE
  OBVIOUS
<1>2. PICK p \in S : \A q \in S : rank[p] <= rank[q]
  <2> S \in SUBSET Path
    OBVIOUS
  <2> HIDE DEF S
  <2> QED
    BY <1>1, FirstPath DEF IsRank
<1>3. p \in Node
  BY <1>2 DEF GoesTo, Path
<1>4. Up[p] \in Path /\ rank[Up[p]] \in Nat /\ rank[p] \in Nat /\ rank[Up[p]] < rank[p]
  BY <1>3, TreeAssumption DEF IsRank, Path
<1>5. f[Up[p]] = g[Up[p]]
  BY <1>2, <1>4
<1> QED
  BY <1>2, <1>3, <1>5 DEF GoesTo

LEMMA GoesExists ==
    ASSUME NEW rank, IsRank(rank), NEW k \in Nat, NEW V, NEW c \in V, NEW G \in [Node -> [V -> V]]
    PROVE  \E f : GoesTo(rank, k, V, c, G, f)
<1> DEFINE T == {j \in Nat : ~ \E f : GoesTo(rank, j, V, c, G, f)}
<1>1. SUFFICES ASSUME T # {} PROVE FALSE
  OBVIOUS
<1>2. PICK j \in T : \A i \in T : j <= i
  BY <1>1, LeastNat
<1>3. Root \in Path /\ Root \notin Node /\ \A n \in Node : Up[n] \in Path /\ n \in Path
  BY TreeAssumption DEF Path
<1>4. CASE j = 0
  <2>1. GoesTo(rank, 0, V, c, G, [p \in Path |-> c])
    BY <1>3 DEF GoesTo, IsRank
  <2> QED
    BY <1>2, <1>4, <2>1
<1>5. CASE j # 0
  <2>1. j - 1 \in Nat /\ j - 1 \notin T
    BY <1>2, <1>5
  <2>2. PICK f : GoesTo(rank, j - 1, V, c, G, f)
    BY <2>1
  <2> DEFINE g == [p \in Path |-> IF p \in Node THEN G[p][f[Up[p]]] ELSE c]
  <2>3. g \in [Path -> V] /\ g[Root] = c
    BY <1>3, <2>2 DEF GoesTo
  <2>4. ASSUME NEW n \in Node, rank[n] <= j PROVE g[n] = G[n][g[Up[n]]]
    <3>1. rank[Up[n]] \in Nat /\ rank[n] \in Nat /\ rank[Up[n]] < rank[n]
      BY <1>3 DEF IsRank
    <3>2. g[Up[n]] = f[Up[n]]
      <4>1. CASE Up[n] = Root
        BY <1>3, <2>2, <2>3, <4>1 DEF GoesTo
      <4>2. CASE Up[n] \in Node
        <5>1. rank[Up[n]] <= j - 1
          BY <1>2, <2>4, <3>1
        <5> QED
          BY <1>3, <2>2, <4>2, <5>1 DEF GoesTo
      <4> QED
        BY <1>3, <4>1, <4>2 DEF Path
    <3> QED
      BY <1>3, <3>2
  <2>5. GoesTo(rank, j, V, c, G, g)
    BY <2>3, <2>4 DEF GoesTo
  <2> QED
    BY <1>2, <2>5
<1> QED
  BY <1>4, <1>5

\* A function defined along the tree, from a directory to what is in it, is
\* what its equation says.
LEMMA TreeRecursion ==
    ASSUME NEW rank, IsRank(rank), NEW V, NEW c \in V, NEW G \in [Node -> [V -> V]]
    PROVE  \E f \in [Path -> V] : f[Root] = c /\ \A n \in Node : f[n] = G[n][f[Up[n]]]
<1> DEFINE H(k) == CHOOSE f : GoesTo(rank, k, V, c, G, f)
           F == [p \in Path |-> H(rank[p])[p]]
<1>1. \A k \in Nat : GoesTo(rank, k, V, c, G, H(k))
  BY GoesExists
<1>2. Root \in Path /\ \A n \in Node : Up[n] \in Path /\ n \in Path
  BY TreeAssumption DEF Path
<1> HIDE DEF H
<1>3. \A p \in Path : F[p] \in V
  BY <1>1 DEF GoesTo, IsRank
<1>4. F[Root] = c
  BY <1>1, <1>2 DEF GoesTo, IsRank
<1>5. ASSUME NEW n \in Node PROVE F[n] = G[n][F[Up[n]]]
  <2>1. rank[Up[n]] \in Nat /\ rank[n] \in Nat /\ rank[Up[n]] < rank[n]
    BY <1>2 DEF IsRank
  <2>2. H(rank[n])[Up[n]] = H(rank[Up[n]])[Up[n]]
    BY <1>1, <1>2, <2>1, GoesAgree
  <2>3. H(rank[n])[n] = G[n][H(rank[n])[Up[n]]]
    <3>1. GoesTo(rank, rank[n], V, c, G, H(rank[n])) /\ rank[n] <= rank[n]
      BY <1>1, <2>1
    <3> QED
      BY <3>1 DEF GoesTo
  <2> QED
    BY <1>2, <2>2, <2>3
<1>6. F \in [Path -> V]
  BY <1>3
<1> HIDE DEF F
<1> QED
  BY <1>4, <1>5, <1>6

\* In a tree Depth is what its equation says.
LEMMA DepthIs ==
    ASSUME NEW rank, IsRank(rank)
    PROVE  /\ Depth \in [Path -> Nat] /\ Depth[Root] = 0
           /\ \A n \in Node : Depth[n] = 1 + Depth[Up[n]]
<1> DEFINE E(f) == f = [p \in Path |-> IF p = Root THEN 0 ELSE 1 + f[Up[p]]]
<1>1. Root \in Path /\ Root \notin Node /\ \A n \in Node : Up[n] \in Path /\ n \in Path
  BY TreeAssumption DEF Path
<1>2. PICK F \in [Path -> Nat] : F[Root] = 0 /\ \A n \in Node : F[n] = 1 + F[Up[n]]
  <2> DEFINE G == [n \in Node |-> [d \in Nat |-> 1 + d]]
  <2>1. PICK F \in [Path -> Nat] : F[Root] = 0 /\ \A n \in Node : F[n] = G[n][F[Up[n]]]
    <3>1. G \in [Node -> [Nat -> Nat]] /\ 0 \in Nat
      OBVIOUS
    <3> HIDE DEF G
    <3> QED
      BY <3>1, TreeRecursion
  <2> QED
    BY <1>1, <2>1
<1>3. E(F)
  BY <1>1, <1>2, \A p \in Path : p = Root \/ p \in Node DEF Path
<1>4. E(Depth)
  BY <1>3 DEF Depth
<1>5. \A p \in Path : Depth[p] = IF p = Root THEN 0 ELSE 1 + Depth[Up[p]]
  BY <1>4
<1>6. Depth[Root] = 0 /\ \A n \in Node : Depth[n] = 1 + Depth[Up[n]]
  BY <1>1, <1>5
<1>7. \A p \in Path : Depth[p] \in Nat
  <2> DEFINE S == {p \in Path : Depth[p] \notin Nat}
  <2>1. SUFFICES ASSUME S # {} PROVE FALSE
    OBVIOUS
  <2>2. PICK p \in S : \A q \in S : rank[p] <= rank[q]
    <3> S \in SUBSET Path
      OBVIOUS
    <3> HIDE DEF S
    <3> QED
      BY <2>1, FirstPath DEF IsRank
  <2>3. p \in Node
    BY <1>6, <2>2 DEF Path
  <2>4. rank[Up[p]] \in Nat /\ rank[p] \in Nat /\ rank[Up[p]] < rank[p]
    BY <1>1, <2>3 DEF IsRank
  <2>5. Up[p] \notin S
    BY <2>2, <2>4
  <2> QED
    BY <1>1, <1>6, <2>2, <2>3, <2>5
<1>8. Depth = [p \in Path |-> IF p = Root THEN 0 ELSE 1 + Depth[Up[p]]]
  BY <1>4
<1>9. Depth \in [Path -> Nat]
  BY <1>7, <1>8
<1> QED
  BY <1>6, <1>9

-----------------------------------------------------------------------------
(* Module Reader: the walk.  D is the set of entries that FindNextFileW    *)
(* has returned in this read(); it grows by one with every entry.          *)

Taken(D) ==
    IF ~InRead /\ BeginRead THEN {}
    ELSE IF NextEntry THEN D \cup {ent'.node}
    ELSE D

LiveHandles == Suspended \cup (IF Scanning THEN {handle} ELSE {})

ChildrenOf(p) == {n \in Node : Up[n] = p}

InHand(p) == pc \in {"manip", "descend"} /\ ent.node = p

Opening(p) == pc = "loop" /\ handle = Null /\ path = p

\* No entry is returned twice: what a live handle has still to return was not
\* returned yet, and nothing was from a directory not opened yet.
Once(D) ==
    InRead =>
        /\ D \subseteq Node /\ \A n \in D : Up[n] \in D \cup {Root}
        /\ path \in D \cup {Root}
        /\ \A i \in 1 .. Len(stack) : stack[i].path \in D \cup {Root}
        /\ \A d \in LiveHandles : \A e \in finds[d] :
              e.node \notin D /\ \A f \in finds[d] : f.node = e.node => f = e
        /\ \A p \in Path : InHand(p) => p \in D
        /\ \A p \in Path : InHand(p) \/ Opening(p) => ChildrenOf(p) \cap D = {}

Unvisited(D) == InRead => visited \subseteq D /\ (pc = "manip" => ent.node \notin visited)

\* What is not gone has been there, where it was and as what it was.
TreeUp == \A n \in Node : Present(n) => fs[Up[n]].kind = "dir"

Remaining == Path \ gone

Lasting ==
    InRead \/ pc = "returned" =>
        /\ \A p \in Remaining : Present(p)
        /\ \A n \in Node : Up[n] \in gone => n \in gone

KindsRight ==
    InRead =>
        /\ \A d \in LiveHandles : \A e \in finds[d] :
              e.node \in Remaining => e.kind = fs[e.node].kind
        /\ \A p \in Remaining : InHand(p) => ent.kind = fs[p].kind

\* The depth of the stack is that of path_.
Leveled ==
    InRead =>
        /\ Depth[path] = Len(stack)
        /\ \A i \in 1 .. Len(stack) : Depth[stack[i].path] = i - 1
        /\ MaxLevel # 0 => Len(stack) <= MaxLevel

Reached(p) == p = Root \/ (Recursive /\ (MaxLevel = 0 \/ Depth[p] <= MaxLevel))

Covered(p, D) == ChildrenOf(p) \cap Remaining \subseteq D

\* The directories to be listed, of those read() has met.
Ahead(D) == {p \in (D \cup {Root}) \cap Remaining : fs[p].kind = "dir" /\ Reached(p)}

\* Every directory met is listed, or being listed, or going to be.
Explored(D) ==
    /\ InRead /\ ~abort =>
          \A p \in Ahead(D) :
              \/ Covered(p, D)
              \/ p \in LiveHandles /\ Covered(p, D \cup {e.node : e \in finds[p]})
              \/ InHand(p) \/ Opening(p)
    /\ pc = "returned" /\ end = "done" => \A p \in Ahead(D) : Covered(p, D)

Handed(D) ==
    InRead \/ pc = "returned" =>
        \A n \in D \cap Remaining : Expected(n) => n \in visited \/ (pc = "manip" /\ ent.node = n)

Shallow ==
    InRead \/ pc = "returned" =>
        visited \subseteq Node /\ \A n \in visited : MaxLevel = 0 \/ Depth[n] <= MaxLevel + 1

\* What a step can do to the walk: more than ReadStep says, of the tree, gone
\* and abort_ too.
WalkStep ==
    \/ ReaderLoop
    \/ UNCHANGED readVars /\ (UNCHANGED <<treeVars, gone>> \/ \E held : TreeStep(held))
    \/ pc = "manip" /\ ManipReturns /\ UNCHANGED <<treeVars, gone>> /\ (abort => abort')
    \/ ~InRead /\ BeginRead
    \/ ~InRead' /\ pc' # "returned" /\ UNCHANGED treeVars

\* The cases of a step of the loop, with their effect on the live handles.
LEMMA LiveSteps ==
    ASSUME ReaderTypeOK, Position
    PROVE  /\ OpenDirectory => LiveHandles' = LiveHandles \cup {path}
           /\ LoopPop \/ Descend => LiveHandles' = LiveHandles
           /\ NextEntry \/ StayHere \/ (pc = "manip" /\ ManipReturns) =>
                 LiveHandles' = LiveHandles /\ handle \in LiveHandles
           /\ pc = "next" /\ CloseDirectory =>
                 LiveHandles' \cup {handle} = LiveHandles /\ handle = path /\ handle # Null
           /\ LiveHandles \subseteq Path
<1> USE DEF LiveHandles, Scanning
<1>1. ASSUME OpenDirectory PROVE LiveHandles' = LiveHandles \cup {path}
  BY <1>1 DEF OpenDirectory, Suspended
<1>2. ASSUME LoopPop PROVE LiveHandles' = LiveHandles
  <2>1. Suspended = Suspended' \cup {handle'}
    BY <1>2, Popped DEF Suspended
  <2> QED
    BY <1>2, <2>1, Popped
<1>3. ASSUME Descend PROVE LiveHandles' = LiveHandles
  <2>1. Suspended' = Suspended \cup {handle}
    BY <1>3, Pushed, Frames DEF Suspended
  <2> QED
    BY <1>3, <2>1, Pushed
<1>4. ASSUME NextEntry \/ StayHere \/ (pc = "manip" /\ ManipReturns)
      PROVE  LiveHandles' = LiveHandles /\ handle \in LiveHandles
  BY <1>4 DEF NextEntry, StayHere, ManipReturns, ReturnTo, Suspended
<1>5. ASSUME pc = "next", CloseDirectory
      PROVE  LiveHandles' \cup {handle} = LiveHandles /\ handle = path /\ handle # Null
  BY <1>5, ReaderAssumption DEF CloseDirectory, Suspended, Position, ReaderTypeOK
<1>6. LiveHandles \subseteq Path
  BY Frames DEF Suspended, Position, ReaderTypeOK
<1> QED
  BY <1>1, <1>2, <1>3, <1>4, <1>5, <1>6

LEMMA TakenCases ==
    ASSUME NEW D, NEW E, E = Taken(D)
    PROVE  /\ ~NextEntry /\ (InRead \/ ~BeginRead) => E = D
           /\ NextEntry => E = D \cup {ent'.node}
           /\ ~InRead /\ BeginRead => E = {}
<1>1. NextEntry => InRead
  BY DEF NextEntry, InRead, Scanning
<1> QED
  BY <1>1 DEF Taken

\* What FindNextFileW returns.
LEMMA EntryTaken ==
    ASSUME ReaderTypeOK, Position, NextEntry
    PROVE  /\ pc = "next" /\ handle = path /\ path \in Path /\ pc' \in {"manip", "descend", "next"}
           /\ ent' \in finds[handle] /\ ent' \in FindData /\ Up[ent'.node] = path
           /\ finds' = [finds EXCEPT ![handle] = @ \ {ent'}]
           /\ pc' = IF Calls(ent') THEN "manip" ELSE ReturnTo(ent')
           /\ UNCHANGED <<treeVars, historyVars, path, handle, stack, abort>>
<1>1. pc = "next" /\ handle = path /\ path \in Path
  BY DEF NextEntry, Position, Scanning, ReaderTypeOK
<1>2. /\ ent' \in finds[handle] /\ finds' = [finds EXCEPT ![handle] = @ \ {ent'}]
      /\ pc' = IF Calls(ent') THEN "manip" ELSE ReturnTo(ent')
      /\ UNCHANGED <<treeVars, historyVars, path, handle, stack, abort>>
  BY DEF NextEntry
<1>3. ent' \in FindData /\ Up[ent'.node] = path
  BY <1>1, <1>2 DEF Position, ReaderTypeOK
<1> QED
  BY <1>1, <1>2, <1>3 DEF ReturnTo

LEMMA NothingTaken ==
    ASSUME ReaderTypeOK, Position, finds' = finds
    PROVE  ~NextEntry
<1> SUFFICES ASSUME NextEntry PROVE FALSE
  OBVIOUS
<1>1. /\ handle \in Path /\ ent' \in finds[handle]
      /\ finds' = [finds EXCEPT ![handle] = @ \ {ent'}]
  BY EntryTaken
<1>2. ent' \notin finds'[handle]
  BY <1>1 DEF ReaderTypeOK
<1> QED
  BY <1>1, <1>2

LEMMA LoopKeepsHistory ==
    ASSUME ReaderLoop
    PROVE  /\ UNCHANGED <<treeVars, historyVars>> /\ InRead
           /\ ~NextEntry => pc' # "manip"
           /\ abort' = abort
<1> USE DEF InRead, Scanning
<1>1. CASE LoopAbort \/ LoopDone \/ OpenGone \/ OpenFails \/ NextError
  BY <1>1 DEF LoopAbort, LoopDone, OpenGone, OpenFails, NextError, Leave
<1>2. CASE OpenDirectory \/ LoopPop \/ NextEntry \/ Descend \/ StayHere
  BY <1>2 DEF OpenDirectory, LoopPop, NextEntry, Descend, StayHere
<1>3. CASE NextEnd \/ NextAborted
  BY <1>3 DEF NextEnd, NextAborted, CloseDirectory, Leave
<1> QED
  BY <1>1, <1>2, <1>3 DEF ReaderLoop

LEMMA TakenNodes ==
    ASSUME ReaderTypeOK, Position, NEW D, D \subseteq Node, NEW E, E = Taken(D)
    PROVE  E \subseteq Node
BY EntryTaken DEF Taken, FindData

\* The loop is in read() and not in the manipulator.
LEMMA ReaderLoopOutside ==
    ASSUME ReaderLoop
    PROVE  pc \in {"loop", "next", "descend"}
BY DEF ReaderLoop, LoopAbort, OpenDirectory, OpenGone, OpenFails, LoopDone, LoopPop, NextEntry,
       NextEnd, NextAborted, NextError, Descend, StayHere

LEMMA OnceStep ==
    ASSUME ReaderTypeOK, Position, Chain, NEW D, Once(D), WalkStep, NEW E, E = Taken(D)
    PROVE  Once(E)'
<1> USE DEF InRead, Scanning
<1>1. CASE Left
  BY <1>1 DEF Left, Once
<1>2. CASE OpenDirectory
  <2>1. E = D
    BY <1>2, TakenCases DEF OpenDirectory, NextEntry
  <2>2. LiveHandles' = LiveHandles \cup {path} /\ path \in Path /\ Opening(path)
    BY <1>2, LiveSteps DEF OpenDirectory, ReaderTypeOK, Opening
  <2>3. \A e \in Listing(path) : e.node \in ChildrenOf(path)
                /\ \A f \in Listing(path) : f.node = e.node => f = e
    BY DEF Listing, Children, ChildrenOf
  <2>4. \A e \in Listing(path) : e.node \notin D
    BY <1>2, <2>2, <2>3 DEF Once, OpenDirectory
  <2>5. \A d \in LiveHandles' : \A e \in finds'[d] :
              e.node \notin D /\ \A f \in finds'[d] : f.node = e.node => f = e
    <3>1. /\ finds'[path] = Listing(path)
          /\ \A d \in LiveHandles : d # path => finds'[d] = finds[d]
      BY <1>2, <2>2, LiveSteps DEF OpenDirectory, ReaderTypeOK
    <3>2. \A d \in LiveHandles : \A e \in finds[d] :
              e.node \notin D /\ \A f \in finds[d] : f.node = e.node => f = e
      BY <1>2 DEF Once, OpenDirectory
    <3> QED
      BY <2>2, <2>3, <2>4, <3>1, <3>2
  <2>6. \A p \in Path : ~InHand(p)' /\ ~Opening(p)'
    BY <1>2 DEF OpenDirectory, InHand, Opening
  <2> QED
    BY <1>2, <2>1, <2>5, <2>6 DEF OpenDirectory, Once
<1>3. CASE LoopPop
  <2>1. E = D
    BY <1>3, TakenCases DEF LoopPop, NextEntry
  <2>2. LiveHandles' = LiveHandles /\ finds' = finds
    BY <1>3, LiveSteps DEF LoopPop
  <2>3. \A p \in Path : ~InHand(p)' /\ ~Opening(p)'
    BY <1>3 DEF LoopPop, InHand, Opening
  <2>4. path' \in D \cup {Root} /\ \A i \in 1 .. Len(stack') : stack'[i].path \in D \cup {Root}
    BY <1>3, Popped DEF Once
  <2> QED
    BY <1>3, <2>1, <2>2, <2>3, <2>4 DEF LoopPop, Once
<1>4. CASE Descend
  <2>1. E = D
    BY <1>4, TakenCases DEF Descend, NextEntry
  <2>2. LiveHandles' = LiveHandles /\ finds' = finds
    BY <1>4, LiveSteps DEF Descend
  <2>3. path' = ent.node /\ InHand(path') /\ path' \in Path
    BY <1>4 DEF Descend, InHand, Chain, FindData, Path
  <2>4. \A p \in Path : ~InHand(p)' /\ (Opening(p)' => p = path')
    BY <1>4 DEF Descend, InHand, Opening
  <2>5. \A i \in 1 .. Len(stack') : stack'[i].path \in D \cup {Root}
    <3>1. Len(stack) \in Nat
      BY Frames
    <3> QED
      BY <1>4, <3>1, Pushed DEF Once
  <2> QED
    BY <1>4, <2>1, <2>2, <2>3, <2>4, <2>5 DEF Descend, Once
<1>5. CASE NextEntry
  <2> DEFINE n == ent'.node
  <2>1. E = D \cup {n}
    BY <1>5, TakenCases
  <2>2. /\ handle = path /\ ent' \in finds[handle] /\ Up[n] = path /\ n \in Node /\ path \in Path
        /\ finds' = [finds EXCEPT ![handle] = @ \ {ent'}]
    BY <1>5, EntryTaken DEF FindData
  <2>3. LiveHandles' = LiveHandles /\ handle \in LiveHandles /\ LiveHandles \subseteq Path
    BY <1>5, LiveSteps
  <2>4. /\ D \subseteq Node /\ \A m \in D : Up[m] \in D \cup {Root}
        /\ path \in D \cup {Root} /\ \A i \in 1 .. Len(stack) : stack[i].path \in D \cup {Root}
        /\ \A d \in LiveHandles : \A e \in finds[d] :
              e.node \notin D /\ \A f \in finds[d] : f.node = e.node => f = e
    BY <1>5 DEF NextEntry, Once
  <2>5. n \notin D /\ n # Root /\ n # path
    BY <2>2, <2>3, <2>4, TreeAssumption
  <2>6. ASSUME NEW d \in LiveHandles, NEW e \in finds'[d]
        PROVE  e.node \notin E /\ \A f \in finds'[d] : f.node = e.node => f = e
    <3>1. finds'[d] \subseteq finds[d] /\ (d = handle => e # ent')
      BY <2>2, <2>3 DEF ReaderTypeOK
    <3>2. CASE d = handle
      BY <2>1, <2>2, <2>3, <2>4, <2>6, <3>1, <3>2
    <3>3. CASE d # handle
      <4>1. Up[e.node] = d
        BY <2>3, <3>1, <2>6 DEF Position
      <4> QED
        BY <2>1, <2>2, <2>4, <2>6, <3>1, <3>3, <4>1
    <3> QED
      BY <3>2, <3>3
  <2>7. ChildrenOf(n) \cap E = {}
    BY <2>1, <2>2, <2>4, <2>5 DEF ChildrenOf
  <2>8. \A p \in Path : (InHand(p)' => p = n) /\ ~Opening(p)'
    <3>1. pc' # "loop"
      BY <1>5, EntryTaken
    <3> QED
      BY <3>1 DEF InHand, Opening
  <2>9. path' = path /\ stack' = stack
    BY <1>5 DEF NextEntry
  <2> HIDE DEF n
  <2>10. /\ E \subseteq Node /\ \A m \in E : Up[m] \in E \cup {Root}
         /\ path' \in E \cup {Root} /\ \A i \in 1 .. Len(stack') : stack'[i].path \in E \cup {Root}
    BY <2>1, <2>2, <2>4, <2>9
  <2>11. \A p \in Path : InHand(p)' => p \in E
    BY <2>1, <2>8
  <2> QED
    BY <2>3, <2>6, <2>7, <2>8, <2>10, <2>11 DEF Once
<1>6. CASE pc = "next" /\ CloseDirectory
  <2>1. E = D
    BY <1>6, NothingTaken, TakenCases DEF CloseDirectory
  <2>2. LiveHandles' \subseteq LiveHandles /\ finds' = finds
    BY <1>6, LiveSteps DEF CloseDirectory
  <2>3. \A p \in Path : ~InHand(p)' /\ ~Opening(p)'
    <3>1. handle # Null /\ handle' = handle
      BY <1>6, LiveSteps DEF CloseDirectory
    <3> QED
      BY <1>6, <3>1 DEF CloseDirectory, InHand, Opening
  <2> QED
    BY <1>6, <2>1, <2>2, <2>3 DEF CloseDirectory, Once
<1>7. CASE StayHere \/ (pc = "manip" /\ ManipReturns)
  <2>1. E = D
    BY <1>7, TakenCases DEF StayHere, ManipReturns, NextEntry
  <2>2. LiveHandles' = LiveHandles /\ finds' = finds /\ path' = path /\ stack' = stack /\ InRead
    BY <1>7, LiveSteps DEF StayHere, ManipReturns
  <2>3. \A p \in Path : (InHand(p)' => InHand(p)) /\ ~Opening(p)'
    BY <1>7 DEF StayHere, ManipReturns, ReturnTo, InHand, Opening
  <2> QED
    BY <2>1, <2>2, <2>3 DEF Once
<1>8. CASE UNCHANGED readVars
  <2>1. InRead => E = D
    BY <1>8, NothingTaken, TakenCases DEF readVars
  <2> QED
    BY <1>8, <2>1 DEF readVars, Once, LiveHandles, Suspended, InHand, Opening
<1>9. CASE ~InRead /\ BeginRead
  <2>1. E = {}
    BY <1>9, TakenCases
  <2>2. LiveHandles' = {}
    BY <1>9, EmptyLen DEF BeginRead, LiveHandles, Suspended
  <2> QED
    BY <1>9, <2>1, <2>2, EmptyLen DEF BeginRead, Once, InHand
<1>10. CASE ~InRead'
  BY <1>10 DEF Once
<1> QED
  BY <1>1, <1>2, <1>3, <1>4, <1>5, <1>6, <1>7, <1>8, <1>9, <1>10, LoopCases DEF WalkStep

\* What a step can do to the history visited.
SeenStep ==
    \/ visited' = visited
    \/ pc = "manip" /\ pc' # "manip" /\ visited' = visited \cup {ent.node}
    \/ ~InRead /\ BeginRead

LEMMA UnvisitedStep ==
    ASSUME ReaderTypeOK, Position, Chain, NEW D, Once(D), Unvisited(D), WalkStep, SeenStep,
           NEW E, E = Taken(D)
    PROVE  Unvisited(E)'
<1> USE DEF InRead, Scanning
<1>1. CASE NextEntry
  <2>1. /\ E = D \cup {ent'.node} /\ handle \in LiveHandles /\ ent' \in finds[handle]
        /\ visited' = visited /\ pc = "next"
    BY <1>1, TakenCases, LiveSteps, EntryTaken DEF historyVars
  <2>2. ent'.node \notin D
    BY <2>1 DEF Once
  <2> QED
    BY <2>1, <2>2 DEF Unvisited
<1>2. CASE ReaderLoop /\ ~NextEntry
  <2>1. visited' = visited /\ pc' # "manip" /\ InRead
    BY <1>2, LoopKeepsHistory DEF historyVars
  <2>2. E = D
    BY <1>2, <2>1, TakenCases
  <2> QED
    BY <2>1, <2>2 DEF Unvisited
<1>3. CASE UNCHANGED readVars
  <2>1. InRead => E = D /\ visited' = visited
    BY <1>3, NothingTaken, TakenCases DEF readVars, SeenStep
  <2> QED
    BY <1>3, <2>1 DEF readVars, Unvisited
<1>4. CASE pc = "manip" /\ ManipReturns
  <2>1. E = D /\ pc' # "manip" /\ visited' \subseteq visited \cup {ent.node}
    BY <1>4, NothingTaken, TakenCases DEF ManipReturns, ReturnTo, SeenStep
  <2>2. ent.node \in D
    BY <1>4 DEF Once, InHand, Position, FindData, Path
  <2> QED
    BY <1>4, <2>1, <2>2 DEF Unvisited
<1>5. CASE ~InRead /\ BeginRead
  BY <1>5 DEF BeginRead, Unvisited
<1>6. CASE ~InRead'
  BY <1>6 DEF Unvisited
<1> QED
  BY <1>1, <1>2, <1>3, <1>4, <1>5, <1>6 DEF WalkStep

-----------------------------------------------------------------------------
(* The tree under the walk.                                                *)

LEMMA TreeUpInit ==
    ASSUME TreeInit
    PROVE  TreeUp
BY DEF TreeInit, TreeUp

\* An entry that is there is in a directory; what stays there stays what it is.
LEMMA TreeKinds ==
    ASSUME TreeType, TreeUp, NEW held, FsChange(held)
    PROVE  /\ TreeUp'
           /\ \A p \in Path : Present(p) /\ Present(p)' => fs'[p].kind = fs[p].kind
<1> USE DEF Present
<1>0. Root \in Path /\ Root \notin Node /\ \A n \in Node : n \in Path /\ Up[n] \in Path
  BY TreeAssumption DEF Path
<1>1. ASSUME NEW n \in Node, CreateEntry(n)
      PROVE  /\ TreeUp'
             /\ \A p \in Path : Present(p) /\ Present(p)' => fs'[p].kind = fs[p].kind
  <2>1. /\ ~Present(n) /\ fs[Up[n]].kind = "dir"
        /\ \A p \in Path : p # n => fs'[p] = fs[p]
    BY <1>1 DEF CreateEntry, TreeType
  <2>2. \A m \in Node : m # n /\ Present(m) => Up[m] # n
    BY <2>1 DEF TreeUp
  <2> QED
    BY <1>0, <2>1, <2>2 DEF TreeUp
<1>2. ASSUME NEW n \in Node, RewriteFile(n)
      PROVE  /\ TreeUp'
             /\ \A p \in Path : Present(p) /\ Present(p)' => fs'[p].kind = fs[p].kind
  <2>1. \A p \in Path : fs'[p].kind = fs[p].kind
    BY <1>0, <1>2 DEF RewriteFile, TreeType, File
  <2> QED
    BY <1>0, <2>1 DEF TreeUp
<1>3. ASSUME NEW n \in Node, RemoveEntry(n, held)
      PROVE  /\ TreeUp'
             /\ \A p \in Path : Present(p) /\ Present(p)' => fs'[p].kind = fs[p].kind
  <2>1. /\ \A m \in Node : Up[m] = n => ~Present(m)
        /\ fs'[n] = Nothing /\ \A p \in Path : p # n => fs'[p] = fs[p]
    BY <1>0, <1>3 DEF RemoveEntry, TreeType, Children
  <2> QED
    BY <1>0, <2>1 DEF TreeUp, Nothing
<1>4. ASSUME Unmount
      PROVE  /\ TreeUp'
             /\ \A p \in Path : Present(p) /\ Present(p)' => fs'[p].kind = fs[p].kind
  BY <1>0, <1>4 DEF Unmount, TreeUp, Nothing
<1>5. ASSUME Mount
      PROVE  /\ TreeUp'
             /\ \A p \in Path : Present(p) /\ Present(p)' => fs'[p].kind = fs[p].kind
  <2>1. /\ ~Present(Root) /\ fs'[Root].kind = "dir"
        /\ \A p \in Path : p # Root => fs'[p] = fs[p]
    BY <1>0, <1>5 DEF Mount, TreeType, Directory
  <2> QED
    BY <1>0, <2>1 DEF TreeUp
<1> QED
  BY <1>1, <1>2, <1>3, <1>4, <1>5 DEF FsChange

LEMMA TreeUpStep ==
    ASSUME ReaderTypeOK, TreeUp, WalkStep
    PROVE  TreeUp'
<1>1. CASE UNCHANGED treeVars
  BY <1>1 DEF treeVars, TreeUp, Present
<1>2. ASSUME NEW held, TreeStep(held) PROVE TreeUp'
  BY <1>2, TreeKinds DEF ReaderTypeOK, TreeType, TreeStep
<1> QED
  BY <1>1, <1>2, LoopKeepsHistory DEF WalkStep, BeginRead

LEMMA LastingStep ==
    ASSUME ReaderTypeOK, TreeUp, Lasting, WalkStep
    PROVE  Lasting'
<1> USE DEF InRead, Scanning, Present, Remaining
<1>0. \A n \in Node : n \in Path /\ Up[n] \in Path
  BY TreeAssumption DEF Path
<1>1. CASE InRead /\ UNCHANGED <<treeVars, gone>>
  BY <1>1 DEF treeVars, Lasting
<1>2. CASE UNCHANGED readVars /\ UNCHANGED <<treeVars, gone>>
  BY <1>2 DEF readVars, treeVars, Lasting
<1>3. ASSUME UNCHANGED readVars, NEW held, TreeStep(held) PROVE Lasting'
  <2>1. TreeUp'
    BY <1>3, TreeKinds DEF ReaderTypeOK, TreeType, TreeStep
  <2>2. gone' = gone \cup {p \in Path : fs'[p].kind = "none"}
    BY <1>3 DEF TreeStep
  <2>3. \A p \in Path \ gone' : fs'[p].kind # "none"
    BY <2>2
  <2>4. ASSUME InRead \/ pc = "returned", NEW n \in Node, Up[n] \in gone' PROVE n \in gone'
    <3>1. CASE Up[n] \in gone
      BY <2>2, <2>4, <3>1 DEF Lasting
    <3>2. CASE fs'[Up[n]].kind = "none"
      BY <1>0, <2>1, <2>2, <3>2 DEF TreeUp
    <3> QED
      BY <2>2, <2>4, <3>1, <3>2
  <2> QED
    BY <1>3, <2>3, <2>4 DEF readVars, Lasting
<1>4. CASE BeginRead
  BY <1>0, <1>4 DEF BeginRead, treeVars, TreeUp, Lasting
<1>5. CASE ~InRead' /\ pc' # "returned"
  BY <1>5 DEF Lasting
<1>6. ReaderLoop => InRead /\ UNCHANGED <<treeVars, gone>>
  BY LoopKeepsHistory DEF historyVars
<1> QED
  BY <1>1, <1>2, <1>3, <1>4, <1>5, <1>6 DEF WalkStep

\* Of what is not gone a step of other programs leaves the kind.
LEMMA RemainingKinds ==
    ASSUME ReaderTypeOK, TreeUp, Lasting, InRead \/ pc = "returned",
           \/ UNCHANGED <<treeVars, gone>>
           \/ \E held : TreeStep(held)
    PROVE  Remaining' \subseteq Remaining /\ \A p \in Remaining' : fs'[p].kind = fs[p].kind
<1>1. ASSUME NEW held, TreeStep(held)
      PROVE  \A p \in Remaining' : fs'[p].kind = fs[p].kind
  <2>1. \A p \in Path : Present(p) /\ Present(p)' => fs'[p].kind = fs[p].kind
    BY <1>1, TreeKinds DEF ReaderTypeOK, TreeType, TreeStep
  <2>2. \A p \in Remaining' : Present(p) /\ Present(p)'
    BY <1>1 DEF TreeStep, Remaining, Lasting, Present
  <2> QED
    BY <2>1, <2>2 DEF Remaining
<1>2. Remaining' \subseteq Remaining
  BY DEF TreeStep, Remaining
<1> QED
  BY <1>1, <1>2 DEF treeVars, Remaining

LEMMA KindsRightStep ==
    ASSUME ReaderTypeOK, Position, Chain, TreeUp, Lasting, KindsRight, WalkStep
    PROVE  KindsRight'
<1> USE DEF InRead, Scanning
<1>1. CASE Left
  BY <1>1 DEF Left, KindsRight
<1>2. CASE ReaderLoop /\ OpenDirectory
  <2>1. /\ fs' = fs /\ gone' = gone /\ pc = "loop" /\ pc' = "next" /\ path \in Path
        /\ finds' = [finds EXCEPT ![path] = Listing(path)]
    BY <1>2 DEF OpenDirectory, treeVars, historyVars, ReaderTypeOK
  <2>2. LiveHandles' = LiveHandles \cup {path} /\ LiveHandles \subseteq Path
    BY <1>2, LiveSteps
  <2>3. \A e \in Listing(path) : e.kind = fs[e.node].kind
    BY DEF Listing
  <2>4. \A d \in LiveHandles' : finds'[d] = Listing(path) \/ (d \in LiveHandles /\ finds'[d] = finds[d])
    BY <2>1, <2>2 DEF ReaderTypeOK
  <2> QED
    BY <2>1, <2>3, <2>4 DEF KindsRight, Remaining, InHand
<1>3. CASE ReaderLoop /\ NextEntry
  <2>1. /\ fs' = fs /\ gone' = gone /\ pc = "next" /\ ent' \in finds[handle] /\ handle \in Path
        /\ finds' = [finds EXCEPT ![handle] = @ \ {ent'}]
    BY <1>3, EntryTaken DEF treeVars, historyVars
  <2>2. LiveHandles' = LiveHandles /\ handle \in LiveHandles /\ LiveHandles \subseteq Path
    BY <1>3, LiveSteps
  <2>3. \A d \in LiveHandles : finds'[d] \subseteq finds[d]
    BY <2>1, <2>2 DEF ReaderTypeOK
  <2>4. \A p \in Remaining : InHand(p)' => p = ent'.node
    BY DEF InHand
  <2> QED
    BY <2>1, <2>2, <2>3, <2>4 DEF KindsRight, Remaining
<1>4. CASE /\ ReaderLoop
           /\ LoopPop \/ Descend \/ StayHere \/ (pc = "next" /\ CloseDirectory)
  <2>1. fs' = fs /\ gone' = gone /\ InRead
    BY <1>4, LoopKeepsHistory DEF treeVars, historyVars
  <2>2. LiveHandles' \subseteq LiveHandles /\ finds' = finds /\ ent' = ent
    BY <1>4, LiveSteps DEF LoopPop, Descend, StayHere, CloseDirectory
  <2>3. pc' \notin {"manip", "descend"}
    BY <1>4 DEF LoopPop, Descend, StayHere, CloseDirectory
  <2> QED
    BY <2>1, <2>2, <2>3 DEF KindsRight, Remaining, InHand
<1>5. CASE UNCHANGED readVars /\ UNCHANGED <<treeVars, gone>>
  BY <1>5 DEF readVars, treeVars, KindsRight, LiveHandles, Suspended, InHand, Remaining
<1>6. ASSUME UNCHANGED readVars, NEW held, TreeStep(held), InRead PROVE KindsRight'
  <2>2. \A p \in Remaining' : p \in Remaining /\ fs'[p].kind = fs[p].kind
    BY <1>6, RemainingKinds
  <2>3. LiveHandles' = LiveHandles /\ finds' = finds /\ ent' = ent /\ pc' = pc
    BY <1>6 DEF readVars, LiveHandles, Suspended
  <2> HIDE DEF InRead, Scanning
  <2> QED
    BY <1>6, <2>2, <2>3 DEF KindsRight, InHand
<1>7. CASE pc = "manip" /\ ManipReturns /\ UNCHANGED <<treeVars, gone>>
  <2>1. LiveHandles' = LiveHandles
    BY <1>7, LiveSteps
  <2> QED
    BY <1>7, <2>1 DEF ManipReturns, ReturnTo, treeVars, KindsRight, InHand, Remaining
<1>8. CASE BeginRead
  <2>1. LiveHandles' = {}
    BY <1>8, EmptyLen DEF BeginRead, LiveHandles, Suspended
  <2> QED
    BY <1>8, <2>1 DEF BeginRead, KindsRight, InHand
<1>9. CASE ~InRead'
  BY <1>9 DEF KindsRight
<1>10. ~InRead /\ UNCHANGED readVars => ~InRead'
  BY DEF readVars
<1> QED
  BY <1>1, <1>2, <1>3, <1>4, <1>5, <1>6, <1>7, <1>8, <1>9, <1>10, LoopCases DEF WalkStep

-----------------------------------------------------------------------------
(* How deep the walk is.                                                   *)

LEMMA LeveledStep ==
    ASSUME NEW rank, IsRank(rank), ReaderTypeOK, Position, Chain, Leveled, WalkStep
    PROVE  Leveled'
<1> USE DEF InRead, Scanning
<1>0. Len(stack) \in Nat /\ Depth \in [Path -> Nat] /\ Depth[Root] = 0 /\ MaxLevel \in Nat
  BY Frames, DepthIs, ReaderAssumption
<1>1. CASE Left \/ ~InRead'
  BY <1>1 DEF Left, Leveled
<1>2. CASE OpenDirectory \/ NextEntry \/ StayHere
  BY <1>2 DEF OpenDirectory, NextEntry, StayHere, Leveled
<1>3. CASE LoopPop
  <2>1. /\ Len(stack) \in Nat \ {0} /\ Len(stack') = Len(stack) - 1
        /\ \A i \in 1 .. Len(stack) - 1 : stack'[i] = stack[i]
        /\ path' = stack[Len(stack)].path
    BY <1>3, Popped
  <2> QED
    BY <1>0, <1>3, <2>1 DEF LoopPop, Leveled
<1>4. CASE Descend
  <2>1. Depth[path'] = Len(stack) + 1
    <3>1. path' \in Node /\ Up[path'] = path
      BY <1>4 DEF Descend, Chain, FindData
    <3>2. Depth[path] = Len(stack)
      BY <1>4 DEF Descend, Leveled
    <3> QED
      BY <3>1, <3>2, DepthIs
  <2>2. /\ Len(stack') = Len(stack) + 1 /\ stack'[Len(stack) + 1].path = path
        /\ \A i \in 1 .. Len(stack) : stack'[i] = stack[i]
    BY <1>4, Pushed
  <2>3. ASSUME NEW i \in 1 .. Len(stack) + 1 PROVE Depth[stack'[i].path] = i - 1
    <3>1. CASE i = Len(stack) + 1
      BY <1>0, <1>4, <2>2, <3>1 DEF Descend, Leveled
    <3>2. CASE i \in 1 .. Len(stack)
      BY <1>4, <2>2, <3>2 DEF Descend, Leveled
    <3> QED
      BY <1>0, <3>1, <3>2
  <2>4. MaxLevel # 0 => Len(stack) < MaxLevel
    BY <1>4 DEF Descend, MayDescend
  <2> QED
    BY <1>0, <2>1, <2>2, <2>3, <2>4 DEF Leveled
<1>5. CASE pc = "next" /\ CloseDirectory
  BY <1>5 DEF CloseDirectory, Leveled
<1>6. CASE UNCHANGED readVars
  BY <1>6 DEF readVars, Leveled
<1>7. CASE pc = "manip" /\ ManipReturns
  BY <1>7 DEF ManipReturns, Leveled
<1>8. CASE BeginRead
  BY <1>0, <1>8, EmptyLen DEF BeginRead, Leveled
<1> QED
  BY <1>1, <1>2, <1>3, <1>4, <1>5, <1>6, <1>7, <1>8, LoopCases DEF WalkStep

LEMMA ShallowStep ==
    ASSUME NEW rank, IsRank(rank), ReaderTypeOK, Position, Chain, Leveled, Shallow, WalkStep, SeenStep
    PROVE  Shallow'
<1> USE DEF InRead, Scanning
<1>0. Len(stack) \in Nat /\ Depth \in [Path -> Nat] /\ Depth[Root] = 0 /\ MaxLevel \in Nat
  BY Frames, DepthIs, ReaderAssumption
<1>1. CASE ReaderLoop
  <2>1. InRead /\ visited' = visited
    BY <1>1, LoopKeepsHistory DEF historyVars
  <2> QED
    BY <2>1 DEF Shallow
<1>2. CASE UNCHANGED readVars
  BY <1>2 DEF readVars, SeenStep, BeginRead, Shallow
<1>3. CASE pc = "manip" /\ ManipReturns
  <2>1. ent.node \in Node /\ Depth[ent.node] = Len(stack) + 1
    <3>1. ent.node \in Node /\ Up[ent.node] = path /\ Depth[path] = Len(stack)
      BY <1>3 DEF Position, FindData, Leveled
    <3> QED
      BY <1>0, <3>1, DepthIs
  <2>2. MaxLevel = 0 \/ Depth[ent.node] <= MaxLevel + 1
    BY <1>0, <1>3, <2>1 DEF Leveled
  <2>3. visited' \subseteq visited \cup {ent.node}
    BY <1>3 DEF SeenStep
  <2> QED
    BY <1>3, <2>1, <2>2, <2>3 DEF Shallow
<1>4. CASE BeginRead
  BY <1>4 DEF BeginRead, Shallow
<1>5. CASE ~InRead' /\ pc' # "returned"
  BY <1>5 DEF Shallow
<1> QED
  BY <1>1, <1>2, <1>3, <1>4, <1>5 DEF WalkStep

-----------------------------------------------------------------------------
(* That the walk leaves nothing out.                                       *)

\* How the loop can leave read().
LEMMA LeftHow ==
    ASSUME ReaderLoop, Left
    PROVE  LoopDone \/ pc' # "returned" \/ end' # "done"
<1>1. CASE LoopAbort \/ OpenGone \/ OpenFails \/ NextError \/ NextAborted
  BY <1>1 DEF LoopAbort, OpenGone, OpenFails, NextError, NextAborted, Leave, CloseDirectory
<1>2. CASE OpenDirectory \/ LoopPop \/ NextEntry \/ Descend \/ StayHere \/ NextEnd
  BY <1>2 DEF OpenDirectory, LoopPop, NextEntry, Descend, StayHere, NextEnd, CloseDirectory,
              ReturnTo
<1> QED
  BY <1>1, <1>2 DEF ReaderLoop

LEMMA ExploredStep ==
    ASSUME NEW rank, IsRank(rank), ReaderTypeOK, Position, Chain, NEW D, Once(D), TreeUp,
           Lasting, KindsRight, Leveled, Explored(D), WalkStep, NEW E, E = Taken(D)
    PROVE  Explored(E)'
<1> USE DEF InRead, Scanning
<1> DEFINE Cared(p, S) ==
              \/ Covered(p, S)
              \/ p \in LiveHandles /\ Covered(p, S \cup {e.node : e \in finds[p]})
              \/ InHand(p) \/ Opening(p)
<1>0. \A p : p \in Remaining => p \in Path
  BY DEF Remaining
<1>1. CASE ReaderLoop /\ OpenDirectory
  <2>1. /\ fs' = fs /\ gone' = gone /\ pc = "loop" /\ pc' = "next" /\ path \in Path
        /\ finds' = [finds EXCEPT ![path] = Listing(path)] /\ ~abort
    BY <1>1 DEF OpenDirectory, treeVars, historyVars, ReaderTypeOK
  <2>2. E = D
    BY <2>1, TakenCases DEF NextEntry
  <2>3. LiveHandles' = LiveHandles \cup {path} /\ LiveHandles \subseteq Path
    BY <1>1, LiveSteps
  <2>4. Covered(path, D \cup {e.node : e \in Listing(path)})
    <3>1. \A n \in ChildrenOf(path) \cap Remaining : n \in Children(path)
      BY <2>1 DEF ChildrenOf, Children, Lasting
    <3>2. ASSUME NEW n \in Children(path) PROVE \E e \in Listing(path) : e.node = n
      <4> DEFINE e == [node |-> n, kind |-> fs[n].kind, mtime |-> fs[n].mtime,
                       size |-> Len(fs[n].data)]
      <4>1. e \in Listing(path) /\ e.node = n
        BY DEF Listing
      <4> QED
        BY <4>1
    <3> QED
      BY <3>1, <3>2 DEF Covered
  <2>5. ASSUME NEW p \in Ahead(D) PROVE Cared(p, D)'
    <3>1. Cared(p, D) /\ p \in Path
      BY <2>1, <1>0 DEF Explored, Ahead
    <3>2. CASE p = path
      <4>1. finds'[path] = Listing(path) /\ path \in LiveHandles'
        BY <2>1, <2>3 DEF ReaderTypeOK
      <4> QED
        BY <2>1, <2>4, <3>2, <4>1 DEF Covered, Remaining
    <3>3. CASE p # path
      <4>1. finds'[p] = finds[p] /\ ~InHand(p) /\ ~Opening(p)
        BY <2>1, <3>1, <3>3 DEF ReaderTypeOK, InHand, Opening
      <4> QED
        BY <2>1, <2>3, <3>1, <3>3, <4>1 DEF Covered, Remaining
    <3> QED
      BY <3>2, <3>3
  <2>6. Ahead(E)' = Ahead(D)
    BY <2>1, <2>2 DEF Ahead, Remaining
  <2> QED
    BY <2>1, <2>2, <2>5, <2>6 DEF Explored
<1>2. CASE ReaderLoop /\ (LoopPop \/ Descend \/ StayHere)
  <2>1. /\ fs' = fs /\ gone' = gone /\ abort' = abort /\ pc' # "returned" /\ finds' = finds
        /\ ent' = ent /\ InRead
    BY <1>2 DEF LoopPop, Descend, StayHere, treeVars, historyVars
  <2>2. E = D
    BY <2>1, NothingTaken, TakenCases
  <2>3. LiveHandles' = LiveHandles
    BY <1>2, LiveSteps
  <2>4. ASSUME NEW p \in Ahead(D), ~abort PROVE Cared(p, D)'
    <3>1. Cared(p, D) /\ p \in Path /\ Reached(p)
      BY <2>1, <2>4, <1>0 DEF Explored, Ahead
    <3>2. CASE InHand(p)
      <4>1. CASE Descend
        BY <3>2, <4>1 DEF Descend, InHand, Opening
      <4>2. CASE StayHere
        <5>1. p \in Node /\ Up[p] = path /\ Depth[path] = Len(stack) /\ ~MayDescend
          BY <3>2, <4>2 DEF StayHere, InHand, Chain, FindData, Leveled
        <5>2. Depth[p] = 1 + Len(stack) /\ p # Root
          BY <5>1, DepthIs, TreeAssumption
        <5> QED
          BY <3>1, <5>1, <5>2, Frames, ReaderAssumption DEF Reached, MayDescend
      <4>3. CASE LoopPop
        BY <3>2, <4>3 DEF LoopPop, InHand
      <4> QED
        BY <1>2, <4>1, <4>2, <4>3
    <3>3. CASE Opening(p)
      BY <1>2, <3>3 DEF LoopPop, Descend, StayHere, Opening
    <3> QED
      BY <2>1, <2>3, <3>1, <3>2, <3>3 DEF Covered, Remaining
  <2>5. Ahead(E)' = Ahead(D)
    BY <2>1, <2>2 DEF Ahead, Remaining
  <2> QED
    BY <2>1, <2>2, <2>4, <2>5 DEF Explored
<1>3. CASE ReaderLoop /\ NextEntry
  <2>0. PICK n : n = ent'.node
    OBVIOUS
  <2>1. /\ fs' = fs /\ gone' = gone /\ abort' = abort /\ pc = "next"
        /\ pc' \in {"next", "manip", "descend"}
        /\ ent' \in finds[handle] /\ handle \in Path /\ n \in Node
        /\ finds' = [finds EXCEPT ![handle] = @ \ {ent'}]
        /\ pc' = IF Calls(ent') THEN "manip" ELSE ReturnTo(ent')
    BY <1>3, <2>0, EntryTaken DEF treeVars, historyVars, FindData
  <2>2. E = D \cup {n}
    BY <1>3, <2>0, TakenCases
  <2>3. LiveHandles' = LiveHandles /\ handle \in LiveHandles
    BY <1>3, LiveSteps
  <2>4. ASSUME NEW p \in Ahead(D), ~abort PROVE Cared(p, E)'
    <3>1. Cared(p, D) /\ p \in Path /\ ~InHand(p) /\ ~Opening(p)
      BY <2>1, <2>4, <1>0 DEF Explored, Ahead, InHand, Opening
    <3>2. {e.node : e \in finds[p]} \subseteq {e.node : e \in finds'[p]} \cup {n}
      <4>1. finds[p] \subseteq finds'[p] \cup {ent'}
        BY <2>1, <3>1 DEF ReaderTypeOK
      <4> QED
        BY <2>0, <4>1
    <3>3. D \cup {e.node : e \in finds[p]} \subseteq E \cup {e.node : e \in finds'[p]}
      BY <2>2, <3>2
    <3>4. Covered(p, D) => Covered(p, E)'
      BY <2>1, <2>2 DEF Covered, Remaining
    <3>5. Covered(p, D \cup {e.node : e \in finds[p]})
            => Covered(p, E \cup {e.node : e \in finds[p]})'
      BY <2>1, <3>3 DEF Covered, Remaining
    <3> QED
      BY <2>3, <3>1, <3>4, <3>5
  <2>5. ASSUME n \in Ahead(E)' PROVE Cared(n, E)'
    <3>1. n \in Remaining /\ fs[n].kind = "dir"
      BY <2>1, <2>5 DEF Ahead, Remaining
    <3>2. ent'.kind = "dir"
      BY <2>0, <2>1, <2>3, <3>1 DEF KindsRight
    <3>3. InHand(n)'
      BY <2>0, <2>1, <3>2 DEF InHand, ReturnTo
    <3> QED
      BY <3>3
  <2>6. Ahead(E)' \subseteq Ahead(D) \cup {n}
    BY <2>1, <2>2 DEF Ahead, Remaining
  <2> QED
    BY <2>1, <2>4, <2>5, <2>6 DEF Explored
<1>4. CASE ReaderLoop /\ pc = "next" /\ CloseDirectory
  <2>1. /\ fs' = fs /\ gone' = gone /\ abort' = abort /\ finds' = finds /\ InRead /\ pc' # "returned"
    BY <1>4, LoopKeepsHistory DEF CloseDirectory, treeVars, historyVars
  <2>2. E = D
    BY <2>1, NothingTaken, TakenCases
  <2>3. LiveHandles' \cup {handle} = LiveHandles
    BY <1>4, LiveSteps
  <2>4. ~abort => finds[handle] = {}
    <3>1. CASE NextEnd \/ NextAborted
      BY <3>1 DEF NextEnd, NextAborted
    <3>2. CASE LoopAbort \/ LoopDone \/ OpenGone \/ OpenFails \/ OpenDirectory \/ LoopPop \/ Descend
               \/ StayHere
      BY <1>4, <3>2
         DEF LoopAbort, LoopDone, OpenGone, OpenFails, OpenDirectory, LoopPop, Descend, StayHere
    <3>3. CASE NextError
      BY <1>4, <3>3 DEF NextError, Leave, CloseDirectory
    <3>4. CASE NextEntry
      BY <1>4, <3>4, NothingTaken, <2>1
    <3> QED
      BY <1>4, <3>1, <3>2, <3>3, <3>4 DEF ReaderLoop
  <2>5. ASSUME NEW p \in Ahead(D), ~abort PROVE Cared(p, D)'
    <3>1. Cared(p, D) /\ ~InHand(p) /\ ~Opening(p)
      BY <1>4, <2>5 DEF Explored, InHand, Opening
    <3>2. CASE p \in LiveHandles /\ p \notin LiveHandles'
      <4>1. p = handle
        BY <2>3, <3>2
      <4> QED
        BY <2>1, <2>4, <2>5, <3>1, <4>1 DEF Covered, Remaining
    <3> QED
      BY <2>1, <3>1, <3>2 DEF Covered, Remaining
  <2>6. Ahead(E)' = Ahead(D)
    BY <2>1, <2>2 DEF Ahead, Remaining
  <2> QED
    BY <2>1, <2>2, <2>5, <2>6 DEF Explored
<1>5. CASE ReaderLoop /\ Left
  <2>1. ~InRead'
    BY <1>5 DEF Left
  <2>2. CASE LoopDone
    <3>1. /\ fs' = fs /\ gone' = gone /\ finds' = finds /\ pc = "loop" /\ handle # Null /\ ~abort
          /\ stack = <<>>
      BY <2>2 DEF LoopDone, Leave, treeVars, historyVars
    <3>2. E = D
      BY <3>1, NothingTaken, TakenCases
    <3>3. LiveHandles = {}
      BY <3>1, EmptyLen DEF LiveHandles, Suspended
    <3>4. \A p \in Ahead(D) : Covered(p, D)
      BY <3>1, <3>3 DEF Explored, InHand, Opening
    <3>5. Ahead(E)' = Ahead(D) /\ Remaining' = Remaining
      BY <3>1, <3>2 DEF Ahead, Remaining
    <3> QED
      BY <2>1, <3>2, <3>4, <3>5 DEF Explored, Covered
  <2>3. CASE pc' # "returned" \/ end' # "done"
    BY <2>1, <2>3 DEF Explored
  <2> QED
    BY <1>5, <2>2, <2>3, LeftHow
<1>6. CASE ~InRead' /\ pc' # "returned"
  BY <1>6 DEF Explored
<1>7. CASE ~InRead /\ BeginRead
  <2>1. E = {} /\ pc' = "loop" /\ handle' = Null /\ path' = Root
    BY <1>7, TakenCases DEF BeginRead
  <2>2. Ahead(E)' \subseteq {Root}
    BY <2>1 DEF Ahead
  <2> QED
    BY <2>1, <2>2 DEF Explored, Opening
<1>8. CASE pc = "manip" /\ ManipReturns /\ UNCHANGED <<treeVars, gone>> /\ (abort => abort')
  <2>1. fs' = fs /\ gone' = gone /\ finds' = finds /\ pc' # "returned" /\ ent' = ent
    BY <1>8 DEF ManipReturns, ReturnTo, treeVars
  <2>2. E = D
    BY <1>8, <2>1, NothingTaken, TakenCases
  <2>3. LiveHandles' = LiveHandles
    BY <1>8, LiveSteps
  <2>4. ASSUME NEW p \in Ahead(D), ~abort PROVE Cared(p, D)'
    <3>1. Cared(p, D) /\ p \in Remaining /\ fs[p].kind = "dir"
      BY <1>8, <2>4 DEF Explored, Ahead
    <3>2. CASE InHand(p)
      <4>1. ent.kind = "dir"
        BY <1>8, <3>1, <3>2 DEF KindsRight
      <4> QED
        BY <1>8, <3>2, <4>1 DEF ManipReturns, ReturnTo, InHand
    <3>3. ~Opening(p)
      BY <1>8 DEF Opening
    <3> QED
      BY <2>1, <2>3, <3>1, <3>2, <3>3 DEF Covered, Remaining
  <2>5. Ahead(E)' = Ahead(D)
    BY <2>1, <2>2 DEF Ahead, Remaining
  <2> QED
    BY <1>8, <2>1, <2>2, <2>4, <2>5 DEF Explored
<1>9. ASSUME UNCHANGED readVars,
             \/ UNCHANGED <<treeVars, gone>>
             \/ \E held : TreeStep(held)
      PROVE  Explored(E)'
  <2>2. InRead \/ pc = "returned" => \A p \in Remaining' : p \in Remaining /\ fs'[p].kind = fs[p].kind
    BY <1>9, RemainingKinds
  <2>3. /\ LiveHandles' = LiveHandles /\ finds' = finds /\ ent' = ent /\ pc' = pc
        /\ abort' = abort /\ end' = end /\ handle' = handle /\ path' = path
    BY <1>9 DEF readVars, LiveHandles, Suspended
  <2>4. E = D \/ ~InRead
    BY <2>3, NothingTaken, TakenCases
  <2>5. ~InRead => E = D
    <3>1. ~InRead => ~BeginRead
      BY <2>3 DEF BeginRead
    <3>2. ~NextEntry
      BY <2>3, NothingTaken
    <3> QED
      BY <3>1, <3>2 DEF Taken
  <2>6. InRead \/ pc = "returned" => Ahead(E)' \subseteq Ahead(D)
    BY <2>2, <2>4, <2>5 DEF Ahead
  <2>7. InRead \/ pc = "returned" => \A p, S : Covered(p, S) => Covered(p, S)'
    BY <2>2 DEF Covered
  <2>8. \A p : (InHand(p) => InHand(p)') /\ (Opening(p) => Opening(p)')
    BY <2>3 DEF InHand, Opening
  <2> QED
    BY <2>3, <2>4, <2>5, <2>6, <2>7, <2>8 DEF Explored
<1> QED
  BY <1>1, <1>2, <1>3, <1>4, <1>5, <1>6, <1>7, <1>8, <1>9, LoopCases DEF WalkStep

\* Every entry gets to the manipulator that should.
VisitStep ==
    IF pc = "manip" /\ pc' # "manip" THEN visited' = visited \cup {ent.node}
    ELSE visited' = visited \/ (~InRead /\ BeginRead)

LEMMA HandedStep ==
    ASSUME ReaderTypeOK, Position, Chain, TreeUp, Lasting, KindsRight,
           NEW D, D \subseteq Node, Handed(D), WalkStep, VisitStep, NEW E, E = Taken(D)
    PROVE  Handed(E)'
<1> USE DEF InRead, Scanning
<1>1. CASE NextEntry
  <2>1. PICK n : n = ent'.node
    OBVIOUS
  <2>2. /\ fs' = fs /\ gone' = gone /\ visited' = visited /\ pc = "next"
        /\ ent' \in finds[handle] /\ n \in Node
        /\ pc' = IF Calls(ent') THEN "manip" ELSE ReturnTo(ent')
    BY <1>1, <2>1, EntryTaken DEF treeVars, historyVars, FindData
  <2>3. E = D \cup {n} /\ handle \in LiveHandles
    BY <1>1, <2>1, TakenCases, LiveSteps
  <2>4. ASSUME NEW m \in D \cap Remaining, Expected(m) PROVE m \in visited
    BY <2>2, <2>4 DEF Handed
  <2>5. ASSUME n \in Remaining, Expected(n) PROVE pc' = "manip"
    <3>1. ent'.kind = fs[n].kind
      BY <2>1, <2>2, <2>3, <2>5 DEF KindsRight
    <3> QED
      BY <2>1, <2>2, <2>5, <3>1 DEF Expected, Calls
  <2>6. \A m : Expected(m)' = Expected(m)
    BY <2>2 DEF Expected
  <2> QED
    BY <2>1, <2>2, <2>3, <2>4, <2>5, <2>6 DEF Handed, Remaining
<1>2. CASE ReaderLoop /\ ~NextEntry
  <2>1. /\ fs' = fs /\ gone' = gone /\ visited' = visited /\ InRead
    BY <1>2, LoopKeepsHistory DEF treeVars, historyVars
  <2>2. E = D /\ pc # "manip"
    BY <1>2, <2>1, TakenCases, ReaderLoopControl DEF Position, ReaderTypeOK
  <2>3. \A m : Expected(m)' = Expected(m)
    BY <2>1 DEF Expected
  <2> QED
    BY <2>1, <2>2, <2>3 DEF Handed, Remaining
<1>3. ASSUME UNCHANGED readVars,
             \/ UNCHANGED <<treeVars, gone>>
             \/ \E held : TreeStep(held),
             InRead \/ pc = "returned"
      PROVE  Handed(E)'
  <2>1. pc' = pc /\ ent' = ent /\ finds' = finds
    BY <1>3 DEF readVars
  <2>2. E = D /\ visited' = visited
    <3>1. ~InRead => ~BeginRead
      BY <2>1 DEF BeginRead
    <3>2. ~NextEntry
      BY <2>1, NothingTaken
    <3> QED
      BY <2>1, <3>1, <3>2 DEF Taken, VisitStep
  <2>3. Remaining' \subseteq Remaining /\ \A p \in Remaining' : fs'[p].kind = fs[p].kind
    BY <1>3, RemainingKinds
  <2>4. \A m \in Remaining' : Expected(m)' => Expected(m)
    BY <2>3 DEF Expected
  <2> QED
    BY <1>3, <2>1, <2>2, <2>3, <2>4 DEF Handed
<1>4. CASE pc = "manip" /\ ManipReturns /\ UNCHANGED <<treeVars, gone>>
  <2>1. fs' = fs /\ gone' = gone /\ finds' = finds /\ visited' = visited \cup {ent.node}
    BY <1>4 DEF ManipReturns, ReturnTo, treeVars, VisitStep
  <2>2. E = D
    BY <1>4, <2>1, NothingTaken, TakenCases
  <2>3. \A m : Expected(m)' = Expected(m)
    BY <2>1 DEF Expected
  <2> QED
    BY <1>4, <2>1, <2>2, <2>3 DEF Handed, Remaining
<1>5. CASE ~InRead /\ BeginRead
  <2>1. E = {}
    BY <1>5, TakenCases
  <2> QED
    BY <2>1 DEF Handed
<1>6. CASE ~InRead' /\ pc' # "returned"
  BY <1>6 DEF Handed
<1>7. UNCHANGED readVars => pc' = pc
  BY DEF readVars
<1> QED
  BY <1>1, <1>2, <1>3, <1>4, <1>5, <1>6, <1>7 DEF WalkStep

\* Once the loop is done every entry that was there throughout was returned.
LEMMA AllReturned ==
    ASSUME NEW rank, IsRank(rank), ReaderTypeOK, TreeUp, Lasting, NEW D, Explored(D),
           pc = "returned", end = "done"
    PROVE  \A n \in Node \ gone :
              (Depth[n] > 1 => Recursive /\ (MaxLevel = 0 \/ Depth[n] <= MaxLevel + 1)) => n \in D
<1> DEFINE S == {n \in Node \ gone :
                  /\ Depth[n] > 1 => Recursive /\ (MaxLevel = 0 \/ Depth[n] <= MaxLevel + 1)
                  /\ n \notin D}
<1>1. SUFFICES ASSUME S # {} PROVE FALSE
  OBVIOUS
<1>2. PICK n \in S : \A m \in S : rank[n] <= rank[m]
  <2> S \in SUBSET Path
    BY DEF Path
  <2> HIDE DEF S
  <2> QED
    BY <1>1, FirstPath DEF IsRank
<1>3. PICK p : p = Up[n]
  OBVIOUS
<1>4. /\ n \in Node /\ n \notin gone /\ n \notin D /\ p \in Path /\ n \in Path
      /\ Depth[n] > 1 => Recursive /\ (MaxLevel = 0 \/ Depth[n] <= MaxLevel + 1)
  BY <1>2, <1>3, TreeAssumption DEF Path
<1>5. Depth[n] = 1 + Depth[p] /\ Depth[p] \in Nat /\ Depth[Root] = 0 /\ MaxLevel \in Nat
  BY <1>3, <1>4, DepthIs, ReaderAssumption
<1>6. p \in Remaining /\ fs[p].kind = "dir"
  BY <1>3, <1>4 DEF Lasting, TreeUp, Remaining
<1>7. p \in D \cup {Root} /\ Reached(p)
  <2>1. CASE p = Root
    BY <2>1 DEF Reached
  <2>2. CASE p # Root
    <3>1. p \in Node
      BY <1>4, <2>2 DEF Path
    <3>2. Depth[p] >= 1
      <4>1. Depth[p] = 1 + Depth[Up[p]] /\ Depth[Up[p]] \in Nat
        BY <3>1, DepthIs, TreeAssumption
      <4> QED
        BY <4>1
    <3>3. Recursive /\ (MaxLevel = 0 \/ Depth[p] <= MaxLevel)
      BY <1>4, <1>5, <3>2
    <3>4. p \notin S
      <4>1. rank[p] < rank[n] /\ rank[p] \in Nat /\ rank[n] \in Nat
        BY <1>3, <1>4 DEF IsRank
      <4> QED
        BY <1>2, <4>1
    <3>5. p \in D
      BY <1>5, <1>6, <3>1, <3>3, <3>4 DEF Remaining
    <3> QED
      BY <3>3, <3>5 DEF Reached
  <2> QED
    BY <2>1, <2>2
<1>8. Covered(p, D)
  BY <1>6, <1>7 DEF Explored, Ahead
<1> QED
  BY <1>3, <1>4, <1>8 DEF Covered, ChildrenOf, Remaining

-----------------------------------------------------------------------------
(* Module Reader by itself: what the manipulator gets.                     *)

LEMMA ReaderWalkStep ==
    ASSUME [ReaderNext]_readerVars
    PROVE  WalkStep /\ VisitStep
<1> USE DEF InRead, Scanning
<1>1. CASE Manipulate
  <2>1. CASE ManipReturns
    <3>1. abort' \in {abort, TRUE}
      BY <1>1 DEF Manipulate, ManipThrows, Leave
    <3>2. abort => abort'
      BY <3>1, Zenon
    <3>3. pc' # "manip" /\ UNCHANGED <<treeVars, gone>>
      BY <1>1, <2>1 DEF Manipulate, ManipReturns, ReturnTo
    <3> QED
      BY <1>1, <2>1, <3>2, <3>3 DEF Manipulate, WalkStep, VisitStep
  <2>2. CASE ManipThrows("manip")
    BY <1>1, <2>2 DEF Manipulate, ManipThrows, Leave, WalkStep, VisitStep
  <2> QED
    BY <1>1, <2>1, <2>2 DEF Manipulate
<1>2. CASE Begin
  BY <1>2 DEF Begin, WalkStep, VisitStep
<1>3. CASE ReaderLoop
  BY <1>3, LoopKeepsHistory, ReaderLoopOutside DEF historyVars, WalkStep, VisitStep
<1>4. CASE TreeStep({}) /\ UNCHANGED <<readVars, faults>>
  BY <1>4 DEF TreeStep, readVars, WalkStep, VisitStep
<1>5. CASE UNCHANGED readerVars
  BY <1>5 DEF readerVars, readVars, historyVars, WalkStep, VisitStep
<1> QED
  BY <1>1, <1>2, <1>3, <1>4, <1>5 DEF ReaderNext

WalkOnce == \E D : Once(D) /\ Unvisited(D)

\* An entry that manipulator_ is called for has not been handed to it in this
\* read(): going back to a suspended directory resumes its enumeration, and no
\* directory is entered twice, whatever other programs do to the tree.
THEOREM EntriesHandedOnce == ReaderSpec => VisitOnce
<1>1. ReaderInit => WalkOnce
  BY DEF ReaderInit, WalkOnce, Once, Unvisited, InRead, Scanning
<1>2. ReaderInv /\ WalkOnce /\ [ReaderNext]_readerVars => WalkOnce'
  <2> SUFFICES ASSUME ReaderInv, WalkOnce, [ReaderNext]_readerVars PROVE WalkOnce'
    OBVIOUS
  <2>1. PICK D : Once(D) /\ Unvisited(D)
    BY DEF WalkOnce
  <2>2. PICK E : E = Taken(D)
    OBVIOUS
  <2>3. WalkStep /\ SeenStep
    BY ReaderWalkStep DEF VisitStep, SeenStep
  <2>4. Once(E)' /\ Unvisited(E)'
    BY <2>1, <2>2, <2>3, OnceStep, UnvisitedStep DEF ReaderInv
  <2> QED
    BY <2>4 DEF WalkOnce
<1>3. WalkOnce => [pc = "manip" /\ pc' # "manip" => ent.node \notin visited]_readerVars
  BY DEF WalkOnce, Unvisited, InRead, Scanning
<1> QED
  BY <1>1, <1>2, <1>3, ReaderInvariant, PTL DEF ReaderSpec, VisitOnce

WalkInv ==
    /\ TreeUp /\ Lasting /\ KindsRight /\ Leveled /\ Shallow
    /\ \E D : Once(D) /\ Explored(D) /\ Handed(D) /\ D \subseteq Node

\* A read() that ran to its end has handed over every entry that the mask and
\* the level limit admit and that was there throughout, however the rest of the
\* tree changed under it, and none below the limit.
THEOREM ReadIsComplete ==
    ASSUME NEW rank, IsRank(rank)
    PROVE  ReaderSpec => []Complete
<1>1. ReaderInit => WalkInv
  <2> SUFFICES ASSUME ReaderInit PROVE WalkInv
    OBVIOUS
  <2>1. TreeUp
    BY TreeUpInit DEF ReaderInit
  <2>2. Once({}) /\ Explored({}) /\ Handed({}) /\ {} \subseteq Node
    BY DEF ReaderInit, Once, Explored, Handed, InRead, Scanning
  <2> QED
    BY <2>1, <2>2
       DEF ReaderInit, WalkInv, Lasting, KindsRight, Leveled, Shallow, InRead, Scanning
<1>2. ReaderInv /\ WalkInv /\ [ReaderNext]_readerVars => WalkInv'
  <2> SUFFICES ASSUME ReaderInv, WalkInv, [ReaderNext]_readerVars PROVE WalkInv'
    OBVIOUS
  <2>1. PICK D : Once(D) /\ Explored(D) /\ Handed(D) /\ D \subseteq Node
    BY DEF WalkInv
  <2>2. PICK E : E = Taken(D)
    OBVIOUS
  <2>3. WalkStep /\ VisitStep /\ SeenStep
    BY ReaderWalkStep DEF VisitStep, SeenStep
  <2>4. /\ ReaderTypeOK /\ Position /\ Chain
        /\ TreeUp /\ Lasting /\ KindsRight /\ Leveled /\ Shallow
    BY DEF ReaderInv, WalkInv
  <2>5. TreeUp'
    BY <2>3, <2>4, TreeUpStep
  <2>6. Lasting' /\ KindsRight' /\ Leveled' /\ Shallow'
    BY <2>3, <2>4, LastingStep, KindsRightStep, LeveledStep, ShallowStep
  <2>7. Once(E)' /\ Explored(E)' /\ Handed(E)'
    BY <2>1, <2>2, <2>3, <2>4, OnceStep, ExploredStep, HandedStep
  <2>8. E \subseteq Node
    BY <2>1, <2>2, <2>4, TakenNodes
  <2> QED
    BY <2>5, <2>6, <2>7, <2>8 DEF WalkInv
<1>3. ReaderInv /\ WalkInv => Complete
  <2> SUFFICES ASSUME ReaderInv, WalkInv, pc = "returned", end = "done"
               PROVE  /\ \A n \in Node \ gone : Expected(n) => n \in visited
                      /\ \A n \in visited : Depth[n] > 1 => MaxLevel = 0 \/ Depth[n] <= MaxLevel + 1
    BY DEF Complete
  <2>1. PICK D : Explored(D) /\ Handed(D)
    BY DEF WalkInv
  <2>2. \A n \in Node \ gone :
            (Depth[n] > 1 => Recursive /\ (MaxLevel = 0 \/ Depth[n] <= MaxLevel + 1)) => n \in D
    BY <2>1, AllReturned DEF ReaderInv, WalkInv
  <2>3. \A n \in Node \ gone : Expected(n) => n \in visited
    BY <2>1, <2>2 DEF Expected, Handed, Remaining, Path
  <2> QED
    BY <2>3 DEF WalkInv, Shallow
<1> QED
  BY <1>1, <1>2, <1>3, ReaderInvariant, PTL DEF ReaderSpec
=============================================================================
