---------------------------- MODULE StartupProofs ----------------------------
(***************************************************************************)
(* Safety of module Startup, for any number of trackers, however deep the  *)
(* home directory is and whatever the names are.                           *)
(***************************************************************************)
EXTENDS Startup, FiniteSetTheorems, WellFoundedInduction, TLAPS

\* Without removals the home directory stays, mkdir is asked for .spacenet
\* only, nothing throws before that is there, and once it is somebody runs who
\* has made or found it.
Undisturbed ==
    removals = 0 =>
        /\ Exists(Home)
        /\ \A t \in Tracker :
              /\ target[t] # <<>> => target[t] = <<SpaceNet>>
              /\ pc[t] \notin {"again", "crashed"}
              /\ pc[t] \in {"started", "running", "threw"} => Exists(SpaceNet)
        /\ Exists(SpaceNet) => \E u \in Tracker : pc[u] \in {"started", "running"}

Inv == StartupTypeOK /\ Undisturbed

-----------------------------------------------------------------------------
(* The stack of calls of mkdir.                                            *)

LEMMA StackLemma ==
    ASSUME NEW S, NEW s \in Seq(S), s # <<>>
    PROVE  /\ Last(s) \in S /\ Front(s) \in Seq(S)
           /\ Front(s) = <<>> <=> Len(s) = 1
           /\ \A x : s = <<x>> => Last(s) = x /\ Len(s) = 1
<1>1. Len(s) \in Nat \ {0} /\ Last(s) \in S
  BY DEF Last
<1>2. Front(s) \in Seq(S) /\ Len(Front(s)) = Len(s) - 1
  BY <1>1 DEF Front
<1> QED
  BY <1>1, <1>2 DEF Last

LEMMA Level == SpaceNet \in Nat /\ Home \in Nat \ {0} /\ SpaceNet = Home + 1
BY StartupAssumption DEF SpaceNet

LEMMA InvInit ==
    ASSUME StartupInit
    PROVE  Inv
<1>1. StartupTypeOK
  BY Level, StartupAssumption DEF StartupInit, StartupTypeOK
<1>2. Undisturbed
  BY Level DEF StartupInit, Undisturbed, Exists
<1> QED
  BY <1>1, <1>2 DEF Inv

-----------------------------------------------------------------------------
(* The steps of a run().                                                   *)

\* What a step of tracker t leaves to be shown: the rest stays as it is.
LEMMA TypeKept ==
    ASSUME Inv, NEW t \in Tracker,
           NEW there \in {"idle", "check", "make", "again", "started", "running", "crashed", "threw"},
           NEW stack \in Seq(1 .. SpaceNet),
           pc' = [pc EXCEPT ![t] = there], target' = [target EXCEPT ![t] = stack],
           there \in {"make", "again"} <=> stack # <<>>,
           deepest' \in 0 .. SpaceNet, removals' = removals
    PROVE  StartupTypeOK'
BY DEF Inv, StartupTypeOK

LEMMA BeginStep ==
    ASSUME Inv, NEW t \in Tracker, BeginRun(t)
    PROVE  Inv'
<1> USE DEF Inv, StartupTypeOK
<1>1. PICK there \in {"check", "threw"} :
        /\ pc' = [pc EXCEPT ![t] = there]
        /\ there = "threw" => ~Exists(Home)
        /\ pc[t] \in {"idle", "threw"}
        /\ UNCHANGED <<deepest, target, removals>>
  BY DEF BeginRun, HomeAccessible, Goto
<1>2. StartupTypeOK'
  BY <1>1
<1>3. Undisturbed'
  BY <1>1 DEF Undisturbed, Exists
<1> QED
  BY <1>2, <1>3

LEMMA CheckStep ==
    ASSUME Inv, NEW t \in Tracker, CheckDirectory(t)
    PROVE  Inv'
<1>1. UNCHANGED <<deepest, removals>> /\ pc[t] = "check" /\ target[t] = <<>>
  BY DEF CheckDirectory, Inv, StartupTypeOK
<1>2. CASE Exists(SpaceNet)
  <2>1. pc' = [pc EXCEPT ![t] = "started"] /\ UNCHANGED target
    BY <1>2 DEF CheckDirectory, Goto
  <2>2. StartupTypeOK'
    BY <1>1, <2>1 DEF Inv, StartupTypeOK
  <2>3. Undisturbed'
    BY <1>1, <1>2, <2>1 DEF Inv, StartupTypeOK, Undisturbed, Exists
  <2> QED
    BY <2>2, <2>3 DEF Inv
<1>3. CASE ~Exists(SpaceNet)
  <2>1. pc' = [pc EXCEPT ![t] = "make"] /\ target' = [target EXCEPT ![t] = <<SpaceNet>>]
    BY <1>3 DEF CheckDirectory, Goto
  <2>2. StartupTypeOK'
    <3>1. <<SpaceNet>> \in Seq(1 .. SpaceNet) /\ <<SpaceNet>> # <<>>
      BY Level
    <3> QED
      BY <1>1, <2>1, <3>1 DEF Inv, StartupTypeOK
  <2>3. Undisturbed'
    BY <1>1, <1>3, <2>1 DEF Inv, StartupTypeOK, Undisturbed, Exists
  <2> QED
    BY <2>2, <2>3 DEF Inv
<1> QED
  BY <1>2, <1>3

LEMMA MadeStep ==
    ASSUME Inv, NEW t \in Tracker, MakeDirectory(t)
    PROVE  Inv'
<1>1. /\ pc[t] \in {"make", "again"} /\ target[t] \in Seq(1 .. SpaceNet) /\ target[t] # <<>>
      /\ Last(target[t]) = deepest + 1 /\ deepest' = deepest + 1 /\ UNCHANGED removals
      /\ target' = [target EXCEPT ![t] = Front(target[t])]
      /\ pc' = [pc EXCEPT ![t] = IF Len(target[t]) = 1 THEN "started" ELSE "again"]
  BY DEF MakeDirectory, Made, Goto, Inv, StartupTypeOK
<1>2. /\ Last(target[t]) \in 1 .. SpaceNet /\ Front(target[t]) \in Seq(1 .. SpaceNet)
      /\ Front(target[t]) = <<>> <=> Len(target[t]) = 1
      /\ target[t] = <<SpaceNet>> => Last(target[t]) = SpaceNet /\ Len(target[t]) = 1
  BY <1>1, StackLemma
<1>3. StartupTypeOK'
  <2>1. deepest' \in 0 .. SpaceNet
    BY <1>1, <1>2, Level DEF Inv, StartupTypeOK
  <2> DEFINE there == IF Len(target[t]) = 1 THEN "started" ELSE "again"
  <2>2. there \in {"started", "again"} /\ (there = "again" <=> Front(target[t]) # <<>>)
    BY <1>2
  <2> HIDE DEF there
  <2>3. pc' = [pc EXCEPT ![t] = there]
    BY <1>1 DEF there
  <2> QED
    BY <1>1, <1>2, <2>1, <2>2, <2>3 DEF Inv, StartupTypeOK
<1>4. Undisturbed'
  <2> SUFFICES ASSUME removals = 0
               PROVE  Undisturbed'
    BY <1>1 DEF Undisturbed
  <2>1. /\ target[t] = <<SpaceNet>> /\ deepest' = SpaceNet
        /\ pc' = [pc EXCEPT ![t] = "started"] /\ target' = [target EXCEPT ![t] = <<>>]
    BY <1>1, <1>2 DEF Inv, Undisturbed
  <2>2. \A u \in Tracker : u # t => pc'[u] = pc[u] /\ target'[u] = target[u]
    BY <2>1 DEF Inv, StartupTypeOK
  <2>3. pc'[t] = "started" /\ target'[t] = <<>>
    BY <2>1 DEF Inv, StartupTypeOK
  <2>4. Exists(Home)' /\ Exists(SpaceNet)'
    BY <2>1, Level DEF Exists, SpaceNet
  <2> QED
    BY <2>2, <2>3, <2>4 DEF Inv, Undisturbed
<1> QED
  BY <1>3, <1>4 DEF Inv

LEMMA UnwindStep ==
    ASSUME Inv, NEW t \in Tracker, MakeExists(t) \/ MakeFails(t)
    PROVE  Inv'
<1>1. /\ pc[t] \in {"make", "again"} /\ UNCHANGED <<deepest, removals>>
      /\ target' = [target EXCEPT ![t] = <<>>] /\ pc' = [pc EXCEPT ![t] = "threw"]
  BY DEF MakeExists, MakeFails, Unwind, Goto
<1>2. StartupTypeOK'
  <2>1. <<>> \in Seq(1 .. SpaceNet)
    OBVIOUS
  <2> QED
    BY <1>1, <2>1 DEF Inv, StartupTypeOK
<1>3. Undisturbed'
  <2> SUFFICES ASSUME removals = 0
               PROVE  Undisturbed'
    BY <1>1 DEF Undisturbed
  <2>1. target[t] = <<SpaceNet>> /\ target[t] # <<>> /\ target[t] \in Seq(1 .. SpaceNet)
    BY <1>1 DEF Inv, StartupTypeOK, Undisturbed
  <2>2. Last(target[t]) = SpaceNet
    BY <2>1, StackLemma
  <2>3. Exists(SpaceNet)
    BY <2>2 DEF MakeExists, MakeFails, Inv, Undisturbed
  <2> QED
    BY <1>1, <2>3 DEF Inv, StartupTypeOK, Undisturbed, Exists
<1> QED
  BY <1>2, <1>3 DEF Inv

LEMMA ParentStep ==
    ASSUME Inv, NEW t \in Tracker, MakeParent(t)
    PROVE  Inv'
<1>1. /\ pc[t] = "make" /\ Last(target[t]) > deepest + 1 /\ UNCHANGED <<deepest, pc, removals>>
      /\ target' = [target EXCEPT ![t] = Append(target[t], Last(target[t]) - 1)]
      /\ target[t] \in Seq(1 .. SpaceNet) /\ target[t] # <<>> /\ deepest \in Nat
  BY Level DEF MakeParent, Inv, StartupTypeOK
<1>2. /\ Last(target[t]) \in 1 .. SpaceNet
      /\ target[t] = <<SpaceNet>> => Last(target[t]) = SpaceNet
  BY <1>1, StackLemma
<1>3. removals # 0
  BY <1>1, <1>2, Level DEF Inv, Undisturbed, Exists
<1>4. Append(target[t], Last(target[t]) - 1) \in Seq(1 .. SpaceNet) \ {<<>>}
  <2>1. Last(target[t]) - 1 \in 1 .. SpaceNet
    BY <1>1, <1>2, Level
  <2> QED
    BY <1>1, <2>1
<1>5. StartupTypeOK'
  BY <1>1, <1>4 DEF Inv, StartupTypeOK
<1>6. Undisturbed'
  BY <1>1, <1>3 DEF Undisturbed
<1> QED
  BY <1>5, <1>6 DEF Inv

LEMMA ConnectStep ==
    ASSUME Inv, NEW t \in Tracker, Connect(t)
    PROVE  Inv'
<1>1. PICK there \in {"running", "crashed"} :
        /\ pc[t] = "started" /\ UNCHANGED <<deepest, target, removals>>
        /\ pc' = [pc EXCEPT ![t] = there]
        /\ there = "crashed" => ~Exists(SpaceNet)
  BY DEF Connect, Goto
<1>2. StartupTypeOK'
  BY <1>1 DEF Inv, StartupTypeOK
<1>3. Undisturbed'
  <2> SUFFICES ASSUME removals = 0
               PROVE  Undisturbed'
    BY <1>1 DEF Undisturbed
  <2>1. there = "running"
    BY <1>1 DEF Inv, Undisturbed
  <2> QED
    BY <1>1, <2>1 DEF Inv, StartupTypeOK, Undisturbed, Exists
<1> QED
  BY <1>2, <1>3 DEF Inv

LEMMA OthersStep ==
    ASSUME Inv, RemoveDirectory \/ RestoreHome
    PROVE  Inv'
<1>1. CASE RemoveDirectory
  <2>1. removals' # 0 /\ UNCHANGED <<pc, target>>
        /\ deepest' \in 0 .. SpaceNet /\ removals' \in 0 .. MaxRemovals
    BY <1>1, Level, StartupAssumption DEF RemoveDirectory, Inv, StartupTypeOK
  <2> QED
    BY <2>1 DEF Inv, StartupTypeOK, Undisturbed
<1>2. CASE RestoreHome
  <2>1. removals # 0
    BY <1>2 DEF RestoreHome, Inv, Undisturbed
  <2>2. UNCHANGED <<pc, target, removals>> /\ deepest' \in 0 .. SpaceNet
    BY <1>2, Level DEF RestoreHome
  <2> QED
    BY <2>1, <2>2 DEF Inv, StartupTypeOK, Undisturbed
<1> QED
  BY <1>1, <1>2

LEMMA InvStep ==
    ASSUME Inv, [StartupNext]_startupVars
    PROVE  Inv'
<1>1. CASE UNCHANGED startupVars
  BY <1>1 DEF startupVars, Inv, StartupTypeOK, Undisturbed, Exists
<1>2. ASSUME NEW t \in Tracker, RunStep(t)
      PROVE  Inv'
  BY <1>2, BeginStep, CheckStep, MadeStep, UnwindStep, ParentStep, ConnectStep DEF RunStep
<1> QED
  BY <1>1, <1>2, OthersStep DEF StartupNext

LEMMA Invariant == StartupSpec => []Inv
<1>1. StartupInit => Inv
  BY InvInit
<1>2. Inv /\ [StartupNext]_startupVars => Inv'
  BY InvStep
<1> QED
  BY <1>1, <1>2, PTL DEF StartupSpec

-----------------------------------------------------------------------------
\* mkdir's calls of itself never go above the drive, and its stack is empty
\* whenever run() is elsewhere, however it was left.
THEOREM StartupTypeCorrect == StartupSpec => []StartupTypeOK
<1>1. Inv => StartupTypeOK
  BY DEF Inv
<1> QED
  BY <1>1, Invariant, PTL

\* No worker starts without a directory for its database unless somebody
\* removed it, nor does run() throw but to a tracker overtaken by another one,
\* which gets on.
THEOREM AlwaysUndisturbed == StartupSpec => []StartsUndisturbed
<1>1. Inv => StartsUndisturbed
  BY DEF Inv, Undisturbed, StartsUndisturbed
<1> QED
  BY <1>1, Invariant, PTL

-----------------------------------------------------------------------------
(* The names.                                                              *)

\* A set of numbers that is not empty has a least one.
LEMMA LeastNat ==
    ASSUME NEW T \in SUBSET Nat, T # {}
    PROVE  \E k \in T : \A j \in T : k <= j
<1> DEFINE I(k) == 1 .. k
           R == StrictSubsetOrdering(Nat)
           U == {I(k) : k \in T}
<1>1. U \subseteq FiniteSubsetsOf(Nat)
  <2>1. ASSUME NEW k \in T PROVE I(k) \in FiniteSubsetsOf(Nat)
    <3>1. IsFiniteSet(1 .. k)
      BY FS_Interval
    <3> QED
      BY <3>1 DEF FiniteSubsetsOf
  <2> QED
    BY <2>1
<1>2. U # {}
  OBVIOUS
<1>3. PICK u \in U : \A v \in U : <<v, u>> \notin R
  <2>1. IsWellFoundedOn(R, FiniteSubsetsOf(Nat))
    BY FS_StrictSubsetOrderingWellFounded
  <2> HIDE DEF U, R
  <2> QED
    BY <1>1, <1>2, <2>1, WFMin
<1>4. PICK k \in T : u = I(k)
  BY <1>3
<1>5. ASSUME NEW j \in T, ~(k <= j) PROVE FALSE
  <2>1. k \in Nat /\ j \in Nat /\ j < k
    BY <1>5
  <2>2. I(j) \subseteq I(k) /\ k \in I(k) /\ k \notin I(j)
    BY <2>1
  <2>3. I(j) \in SUBSET Nat /\ I(k) \in SUBSET Nat
    OBVIOUS
  <2>4. <<I(j), I(k)>> \in R
    BY <2>2, <2>3 DEF StrictSubsetOrdering
  <2> QED
    BY <1>3, <1>4, <2>4
<1> QED
  BY <1>5


\* t holds what the loop over s has kept after each of its first m characters.
Loop(t, s, C, m) ==
    t = [n \in 0 .. m |-> IF n = 0 THEN <<>>
                          ELSE IF s[n] \in C THEN Append(t[n - 1], s[n]) ELSE t[n - 1]]

\* There is such a t for the whole of s: if there were none for some m, then
\* for a least one, and that of the number before could be continued.
LEMMA LoopRuns ==
    ASSUME NEW S, NEW s \in Seq(S), NEW C
    PROVE  \E t : Loop(t, s, C, Len(s)) /\ Kept(s, C) = t[Len(s)]
<1> DEFINE T == {m \in 0 .. Len(s) : ~\E t : Loop(t, s, C, m)}
<1>1. ASSUME T # {} PROVE FALSE
  <2>1. PICK m \in T : \A j \in T : m <= j
    <3>1. T \in SUBSET Nat
      OBVIOUS
    <3> HIDE DEF T
    <3> QED
      BY <1>1, <3>1, LeastNat
  <2>2. m \in 0 .. Len(s) /\ ~\E t : Loop(t, s, C, m)
    OBVIOUS
  <2>3. CASE m = 0
    <3>1. Loop([n \in 0 .. 0 |-> <<>>], s, C, 0)
      BY DEF Loop
    <3> QED
      BY <2>2, <2>3, <3>1
  <2>4. CASE m # 0
    <3>1. m - 1 \in 0 .. Len(s) /\ m - 1 \notin T
      BY <2>1, <2>2, <2>4
    <3>2. PICK t : Loop(t, s, C, m - 1)
      BY <3>1
    <3> DEFINE last == IF s[m] \in C THEN Append(t[m - 1], s[m]) ELSE t[m - 1]
               u == [n \in 0 .. m |-> IF n = m THEN last ELSE t[n]]
    <3>3. \A n \in 0 .. m - 1 : t[n] = IF n = 0 THEN <<>>
                          ELSE IF s[n] \in C THEN Append(t[n - 1], s[n]) ELSE t[n - 1]
      BY <3>2 DEF Loop
    <3>4. \A n \in 0 .. m : u[n] = IF n = 0 THEN <<>>
                          ELSE IF s[n] \in C THEN Append(u[n - 1], s[n]) ELSE u[n - 1]
      <4> TAKE n \in 0 .. m
      <4> HIDE DEF last
      <4>1. n # 0 => n - 1 \in 0 .. m /\ n - 1 # m /\ u[n - 1] = t[n - 1]
        BY <2>2
      <4>2. CASE n = m
        BY <2>4, <4>1, <4>2 DEF last
      <4>3. CASE n # m
        BY <2>2, <3>3, <4>1, <4>3
      <4> QED
        BY <4>2, <4>3
    <3> HIDE DEF last
    <3>5. u = [n \in 0 .. m |-> u[n]]
      OBVIOUS
    <3> HIDE DEF u
    <3>6. Loop(u, s, C, m)
      BY <3>4, <3>5 DEF Loop
    <3> QED
      BY <2>2, <3>6
  <2> QED
    BY <2>3, <2>4
<1>2. Len(s) \notin T
  BY <1>1
<1>3. \E t : Loop(t, s, C, Len(s))
  BY <1>2
<1> QED
  BY <1>3 DEF Kept, Loop

LEMMA KeptOnly ==
    ASSUME NEW S, NEW s \in Seq(S), NEW C
    PROVE  Kept(s, C) \in Seq(C)
<1>1. PICK t : Loop(t, s, C, Len(s)) /\ Kept(s, C) = t[Len(s)]
  BY LoopRuns
<1>2. \A n \in 0 .. Len(s) : t[n] = IF n = 0 THEN <<>>
                          ELSE IF s[n] \in C THEN Append(t[n - 1], s[n]) ELSE t[n - 1]
  BY <1>1 DEF Loop
<1> DEFINE T == {m \in 0 .. Len(s) : t[m] \notin Seq(C)}
<1>3. ASSUME T # {} PROVE FALSE
  <2>1. PICK m \in T : \A j \in T : m <= j
    <3>1. T \in SUBSET Nat
      OBVIOUS
    <3> HIDE DEF T
    <3> QED
      BY <1>3, <3>1, LeastNat
  <2>2. m \in 0 .. Len(s) /\ t[m] \notin Seq(C) /\ <<>> \in Seq(C)
    OBVIOUS
  <2>3. m # 0
    BY <1>2, <2>2
  <2>4. PICK r \in Seq(C) : r = t[m - 1]
    BY <2>1, <2>2, <2>3
  <2>5. t[m] = IF s[m] \in C THEN Append(r, s[m]) ELSE r
    BY <1>2, <2>2, <2>3, <2>4
  <2>6. s[m] \in C => Append(r, s[m]) \in Seq(C)
    OBVIOUS
  <2> QED
    BY <2>2, <2>5, <2>6
<1> QED
  BY <1>1, <1>3

LEMMA SameFile ==
    ASSUME NEW s \in Seq(Allowed \cup Forbidden), NEW r \in Seq(Allowed \cup Forbidden),
           MakeName(s) = MakeName(r)
    PROVE  \/ SameButCase(s, r)
           \/ Without(s) = Without(r) /\ Without(s) # s /\ Without(r) # r
<1>1. (Allowed \cup Forbidden) \ Forbidden = Allowed
  BY StartupAssumption
<1>2. Without(s) = RemoveForbidden(s) /\ Without(r) = RemoveForbidden(r)
  BY <1>1 DEF Without, RemoveForbidden
<1>3. \A a, b : /\ DigestFile(a) # PlainFile(b)
                /\ DigestFile(a) = DigestFile(b) => a = b
  <2> TAKE a, b
  <2>1. DigestFile(a).kind = "digest" /\ PlainFile(b).kind = "plain"
        /\ DigestFile(a).text = a /\ DigestFile(b).text = b
    BY DEF DigestFile, PlainFile
  <2> QED
    BY <2>1
<1>4. CASE RemoveForbidden(s) # s
  BY <1>2, <1>3, <1>4 DEF MakeName
<1>5. CASE RemoveForbidden(s) = s
  <2>1. RemoveForbidden(r) = r /\ PlainFile(s) = PlainFile(r)
    BY <1>3, <1>5 DEF MakeName
  <2>2. s \in Seq(Allowed) /\ r \in Seq(Allowed)
    BY <1>5, <2>1, KeptOnly DEF RemoveForbidden
  <2>3. PlainFile(s).text = PlainFile(r).text
    BY <2>1
  <2>4. [i \in DOMAIN s |-> FoldCase[s[i]]] = [i \in DOMAIN r |-> FoldCase[r[i]]]
    BY <2>3 DEF PlainFile
  <2>5. DOMAIN s = DOMAIN r /\ \A i \in DOMAIN s : FoldCase[s[i]] = FoldCase[r[i]]
    BY <2>4
  <2>6. Len(s) = Len(r)
    BY <2>2, <2>5
  <2> QED
    BY <2>2, <2>5, <2>6 DEF SameButCase
<1> QED
  BY <1>4, <1>5

\* Once run() has made up the name of the file it is that of the tracker.
NamesMade ==
    /\ named \in [Tracker -> Settings]
    /\ DOMAIN db = Tracker /\ \A t \in Tracker : db[t] # <<>> => db[t] = MakeName(Given(t))

LEMMA NamesInvariant == StartupSpec => []NamesMade
<1>1. StartupInit => NamesMade
  BY DEF StartupInit, NamesMade
<1>2. NamesMade /\ [StartupNext]_startupVars => NamesMade'
  <2> SUFFICES ASSUME NamesMade, [StartupNext]_startupVars PROVE NamesMade'
    OBVIOUS
  <2>1. CASE UNCHANGED <<named, db>>
    BY <2>1 DEF NamesMade, Given
  <2>2. ASSUME NEW t \in Tracker, BeginRun(t) PROVE NamesMade'
    <3>1. named' = named /\ (db' = db \/ db' = [db EXCEPT ![t] = MakeName(Given(t))])
      BY <2>2 DEF BeginRun
    <3>2. \A u : Given(u)' = Given(u)
      BY <3>1 DEF Given
    <3> QED
      BY <3>1, <3>2 DEF NamesMade
  <2>3. ASSUME NEW t \in Tracker, RunStep(t), ~BeginRun(t) PROVE UNCHANGED <<named, db>>
    BY <2>3 DEF RunStep, CheckDirectory, MakeDirectory, MakeExists, MakeParent, MakeFails, Connect
  <2> QED
    BY <2>1, <2>2, <2>3 DEF StartupNext, startupVars, RemoveDirectory, RestoreHome
<1> QED
  BY <1>1, <1>2, PTL DEF StartupSpec

\* Whose databases are one: names that differ in case only, or names that have
\* forbidden characters and are the same without them.
THEOREM SharingAlwaysExplained == StartupSpec => []SharingExplained
<1>1. NamesMade => SharingExplained
  <2> SUFFICES ASSUME NamesMade, NEW t \in Tracker, NEW u \in Tracker, db[t] # <<>>, db[t] = db[u]
               PROVE  \/ SameButCase(Given(t), Given(u))
                      \/ /\ Without(Given(t)) = Without(Given(u))
                         /\ Without(Given(t)) # Given(t) /\ Without(Given(u)) # Given(u)
    BY DEF SharingExplained
  <2>1. MakeName(Given(t)) = MakeName(Given(u))
    BY DEF NamesMade
  <2>2. \A v \in Tracker : Given(v) \in Seq(Allowed \cup Forbidden)
    BY StartupAssumption DEF NamesMade, Given
  <2> QED
    BY <2>1, <2>2, SameFile
<1> QED
  BY <1>1, NamesInvariant, PTL
=============================================================================
