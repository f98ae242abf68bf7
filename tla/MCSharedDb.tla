----------------------------- MODULE MCSharedDb -----------------------------
(* Two directories with one file of one block each.                        *)
EXTENDS SharedDb, TLC

CONSTANTS root, f, root2, f2, x, nRoot, nRoot2, nFile

Up1 == (f :> root)
UpTwo == (f2 :> root2)
Kinds1 == (f :> {"file"})
KindsTwo == (f2 :> {"file"})
Names1 == (root :> nRoot) @@ (f :> nFile)
NamesTwo == (root2 :> nRoot2) @@ (f2 :> nFile)

OneBlock == {<<x>>}

(* What a tracker does between its statements reads and writes nothing that  *)
(* the other one does, nor anything a property looks at meanwhile: it goes   *)
(* before the other's steps (a partial-order reduction).                     *)
Private(at, in, known, step, through) ==
    \/ at \notin {"idle", "threw", "manip", "returned"}
    \/ at \in {"idle", "threw"} /\ in = "admit"
    \/ at = "manip" /\ (in = "open" \/ (in = "admit" /\ known) \/ (in = "read" /\ through))
    \/ step = "return"

Private1 == Private(pc, stage, parents[path] # Null, call[1].at, blkNo >= Len(fs[ent.node].data))
Private2 == Private(pc2, stage2, parents2[path2] # Null, call[2].at, blkNo2 >= Len(fs2[ent2.node].data))

(* No more than MaxScans scans are begun, by both together; then all waits.  *)
CONSTANT MaxScans
VARIABLE begun

Begins == (stage = "awake" /\ stage' # "awake") \/ (stage2 = "awake" /\ stage2' # "awake")

Bounded ==
    /\ begun' = IF Begins THEN begun + 1 ELSE begun
    /\ begun' <= MaxScans

ReducedNext ==
    \/ Private1 /\ FirstNext /\ Bounded
    \/ ~Private1 /\ Private2 /\ SecondNext /\ Bounded
    \/ ~Private1 /\ ~Private2 /\ SharedNext /\ Bounded
    \/ /\ begun = MaxScans /\ stage = "awake" /\ stage2 = "awake"
       /\ UNCHANGED <<sharedVars, begun>>

ReducedInit == SharedInit /\ begun = 0

ReducedSpec == ReducedInit /\ [][ReducedNext]_<<sharedVars, begun>>
=============================================================================
