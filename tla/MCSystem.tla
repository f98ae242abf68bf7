------------------------------ MODULE MCSystem ------------------------------
(* A tracker on a directory with one entry, a file or a directory.         *)
EXTENDS System, TLC

CONSTANTS root, a, x, nRoot, nEntry

MCUp == (a :> root)
MCKindsOf == (a :> {"dir", "file"})
MCNameOf == (root :> nRoot) @@ (a :> nEntry)
OneBlock == {<<x>>}
=============================================================================
