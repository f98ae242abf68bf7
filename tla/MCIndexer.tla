------------------------------ MODULE MCIndexer -----------------------------
(* Indexer on the tree root/{a/{b}, f}, where a may be a directory or a     *)
(* file and b and f are files of the same name; on root/{a/{b}}, where b    *)
(* has the name of a; and on root/{f}.                                      *)
EXTENDS IndexMap

CONSTANTS root, a, b, f, x, y, nRoot, nDir, nFile

MCUp == (a :> root) @@ (b :> a) @@ (f :> root)
MCKindsOf == (a :> {"dir", "file"}) @@ (b :> {"file"}) @@ (f :> {"file"})
MCNameOf == (root :> nRoot) @@ (a :> nDir) @@ (b :> nFile) @@ (f :> nFile)

UpAB == (a :> root) @@ (b :> a)
KindsAB == (a :> {"dir", "file"}) @@ (b :> {"file"})
NameAB == (root :> nRoot) @@ (a :> nDir) @@ (b :> nDir)

UpF == (f :> root)
KindsF == (f :> {"dir", "file"})
NameF == (root :> nRoot) @@ (f :> nFile)

OneBlock == {<<x>>}
SomeBlocks == {<<>>, <<x>>, <<y, x>>}
=============================================================================
