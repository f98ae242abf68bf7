------------------------------ MODULE MCReader ------------------------------
(* A small tree root/{a/{b/{c/{e}}, f}, d} read two levels down: e lies one *)
(* level beyond the limit, f does not pass the mask, d may not be opened, b *)
(* and d may be changed by other programs, and the whole volume comes and   *)
(* goes.                                                                    *)
EXTENDS Reader

CONSTANTS root, a, b, c, d, e, f

ReadNode == {a, b, c, d, e, f}
ReadUp == (a :> root) @@ (b :> a) @@ (c :> b) @@ (d :> root) @@ (e :> c) @@ (f :> a)
ReadKinds == (a :> {"dir"}) @@ (b :> {"dir", "file"}) @@ (c :> {"dir"}) @@ (d :> {"dir"})
                @@ (e :> {"file"}) @@ (f :> {"file"})
ReadVolatile == {root, b, d}
ReadMatching == {a, b, c, d, e}
ReadDenied == {d}

EmptyFiles == {<<>>}
=============================================================================
