---------------------------- MODULE MCFileDigest ----------------------------
(* All files of up to three bytes, and some of four and five, in blocks of   *)
(* two: a CR LF pair within a block and across two, Ctrl-Z, zeros at the end. *)
EXTENDS FileDigest

CONSTANTS x, cr, lf, z, zero

MCByte == {x, cr, lf, z, zero}
Longer == {<<x, cr, lf, x>>, <<x, x, x, zero>>, <<cr, cr, lf, lf, x>>, <<x, z, x, x, x>>,
           <<x, x, x, zero, zero>>, <<x, x, x, x, x>>}
MCContents == UNION {[1 .. n -> MCByte] : n \in 0 .. 3} \cup Longer
=============================================================================
