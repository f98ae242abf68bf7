---------------------------- MODULE MCStatement -----------------------------
(* Two keys and two values.                                                  *)
EXTENDS Statement
=============================================================================
