------------------------------ MODULE MCScript ------------------------------
(* The three texts of the program: connect_db's PRAGMAs, reindex's tables    *)
(* and indexes, cleanup_entries.                                             *)
EXTENDS Script

Texts == [connect |-> 6, create |-> 5, cleanup |-> 3]
=============================================================================
