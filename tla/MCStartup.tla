----------------------------- MODULE MCStartup ------------------------------
(* Names of a letter in both cases and a forbidden character, which is      *)
(* everything outside ASCII too: plain ones that differ in case only, and   *)
(* two that are the same once they are filtered.                            *)
EXTENDS Startup, TLC

CONSTANTS lower, upper, colon

MCFoldCase == (lower :> lower) @@ (upper :> lower)
MCSettings ==
    {[user |-> <<>>, path |-> p] : p \in {<<lower>>, <<lower, colon>>, <<colon, lower>>}}
        \cup {[user |-> <<upper>>, path |-> <<colon, lower>>]}
=============================================================================
