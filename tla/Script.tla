------------------------------- MODULE Script -------------------------------
(***************************************************************************)
(* database::execute_all, which runs the statements of one text on one     *)
(* connection, and the transaction around it in cleanup_entries: what is   *)
(* committed, what is thrown and what is left behind when a statement      *)
(* cannot be prepared or fails.                                            *)
(*                                                                         *)
(* A statement that fails is undone; some errors (an I/O error, a full     *)
(* disk) make SQLite roll back the whole transaction.  Left out is an      *)
(* error in preparing the first PRAGMA of connect_db.                      *)
(***************************************************************************)
EXTENDS Naturals

CONSTANTS
    Length,     \* Length[c]: the number of statements in the text of caller c
    InXct,      \* the callers that hold a transaction
    NoThrow     \* the callers that have switched exceptions off

Caller == DOMAIN Length

ASSUME ScriptAssumption ==
    /\ Length \in [Caller -> Nat \ {0}]
    /\ InXct \subseteq Caller /\ NoThrow \subseteq Caller \ InXct

VARIABLES
    caller,    \* whose text is run
    no,        \* the statement of the text that is next prepared or executed
    done,      \* the statements whose effect is there, but not committed
    kept,      \* those that are committed
    xct,       \* "open": the connection is in a transaction
    leaked,    \* a prepared statement that nobody will finalize
    rc,        \* rc_ of the command
    place

scriptVars == <<caller, no, done, kept, xct, leaked, rc, place>>

-----------------------------------------------------------------------------
Throws == caller \notin NoThrow

ScriptInit ==
    /\ caller \in Caller /\ no = 1 /\ done = {} /\ kept = {}
    /\ xct = "none" /\ leaked = FALSE /\ rc = "ok"
    /\ place = IF caller \in InXct THEN "begin" ELSE "prepare"

\* BEGIN IMMEDIATE in the constructor; if it throws there is no transaction
\* object to be destroyed.
Begin ==
    /\ place = "begin"
    /\ \/ xct' = "open" /\ place' = "prepare"
       \/ UNCHANGED xct /\ place' = "threw"
    /\ UNCHANGED <<caller, no, done, kept, leaked, rc>>

\* The next statement is prepared and the one before finalized, or the text
\* is through: what is left of it prepares to nothing, and that is a success.
Prepare ==
    /\ place = "prepare"
    /\ rc' = "ok"
    /\ place' = IF no > Length[caller] THEN "through" ELSE "execute"
    /\ UNCHANGED <<caller, no, done, kept, xct, leaked>>

BreakAsDone ==    \* mutant: the error is forgotten at the break
    IF Throws THEN /\ leaked' = (no > 1) /\ place' = "unwind" /\ rc' = "error"
              ELSE place' = "through" /\ rc' = "ok" /\ UNCHANGED leaked

\* With exceptions the handle of the statement before is lost; without them
\* it is taken back, and the loop is left with the error.
PrepareBreaks ==
    /\ rc' = "error"
    /\ IF Throws THEN leaked' = (no > 1) /\ place' = "unwind"
                 ELSE place' = "through" /\ UNCHANGED leaked

PrepareFails ==
    /\ place = "prepare" /\ (no = 1 => Throws)
    /\ PrepareBreaks
    /\ UNCHANGED <<caller, no, done, kept, xct>>

\* Outside of a transaction every statement commits by itself.
ExecuteOne ==
    /\ place = "execute"
    /\ no' = no + 1 /\ rc' = "ok" /\ place' = "prepare"
    /\ IF xct = "open" THEN done' = done \cup {no} /\ UNCHANGED kept
                       ELSE kept' = kept \cup {no} /\ UNCHANGED done
    /\ UNCHANGED <<caller, xct, leaked>>

GoOn ==    \* mutant: as if exceptions were off
    place' = "prepare"

AfterError == place' = IF Throws THEN "unwind" ELSE "prepare"

ExecuteFails ==
    /\ place = "execute"
    /\ no' = no + 1 /\ rc' = "error"
    /\ AfterError
    /\ \/ UNCHANGED <<done, xct>>
       \/ done' = {} /\ xct' = "none"
    /\ UNCHANGED <<caller, kept, leaked>>

\* execute_all returns, and the caller commits.
Through ==
    /\ place = "through"
    /\ place' = IF caller \in InXct THEN "commit" ELSE "returned"
    /\ UNCHANGED <<caller, no, done, kept, xct, leaked, rc>>

Committed == xct = "open" /\ xct' = "none" /\ kept' = kept \cup done /\ done' = {}

\* commit() forgets the database first, so that its error is thrown once.
Commit ==
    /\ place = "commit"
    /\ \/ Committed /\ place' = "returned"
       \/ place' = "threw" /\ UNCHANGED <<done, kept, xct>>
       \/ place' = "threw" /\ xct' = "none" /\ done' = {} /\ UNCHANGED kept
    /\ UNCHANGED <<caller, no, leaked, rc>>

LeftAlone ==    \* mutant: ~transaction does not end the transaction
    place' = "threw" /\ UNCHANGED <<done, kept, xct>>

\* ~transaction executes COMMIT.  If that fails, or there is no transaction
\* any more, it throws out of a destructor.
Destroyed ==
    \/ Committed /\ place' = "threw"
    \/ place' = "terminated" /\ xct' = "none" /\ done' = {} /\ UNCHANGED kept

Unwind ==
    /\ place = "unwind"
    /\ IF caller \in InXct THEN Destroyed ELSE place' = "threw" /\ UNCHANGED <<done, kept, xct>>
    /\ UNCHANGED <<caller, no, leaked, rc>>

\* worker's catch closes the connection, which rolls back and lets go of its
\* locks once no statement is left on it.
Disconnect ==
    /\ place = "threw"
    /\ place' = "closed"
    /\ IF leaked THEN UNCHANGED <<done, xct>> ELSE done' = {} /\ xct' = "none"
    /\ UNCHANGED <<caller, no, kept, leaked, rc>>

ScriptNext ==
    \/ Begin \/ Prepare \/ PrepareFails \/ ExecuteOne \/ ExecuteFails
    \/ Through \/ Commit \/ Unwind \/ Disconnect

ScriptSpec == ScriptInit /\ [][ScriptNext]_scriptVars

-----------------------------------------------------------------------------
\* What a throwing text leaves behind is its beginning: no entries are deleted
\* unless their blocks have been, though ~transaction commits half a cleanup.
KeptIsPrefix == Throws => \E k \in 0 .. Length[caller] : kept = 1 .. k

\* Whatever fails, and though a statement may be lost with its connection, the
\* connection never keeps the write lock when it has been closed.
NoLockLeft == place \in {"closed", "terminated", "returned"} => xct = "none"

\* execute_all returns without an error only if no statement was passed over,
\* and with exceptions on only if all of them are committed.
ReturnsThrough ==
    place = "returned" /\ rc = "ok" =>
        no = Length[caller] + 1 /\ (Throws => kept = 1 .. Length[caller])
=============================================================================
