------------------------------- MODULE Tracker ------------------------------
(***************************************************************************)
(* directory_tracker: a worker thread that scans a directory once a minute *)
(* and the owner that calls run(), shutdown() and the destructor.          *)
(*                                                                         *)
(* The owner stores shutdown_ and notifies without taking mtx_, so that    *)
(* its two steps may fall anywhere in the worker's, in particular between  *)
(* the worker's look at the predicate and its going to sleep.  The wait is *)
(* cv_.wait_until(lock, deadline, predicate), modelled as the loop the     *)
(* library defines it to be, with spurious wakeups.  reindex is one step   *)
(* that returns or throws (module Indexer has its inside).  Only the       *)
(* worker ever takes mtx_, which therefore blocks nobody.                  *)
(***************************************************************************)
EXTENDS Naturals

VARIABLES
    process,   \* "running", or how the process ended
    owner,     \* where the owner is
    thread,    \* thread_ holds a thread
    shutdown,  \* shutdown_
    worker,    \* where the worker thread is
    db,        \* the worker's connection
    error,     \* error_ is set
    (* history, for the properties only *)
    late,      \* scans begun since shutdown() stored the flag
    rested     \* the deadline has passed since the last scan

vars == <<process, owner, thread, shutdown, worker, db, error, late, rested>>
ownerVars == <<owner, thread>>

Init ==
    /\ process = "running"
    /\ owner = "free" /\ thread = FALSE
    /\ shutdown \in BOOLEAN     \* no constructor initialises shutdown_
    /\ worker = "none" /\ db = "closed" /\ error = FALSE
    /\ late = 0 /\ rested = TRUE

Running == process = "running"

-----------------------------------------------------------------------------
(* The owner.                                                              *)

Run ==
    /\ Running /\ owner = "free" /\ ~thread
    /\ shutdown' = FALSE /\ thread' = TRUE /\ worker' = "connect"
    /\ late' = 0 /\ rested' = TRUE
    /\ UNCHANGED <<process, owner, db, error>>

\* thread_.reset destroys a joinable thread: std::terminate.
RunTwice ==
    /\ Running /\ owner = "free" /\ thread
    /\ process' = "terminated" /\ shutdown' = FALSE
    /\ UNCHANGED <<ownerVars, worker, db, error, late, rested>>

\* shutdown(), or the destructor, which then ends the object's life.
Shutdown ==
    /\ Running /\ owner = "free" /\ thread
    /\ shutdown' = TRUE
    /\ owner' \in {"notify", "notify-destroy"}
    /\ UNCHANGED <<process, thread, worker, db, error, late, rested>>

\* thread_ == nullptr: nothing to do.
ShutdownIdle ==
    /\ Running /\ owner = "free" /\ ~thread
    /\ owner' \in {"free", "destroyed"}
    /\ UNCHANGED <<process, thread, shutdown, worker, db, error, late, rested>>

\* notify_one wakes the worker if it sleeps, and is lost if it does not.
Notify ==
    /\ Running
    /\ \/ owner = "notify" /\ owner' = "join"
       \/ owner = "notify-destroy" /\ owner' = "join-destroy"
    /\ worker' = IF worker = "asleep" THEN "look" ELSE worker
    /\ UNCHANGED <<process, thread, shutdown, db, error, late, rested>>

JoinNot ==    \* mutant: detach instead of join
    /\ Running
    /\ \/ owner = "join" /\ owner' = "free"
       \/ owner = "join-destroy" /\ owner' = "destroyed"
    /\ thread' = FALSE
    /\ UNCHANGED <<process, shutdown, worker, db, error, late, rested>>

Join ==
    /\ Running /\ worker = "ended"
    /\ \/ owner = "join" /\ owner' = "free"
       \/ owner = "join-destroy" /\ owner' = "destroyed"
    /\ worker' = "none" /\ thread' = FALSE
    /\ UNCHANGED <<process, shutdown, db, error, late, rested>>

Owner == Run \/ RunTwice \/ Shutdown \/ ShutdownIdle \/ Notify \/ Join

-----------------------------------------------------------------------------
(* The worker.                                                             *)

At(s) == Running /\ worker = s

\* connect_db.  A failing PRAGMA is not noticed: exceptions are off, and
\* execute_all returns the result of the comment that ends its text.
Connect ==
    /\ At("connect")
    /\ db' = "open" /\ worker' = "reindex"
    /\ late' = IF shutdown THEN late + 1 ELSE late
    /\ rested' = FALSE
    /\ UNCHANGED <<process, ownerVars, shutdown, error>>

\* sqlite3_open_v2 fails.  Exceptions being off, the command is prepared on
\* the broken connection, and execute_all measures the null tail of its text.
ConnectFails ==
    /\ At("connect") /\ db = "closed"
    /\ process' = "crashed"
    /\ UNCHANGED <<ownerVars, shutdown, worker, db, error, late, rested>>

ReindexReturns ==
    /\ At("reindex")
    /\ worker' = "look"
    /\ UNCHANGED <<process, ownerVars, shutdown, db, error, late, rested>>

RetryAtOnce ==    \* mutant: a failed scan is repeated without the wait
    /\ At("reindex")
    /\ error' = TRUE /\ db' = "closed"
    /\ worker' = "connect"
    /\ UNCHANGED <<process, ownerVars, shutdown, late, rested>>

GiveUp ==    \* mutant: the exception leaves the loop
    /\ At("reindex")
    /\ error' = TRUE /\ db' = "closed"
    /\ worker' = "leaving"
    /\ UNCHANGED <<process, ownerVars, shutdown, late, rested>>

ReindexThrows ==
    /\ At("reindex")
    /\ error' = TRUE /\ db' = "closed"
    /\ worker' = "look"
    /\ UNCHANGED <<process, ownerVars, shutdown, late, rested>>

\* The predicate is evaluated before the wait and after every wakeup.
Look ==
    /\ At("look")
    /\ worker' = IF shutdown THEN "leaving" ELSE "dozing"
    /\ UNCHANGED <<process, ownerVars, shutdown, db, error, late, rested>>

\* From here on a notification reaches the worker.
FallAsleep ==
    /\ At("dozing")
    /\ worker' = "asleep"
    /\ UNCHANGED <<process, ownerVars, shutdown, db, error, late, rested>>

WakeupTakenForDeadline ==    \* mutant: a wait without the predicate
    /\ At("asleep")
    /\ worker' = "connect"
    /\ UNCHANGED <<process, ownerVars, shutdown, db, error, late, rested>>

SpuriousWakeup ==
    /\ At("asleep")
    /\ worker' = "look"
    /\ UNCHANGED <<process, ownerVars, shutdown, db, error, late, rested>>

NoDeadline == FALSE  \* mutant: wait instead of wait_until

\* The deadline passes; the predicate decides once more.
Deadline ==
    /\ At("asleep")
    /\ worker' = IF shutdown THEN "leaving" ELSE "connect"
    /\ rested' = TRUE
    /\ UNCHANGED <<process, ownerVars, shutdown, db, error, late>>

\* The last db.disconnect(), and the end of the thread.
Leave ==
    /\ At("leaving")
    /\ db' = "closed" /\ worker' = "ended"
    /\ UNCHANGED <<process, ownerVars, shutdown, error, late, rested>>

Worker ==
    \/ Connect \/ ConnectFails \/ ReindexReturns \/ ReindexThrows
    \/ Look \/ FallAsleep \/ Deadline \/ Leave

Next == Owner \/ Worker \/ SpuriousWakeup

\* Both threads are scheduled and the clock advances; the owner, once inside
\* shutdown(), goes on.  What the owner calls and when is up to the owner.
\* Strong fairness of the deadline: wakeups may come before it again and
\* again, but the deadline of one wait is a fixed point in time.
Fairness == WF_vars(Worker) /\ SF_vars(Deadline) /\ WF_vars(Notify) /\ WF_vars(Join)

Spec == Init /\ [][Next]_vars /\ Fairness

-----------------------------------------------------------------------------
TypeOK ==
    /\ process \in {"running", "terminated", "crashed"}
    /\ owner \in {"free", "notify", "notify-destroy", "join", "join-destroy", "destroyed"}
    /\ thread \in BOOLEAN /\ shutdown \in BOOLEAN
    /\ worker \in {"none", "connect", "reindex", "look", "dozing", "asleep", "leaving", "ended"}
    /\ db \in {"closed", "open"} /\ error \in BOOLEAN
    /\ late \in Nat /\ rested \in BOOLEAN

\* Once shutdown() or the destructor has returned there is no worker that
\* could use the tracker's members, and no connection left open.
NothingSurvives ==
    Running /\ (owner = "destroyed" \/ ~thread) => worker = "none" /\ db = "closed"

\* After shutdown() has stored the flag the worker begins at most one scan
\* (run() may have been the last thing before, or the minute just over).
AtMostOneLateScan == late <= 1

\* Between two scans of one run a whole deadline passes: neither a spurious
\* wakeup nor a notification makes the worker scan again.
ScansSpaced == [][worker # "reindex" /\ worker' = "reindex" => rested]_vars

\* shutdown() and the destructor return, though the notification may be lost.
ShutdownReturns ==
    owner \in {"notify", "notify-destroy"} ~> owner \in {"free", "destroyed"} \/ ~Running

\* A tracker that is not shut down scans again and again, failed scans included.
KeepsScanning == thread /\ Running ~> worker = "reindex" \/ shutdown \/ ~Running
=============================================================================
