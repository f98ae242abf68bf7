------------------------------ MODULE Startup -------------------------------
(***************************************************************************)
(* directory_tracker::run, up to the worker's first connect_db: the name   *)
(* of the database file and the directory it is kept in, for several       *)
(* trackers that start at the same time in threads or processes.           *)
(*                                                                         *)
(* The home directory is level Home of a path, its parents are the levels  *)
(* above (0 is the drive, which is always there), and .spacenet the level  *)
(* below.  A digest determines what was digested and is represented by it. *)
(***************************************************************************)
EXTENDS Naturals, Sequences, FiniteSets, SequencesExt

CONSTANTS
    Tracker,      \* the trackers
    Allowed,      \* A-Z a-z 0-9 . _ -
    Forbidden,    \* every other character
    FoldCase,     \* FoldCase[c]: c as Windows compares file names
    Settings,     \* the user-defined names (<<>> is none) and paths that occur together
    Home,         \* how deep the home directory is
    MaxRemovals   \* bound on the directories that other programs remove

ASSUME StartupAssumption ==
    /\ Allowed \cap Forbidden = {}
    /\ FoldCase \in [Allowed -> Allowed]
    /\ Settings \subseteq [user : Seq(Allowed \cup Forbidden), path : Seq(Allowed \cup Forbidden)]
    /\ Home \in Nat \ {0} /\ MaxRemovals \in Nat

VARIABLES
    named,      \* dir_user_defined_name_ and dir_path_name_
    db,         \* db_name_, as the file it denotes; <<>> before run()
    deepest,    \* the directories on the path to .spacenet that exist: 0 .. deepest
    pc,         \* where run() is
    target,     \* the directories mkdir is asked for, the innermost call last
    removals    \* directories removed by other programs

startupVars == <<named, db, deepest, pc, target, removals>>

-----------------------------------------------------------------------------
(* The name of the database.                                               *)

\* The file a name denotes: of plain names the case does not count, those of
\* a digest have lower case letters only.
PlainFile(s) == [kind |-> "plain", text |-> [i \in DOMAIN s |-> FoldCase[s[i]]]]
DigestFile(s) == [kind |-> "digest", text |-> s]

\* The loop of remove_forbidden_characters, with what stays as a set.
Kept(s, C) ==
    LET t[n \in 0 .. Len(s)] ==
            IF n = 0 THEN <<>> ELSE IF s[n] \in C THEN Append(t[n - 1], s[n]) ELSE t[n - 1]
    IN  t[Len(s)]

RemoveForbidden(s) == Kept(s, Allowed)

FilterOnly(s) == PlainFile(RemoveForbidden(s))    \* mutant: no digest

\* make_name.  What is digested is the filtered name, and the prefix that
\* make_digest_name means to cut to 13 characters is empty.
MakeName(s) ==
    LET t == RemoveForbidden(s) IN IF t # s THEN DigestFile(t) ELSE PlainFile(s)

Given(t) == IF named[t].user = <<>> THEN named[t].path ELSE named[t].user

-----------------------------------------------------------------------------
SpaceNet == Home + 1

Exists(d) == d <= deepest

HomeAccessible == Exists(Home)

StartupInit ==
    /\ named \in [Tracker -> Settings]
    /\ db = [t \in Tracker |-> <<>>]
    /\ deepest = Home
    /\ pc = [t \in Tracker |-> "idle"] /\ target = [t \in Tracker |-> <<>>]
    /\ removals = 0

Goto(t, there) == pc' = [pc EXCEPT ![t] = there]

\* home_path throws if there is no home directory; otherwise the names are
\* made up.  A run() that threw may be called again.
BeginRun(t) ==
    /\ pc[t] \in {"idle", "threw"}
    /\ IF HomeAccessible THEN Goto(t, "check") /\ db' = [db EXCEPT ![t] = MakeName(Given(t))]
                         ELSE Goto(t, "threw") /\ UNCHANGED db
    /\ UNCHANGED <<named, deepest, target, removals>>

CheckNot(t) ==    \* mutant: mkdir in any case
    /\ pc[t] = "check"
    /\ Goto(t, "make") /\ target' = [target EXCEPT ![t] = <<SpaceNet>>]
    /\ UNCHANGED <<named, db, deepest, removals>>

\* access(db_path_, F_OK): mkdir is called if it is not there.
CheckDirectory(t) ==
    /\ pc[t] = "check"
    /\ IF Exists(SpaceNet) THEN Goto(t, "started") /\ UNCHANGED target
                           ELSE Goto(t, "make") /\ target' = [target EXCEPT ![t] = <<SpaceNet>>]
    /\ UNCHANGED <<named, db, deepest, removals>>

MadeInverted(t) ==    \* mutant: the result of make() negated
    /\ deepest' = Last(target[t])
    /\ target' = [target EXCEPT ![t] = <<>>]
    /\ Goto(t, "threw")

\* mkdir's first make(), or the second after its parent was made.  When it is
\* the innermost call the caller goes on with its own second make().
Made(t) ==
    /\ deepest' = Last(target[t])
    /\ target' = [target EXCEPT ![t] = Front(@)]
    /\ Goto(t, IF Len(target[t]) = 1 THEN "started" ELSE "again")

Unwind(t) == target' = [target EXCEPT ![t] = <<>>] /\ Goto(t, "threw")

MakeDirectory(t) ==
    /\ pc[t] \in {"make", "again"}
    /\ Last(target[t]) = deepest + 1
    /\ Made(t)
    /\ UNCHANGED <<named, db, removals>>

\* ERROR_ALREADY_EXISTS becomes EEXIST before it is compared with
\* ERROR_ALREADY_EXISTS: whoever is not the one to create it throws.
MakeExists(t) ==
    /\ pc[t] \in {"make", "again"}
    /\ Exists(Last(target[t]))
    /\ Unwind(t)
    /\ UNCHANGED <<named, db, deepest, removals>>

\* ERROR_PATH_NOT_FOUND: mkdir of the parent first.
MakeParent(t) ==
    /\ pc[t] = "make" /\ Last(target[t]) > deepest + 1
    /\ target' = [target EXCEPT ![t] = Append(@, Last(@) - 1)]
    /\ UNCHANGED <<named, db, deepest, pc, removals>>

\* The parent is gone again before the second make().
MakeFails(t) ==
    /\ pc[t] = "again" /\ Last(target[t]) > deepest + 1
    /\ Unwind(t)
    /\ UNCHANGED <<named, db, deepest, removals>>

\* The worker's connect_db: without the directory there is no database and
\* the process dies on the connection that was never opened.
Connect(t) ==
    /\ pc[t] = "started"
    /\ Goto(t, IF Exists(SpaceNet) THEN "running" ELSE "crashed")
    /\ UNCHANGED <<named, db, deepest, target, removals>>

\* Other programs remove directories; an open database keeps its own.
RemoveDirectory ==
    /\ removals < MaxRemovals /\ deepest > 0
    /\ \A t \in Tracker : pc[t] # "running"
    /\ deepest' = deepest - 1 /\ removals' = removals + 1
    /\ UNCHANGED <<named, db, pc, target>>

\* The user's home directory is restored.
RestoreHome ==
    /\ ~Exists(Home)
    /\ deepest' = Home
    /\ UNCHANGED <<named, db, pc, target, removals>>

RunStep(t) ==
    \/ BeginRun(t) \/ CheckDirectory(t) \/ MakeDirectory(t)
    \/ MakeExists(t) \/ MakeParent(t) \/ MakeFails(t) \/ Connect(t)

StartupNext == (\E t \in Tracker : RunStep(t)) \/ RemoveDirectory \/ RestoreHome

\* Each run() is executed, and one that threw is called again.
StartupSpec ==
    /\ StartupInit /\ [][StartupNext]_startupVars
    /\ \A t \in Tracker : WF_startupVars(RunStep(t))
    /\ WF_startupVars(RestoreHome)

-----------------------------------------------------------------------------
StartupTypeOK ==
    /\ deepest \in 0 .. SpaceNet /\ removals \in 0 .. MaxRemovals
    /\ pc \in [Tracker -> {"idle", "check", "make", "again", "started", "running", "crashed", "threw"}]
    /\ target \in [Tracker -> Seq(1 .. SpaceNet)]
    /\ \A t \in Tracker : pc[t] \in {"make", "again"} <=> target[t] # <<>>

\* As long as nobody removes directories every worker finds one for its
\* database, however the run()s of several trackers interleave, and run()
\* throws only to a tracker that was overtaken by another between its look and
\* its CreateDirectoryW, and that other one gets on.
StartsUndisturbed ==
    removals = 0 =>
        \A t \in Tracker :
            /\ pc[t] # "crashed"
            /\ pc[t] = "threw" => \E u \in Tracker \ {t} : pc[u] \in {"started", "running"}

Without(s) == Kept(s, (Allowed \cup Forbidden) \ Forbidden)

SameButCase(s, r) ==
    Len(s) = Len(r) /\ \A i \in DOMAIN s : s[i] \in Allowed /\ r[i] \in Allowed
                                            /\ FoldCase[s[i]] = FoldCase[r[i]]

\* Two trackers share a database only if their names are the same but for
\* case, or if both have forbidden characters and nothing else in them
\* differs (provided that no plain name is spelled like a digest).
SharingExplained ==
    \A t, u \in Tracker : db[t] # <<>> /\ db[t] = db[u] =>
        \/ SameButCase(Given(t), Given(u))
        \/ /\ Without(Given(t)) = Without(Given(u))
           /\ Without(Given(t)) # Given(t) /\ Without(Given(u)) # Given(u)

\* Every tracker whose run() is called again when it threw comes to run, or
\* its process dies because the directory was removed before it connected.
AllRun == \A t \in Tracker : <>(pc[t] \in {"running", "crashed"})
=============================================================================
