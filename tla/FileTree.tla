------------------------------ MODULE FileTree ------------------------------
(***************************************************************************)
(* The file system below a tracked directory, as directory_reader and      *)
(* directory_indexer meet it through FindFirstFileW, FindNextFileW,        *)
(* _waccess, _wsopen_s and _read.  It is the environment of the program:   *)
(* other programs create, rewrite and remove files while a scan runs.      *)
(*                                                                         *)
(* A file's data is the sequence of blocks that _read returns for it, and  *)
(* every change gives the path a time stamp it never had before: the code  *)
(* detects modification by the last-write time alone, so this is the       *)
(* assumption under which it can work at all.                              *)
(***************************************************************************)
EXTENDS Integers, Sequences

CONSTANTS
    Node,        \* the paths below the tracked directory
    Root,        \* the tracked directory itself
    Up,          \* Up[n]: the directory that holds n
    KindsOf,     \* KindsOf[n]: the kinds of entry that n may be
    Block,       \* the blocks that files are made of
    Content,     \* the contents a file may have
    Volatile,    \* the paths that other programs change
    FirstStamp,  \* the time stamp of what exists before the first scan
    MaxChanges   \* bound on the number of changes other programs make

Path == Node \cup {Root}

ASSUME TreeAssumption ==
    /\ Root \notin Node
    /\ Up \in [Node -> Path]
    /\ KindsOf \in [Node -> SUBSET {"dir", "file"}]
    /\ Content \subseteq Seq(Block)
    /\ FirstStamp \in Nat
    /\ MaxChanges \in Nat

VARIABLES
    fs,          \* fs[p]: what is at path p
    clock        \* the time stamp of the latest change

treeVars == <<fs, clock>>

-----------------------------------------------------------------------------
Entry == [kind : {"none", "dir", "file"}, mtime : Nat, data : Seq(Block)]

Nothing == [kind |-> "none", mtime |-> 0, data |-> <<>>]

Directory(t) == [kind |-> "dir", mtime |-> t, data |-> <<>>]

File(t, c) == [kind |-> "file", mtime |-> t, data |-> c]

\* What may come to be at n with time stamp t.
EntriesAt(n, t) ==
    {Directory(t) : k \in KindsOf[n] \cap {"dir"}}
        \cup {File(t, c) : c \in {d \in Content : "file" \in KindsOf[n]}}

Present(p) == fs[p].kind # "none"

Children(p) == {n \in Node : Up[n] = p /\ Present(n)}

-----------------------------------------------------------------------------
\* Before the first scan the tracked directory exists; any tree may be in it.
TreeInit ==
    /\ clock = FirstStamp
    /\ fs \in [Path -> {Nothing, Directory(FirstStamp)}
                         \cup {File(FirstStamp, c) : c \in Content}]
    /\ fs[Root] = Directory(FirstStamp)
    /\ \A n \in Node :
          /\ fs[n] \in {Nothing} \cup EntriesAt(n, FirstStamp)
          /\ Present(n) => fs[Up[n]].kind = "dir"

Tick ==
    /\ clock < FirstStamp + MaxChanges
    /\ clock' = clock + 1

CreateEntry(n) ==
    /\ Tick
    /\ ~Present(n)
    /\ fs[Up[n]].kind = "dir"
    /\ \E e \in EntriesAt(n, clock + 1) : fs' = [fs EXCEPT ![n] = e]

RewriteFile(n) ==
    /\ Tick
    /\ fs[n].kind = "file"
    /\ \E c \in Content : fs' = [fs EXCEPT ![n] = File(clock + 1, c)]

\* A file that the indexer has open (held) cannot be removed: _SH_DENYNO does
\* not share deletion.  A directory can, while it is being listed too.
RemoveEntry(n, held) ==
    /\ Tick
    /\ Present(n)
    /\ Children(n) = {}
    /\ n \notin held
    /\ fs' = [fs EXCEPT ![n] = Nothing]

\* The volume with the tracked directory goes away, or an empty one comes.
Unmount ==
    /\ Tick
    /\ Present(Root)
    /\ fs' = [p \in Path |-> Nothing]

Mount ==
    /\ Tick
    /\ ~Present(Root)
    /\ fs' = [fs EXCEPT ![Root] = Directory(clock + 1)]

FsChange(held) ==
    \/ \E n \in Volatile \cap Node : \/ CreateEntry(n)
                                     \/ RewriteFile(n)
                                     \/ RemoveEntry(n, held)
    \/ Root \in Volatile /\ held = {} /\ (Unmount \/ Mount)
=============================================================================
