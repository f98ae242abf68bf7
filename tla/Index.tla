------------------------------- MODULE Index --------------------------------
(***************************************************************************)
(* What an observer of the database is promised: an index of the tracked   *)
(* tree by path, while other programs go on changing the tree.  No rowids, *)
(* marks, scans or statements: entries come up under indexed directories,  *)
(* are refreshed, get the digest of the file as it is, and go with         *)
(* everything below them.  Module Indexer implements it.                   *)
(***************************************************************************)
EXTENDS FileTree

CONSTANTS
    Null,       \* no digest
    MaxBlocks   \* the longest file, in blocks

VARIABLE rows   \* what is recorded of each indexed path

indexVars == <<treeVars, rows>>

-----------------------------------------------------------------------------
Indexed == DOMAIN rows

Digests == UNION {[1 .. k -> Block] : k \in 0 .. MaxBlocks}

\* What is known of an entry apart from its time stamp and digest.
Facts == [dir : BOOLEAN, size : 0 .. MaxBlocks]

RowWith(f, t, d) == [dir |-> f.dir, size |-> f.size, mtime |-> t, digest |-> d]

IndexInit == TreeInit /\ rows = [p \in {} |-> Null]

\* A path comes up, once its directory has.
Insert(p) ==
    /\ p \notin Indexed
    /\ p # Root => Up[p] \in Indexed
    /\ \E f \in Facts :
          rows' = [q \in Indexed \cup {p} |-> IF q = p THEN RowWith(f, 0, Null) ELSE rows[q]]
    /\ UNCHANGED treeVars

\* Something new is known of a path, whose digest is therefore forgotten.
Refresh(p) ==
    /\ p \in Indexed
    /\ \E f \in Facts : rows' = [rows EXCEPT ![p] = RowWith(f, @.mtime, Null)]
    /\ UNCHANGED treeVars

\* The digest d and size recorded for time stamp t describe the file at p if
\* the file has that stamp.
Describes(p, size, t, d) ==
    fs[p].kind = "file" /\ fs[p].mtime = t => d = fs[p].data /\ size = Len(d)

Record(p) ==
    /\ p \in Indexed
    /\ \E t \in 0 .. clock, d \in Digests :
          /\ Describes(p, rows[p].size, t, d)
          /\ rows' = [rows EXCEPT ![p] = RowWith(@, t, d)]
    /\ UNCHANGED treeVars

\* Paths go, and all that was indexed below them.
Sweep ==
    /\ \E S \in SUBSET Indexed :
          /\ \A q \in Indexed \ {Root} : Up[q] \in S => q \in S
          /\ rows' = [q \in Indexed \ S |-> rows[q]]
    /\ UNCHANGED treeVars

IndexNext ==
    \/ \E p \in Path : Insert(p) \/ Refresh(p) \/ Record(p)
    \/ Sweep
    \/ FsChange({}) /\ UNCHANGED rows

IndexSpec == IndexInit /\ [][IndexNext]_indexVars

-----------------------------------------------------------------------------
IndexTypeOK ==
    /\ Indexed \subseteq Path
    /\ \A p \in Indexed :
          rows[p] \in [dir : BOOLEAN, size : 0 .. MaxBlocks, mtime : Nat, digest : Digests \cup {Null}]

\* The index is a tree that hangs together: no path without its directory.
Rooted == \A p \in Indexed \ {Root} : Up[p] \in Indexed

\* A digest whose time stamp is the file's is the digest of the file, though
\* the file may have been rewritten, removed and made again any number of
\* times since it was recorded.
Fresh ==
    \A p \in Indexed : rows[p].digest # Null =>
        Describes(p, rows[p].size, rows[p].mtime, rows[p].digest)
=============================================================================
