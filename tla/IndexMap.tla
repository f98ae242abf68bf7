------------------------------ MODULE IndexMap ------------------------------
(***************************************************************************)
(* Indexer implements Index: following parent_id and name from the root,   *)
(* an observer reads the table entries as an index of the tree by path.    *)
(***************************************************************************)
EXTENDS Indexer

\* The row of path p among the rows in use.
RowOf(p) == CHOOSE i \in Used : entries[i].node = p

Recall(i) ==
    [dir |-> entries[i].dir, size |-> entries[i].size,
     mtime |-> entries[i].mtime, digest |-> entries[i].digest]

RowsByPath == [p \in {entries[i].node : i \in Used} |-> Recall(RowOf(p))]

Observed == INSTANCE Index WITH rows <- RowsByPath

\* Whatever the scans, their failures, crashes and other programs do, every
\* step of theirs is seen in the database as one of Index's or as none: no
\* path without its directory, no digest that is not the file's, no partial
\* removal of a directory.
ImplementsIndex == Observed!IndexSpec
=============================================================================
