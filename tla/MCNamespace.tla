----------------------------- MODULE MCNamespace -----------------------------
(***************************************************************************)
(* The root and three more inodes, two names, one open file: a directory   *)
(* in a directory, files with two names, renames over what is there, and   *)
(* an inode that is used again while a program has had it open.            *)
(***************************************************************************)
EXTENDS Namespace, TLC
Symmetric == Permutations(Inodes \ {root}) \cup Permutations(Names)
=============================================================================
