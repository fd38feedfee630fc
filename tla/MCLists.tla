------------------------------ MODULE MCLists -------------------------------
(***************************************************************************)
(* The linked lists of the program: the free blocks, the free inode        *)
(* numbers (block.c) and the chains of the open file table (refs.c).  No   *)
(* function changes more than one of them, and each is checked by itself,  *)
(* under every order of its operations.                                    *)
(*                                                                         *)
(* Free blocks: a disk of one ilist block and five data blocks, two        *)
(* numbers to a node.  mkfs makes two nodes, and the last of them has an   *)
(* unused slot.  Free numbers: five, the root among them, and two blocks   *)
(* for inodes: every order in which four numbers can come back.  Open      *)
(* files: two buckets and four inodes, three of them in one bucket, so     *)
(* that a node is inserted and removed at the front, in the middle and at  *)
(* the end of a chain; two references and two links to an inode: the       *)
(* first, one more, and the last.                                          *)
(***************************************************************************)
EXTENDS BlockList, InodeList, Refs

VARIABLE list  \* the one of the lists that the behaviour is about

(* Stands for LONG_MIN: below the negation of every number of a block or   *)
(* of an inode.                                                            *)
MCEOF == -1000

MCInit ==
  /\ list \in {"free blocks", "free numbers", "open files"}
  /\ BlockListInit /\ InodeListInit /\ Init

MCNext ==
  /\ UNCHANGED list
  /\ \/ list = "free blocks" /\ BlockListNext /\ UNCHANGED <<inodeListVars, vars>>
     \/ list = "free numbers" /\ InodeListNext /\ UNCHANGED <<blockListVars, vars>>
     \/ list = "open files" /\ Next /\ UNCHANGED <<blockListVars, inodeListVars>>

MCSpec == MCInit /\ [][MCNext]_<<list, blockListVars, inodeListVars, vars>>

=============================================================================
