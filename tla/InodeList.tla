----------------------------- MODULE InodeList ------------------------------
(***************************************************************************)
(* The inode list (block.c).  ilist[i] is the block of inode i when i is   *)
(* allocated, and otherwise the NEGATION of the next free inode number,    *)
(* so that inode.c can tell the two apart by the sign.  The list ends in   *)
(* EOF, which is LONG_MIN: the one negative number that is its own         *)
(* negation, and that nothing can be confused with except through the      *)
(* other number that is its own negation, inode 0, the root.               *)
(*                                                                         *)
(* The callers are inode_allocate, which takes a number and then either    *)
(* gives it a block (ino_set) or returns it (ino_free), and inode_free,    *)
(* which returns it.  "ino_chain" and "block" are history variables: the   *)
(* free numbers in list order, and the block each number in the callers'   *)
(* hands was given (0, the superblock, as long as it was given none).      *)
(***************************************************************************)
EXTENDS Superblock, Sequences, FiniteSets, Functions

VARIABLES
  ino_freelist_start,  \* superblock.ino_freelist_start
  ilist,               \* the ilist blocks, one entry to an inode number
  free_inodes,         \* superblock.free_inodes
  ino_chain,           \* history: the free inodes, from ino_freelist_start on
  block,               \* history: the inodes in use, and their blocks
  got_number           \* history: what the last ino_allocate returned

inodeListVars == <<ino_freelist_start, ilist, free_inodes, ino_chain, block, got_number>>

Inumbers == 0 .. NInodes - 1
Root == 0
NoBlock == 0

(* Changed: negation of unbounded numbers. *)
NegUnbounded(x) == -x

(* Negation of a 64 bit number: LONG_MIN is its own. *)
Neg(x) == IF x = EOF THEN EOF ELSE -x

(* mkfs_storage: every inode links to its successor, the last one to EOF. *)
InodeListInit ==
  /\ ino_freelist_start = 0
  /\ ilist = [i \in Inumbers |-> IF i = NInodes - 1 THEN EOF ELSE -(i + 1)]
  /\ free_inodes = NInodes
  /\ ino_chain = [k \in 1 .. NInodes |-> k - 1]
  /\ block = [i \in {} |-> NoBlock]
  /\ got_number = EOF

-----------------------------------------------------------------------------
held == DOMAIN block

(* Changed: keeps the last number of the list. *)
AllocateNoneEarly ==
  /\ ino_freelist_start = EOF \/ ilist[ino_freelist_start] = EOF
  /\ got_number' = EOF
  /\ UNCHANGED <<ino_freelist_start, ilist, free_inodes, ino_chain, block>>

AllocateNone ==
  /\ ino_freelist_start = EOF
  /\ got_number' = EOF
  /\ UNCHANGED <<ino_freelist_start, ilist, free_inodes, ino_chain, block>>

(* ino_allocate: the head of the list. *)
AllocateFirst ==
  /\ ino_freelist_start # EOF
  /\ got_number' = ino_freelist_start
  /\ ino_freelist_start' = Neg(ilist[ino_freelist_start])
  /\ free_inodes' = free_inodes - 1
  /\ ino_chain' = Tail(ino_chain)
  /\ block' = [i \in held \cup {ino_freelist_start} |->
                 IF i \in held THEN block[i] ELSE NoBlock]
  /\ UNCHANGED ilist

ino_allocate == AllocateNone \/ AllocateFirst

(* inode_allocate gives the number it was just handed a block. *)
ino_set(i, b) ==
  /\ block[i] = NoBlock
  /\ ilist' = [ilist EXCEPT ![i] = b]
  /\ block' = [block EXCEPT ![i] = b]
  /\ UNCHANGED <<ino_freelist_start, free_inodes, ino_chain, got_number>>

(* Changed: links to the next free number itself, not to its negation. *)
ino_freePlain(i) ==
  /\ ilist' = [ilist EXCEPT ![i] = ino_freelist_start]
  /\ ino_freelist_start' = i
  /\ free_inodes' = free_inodes + 1
  /\ ino_chain' = <<i>> \o ino_chain
  /\ block' = Restrict(block, held \ {i})
  /\ UNCHANGED got_number

ino_free(i) ==
  /\ ilist' = [ilist EXCEPT ![i] = Neg(ino_freelist_start)]
  /\ ino_freelist_start' = i
  /\ free_inodes' = free_inodes + 1
  /\ ino_chain' = <<i>> \o ino_chain
  /\ block' = Restrict(block, held \ {i})
  /\ UNCHANGED got_number

(* What the callers do.  The root is the first inode mkfs allocates, on a  *)
(* disk with a free block, and its link to itself is never removed.        *)
CallerSets == \E i \in held, b \in Blocks : ino_set(i, b)
CallerFrees == \E i \in held \ {Root} : ino_free(i)

InodeListNext == ino_allocate \/ CallerSets \/ CallerFrees

InodeListSpec == InodeListInit /\ [][InodeListNext]_inodeListVars

-----------------------------------------------------------------------------
FreeNumbers == Range(ino_chain)

InodeListTypeOK ==
  /\ ino_freelist_start \in Inumbers \cup {EOF}
  /\ ilist \in [Inumbers -> Int]
  /\ free_inodes \in Nat
  /\ ino_chain \in Seq(Inumbers)
  /\ held \subseteq Inumbers
  /\ block \in [held -> Blocks \cup {NoBlock}]
  /\ got_number \in Inumbers \cup {EOF}

(* Following the negated links from ino_freelist_start visits the free     *)
(* inodes in the order of the history, each once, and ends in EOF.         *)
NumbersChainOK ==
  /\ ino_freelist_start = IF ino_chain = <<>> THEN EOF ELSE ino_chain[1]
  /\ IsInjective(ino_chain)
  /\ \A k \in 1 .. Len(ino_chain) :
       ilist[ino_chain[k]] = IF k < Len(ino_chain) THEN -ino_chain[k + 1] ELSE EOF

(* No inode number is lost and none is both free and in use. *)
NumbersPartition ==
  /\ held \cap FreeNumbers = {}
  /\ held \cup FreeNumbers = Inumbers

(* The first inode out is the root, and it never comes back.  Once it is   *)
(* out no link of the list can be -0, which would read as "allocated".     *)
RootFirst ==
  IF held = {} THEN ino_freelist_start = Root ELSE Root \in held

(* The sign test of inode.c, (long)ino_get(disk, inumber) < 0, is right:   *)
(* of the numbers that are free, or that were allocated and given no block *)
(* yet, it finds a block for none; of the others it finds their own.       *)
SignTellsAllocated ==
  \A i \in Inumbers :
    IF i \in held /\ block[i] # NoBlock
    THEN ilist[i] = block[i]
    ELSE ilist[i] < 0

(* The counter statfs(2) reports is the length of the list. *)
FreeInodesExact == free_inodes = Cardinality(FreeNumbers)

InodeListInv ==
  /\ InodeListTypeOK
  /\ NumbersChainOK
  /\ NumbersPartition
  /\ RootFirst
  /\ SignTellsAllocated
  /\ FreeInodesExact

(* The list implements the abstract pool of inode numbers. *)
InodePool == INSTANCE Pool WITH
  Items <- Inumbers, None <- EOF,
  free <- FreeNumbers, count <- free_inodes, got <- got_number

ImplementsInodePool == InodePool!Spec

=============================================================================
