----------------------------- MODULE BlockList ------------------------------
(***************************************************************************)
(* The free list of data blocks (block.c).  The list is threaded through   *)
(* the free blocks themselves: superblock.freelist_start names a list node *)
(* that holds the number of the next node and BLOCKNUMS_PER_FREELIST_BLOCK *)
(* numbers of further free blocks, or EOF.  block_allocate takes a number  *)
(* out of the head node and, when the head holds none, the head itself;    *)
(* block_free puts a number into the head and, when the head is full,      *)
(* makes the freed block the new head.                                     *)
(*                                                                         *)
(* "chain" and "used" are history variables: the nodes in list order, and  *)
(* the blocks the callers (inode.c) hold.  No guard of a translated        *)
(* function reads them, except that a caller frees only what it holds.     *)
(***************************************************************************)
EXTENDS Superblock, Sequences, FiniteSets, Functions

VARIABLES
  freelist_start,  \* superblock.freelist_start
  node,            \* every data block, read as a freelist_block_t
  free_blocks,     \* superblock.free_blocks
  chain,           \* history: the list nodes, from freelist_start on
  used,            \* history: the blocks held by the callers
  got              \* history: what the last block_allocate returned

blockListVars == <<freelist_start, node, free_blocks, chain, used, got>>

FirstData == IlistSize + 1
Data == FirstData .. NBlocks - 1
Slots == 0 .. PerNode - 1
Stride == PerNode + 1

NodeType == [next : Data \cup {EOF}, blocks : [Slots -> Data \cup {EOF}]]

EmptySlots == [i \in Slots |-> EOF]

-----------------------------------------------------------------------------
(***************************************************************************)
(* mkfs_storage: one node in front of every PerNode data blocks.  Blocks   *)
(* that are not nodes are not written (and are not read before they        *)
(* become nodes); they start out here with empty slots.                    *)
(***************************************************************************)
(* Changed: takes one block too many for a block of the disk. *)
OnDiskOneMore(b) == IF b <= NBlocks THEN b ELSE EOF

OnDisk(b) == IF b < NBlocks THEN b ELSE EOF

IsMkfsNode(b) == (b - FirstData) % Stride = 0

MkfsNode(b) ==
  [next   |-> OnDisk(b + Stride),
   blocks |-> [j \in Slots |-> OnDisk(b + 1 + j)]]

MkfsChainLength == (NBlocks - 1 - FirstData) \div Stride + 1

BlockListInit ==
  /\ freelist_start = FirstData
  /\ free_blocks = NBlocks - FirstData
  /\ node = [b \in Data |-> IF IsMkfsNode(b)
                            THEN MkfsNode(b)
                            ELSE [next |-> EOF, blocks |-> EmptySlots]]
  /\ chain = [k \in 1 .. MkfsChainLength |-> FirstData + (k - 1) * Stride]
  /\ used = {}
  /\ got = EOF

-----------------------------------------------------------------------------
Head_ == node[freelist_start]

(* block_allocate: the list is empty. *)
AllocateNothing ==
  /\ freelist_start = EOF
  /\ got' = EOF
  /\ UNCHANGED <<freelist_start, node, free_blocks, chain, used>>

(* Changed: does not write the head back. *)
AllocateSlotUnwritten ==
  /\ freelist_start # EOF
  /\ \E i \in Slots :
       /\ Head_.blocks[i] # EOF
       /\ got' = Head_.blocks[i]
       /\ used' = used \cup {Head_.blocks[i]}
  /\ free_blocks' = free_blocks - 1
  /\ UNCHANGED <<freelist_start, node, chain>>

(* block_allocate: the first slot of the head that names a block. *)
AllocateSlot ==
  /\ freelist_start # EOF
  /\ \E i \in Slots :
       /\ Head_.blocks[i] # EOF
       /\ \A j \in 0 .. i - 1 : Head_.blocks[j] = EOF
       /\ node' = [node EXCEPT ![freelist_start].blocks[i] = EOF]
       /\ got' = Head_.blocks[i]
       /\ used' = used \cup {Head_.blocks[i]}
  /\ free_blocks' = free_blocks - 1
  /\ UNCHANGED <<freelist_start, chain>>

(* Changed: goes on to the next head, and fails if it was the last. *)
AllocateHeadDrops ==
  /\ freelist_start # EOF
  /\ \A j \in Slots : Head_.blocks[j] = EOF
  /\ freelist_start' = Head_.next
  /\ got' = EOF
  /\ chain' = Tail(chain)
  /\ UNCHANGED <<node, free_blocks, used>>

(* block_allocate: the head holds no block any more and is handed out. *)
AllocateHead ==
  /\ freelist_start # EOF
  /\ \A j \in Slots : Head_.blocks[j] = EOF
  /\ freelist_start' = Head_.next
  /\ free_blocks' = free_blocks - 1
  /\ got' = freelist_start
  /\ used' = used \cup {freelist_start}
  /\ chain' = Tail(chain)
  /\ UNCHANGED node

block_allocate == AllocateNothing \/ AllocateSlot \/ AllocateHead

(* block_free: into the last empty slot of the head. *)
FreeIntoSlot(b) ==
  /\ freelist_start # EOF
  /\ \E i \in Slots :
       /\ Head_.blocks[i] = EOF
       /\ \A j \in i + 1 .. PerNode - 1 : Head_.blocks[j] # EOF
       /\ node' = [node EXCEPT ![freelist_start].blocks[i] = b]
  /\ free_blocks' = free_blocks + 1
  /\ used' = used \ {b}
  /\ UNCHANGED <<freelist_start, chain, got>>

(* block_free: no list, or no room in its head: b becomes the head. *)
FreeAsHead(b) ==
  /\ freelist_start # EOF => \A j \in Slots : Head_.blocks[j] # EOF
  /\ node' = [node EXCEPT ![b] = [next |-> freelist_start,
                                  blocks |-> EmptySlots]]
  /\ freelist_start' = b
  /\ free_blocks' = free_blocks + 1
  /\ used' = used \ {b}
  /\ chain' = <<b>> \o chain
  /\ UNCHANGED got

(* The callers free a block they were given and have not freed since. *)
block_free ==
  \E b \in used : FreeIntoSlot(b) \/ FreeAsHead(b)

BlockListNext == block_allocate \/ block_free

BlockListSpec == BlockListInit /\ [][BlockListNext]_blockListVars

-----------------------------------------------------------------------------
(* The blocks the list accounts for: its nodes and what their slots name. *)
InSlots(c) == {node[c].blocks[i] : i \in Slots} \ {EOF}
Free == Range(chain) \cup UNION {InSlots(c) : c \in Range(chain)}

(* Every variable holds a value of the type the code gives it. *)
BlockListTypeOK ==
  /\ freelist_start \in Data \cup {EOF}
  /\ node \in [Data -> NodeType]
  /\ free_blocks \in Nat
  /\ chain \in Seq(Data)
  /\ used \in SUBSET Data
  /\ got \in Data \cup {EOF}

(* The history of the list is the list on the disk: from freelist_start    *)
(* along next to EOF, never through the same block twice.                  *)
ChainOK ==
  /\ freelist_start = IF chain = <<>> THEN EOF ELSE chain[1]
  /\ IsInjective(chain)
  /\ \A k \in 1 .. Len(chain) :
       node[chain[k]].next = IF k < Len(chain) THEN chain[k + 1] ELSE EOF

(* No block is on the list twice: a slot names no list node, and no two    *)
(* slots of the list name the same block.                                  *)
NoDuplicates ==
  /\ \A c \in Range(chain), i \in Slots :
       node[c].blocks[i] \notin Range(chain)
  /\ \A c, d \in Range(chain), i, j \in Slots :
       /\ node[c].blocks[i] # EOF
       /\ node[c].blocks[i] = node[d].blocks[j]
       => c = d /\ i = j

(* No block is lost and none is both free and in use: a block leaked by an *)
(* allocation that takes the head, or one handed out twice, breaks this.   *)
Partition ==
  /\ used \cap Free = {}
  /\ used \cup Free = Data

(* The counter statfs(2) reports (block_stat) is the number of free        *)
(* blocks, so it never runs below zero either, where it would wrap.        *)
FreeCountExact == free_blocks = Cardinality(Free)

(* The inductive invariant. *)
BlockListInv ==
  /\ BlockListTypeOK
  /\ ChainOK
  /\ NoDuplicates
  /\ Partition
  /\ FreeCountExact

(* The list implements the abstract pool of data blocks. *)
BlockPool == INSTANCE Pool WITH
  Items <- Data, None <- EOF,
  free <- Free, count <- free_blocks, got <- got

ImplementsBlockPool == BlockPool!Spec

=============================================================================
