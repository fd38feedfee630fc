----------------------------- MODULE Superblock -----------------------------
(***************************************************************************)
(* The disk as its superblock describes it (block.c): what the two lists   *)
(* that start there have for sizes, and the number that ends both.         *)
(***************************************************************************)
EXTENDS Integers

CONSTANTS
  NBlocks,    \* disk->nblocks
  IlistSize,  \* superblock.ilist_size: inode list blocks, after block 0
  PerNode,    \* BLOCKNUMS_PER_FREELIST_BLOCK
  NInodes,    \* superblock.ilist_size * INUMS_PER_ILIST_BLOCK
  Blocks,     \* the block numbers block_allocate may hand out for an inode
  EOF         \* BLOCKNO_EOF and INO_EOF, (blockno_t)LONG_MIN

ASSUME BlockListAssumption ==
  /\ NBlocks \in Nat
  /\ IlistSize \in Nat
  /\ IlistSize + 1 < NBlocks      \* assert(num_data_blocks > 0)
  /\ PerNode \in Nat \ {0}
  /\ EOF \in Int
  /\ EOF < 0

ASSUME InodeListAssumption ==
  /\ NInodes \in Nat \ {0}
  /\ Blocks \subseteq Nat \ {0}
  /\ EOF \in Int
  /\ EOF < -NInodes

=============================================================================
