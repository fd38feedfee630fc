-------------------------------- MODULE Inode --------------------------------
(***************************************************************************)
(* The inode layer (inode.c) over a pool of blocks: which blocks a file    *)
(* has, at which level of indirection, and which bytes are in them.  An    *)
(* inode has D direct slots and one single, double and triple indirect     *)
(* slot; an indirect block holds W block numbers, a data block BS bytes.   *)
(*                                                                         *)
(* The pool is the abstract one of Pool.tla, which BlockList implements.   *)
(* Of the free blocks, allocation here takes the smallest: this code never *)
(* compares block numbers, so any other choice only renames the blocks.    *)
(* What is in a block that was freed is up to the free list: Junk.         *)
(***************************************************************************)
EXTENDS Integers, Sequences, FiniteSets, SequencesExt, FiniteSetsExt

CONSTANTS
  Blocks,    \* the data blocks of the disk
  Inodes,    \* the inode numbers
  W,         \* SINGLE_INDIRECT_COUNT, block numbers in an indirect block
  D,         \* NUM_DIRECT_SLOTS
  BS,        \* BLOCKSIZE
  EOF,       \* BLOCKNO_EOF
  Junk,      \* a byte of a block that holds nothing of a file
  Uses       \* bound: records of the blocks that other inodes hold, the files
             \*   made, the offsets and sizes asked for, the data written and
             \*   the largest size it is written to, and the largest nlinks:
             \*   [others, files, offsets, payloads, size, links]

ASSUME InodeAssumption ==
  /\ Blocks \subseteq Nat /\ Inodes \subseteq Nat
  /\ \A u \in Uses :
       /\ u.others \subseteq Blocks /\ u.files \subseteq Inodes
       /\ u.offsets \subseteq Nat /\ u.payloads \subseteq Seq(Nat) /\ u.links \in Nat
  /\ {W, D, BS} \subseteq Nat \ {0}
  /\ EOF \in Int \ Nat

VARIABLES
  use,      \* the bounds of this behaviour
  free,     \* the free blocks
  ind,      \* every block, read as an indirect block
  bytes,    \* every block, read as a data block
  ilist,    \* the block of each inode, or EOF
  inode,    \* the inode in that block: nlinks, size, blocks
  ret,      \* what the last operation returned
  aborted,  \* whether an assertion of inode.c has failed
  lost,     \* history: the inodes that the HYPERDEATH edge case of
            \*   inode_indirect_grow took blocks from that were not new
  orphans,  \* history: the blocks that operations on those have leaked
  contents  \* history: what reading the whole of each file returns

disk == <<free, ind, bytes, ilist, inode>>
vars == <<use, free, ind, bytes, ilist, inode, ret, aborted, lost, orphans,
          contents>>

(* The blocks of inodes that no operation here is about. *)
others == use.others

Children == 0 .. W - 1
Slots == 0 .. D + 2
NoChildren == [i \in Children |-> EOF]
JunkBytes == [i \in 0 .. BS - 1 |-> Junk]
NoInode == [nlinks |-> 0, size |-> 0, blocks |-> [s \in Slots |-> EOF]]

-----------------------------------------------------------------------------
(* Conversions between offsets, block indexes, slots and levels.           *)
indirect_count(level) ==
  CASE level = 0 -> 1
    [] level = 1 -> W
    [] level = 2 -> W * W
    [] level = 3 -> W * W * W

FirstBlockOfLevel(level) ==
  CASE level = 0 -> 0
    [] level = 1 -> D
    [] level = 2 -> D + W
    [] level = 3 -> D + W + W * W
    [] level = 4 -> D + W + W * W + W * W * W

MAX_FILESIZE == FirstBlockOfLevel(4) * BS

offset2blockidx(off) == off \div BS

indirection_level(blockidx) ==
  CHOOSE l \in 0 .. 3 :
    FirstBlockOfLevel(l) <= blockidx /\ blockidx < FirstBlockOfLevel(l + 1)

(* One slot to each level of indirection. *)
blockidx2blockslot(blockidx) ==
  IF indirection_level(blockidx) = 0
  THEN blockidx
  ELSE D + indirection_level(blockidx) - 1

blockslot2firstblockidx(slot) ==
  IF slot < D THEN slot ELSE FirstBlockOfLevel(slot - D + 1)

BlockCount(size) == offset2blockidx(size) + (IF size % BS # 0 THEN 1 ELSE 0)

-----------------------------------------------------------------------------
(***************************************************************************)
(* The recursive algorithms work on a store, [free, ind, bytes], and on    *)
(* two flags: "bad", an assertion failed, and "hyper", the edge case freed *)
(* a block that was not new.  The recursion of the code is over the levels *)
(* of indirection, three of them: what is done under an indirect block is  *)
(* written once, with the function one level down as its parameter.        *)
(***************************************************************************)
Store == [free |-> free, ind |-> ind, bytes |-> bytes,
          bad |-> FALSE, hyper |-> FALSE]

Taken(st, b) == [st EXCEPT !.free = @ \ {b}]

block_free(st, b) ==
  [st EXCEPT !.free = @ \cup {b}, !.ind[b] = NoChildren, !.bytes[b] = JunkBytes]

(* Changed: keeps a block back. *)
OutOfBlocksButOne(st) == Cardinality(st.free) <= 1

OutOfBlocks(st) == st.free = {}

(* The HYPERDEATH edge case: the loop over the children has failed before  *)
(* it got a block for any of them.  The indirect block is freed.           *)
(* Changed: there is no such case; the pointer is cleared and that is all. *)
NothingAddedIgnored(r, first) == FALSE
UndoGrowForgets(st, b) == st

NothingAdded(r, first) == ~r.ok /\ first = 0 /\ r.sum = 0
UndoGrow(st, b) == block_free(st, b)

(* Changed: visits the last block the file has once more. *)
FirstChildAgain(cur, sub, old) ==
  IF cur < old THEN (old - 1 - cur) \div sub ELSE 0

(* The children a grow from old to new blocks, or a shrink from new to     *)
(* old, visits under the indirect block whose first data block is cur.     *)
FirstChild(cur, sub, old) == IF cur < old THEN (old - cur) \div sub ELSE 0
LastChild(cur, sub, new) ==
  LET end == cur + W * sub
  IN  IF end > new THEN W - 1 - (end - new) \div sub ELSE W - 1

(* After one child: r is the loop's state, g what the call returned. *)
WithChild(r, i, g) ==
  [st |-> g.st, data |-> [r.data EXCEPT ![i] = g.dest],
   sum |-> r.sum + g.allocated, ok |-> g.ok]

(* After the loop, in which block b was grown under. *)
GrownUnder(r, b, isNew, first) ==
  IF NothingAdded(r, first)
  THEN [st |-> [UndoGrow(r.st, b) EXCEPT !.hyper = @ \/ ~isNew],
        dest |-> EOF, allocated |-> 0, ok |-> FALSE]
  ELSE [st |-> [r.st EXCEPT !.ind[b] = r.data], dest |-> b,
        allocated |-> r.sum, ok |-> r.ok]

(* The state of the loop before the first child. *)
StartGrow(st, b, isNew) ==
  [st |-> IF isNew THEN Taken(st, b) ELSE st,
   data |-> IF isNew THEN NoChildren ELSE st.ind[b], sum |-> 0, ok |-> TRUE]

NoBlockLeft(st) == [st |-> st, dest |-> EOF, allocated |-> 0, ok |-> FALSE]

(* Level 0: the slot or child dest gets a data block. *)
GrowData(st, dest, cur, old, new) ==
  LET isNew == dest = EOF
      b == IF isNew THEN Min(st.free) ELSE dest
  IN  IF isNew /\ OutOfBlocks(st)
      THEN NoBlockLeft(st)
      ELSE [st |-> [Taken(st, b) EXCEPT !.bad = @ \/ ~isNew], dest |-> b,
            allocated |-> 1, ok |-> TRUE]

(* The for loop over indirect_data, ending at the first error: after[i] is *)
(* its state when the children before i are done.  Grow is the function    *)
(* one level down, and sub the number of data blocks under a child.        *)
GrowChild(Grow(_, _, _, _, _), sub, r, i, cur, old, new) ==
  IF i \in FirstChild(cur, sub, old) .. LastChild(cur, sub, new) /\ r.ok
  THEN WithChild(r, i, Grow(r.st, r.data[i], cur + sub * i, old, new))
  ELSE r

GrowChildren(Grow(_, _, _, _, _), sub, start, cur, old, new) ==
  LET after[i \in 0 .. W] ==
        IF i = 0 THEN start
        ELSE GrowChild(Grow, sub, after[i - 1], i - 1, cur, old, new)
  IN  after[W]

GrowIndirect(Grow(_, _, _, _, _), sub, st, dest, cur, old, new) ==
  LET isNew == dest = EOF
      b == IF isNew THEN Min(st.free) ELSE dest
  IN  IF isNew /\ OutOfBlocks(st)
      THEN NoBlockLeft(st)
      ELSE GrownUnder(GrowChildren(Grow, sub, StartGrow(st, b, isNew), cur, old, new),
                      b, isNew, FirstChild(cur, sub, old))

GrowSingle(st, dest, cur, old, new) == GrowIndirect(GrowData, 1, st, dest, cur, old, new)
GrowDouble(st, dest, cur, old, new) == GrowIndirect(GrowSingle, W, st, dest, cur, old, new)
GrowTriple(st, dest, cur, old, new) ==
  GrowIndirect(GrowDouble, W * W, st, dest, cur, old, new)

inode_indirect_grow(st, dest, cur, level, old, new) ==
  CASE level = 0 -> GrowData(st, dest, cur, old, new)
    [] level = 1 -> GrowSingle(st, dest, cur, old, new)
    [] level = 2 -> GrowDouble(st, dest, cur, old, new)
    [] level = 3 -> GrowTriple(st, dest, cur, old, new)

(* Changed: leaves the number of the freed block where it was. *)
ShrinkLeafKeeps(st, b) == [st |-> block_free(st, b), dest |-> b, freed |-> 1]

ShrinkLeaf(st, b) == [st |-> block_free(st, b), dest |-> EOF, freed |-> 1]

WithoutChild(r, i, g) ==
  [st |-> g.st, data |-> [r.data EXCEPT ![i] = g.dest], sum |-> r.sum + g.freed]

StartShrink(st, b) == [st |-> st, data |-> st.ind[b], sum |-> 0]

(* After the loop: an indirect block without children is freed. *)
ShrunkUnder(r, b) ==
  IF r.data = NoChildren
  THEN [st |-> block_free(r.st, b), dest |-> EOF, freed |-> r.sum]
  ELSE [st |-> [r.st EXCEPT !.ind[b] = r.data], dest |-> b, freed |-> r.sum]

NothingThere(st) == [st |-> [st EXCEPT !.bad = TRUE], dest |-> EOF, freed |-> 0]

ShrinkData(st, dest, cur, old, new) ==
  IF dest = EOF THEN NothingThere(st) ELSE ShrinkLeaf(st, dest)

ShrinkChild(Shrink(_, _, _, _, _), sub, r, i, cur, old, new) ==
  IF i \in FirstChild(cur, sub, new) .. LastChild(cur, sub, old)
  THEN WithoutChild(r, i, Shrink(r.st, r.data[i], cur + sub * i, old, new))
  ELSE r

ShrinkChildren(Shrink(_, _, _, _, _), sub, start, cur, old, new) ==
  LET after[i \in 0 .. W] ==
        IF i = 0 THEN start
        ELSE ShrinkChild(Shrink, sub, after[i - 1], i - 1, cur, old, new)
  IN  after[W]

ShrinkIndirect(Shrink(_, _, _, _, _), sub, st, dest, cur, old, new) ==
  IF dest = EOF THEN NothingThere(st)
  ELSE ShrunkUnder(ShrinkChildren(Shrink, sub, StartShrink(st, dest), cur, old, new), dest)

ShrinkSingle(st, dest, cur, old, new) ==
  ShrinkIndirect(ShrinkData, 1, st, dest, cur, old, new)
ShrinkDouble(st, dest, cur, old, new) ==
  ShrinkIndirect(ShrinkSingle, W, st, dest, cur, old, new)
ShrinkTriple(st, dest, cur, old, new) ==
  ShrinkIndirect(ShrinkDouble, W * W, st, dest, cur, old, new)

inode_indirect_shrink(st, dest, cur, level, old, new) ==
  CASE level = 0 -> ShrinkData(st, dest, cur, old, new)
    [] level = 1 -> ShrinkSingle(st, dest, cur, old, new)
    [] level = 2 -> ShrinkDouble(st, dest, cur, old, new)
    [] level = 3 -> ShrinkTriple(st, dest, cur, old, new)

-----------------------------------------------------------------------------
(***************************************************************************)
(* inode_setsize.  The loops go slot by slot; "count" is inode_blockcount  *)
(* and "last" is last_slot.  A slot out of sequence is a failed assertion. *)
(***************************************************************************)
(* After one slot: "next" is the slot that last_slot must be beside. *)
WithSlot(r, slot, g, count, ok, next) ==
  [st |-> [g.st EXCEPT !.bad = @ \/ r.last \notin {-1, next}],
   blocks |-> [r.blocks EXCEPT ![slot] = g.dest],
   count |-> count, ok |-> ok, last |-> slot]

GrownSlot(r, slot, g) == WithSlot(r, slot, g, r.count + g.allocated, g.ok, slot - 1)
ShrunkSlot(r, slot, g) == WithSlot(r, slot, g, r.count - g.freed, r.ok, slot + 1)

(* The loops, round by round: each goes on to the slot beside the one      *)
(* before, so that there are at most as many rounds as slots.              *)
Rounds == 0 .. D + 3

GrowRound(r, old, new) ==
  LET slot == blockidx2blockslot(r.count)
  IN  IF r.count < new /\ r.ok /\ ~r.st.bad
      THEN GrownSlot(r, slot,
             inode_indirect_grow(r.st, r.blocks[slot], blockslot2firstblockidx(slot),
                                 indirection_level(r.count), old, new))
      ELSE r

GrowSlots(start, old, new) ==
  LET after[n \in Rounds] == IF n = 0 THEN start ELSE GrowRound(after[n - 1], old, new)
  IN  after[D + 3]

ShrinkRound(r, old, new) ==
  LET slot == blockidx2blockslot(r.count - 1)
  IN  IF r.count > new /\ ~r.st.bad
      THEN ShrunkSlot(r, slot,
             inode_indirect_shrink(r.st, r.blocks[slot], blockslot2firstblockidx(slot),
                                   indirection_level(r.count - 1), old, new))
      ELSE r

ShrinkSlots(start, old, new) ==
  LET after[n \in Rounds] == IF n = 0 THEN start ELSE ShrinkRound(after[n - 1], old, new)
  IN  after[D + 3]

(* Changed: does not count the last block. *)
SizeReachedLess(count) == (count - 1) * BS

(* The size of a file whose growth failed: all of the blocks it has. *)
SizeReached(count) == count * BS

(* Where the loops ended with r, on the way to new blocks. *)
Resized(r, ino, new, size) ==
  [st |-> r.st,
   ino |-> [ino EXCEPT !.blocks = r.blocks,
                       !.size = IF r.count = new THEN size ELSE SizeReached(r.count)]]

(* The store and the inode that setting the size of ino to n leaves.  A    *)
(* growth that runs out of blocks keeps those it got.                      *)
inode_setsize(st, ino, n) ==
  LET size == Min({n, MAX_FILESIZE})
      new == BlockCount(size)
      old == BlockCount(ino.size)
      start == [st |-> st, blocks |-> ino.blocks, count |-> old,
                ok |-> TRUE, last |-> -1]
  IN  Resized(IF old < new THEN GrowSlots(start, old, new)
                           ELSE ShrinkSlots(start, old, new), ino, new, size)

-----------------------------------------------------------------------------
(***************************************************************************)
(* inode_indirect_readwrite visits, under block b, the data blocks that    *)
(* overlap the bytes [pos, endpos).  "leaves" is the sequence of them,     *)
(* each with its index in the file, and "size" the number of bytes copied; *)
(* "ok" is FALSE when the assertion blockno != BLOCKNO_EOF has failed.     *)
(* What is copied is told by CopyIn and CopyOut below.                     *)
(***************************************************************************)
NothingVisited == [leaves |-> <<>>, size |-> 0, ok |-> TRUE]
NothingToVisit == [NothingVisited EXCEPT !.ok = FALSE]

(* The bytes of a visited block that are copied: from lo up to hi. *)
lo(leaf, pos) == Max({leaf.idx * BS, pos})
hi(leaf, endpos) == Min({leaf.idx * BS + BS, endpos})

VisitData(st, b, cur, pos, endpos) ==
  LET leaf == [block |-> b, idx |-> cur]
  IN  IF b = EOF THEN NothingToVisit
      ELSE [leaves |-> <<leaf>>, size |-> hi(leaf, endpos) - lo(leaf, pos), ok |-> TRUE]

(* start_idx and end_idx, the children to visit. *)
FirstVisited(cur, sub, pos) ==
  LET firstBlock == pos \div BS
  IN  IF cur < firstBlock THEN (firstBlock - cur) \div sub ELSE 0
LastVisited(cur, sub, endpos) ==
  LET end == cur + W * sub - 1
      lastBlock == (endpos - 1) \div BS
  IN  IF end > lastBlock THEN W - 1 - (end - lastBlock) \div sub ELSE W - 1

WithVisited(r, v) ==
  [leaves |-> r.leaves \o v.leaves, size |-> r.size + v.size, ok |-> r.ok /\ v.ok]

VisitChild(Visit(_, _, _, _, _), sub, r, i, st, b, cur, pos, endpos) ==
  IF i \in FirstVisited(cur, sub, pos) .. LastVisited(cur, sub, endpos)
  THEN WithVisited(r, Visit(st, st.ind[b][i], cur + i * sub, pos, endpos))
  ELSE r

VisitIndirect(Visit(_, _, _, _, _), sub, st, b, cur, pos, endpos) ==
  LET after[i \in 0 .. W] ==
        IF i = 0 THEN NothingVisited
        ELSE VisitChild(Visit, sub, after[i - 1], i - 1, st, b, cur, pos, endpos)
  IN  IF b = EOF THEN NothingToVisit ELSE after[W]

VisitSingle(st, b, cur, pos, endpos) ==
  VisitIndirect(VisitData, 1, st, b, cur, pos, endpos)
VisitDouble(st, b, cur, pos, endpos) ==
  VisitIndirect(VisitSingle, W, st, b, cur, pos, endpos)
VisitTriple(st, b, cur, pos, endpos) ==
  VisitIndirect(VisitDouble, W * W, st, b, cur, pos, endpos)

inode_indirect_readwrite(st, b, cur, level, pos, endpos) ==
  CASE level = 0 -> VisitData(st, b, cur, pos, endpos)
    [] level = 1 -> VisitSingle(st, b, cur, pos, endpos)
    [] level = 2 -> VisitDouble(st, b, cur, pos, endpos)
    [] level = 3 -> VisitTriple(st, b, cur, pos, endpos)

(* The loops of inode_write and inode_read, from curpos up to stop over    *)
(* [pos, endpos): all blocks visited, and where the loop ends.             *)
NotVisited(curpos) == [leaves |-> <<>>, curpos |-> curpos, ok |-> TRUE, last |-> -1]

VisitSlot(st, blocks, v, pos, endpos) ==
  LET idx == offset2blockidx(v.curpos)
      slot == blockidx2blockslot(idx)
      r == inode_indirect_readwrite(st, blocks[slot], blockslot2firstblockidx(slot),
                                    indirection_level(idx), pos, endpos)
  IN  [leaves |-> v.leaves \o r.leaves, curpos |-> v.curpos + r.size,
       ok |-> r.ok /\ v.last \in {-1, slot - 1}, last |-> slot]

VisitRound(st, blocks, v, stop, pos, endpos) ==
  IF v.curpos < stop /\ v.ok THEN VisitSlot(st, blocks, v, pos, endpos) ELSE v

Visit(st, blocks, curpos, stop, pos, endpos) ==
  LET after[n \in Rounds] ==
        IF n = 0 THEN NotVisited(curpos)
        ELSE VisitRound(st, blocks, after[n - 1], stop, pos, endpos)
  IN  after[D + 3]

(* Copying data into the visited blocks: data[1] goes to offset pos.       *)
(* Where data is NULL zeros are written.                                   *)
NULL == <<>>

CopyIn(st, leaves, pos, endpos, data) ==
  [st EXCEPT !.bytes =
     [b \in Blocks |->
        IF \A k \in DOMAIN leaves : leaves[k].block # b THEN @[b]
        ELSE LET leaf == leaves[CHOOSE k \in DOMAIN leaves : leaves[k].block = b]
             IN  [i \in 0 .. BS - 1 |->
                    LET off == leaf.idx * BS + i
                    IN  IF off \notin lo(leaf, pos) .. hi(leaf, endpos) - 1 THEN @[b][i]
                        ELSE IF data = NULL THEN 0 ELSE data[off - pos + 1]]]]

(* The bytes read out of the visited blocks. *)
CopyOut(st, leaves, pos, endpos) ==
  [i \in 1 .. endpos - pos |->
     LET off == pos + i - 1
         leaf == leaves[CHOOSE k \in DOMAIN leaves :
                          off \in lo(leaves[k], pos) .. hi(leaves[k], endpos) - 1]
     IN  st.bytes[leaf.block][off - leaf.idx * BS]]

-----------------------------------------------------------------------------
(* One such loop that writes: the store, curpos, and whether no assertion  *)
(* failed.                                                                 *)
CopyVisited(st, v, pos, endpos, data) ==
  [st |-> IF v.ok THEN CopyIn(st, v.leaves, pos, endpos, data) ELSE st,
   curpos |-> v.curpos, ok |-> v.ok]

CopyLoop(st, ino, curpos, stop, pos, endpos, data) ==
  CopyVisited(st, Visit(st, ino.blocks, curpos, stop, pos, endpos),
              pos, endpos, data)

(* The data after the zeros z, and the assertions at the end. *)
Written(w, ino, zero_endpos, endpos) ==
  IF w.ok /\ w.curpos = endpos /\ endpos - zero_endpos >= 0
  THEN [st |-> w.st, ino |-> ino, n |-> endpos - zero_endpos]
  ELSE [st |-> [w.st EXCEPT !.bad = TRUE], ino |-> ino, n |-> 0]

WriteData(z, ino, zero_endpos, endpos, data) ==
  IF ~z.ok THEN Written(z, ino, zero_endpos, endpos)
  ELSE Written(CopyLoop(z.st, ino, z.curpos, endpos, zero_endpos, endpos, data),
               ino, zero_endpos, endpos)

(* Zeros from pos to zero_endpos, data from there to endpos. *)
WriteRange(st, ino, pos, zero_endpos, endpos, data) ==
  IF endpos <= pos
  THEN [st |-> st, ino |-> ino, n |-> 0]
  ELSE WriteData(CopyLoop(st, ino, pos, Min({zero_endpos, endpos}),
                          pos, zero_endpos, NULL),
                 ino, zero_endpos, endpos, data)

(* A write beyond the end, after the file was grown to s. *)
WriteGrown(s, pos, zero_endpos, endpos, data) ==
  IF s.st.bad \/ endpos < s.ino.size
  THEN [st |-> [s.st EXCEPT !.bad = TRUE], ino |-> s.ino, n |-> 0]
  ELSE IF endpos > s.ino.size
  THEN WriteRange(s.st, s.ino, pos, Max({zero_endpos, s.ino.size}), s.ino.size, data)
  ELSE WriteRange(s.st, s.ino, pos, zero_endpos, endpos, data)

(* inode_write of size bytes at offset at (-1: at the end). *)
Write(st, ino, at, data, size) ==
  LET pos == IF at = -1 THEN ino.size ELSE at
      endpos == pos + size
  IN  IF endpos > ino.size
      THEN WriteGrown(inode_setsize(st, ino, endpos), Min({pos, ino.size}), pos,
                      endpos, data)
      ELSE WriteRange(st, ino, pos, pos, endpos, data)

(* inode_read of size bytes at pos: the bytes, or Lost where an assertion  *)
(* fails.                                                                  *)
Lost == <<-2>>

BytesRead(st, v, pos, endpos) ==
  IF v.ok /\ v.curpos = endpos THEN CopyOut(st, v.leaves, pos, endpos) ELSE Lost

Read(st, ino, pos, size) ==
  LET endpos == Min({pos + size, ino.size})
  IN  IF endpos <= pos THEN <<>>
      ELSE BytesRead(st, Visit(st, ino.blocks, pos, endpos, pos, endpos),
                     pos, endpos)

(* Changed: what was added stays as it was found. *)
ZeroGrownSkipped(s, oldsize) == [st |-> s.st, ino |-> s.ino, n |-> s.ino.size]

(* What inode_truncate adds to inode_setsize: zeros over what was added. *)
ZeroGrown(s, oldsize) ==
  IF s.st.bad \/ s.ino.size <= oldsize
  THEN [st |-> s.st, ino |-> s.ino, n |-> s.ino.size]
  ELSE [Write(s.st, s.ino, oldsize, NULL, s.ino.size - oldsize)
          EXCEPT !.n = s.ino.size]

Truncate(st, ino, size) == ZeroGrown(inode_setsize(st, ino, size), ino.size)

-----------------------------------------------------------------------------
(***************************************************************************)
(* The tree that hangs from a slot with block b: the block at the end of a *)
(* path of children, or EOF, and the index of the first data block there.  *)
(***************************************************************************)
SlotLevel(s) == IF s < D THEN 0 ELSE s - D + 1

Paths(level) == UNION {[1 .. k -> Children] : k \in 0 .. level}

Child(ptrs, b, c) == IF b = EOF THEN EOF ELSE ptrs[b][c]

NodeAt(ptrs, b, path) ==
  CASE Len(path) = 0 -> b
    [] Len(path) = 1 -> Child(ptrs, b, path[1])
    [] Len(path) = 2 -> Child(ptrs, Child(ptrs, b, path[1]), path[2])
    [] Len(path) = 3 -> Child(ptrs, Child(ptrs, Child(ptrs, b, path[1]), path[2]), path[3])

Skipped(level, path, k) ==
  IF k <= Len(path) THEN path[k] * indirect_count(level - k) ELSE 0
IndexAt(cur, level, path) ==
  cur + Skipped(level, path, 1) + Skipped(level, path, 2) + Skipped(level, path, 3)

Tree(ptrs, b, level) == {NodeAt(ptrs, b, path) : path \in Paths(level)} \ {EOF}

TreeBlocks(st, ino) == UNION {Tree(st.ind, ino.blocks[s], SlotLevel(s)) : s \in Slots}

Live == {f \in Inodes : ilist[f] # EOF}

(* The blocks that were f's or free and that now are neither. *)
Orphaned(f, r) ==
  (free \cup TreeBlocks(Store, inode[f])) \ (TreeBlocks(r.st, r.ino) \cup r.st.free)

(* What reading the whole of every file returns; NoFile and Lost are values *)
(* that no file has.                                                       *)
NoFile == <<-1>>

ReadAll(st, blockOf, inodes, damaged) ==
  [g \in Inodes |->
     IF blockOf[g] = EOF THEN NoFile
     ELSE IF g \in damaged THEN Lost
     ELSE Read(st, inodes[g], 0, inodes[g].size)]

(* An operation on f ends with the store and the inode of r, or stops the  *)
(* program at an assertion, in the middle of what it was writing.          *)
Commit(f, r, op, want) ==
  /\ lost' = IF r.st.hyper THEN lost \cup {f} ELSE lost
  /\ IF r.st.bad
     THEN /\ aborted' = TRUE
          /\ UNCHANGED <<disk, ret, orphans, contents>>
     ELSE /\ free' = r.st.free
          /\ ind' = r.st.ind
          /\ bytes' = r.st.bytes
          /\ inode' = [inode EXCEPT ![f] = r.ino]
          /\ ret' = [op |-> op, ino |-> f, want |-> want, n |-> r.n]
          /\ orphans' = IF f \in lost' THEN orphans \cup Orphaned(f, r) ELSE orphans
          /\ contents' = ReadAll(r.st, ilist, [inode EXCEPT ![f] = r.ino],
                                 IF r.st.hyper THEN lost \cup {f} ELSE lost)
          /\ UNCHANGED <<ilist, aborted>>

(* The early return of every operation on an inode that is not allocated. *)
NotAllocated(f) ==
  /\ ilist[f] = EOF
  /\ ret' = [op |-> "none", ino |-> f, want |-> 0, n |-> -1]
  /\ UNCHANGED <<disk, aborted, lost, orphans, contents>>

inode_write(f, pos, data) ==
  /\ ilist[f] # EOF
  /\ Commit(f, Write(Store, inode[f], pos, data, Len(data)), "write", Len(data))

inode_truncate(f, size) ==
  /\ ilist[f] # EOF
  /\ Commit(f, Truncate(Store, inode[f], size), "truncate", size)

(* inode_allocate: a number and a block, or neither. *)
inode_allocate ==
  LET numbers == use.files \ Live
      f == Min(numbers)
      b == Min(free)
      st == Taken(Store, b)
  IN  IF numbers = {} \/ free = {}
      THEN /\ ret' = [op |-> "none", ino |-> 0, want |-> 0, n |-> -1]
           /\ UNCHANGED <<disk, aborted, lost, orphans, contents>>
      ELSE /\ free' = st.free
           /\ ilist' = [ilist EXCEPT ![f] = b]
           /\ inode' = [inode EXCEPT ![f] = NoInode]
           /\ ret' = [op |-> "allocate", ino |-> f, want |-> 0, n |-> f]
           /\ contents' = ReadAll(st, [ilist EXCEPT ![f] = b],
                                  [inode EXCEPT ![f] = NoInode], lost)
           /\ UNCHANGED <<ind, bytes, aborted, lost, orphans>>

Deleted(f, st) ==
  IF st.bad
  THEN /\ aborted' = TRUE
       /\ UNCHANGED <<disk, ret, lost, orphans, contents>>
  ELSE /\ free' = st.free
       /\ ind' = st.ind
       /\ bytes' = st.bytes
       /\ ilist' = [ilist EXCEPT ![f] = EOF]
       /\ inode' = [inode EXCEPT ![f] = NoInode]
       /\ ret' = [op |-> "free", ino |-> f, want |-> 0, n |-> 0]
       /\ lost' = lost \ {f}
       /\ contents' = ReadAll(st, [ilist EXCEPT ![f] = EOF], inode, lost)
       /\ UNCHANGED <<aborted, orphans>>

(* inode_free: everything the inode has, if it has no links. *)
inode_free(f) ==
  /\ ilist[f] # EOF
  /\ IF inode[f].nlinks = 0
     THEN Deleted(f, block_free(inode_setsize(Store, inode[f], 0).st, ilist[f]))
     ELSE /\ ret' = [op |-> "none", ino |-> f, want |-> 0, n |-> -1]
          /\ UNCHANGED <<disk, aborted, lost, orphans, contents>>

(* inode_link and inode_unlink; the callers remove a link only where there *)
(* is one.                                                                 *)
Relink(f, delta) ==
  /\ ilist[f] # EOF
  /\ inode[f].nlinks + delta \in 0 .. use.links
  /\ inode' = [inode EXCEPT ![f].nlinks = @ + delta]
  /\ ret' = [op |-> "link", ino |-> f, want |-> 0, n |-> inode[f].nlinks + delta]
  /\ UNCHANGED <<free, ind, bytes, ilist, aborted, lost, orphans, contents>>

inode_link(f) == Relink(f, 1)
inode_unlink(f) == Relink(f, -1)

Init ==
  /\ use \in Uses
  /\ free = Blocks \ others
  /\ ind = [b \in Blocks |-> NoChildren]
  /\ bytes = [b \in Blocks |-> JunkBytes]
  /\ ilist = [f \in Inodes |-> EOF]
  /\ inode = [f \in Inodes |-> NoInode]
  /\ ret = [op |-> "none", ino |-> 0, want |-> 0, n |-> 0]
  /\ aborted = FALSE
  /\ lost = {}
  /\ orphans = {}
  /\ contents = [f \in Inodes |-> NoFile]

Next ==
  /\ ~aborted
  /\ UNCHANGED use
  /\ \/ inode_allocate
     \/ \E f \in use.files :
          \/ NotAllocated(f)
          \/ inode_free(f)
          \/ inode_link(f)
          \/ inode_unlink(f)
          \/ \E n \in use.offsets : inode_truncate(f, n)
          \/ \E data \in use.payloads, pos \in use.offsets \cup {-1} :
               /\ (IF pos = -1 THEN inode[f].size ELSE pos) + Len(data) <= use.size
               /\ inode_write(f, pos, data)

Spec == Init /\ [][Next]_vars

-----------------------------------------------------------------------------
(* The types of the variables: pointers are blocks, sizes stay below the   *)
(* largest, and only inodes that are allocated are damaged.                *)
TypeOK ==
  /\ free \subseteq Blocks \ others
  /\ ind \in [Blocks -> [Children -> Blocks \cup {EOF}]]
  /\ \A b \in Blocks : DOMAIN bytes[b] = 0 .. BS - 1
  /\ ilist \in [Inodes -> Blocks \cup {EOF}]
  /\ \A f \in Inodes :
       /\ inode[f].nlinks \in 0 .. use.links
       /\ inode[f].size \in 0 .. MAX_FILESIZE
       /\ inode[f].blocks \in [Slots -> Blocks \cup {EOF}]
  /\ aborted \in BOOLEAN
  /\ lost \subseteq Live
  /\ orphans \subseteq Blocks

(* The places that hold a block: an inode's own, <<f, -1, <<>> >>, and     *)
(* what hangs from its slots.                                              *)
Places ==
  UNION {{<<f, -1, <<>> >>} \cup
         UNION {{<<f, s, path>> : path \in Paths(SlotLevel(s))} : s \in Slots} : f \in Live}

BlockAt(p) ==
  IF p[2] = -1 THEN ilist[p[1]] ELSE NodeAt(ind, inode[p[1]].blocks[p[2]], p[3])

UsedPlaces == {p \in Places : BlockAt(p) # EOF}
AllInUse == {BlockAt(p) : p \in UsedPlaces}

(* No block is in two places, of one inode or of two, and no block in use  *)
(* is free: nothing can overwrite somebody else's data.                    *)
NoBlockTwice ==
  /\ \A p, q \in UsedPlaces : BlockAt(p) = BlockAt(q) => p = q
  /\ AllInUse \cap (free \cup others) = {}

(* Every block is free or reachable from an inode, but for those of the    *)
(* inodes that the edge case of inode_indirect_grow damaged: no other path *)
(* through a growth that fails, a shrink or a deletion leaks a block.      *)
NoLeak == AllInUse \cup free \cup orphans \cup others = Blocks

(* The blocks a file of k data blocks takes to get one more: the data      *)
(* block, and an indirect block for every level that is full.              *)
BlocksForNext(k) ==
  LET level == indirection_level(k)
      below == k - FirstBlockOfLevel(level)
  IN  1 + Cardinality({j \in 1 .. level : below % indirect_count(j) = 0})

(* What hangs from a block whose first data block is the one at index cur  *)
(* holds, of a file of n data blocks, those from cur on, each at its       *)
(* index, and no indirect block without a data block under it.  If it is   *)
(* not "whole", some may be missing.                                       *)
Fits(whole, ptrs, b, level, cur, n) ==
  \A path \in Paths(level) :
    LET there == NodeAt(ptrs, b, path) # EOF
        below == IndexAt(cur, level, path) < n
    IN  (there => below) /\ (whole /\ below => there)

(* The tree of an inode is determined by its size: the data blocks below   *)
(* the size are there, each at its index, with no block beyond them and    *)
(* no indirect block without a data block under it.  In what the edge case *)
(* damaged, blocks are missing, but none is beyond the size.               *)
TreeMatchesSize ==
  \A f \in Live : \A s \in Slots :
    Fits(f \notin lost, ind, inode[f].blocks[s], SlotLevel(s),
         blockslot2firstblockidx(s), BlockCount(inode[f].size))

(* A growth stops short of the size it was asked for only where the free   *)
(* blocks do not make one more data block: what the failed levels of the   *)
(* recursion took, they have given back, and nothing else.                 *)
StoppedShort ==
  LET size == inode[ret.ino].size
  IN  \/ ret.op = "truncate" /\ size < Min({ret.want, MAX_FILESIZE})
      \/ ret.op = "write" /\ ret.n < ret.want /\ size < MAX_FILESIZE

ShortOnlyWhenFull ==
  StoppedShort /\ ret.ino \notin lost =>
    Cardinality(free) < BlocksForNext(BlockCount(inode[ret.ino].size))

(* No assertion of inode.c fails in an operation on an inode that the edge *)
(* case has left alone, whatever became of the others, but in a write that *)
(* begins beyond the end of its file (WritesStayInFile).                   *)
FreedOrResized(f) ==
  \/ inode_free(f)
  \/ \E n \in use.offsets : inode_truncate(f, n)

WrittenWithin(f) ==
  \E data \in use.payloads, pos \in use.offsets \cup {-1} :
    pos <= inode[f].size /\ inode_write(f, pos, data)

NoAssertFails ==
  [][aborted' => \A f \in use.files :
       FreedOrResized(f) \/ WrittenWithin(f) => f \in lost']_vars

(* The layer implements files of bytes: what is written is read back, at   *)
(* its offset and nowhere else; a hole, and what a file gains by growing,  *)
(* reads as zeros; the other files stay as they are.                       *)
Offsets == UNION {u.offsets : u \in Uses}
Payloads == UNION {u.payloads : u \in Uses}

Files == INSTANCE ByteFiles WITH
  file <- contents,
  nlinks <- [f \in Inodes |-> inode[f].nlinks]

ImplementsFiles ==
  Files!Init /\ [][Files!NextWith(Payloads, Offsets)]_(Files!fileVars)

(* inode.c:235: "if we have failed to allocate ANY data to this NEW        *)
(* indirect block, we must free the indirect block".  The edge case of     *)
(* inode_indirect_grow frees only indirect blocks this growth allocated.   *)
HyperdeathOnlyNew == lost = {}

(* inode.c:703: a write that runs out of room completes "as much of the    *)
(* write as possible": up to the size the file did reach, the file is what *)
(* the whole write would have made of it.                                  *)
AsMuchAsPossible ==
  [][ret' # ret /\ ret'.op = "write" /\ StoppedShort' /\ ret'.ino \notin lost' =>
       \E data \in Payloads, pos \in Offsets \cup {-1} :
         IsPrefix(contents'[ret'.ino],
                  Files!Splice(contents[ret'.ino],
                               IF pos = -1 THEN inode[ret'.ino].size ELSE pos,
                               data))]_vars

(* inode.c:749: zero-filling the part of a write that is a hole ends where *)
(* the file ends, or before; so no assertion fails in a write, wherever it *)
(* starts.                                                                 *)
WritesStayInFile == ~aborted

=============================================================================
