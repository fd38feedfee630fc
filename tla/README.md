# candyfs: models, checks and proofs

candyfs is a FUSE file system in C: a stack of modules over a disk of 4 KiB
blocks.  This directory holds TLA+ modules translated from its source, TLC
configurations that check them on small instances, and TLAPS proofs for every
instance: of the free lists, the blocks of a directory and a listing of them, the open file
table, the requests that change names, and a path resolution.  File and line numbers refer to the
repository's C files.

## 1. The system

| Component | State it keeps | Operations | Module |
|---|---|---|---|
| data block free list (`block.c`) | `superblock.freelist_start`, `free_blocks`; list nodes stored in the free blocks | `block_allocate`, `block_free`, `block_stat`, `mkfs_storage` | `BlockList` |
| inode list (`block.c`) | `superblock.ino_freelist_start`, `free_inodes`; one `ilist` entry to an inode number | `ino_allocate`, `ino_get`, `ino_set`, `ino_free`, `mkfs_storage` | `InodeList` |
| inode layer (`inode.c`) | an inode block (mode, links, size, slots), indirect blocks, data blocks | `inode_allocate`, `inode_free`, `inode_link`, `inode_unlink`, `inode_setsize`, `inode_truncate`, `inode_read`, `inode_write`; `inode_chmod`, `inode_chown`, `inode_utime` | `Inode` |
| files, symlinks (`file.c`, `symlink.c`) | none of their own | creation, and type checks in front of the inode layer | `Namespace`, `Namei` in part |
| directories (`dir.c`) | blocks of inode numbers and names, in the directory's data | `dir_create`, `dir_lookup`, `dir_insert`, `dir_remove`, `dir_destroy`, `dir_reparent`, `dir_enumerate` | `Dir`, `DirScan` |
| open file table (`refs.c`) | in memory: references to inodes, with a copy of the link count | `refs_open`, `refs_close`, `refs_link`, `refs_unlink`, `refs_dir_lookup_open` | `Refs` |
| permissions (`perm.c`) | none | checks of mode bits | left open |
| paths (`path.c`) | in memory: the table of open paths | `namei`, `path_open`, `path_close`, `path_get`, `path_link`, `path_unlink`, `path_mkdir`, `path_rmdir`, `path_rename` | `Namei`, `Namespace` |
| request handlers (`candyfs.c`) | FUSE's file handles | one handler to a request | `Namespace`; the loop of `candy_readdir` in `DirScan` |
| disk (`disk.c`) | a mapping or a file descriptor | read or write one block | not modelled |
| `mkfs.c`, `test.c` | | a command line; a stress test | not modelled |

**How they interact.**  Calls go down the stack only: handler, path, refs, dir /
file / symlink, inode, block, disk.  Nothing calls back up.  Both mounts pass
`-s` to FUSE (candyfs.c:488, 508), so one request is served at a time, and a
handler runs to its end before the next begins.  Interleaving happens *between*
requests: a handle opened by one request is used by later ones while others
link, unlink, truncate and list.  Two tables exist only in memory (`refs.c`,
`path.c`) and are lost when the process ends; the disk stays, and there is no
journal and no fsck.

**What is hard here.**  Free lists threaded through the very blocks they hand
out, and through an array whose signs distinguish a block from a link; a
growth that runs out of blocks somewhere in four levels of recursion and has to
give back what it took; the arithmetic of which children a growth, a shrink or a
copy visits; data of an old file in a block of a new one; an inode whose last
link and last reference go in either order; entries that move while a listing
keeps only their place; a directory whose length is taken for a proof that it is
not empty; a recursion that hands one owned reference, `*curdir`, through every
level and every error path; requests of up to six changes to the disk, any of
which may be the last before a crash.  `PROJECT.json` lists each at its line, with the properties that
would catch it going wrong.

**What makes each component correct.**

- *Free lists*: every block (number) is in use or on the list, once; allocation
  fails only when nothing is free; the counters `statfs` shows are exact; the
  sign of an `ilist` entry tells allocated from free.
- *Inode layer*: no block belongs to two files, or to a file and the free list;
  no block is lost; an inode's tree is determined by its size; a growth stops
  short only when the disk is full; what is written is read back and nothing
  else changes.
- *Open file table*: an inode lives exactly as long as it has a link or a
  reference; the copied link count is the one on the disk.
- *Directories*: a map from names to numbers that always holds `.` and `..`, can
  only be destroyed when it holds nothing else, and is compacted the way the
  insertions rely on.  A listing misses nothing if nothing is removed.
- *Paths*: a path leads where path_resolution(7) says; every reference taken is
  given back; between requests an inode counts as many links as there are names for
  it, and the names are a tree; a request that fails changes nothing; a crash leaves
  one thing wrong at most.

## 2. The modules

Each module keeps the source's names for state and operations.  `PROJECT.json`
maps every definition to the lines it stands for.  (Operators with an operator as
parameter, `GrowIndirect`, `ShrinkIndirect`, `VisitIndirect` and the loops they use, have their
lines listed under those that apply them.)  Operators marked
`(* Changed: ... *)` are not part of any specification: each is the definition
after it with a plausible mistake (a forgotten counter, an off-by-one, a missing
case), kept to show that the properties can fail: exchanged for the definition,
it makes the property that `PROJECT.json` names fail.

**`Pool`** (abstract).  What both allocators promise: take a free item, or
nothing if there is none; give an item back; a counter that is right.

**`Superblock`**.  The constants of `block.c`, with what `mkfs_storage` asserts of them.

**`BlockList`**.  `node` is every data block read as a `freelist_block_t`.
`block_allocate` is three actions, one to a return statement: the list is empty,
the first used slot of the head, the head itself once it has none.  `block_free`
is two: into the last empty slot of the head, or as a new head.  Callers free only
what they hold (`used`).  `chain`, `used`, `got` are history.  `BlockListInit` is what
`mkfs_storage` writes, with the disk's size, the size of the inode list and the
slots of a node as constants.

**`InodeList`**.  `ilist[i]` is the block of an inode, or minus the next free
number.  `Neg` is negation of 64 bit numbers: `LONG_MIN` is its own.  0 is its
own as well, and is the root's number: it leaves the list first and never comes
back (`RootFirst`), which is why no link ever reads as "allocated".  The callers
are `inode_allocate` (a number, then a block for it or the number back) and
`inode_free`.

**`Inode`**.  `inode_indirect_grow`, `inode_indirect_shrink` and
`inode_indirect_readwrite` work on a store `[free, ind, bytes]`; a failed assertion sets
a flag that ends the behaviour (`aborted`).  Their recursion goes over three levels
of indirection and no further, so each is written once with the function one level down
as its parameter (`GrowIndirect`) and applied three times (`GrowSingle`, `GrowDouble`,
`GrowTriple`); a loop over children or slots is a recursive function of the number of
rounds.  Offsets, slots, levels and counts are computed as in the source,
with the constants `W` (numbers in an indirect block), `D` (direct slots) and
`BS` (bytes in a block) for 512, what is left of an inode block for direct slots,
and 4096.  `inode_indirect_readwrite` returns the data blocks it visits, how many bytes
it copies and whether its assertion held; `CopyIn` and `CopyOut` are what is copied.
The pool underneath is
that of `Pool`, which `BlockList` implements; the smallest free block is taken,
since the layer never compares numbers.  `Junk` fills blocks that nobody wrote.
`contents` is history: what reading every file returns.  `lost` names the files
the HYPERDEATH case (inode.c:233) took blocks from that were not new (see 5);
properties of trees except the files in it, file by file: `NoAssertFails` speaks of
every operation on a file that is not in `lost`, whatever became of the others.  One step is one call of an exported
function.  Modes, owners and times are left out.

**`ByteFiles`** (abstract).  Files as sequences of bytes, with writes,
truncations, links, and what the code does when there is no room.

**`Refs`**.  The hash map as it is, buckets of sorted sequences.  `find_node_loc`
is the walk; each function is one action to a path through it.  The inode layer
is `alloc` and `nlinks`.  A number just allocated is opened or given up before
the next request (`fresh`).  `Crash` may happen at any point: it loses the table
and keeps the disk.  What it may leave behind is bounded (`stranded`): inodes without
a link that were open, or about to be; `NoOrphans` says that these are all the orphans.

**`OpenInodes`** (abstract).  Inodes with links and references; the close that
gives the last reference back frees an inode without links.

**`Dir`**.  One directory in its blocks: the array of numbers, the table of
names with the zeros between them, the moves of `dir_remove`, the choice of the
fullest block in `dir_insert`, the truncation of empty blocks at the end, and the
size that marks a destroyed directory (`dead`).  Names are short sequences of
nonzero bytes, because lengths and zeros decide what the code does.  The inode
layer underneath is a file whose append may fail.

**`Directory`** (abstract).  The map from names to numbers.

**`DirScan`**.  `dir_enumerate` as `candy_readdir` calls it, with the offset as
all that is kept between calls, while `Dir`'s operations happen in between.

**`Namei`**.  One call of `namei`: the activations of `namei_rec` are a stack of
frames with the variables the source has, `refs` counts the references the call
holds, and each action is the stretch between two places where a reference or
`*curdir` changes (`leaked` is history: what the return of `ENOTDIR`, `NoDirectory`,
leaves behind, see 5): the early return, the choice of the root, an empty component, a
component with its lookup and perhaps a descent into a link, the three outcomes of
parts 2 and 3, the end of `namei`, and what the caller gives back.  An assertion
that fails ends the call (`aborted`).  `Reference` is path_resolution(7), which
path.c:124 refers to: a link is replaced by its contents in the path.  The links'
contents, the directories that may be searched, the path, `deref` and whether
`curdir` is NULL are chosen freely; Descend does what `namei_internal_single` does up
to the recursion, `Reload` what it does after it (where `inode_getinfo` on an error
number reads a block that `disk_read` did not fill: either outcome is possible).
`Steps` counts how far the reference is followed: an activation of `namei_rec` with no
level left takes as many steps as its path has components, and one more level doubles
that.

**`Tree`** (abstract).  The names as a program sees them: a request takes place at
once, and one that fails changes nothing, but for the rename whose target is gone.

**`Namespace`**.  Requests one at a time, over directories as `Directory` promises
them (`entries`, `parent` for `..` and for the mark of destruction) and an open file
table as `OpenInodes` does (`links`, `refs`).  A path is the directory it leads to
and its last name; the table of open paths is a set of those, and `req` holds what
the handler's local variables do.  Where a path may lead is what can be reached from
the root (`Reachable`, the least set closed under names).  A request begins (`AskPath`,
`AskRename`, `AskCreate`, `AskLink`, `AskAttributes`: the handler up to the paths and
inodes it opens), goes through one action to each change of the disk and to each
`path_get` (`PathGet`, `RenameSource`, `RenameTarget`), in the order of the source, and
ends in `Finish`, which gives back what the handler's `I` and `P` give back.  Every
check whose outcome depends on modes or on room is open: the action may fail there
(`Fail`, with the inodes that this return closes; `RenameRefused` closes two).
`Unlinking` is `refs_unlink` and `Unlinked` the `refs_close` behind it, so that a crash
between them leaves an orphan.  `NotADirectory` is a `path_open` that ends in the
return of `ENOTDIR` of `namei_rec`: all it changes is the reference it leaves behind;
`leaked` counts those and the ones of `UnlinkDirectory`.  Where the source asserts, the
model aborts.  `OpenHandle`
and `Release` are `candy_open`, `candy_opendir` and their counterparts.  `Crash` may
come anywhere; in the middle of a request the state is then `torn`.

**`ListLemmas`, `BlockListProofs`, `InodeListProofs`, `InodeProofs`, `RefsProofs`, `DirProofs`,
`NamespaceProofs`, `NameiProofs`** hold the lemmas and proofs; each `MC*` module the values for TLC.

Composition is by contract: `Inode` stands on `Pool`, which `BlockList`
and `InodeList` are proved to implement; `Dir` stands on files that do what
`ByteFiles` says; `Refs` stands on the link counts and deletions of `Inode`;
`Namespace` puts directories and the open file table together, each as the abstract
module that `Dir` and `Refs` implement, and leaves to `Namei` how a path leads to a
directory.

What `Namespace` and `Namei` assume of the kernel: it resolves `.` and `..` and
links in the middle of a path itself, so that no last name is `.` or `..`; it
refuses to rename a directory into itself; a path it sends may be stale (a name gone,
a directory closed to the user, since it keeps what it looked up before).

## 3. The runs

| Run | Question | Distinct states |
|---|---|---|
| `lists` | The three linked lists, each by itself.  Free blocks: is a block ever lost or handed out twice, and is the counter right?  Inode numbers: does the sign of an entry always tell allocated from free?  Open files: is an inode freed exactly when its last link and reference are gone, also across crashes? | 379,308 + 28,351 + 22,704 |
| `inode` | Does every growth and shrink, failed ones included, leave the tree its size asks for; is what was written what is read; do two files leave each other alone? | 34,664 |
| `directory` | Are the blocks the map a directory should be, and is a listing complete if nothing is removed, and without repetition? | 72,559 |
| `namei` | Does a path lead where it should, through links and errors, with every reference given back on all returns but one, and does every resolution end? | 86,568 |
| `namespace` | Do links match names, does every return but two give back what its request opened, do the names stay a tree, and what does a crash leave? | 919,711 |
| `inode_hyperdeath`, `inode_short_write`, `inode_hole`, `dir_scan_skips`, `namei_curdir`, `namei_references`, `namespace_path_get` | Does the code do what its comments, assertions and notes say? (violated, see 5) | |

The invariants of the proofs that no run lists (`NoDuplicates`, `FreeCountExact`,
`ChainsSorted`, `RootFirst`, ...) follow from theorems of section 4; a refinement that
a run checks covers `FreeCountExact`, `FreeInodesExact` and `NamesUnique`, too.  The
inductive invariants of `NamespaceProofs`, `NameiProofs` and `InodeProofs` were found with
TLC, as invariants of the instances `namespace`, `namei` and `inode`, before they were
proved.

**Bounds, and why they are enough.**

- `lists`: `MCLists` has the variables of `BlockList`, `InodeList` and `Refs`, which share
  none; a behaviour is about one of them (`list`), and the other two stand still, so that
  the run checks what three would.
- Free blocks: five data blocks, two slots to a node: mkfs makes two nodes, the
  second with an unused slot.  Heads run empty, are handed out, and fill again;
  lists of one to five nodes and the empty list occur.  Free numbers: five
  numbers and two blocks: all orders of return.  Both are proved without bounds.
- `inode`: `W = 2`, `D = 1`: one direct block, two, four and eight under the
  three indirect slots.  `Uses` is a set of bounds, of which a behaviour takes one.
  `Trees`: sizes run to ten blocks, so that growths, shrinks and
  failures begin and end in every level and at every boundary between them; the
  number of free blocks runs over everything from 0 to 19, which the largest
  file just needs, so a growth runs out at every point of the recursion.
  Offsets are even and odd (`BS = 2`): sizes that end in a block and between two.
  The five invariants are proved for every `W`, `D`, `BS`, every disk and all files.
  `OneFile`: three bytes written at offsets inside the file, across its end,
  at it (`O_APPEND`) and beyond it, aligned and not, under three levels, with three
  to ten blocks free.  `TwoFiles`: two inodes, seven blocks: one file's blocks
  reach the other with its bytes still in them.
- Open files: two buckets, four inodes, three of them in one bucket: insertion
  and removal at the front, in the middle and at the end of a chain; two
  references and two links to an inode (`MaxRefs`, `MaxLinks`).  Proved for every
  set of inodes and every number of buckets.
- `directory`: blocks of three entries and nine bytes of names; names of one, three
  and five bytes beside `.` and `..`: blocks are full now by their numbers, now by
  their names, and a name's zero is the last byte of a table.  One block holds a name
  or none, two names share a block, and of four blocks (`MaxBlocks`) those in the
  middle run empty, one or two in a row, and are truncated away with the last.
  After the end of a listing its history is cleared, so that only one listing at a
  time is remembered.  Proved for every set of names, every size of the arrays and
  tables, and every number of blocks.
- `namei`: two directories, two files and two links, each link with any of twelve
  contents: a file, itself or the other link, directly or through a directory,
  relative, absolute, with empty components, and leading nowhere at its end or before.
  Chains of up to two links end, longer ones are loops; `MaxLevel = 3` lets the
  longest chain that ends pass and cuts the loops.  `Longest = 3` components are in the
  longest of these paths; with `MaxLevel` it says how many steps the reference has
  (`Steps`, `Fuel`), and that they are enough is part of what is proved.  Proved for
  every tree, every set of paths whose lengths are bounded, and every `MaxLevel`.
- `namespace`: the root and three more inodes, two names: a directory in a
  directory with a file in it, a file with two names, renames over empty and full
  directories and over files, and a number that is used again while a program
  has it open (one handle).  `MaxLeaks = 1` bounds how often a reference that
  path.c:102 or path.c:333 does not give back is lost: only while no inode has lost one.  Proved for every set of
  inodes, names and handles.
- Symmetry is used in `namespace` only, over the inodes but the root and over the
  names: its definitions tell none of them from the others, and it checks no
  liveness.  Elsewhere allocation takes the smallest block, chains are sorted
  by number, and names differ in length.

`CHECK_DEADLOCK FALSE` is set where a behaviour ends: in the inode runs after a
failed assertion, in `namei` after the one call (or a failed assertion), in
`namespace` after a crash in the middle of a request, whose damage is looked at in that
state and not further on.

**Fairness.**  `Namei` has `WF_vars(Step)`: the program is single-threaded and takes
no lock and waits for nobody inside `namei`, so a call that has begun goes on until
it returns.  `Call` is not fair, since nothing makes the kernel send a request.  Under
it every resolution ends (`Returns`), whatever the links contain; without the count
of levels, or the step past an empty component, it would not.  No other module assumes
fairness: each request runs to its end without a loop that waits, and nothing makes
anybody close a file.  What must happen there is stated as safety: the close that gives
the last reference back frees the inode in that very step (`ImplementsOpenInodes`,
`NoOrphans`, `LinksMatchNames`).

## 4. The proofs

All proofs are checked by TLAPS for every value of the constants that satisfies
the module's assumption.  `BlockListAssumption`, `InodeListAssumption` (in `Superblock`) and
`RefsAssumption` say that there is a data block (asserted by `mkfs_storage`), an
inode, a bucket, and that `EOF` is below everything that is stored negated.
`NamespaceAssumption` says that `None` is neither an inode nor a place, and that
finitely many files are open (`Handles`).  `DirAssumption` says that a name is a sequence of nonzero bytes that, with its
zero, fits in a table, that `.` and `..` have one and two, and that there is room for
both with a third number.  `InodeAssumption` says that `W`, `D` and `BS` are
positive, that blocks and inodes are numbers and `EOF` is a negative one, and that the offsets
asked for are natural numbers (the types of the code, and its checks).  `NameiAssumption` says that the
tree is one (names in directories, a `..` in each), that no path is empty or `/`,
for which the kernel sends the path of its one empty component, and that the lengths of
paths are bounded; `KernelAssumption`, which `CurdirForCreate` rests on, that a path the
kernel sends has no link but at its end, since it resolves them component by component.

*`BlockListProofs`*: `BlockListInvariant`, `BlockListTypes`, `BlockListCorrect`,
`BlockListRefinesPool`.  `Partition` alone is not inductive: that the head can be
handed out without losing its successors needs the order of the list on the disk
(`ChainOK`), and that a slot's block is not another node, or another slot's, needs
`NoDuplicates`; `FreeCountExact` then follows from both.  `BlockListInv` is their
conjunction.  The initial state needs the arithmetic of mkfs: the nodes are the
data blocks that are multiples of the stride, the slots name the ones in between
(`MkfsBlocks`, `MkfsNodes`, from the division lemmas of `ListLemmas`).  There is
one lemma to each action; the refinement follows from the invariant.

*`InodeListProofs`*: `InodeListInvariant`, `InodeListTypes`, `InodeListCorrect`,
`InodeListRefinesPool`.  `SignTellsAllocated` is inductive only with
`RootFirst`: a link to inode 0 would be -0.

*`InodeProofs`*: `ValidInvariant`, `TypesInvariant`, `NoBlockTwiceInvariant`,
`NoLeakInvariant`, `TreeMatchesSizeInvariant`, `ShortOnlyWhenFullInvariant`,
`NoAssertFailsAlways`; on the way `Grows`, `Shrinks`, `SetSizeRight` and `Landed`.  The proof follows the calls.

- A tree is the set of paths into it, and `TreeStep`, `ProperStep`, `FitsStep` take it
  apart at the root: a root and the trees of its children.  `Frame` says that what
  changes elsewhere leaves a tree the same.
- `inode_indirect_grow` and `inode_indirect_shrink` have a contract at every level
  (`GrowPre`, `GrowPost`; `ShrinkPre`, `ShrinkPost`).  `Moved` is the part about blocks: what
  hung from the old pointer and the free blocks are what hangs from the new one and the
  free blocks.  The rest is about the tree: it fits the blocks reached, and a growth
  that stops short leaves fewer free blocks than the next data block takes (`Few`), one for
  itself and one for every level that is full there.  One level up (`GrowLevel`,
  `ShrinkLevel`) is a loop over the children with an invariant (`GrowInv`, `ShrinkInv`);
  `GrowAt` and `ChildRange` are the arithmetic of `start_idx` and `end_idx`, which
  visit exactly the children that overlap the range.  Three applications give all levels, so
  no induction over data is needed; that a loop's invariant holds at its end is shown by
  its least counterexample (`Least`).
- `inode_setsize` is the same a level higher, with the slots for children (`SlotsKept`,
  `GrowsInv`, `ShrinksInv`); that a slot follows the one before it, which the code asserts, is
  part of `GrowsInv`.  `SetSizeRight`, `WriteRight`, `TruncateRight` are the contracts
  of the operations.
- `Valid` is the inductive invariant: the forest of every inode fits its size (`Formed`), no
  two inodes hold the same block and none a free one (`Apart`), every block is accounted for
  (`Covers`), and the last operation stopped short only for want of blocks.  The properties
  the runs check are not inductive one by one: a shrink frees the right blocks only in a
  tree that matches its size, and it leaves the other files alone only if no block is in two
  places.  `Landed` is the step from one file to all.
- No assertion fails (`NoAssertFailsAlways`) in an operation on a file whose tree is whole
  (those of other files may be damaged), because the contracts say so of such trees: a growth never fails one, a shrink only where a block is missing, and
  `inode_indirect_readwrite` (`VisitPre`, `VisitPost`, by level like the others) visits
  the data blocks of a range in a tree that has them all, each byte once, so that the
  loop over the slots goes from one to the next (`VisitsInv`) and ends at `endpos`
  (`VisitRight`).  What is left is the end of a write: `endpos - zero_endpos` is
  negative only if the growth stopped before the offset (`WriteGood`).  A rest that
  begins where the write stops is visited by no round (`VisitNone`).
- The contracts hold of damaged trees, too, with a parameter `e` that is false of them:
  blocks may be missing, but those there are at their places and below the size.  So
  what the HYPERDEATH case does to one file never reaches another (`NoBlockTwice` has no
  exception), and a deletion frees all that is left of the file, or fails an assertion.
  Growing a damaged file can lose more of its blocks: they are in `orphans`.

*`RefsProofs`*: `RefsInvariant`, `RefsTypes`, `RefsCoherent`, `RefsNoOrphans`,
`RefsRefinesOpenInodes`.  `CacheCoherent` needs `ChainsSorted` (the node found is
the only one of its inode, so that an update reaches every copy), and that a fresh
number is not open (`FreshOK`); with it the last close frees by the right count,
hence `NoOrphans` and `FreeNeverFails`; that a crash strands no more than what the table
held without a link is the same equation, since every other inode without one is free.  The refinement maps the references to an
inode to the refcount of its one node.

*`DirProofs`*: `DirInvariant`, `DirTypes`, `DirCompacted`, `DirLastBlock`,
`DirNamesUnique`, `DirRefinesDirectory`; `DirScanInvariant`, `DirScanNoneTwice`,
`DirScanComplete`, `ScanLeavesDir`.  `Compacted` alone is not inductive: that a removal
cuts out one name and nothing of another needs that there is a name to each number,
each before its zero, where the one before it ends.  That is `Laid`, which gives the
names and offsets of a block outright; `ReadBlock` shows that `strlen`, the loops and
the recursion `nameoff` find just these (the least offset where they did not would be a
contradiction, so no induction is needed).  `PutLaid`, `CutLaid` and `RenumberGood`
say what a write does to them.  Over all blocks the invariant adds `Unique`, which makes
the first match of a search the only one, and that the last block is not empty, which
`dir_remove` keeps by truncating the empty ones before it (`TruncateStep`).  Where
entries go is one formula, `Moved`: an entry stays at its slot, or, if another is gone,
moves one slot to the front.  With it the invariant of a listing is that it has
gone past what it reported, and until a removal has reported what it went past;
`OffsetBehind` is the arithmetic of the offset, the last slot of a block included.

*`NamespaceProofs`*: `Invariance`, `TypeCorrect`, `LinksAreNames`,
`OthersGivenBack`, `NamesAreATree`, `OneThingTorn`, `RequestsAreAtomic`.  All that
the properties say holds between requests only, so the invariant says for each place
in a request what is different there.  `Asked`: which paths and inodes it has open;
with it `Referenced` accounts for every reference, by handles, open paths, the request's
two inodes and what path.c:102 and path.c:333 leave, so that no close fails and an inode is
freed exactly when nobody needs it: each return is a lemma that shows what it closes to
be what its request has taken (`Getting`, `GivesBoth`, `RenameRefusedStep`).  `Linked`: links are names but for the one link
that a request has not counted yet, or counts no more (`Uncounted`).  `Rooted`,
`OneName`, `Upward`: the tree, with the directory that has two names in the middle of a
rename, and the one whose `..` is marked destroyed or still old.  That nothing
becomes unreachable needs what the request looked at to be so still (`Steps`:
the target of a rename is empty, its directory is reachable without going through the
source), and this needs that one request runs at a time.  `History` ties the names to
those of the request's beginning; from it a failed request has changed nothing, and a
crash takes only names that the request is about; that what it leaves without a name
and a reference is one inode at most, and then nothing else is wrong, is `Orphaned` and
`OneDamage`.  `HandlesKind` is what `candy_open`
checked.  What can be reached is the least closed set, so the lemmas about it
(`ReachWithoutLeaf`, `ReachWithoutOther`, ...) need no induction; numbers of names
and handles are cardinalities.  The refinement shows `Tree` the names at the request's
beginning until `Finish`; a rename that fails after its target is gone is the one
exception `Tree` has.

*`NameiProofs`*: `NameiInvariant`, `NameiTypes`, `NameiOthersGiveBack`, `NameiCurdir`,
`NameiAborts`; `NameiFollows`, `NameiFinds`, `NameiCurdirForCreate`,
`NameiAbortsOnlyWhenLost`.  What a resolution holds does not depend on how deep it is: the
root, `*curdir`, the `current` of the topmost activation between two components, and
what was found (`References`); an activation below the top has handed its directory on
in `*curdir`.  So the accounting needs no sum over the stack.  It needs `Curdir` (where
`*curdir` is a directory and where it has been given back), and this needs
`Levels`: the level grows by at least one to an activation and never falls towards the
top, so that a path that is too deep is not the first, and `namei` does not return
`ELOOP` with `*curdir` still open.  What is left at the end is then what `NoDirectory`
left (`OnlyLeaked`), and a path that meets nothing but directories before its end does
not take that return (`MeetsNoDirectory`), by the proof below.

That the recursion finds the file is proved by following the reference (`Following`).
The one walks a path into which links are put; the other keeps a stack of paths.  They
are at the same place when the path of the one is what is left at the top of the stack,
and then what is left in each activation below it (`Below`: `rest`).  A call for a link
puts its contents in front on both sides, a return takes nothing away, so each action is
a step of the reference or none.  The reference must have steps left for as long as the
code goes on: `left` gives each activation its share, twice what the next level has,
because an activation's own level rises with each link it follows.  Where the code fails,
the reference has stopped (`Wrong`): lost, or beyond `MaxLevel` links, or one name short
with every activation at its last component.  The last case is why the recursion may
answer `INO_EOF` only at the very end, and why an assertion fails only in the others.
`Unlinked` adds what holds of the callers that ask for the directory: with `deref`
false and no link in the middle there is one activation, and what comes before the name
leads to where it is (`OnPath`).

*Only model-checked*: of `Inode` that its files are those of `ByteFiles`
(`ImplementsFiles`: the proofs say which blocks are visited, `VisitRight`, and not yet
what their bytes become); of `Namei` `Returns`, which is liveness.  Not
for this prover: liveness and `ENABLED`.  Where a definition is recursive over numbers
(`Steps` and `Walked` of `Namei`) the least number for which a claim fails is a
contradiction, which takes the place of induction.

## 5. Where the code disagrees with what it says

Each is a run that TLC ends with a counterexample.

- `inode_hyperdeath`: the edge case at inode.c:233 is meant for an indirect block
  that is new, but its condition also holds of one that was there.  A file that ends under the first
  child of the triple indirect block, grown on a full disk, loses that block with
  the data under it.  `NoLeak`, `TreeMatchesSize` and the others hold for all files
  this has not happened to.
- `inode_short_write`: a write that runs out of room sets both `endpos` and
  `zero_endpos` to the size reached, so everything from its start is zeroed
  (bytes the file had included) and 0 is returned; inode.c:703 promises
  "as much of the write as possible".
- `inode_hole`: a write beyond the end of a file that finds no room for the hole
  fails the assertion at inode.c:749.
- `dir_scan_skips`: a removal of an entry that was listed already moves the next
  one behind the offset; the listing misses it, where dir.c:276-277 says the next
  call retrieves the next entry.
- `namei_curdir`: when a component in the middle of a path leads nowhere, `namei_rec`
  has given `*curdir` back and set it to `INO_EOF`; without a `curdir` of the caller's
  `namei` closes it once more and asserts that this succeeds (path.c:157), and the mount
  ends.  A stale path is enough (a directory that may not be searched any more), and so is
  `chown -h` of a symbolic link with a component that does not exist: `candy_chown`
  resolves with `deref`.  `AbortsOnlyWhenLost` in the run `namei` says that nothing
  else fails an assertion there.

- `namei_references`: the notes pair `refs_dir_lookup_open` with `refs_close` (notes:34).
  Where a component that is not the last is no directory, `namei_rec` closes `*curdir` and
  returns `ENOTDIR`, without closing what it had looked up (path.c:102-106): the reference
  stays in the table, and an inode that loses its last name later is never freed.
  `OthersGiveBack`, in the run `namei` and proved, says that all the other returns give
  everything back, and that this one is taken only where the path leads through something
  that is no directory.
- `namespace_path_get`: the notes pair `path_get` with `refs_close` (notes:32), and
  path.c:265 says that the handle returned "will have ownership".  `path_unlink` of a
  directory returns `EPERM` without closing it (path.c:333-335).  `OthersAccounted`, in
  the run `namespace` and proved, says that between requests the references are those of
  the open files and the ones these two returns dropped, no more and no fewer.

One exception is part of a passing property, and no document of the repository denies
it: `Tree` has the rename that fails after its target is gone (path.c:513).

## 6. Not modelled, and the plan

Not modelled: modes, owners, times and permissions (`perm.c`); names that are too
long; I/O errors of the disk; the size of the open path table; the formats that
`candy_getattr` and `block_stat` fill; the threads the notes file plans for (both
mounts are single-threaded); `mkfs.c` on devices of less than 256 blocks, whose inode
list has no block.

Crashes come between whole operations of the directory and inode layers: between
any two calls in `Refs`, between any two changes of a request in `Namespace`, the
`refs_unlink` and the `refs_close` that frees included.  That one
such operation is itself several writes, in an order the code does not choose with
crashes in mind (a shrink frees blocks before it writes the inode that named them,
inode.c:438-480; block.c:135 writes the superblock before the head it names), is not
modelled.  What a torn file system does afterwards is not followed either: `TornByOne`
bounds the damage at the crash, and there is no fsck to repair it.

What comes next, most important first:

1. **Proofs** for `Inode`: that it implements `ByteFiles`, from the data blocks a write
   and a read visit (`FileLeaves`), which are the same, one to an index.
2. **Disk writes one by one** for `BlockList`, with a crash between them: which windows
   lose blocks, and which hand one out twice.
3. **Permissions** as an operator, checked against its definition over all modes.

Left out on purpose: a block in the middle of a directory that lost
its last entry is never filled again (dir.c:182: its `nameoff` 0 is not above
`bestnameoff`); `Directory` allows an insertion to fail for want of room, and no
document of the repository says otherwise.
