--------------------------------- MODULE Dir ---------------------------------
(***************************************************************************)
(* One directory on the disk (dir.c): a file of blocks, each with an array *)
(* of inode numbers and a table of names, null-terminated one after the    *)
(* other, the nth name for the nth number.  Names are sequences of nonzero *)
(* bytes, because the search, the removal and the choice of a block go by  *)
(* their lengths and by the zeros between and after them.                  *)
(*                                                                         *)
(* The file is inode.c's: reads and overwrites of what is there succeed,   *)
(* and an append of one block does or does not, as the disk has room.  A   *)
(* size that is not a multiple of the block marks the directory destroyed. *)
(***************************************************************************)
EXTENDS Integers, Sequences, FiniteSets, SequencesExt, FiniteSetsExt

CONSTANTS
  Names,     \* the names the callers use: sequences of nonzero bytes
  Inodes,    \* inode numbers
  E,         \* ENTRIES_PER_DIR_BLOCK
  NS,        \* NAMESPACE_PER_DIR_BLOCK
  INO_EOF,
  dot, dotdot, self, root,
  MaxBlocks  \* bound: the disk has room for no more blocks of a directory

ASSUME DirAssumption ==
  /\ {dot, dotdot} \subseteq Names
  /\ {self, root} \subseteq Inodes
  /\ E \in Nat /\ NS \in Nat /\ MaxBlocks \in Nat
  /\ E > 2 /\ NS > 5
  /\ \A name \in Names : name \in Seq(Nat \ {0}) /\ Len(name) \in 1 .. NS - 1
  /\ Len(dot) = 1 /\ Len(dotdot) = 2
  /\ INO_EOF \notin Inodes

VARIABLES
  blocks,   \* the blocks of the directory
  dead,     \* whether its size has the mark of a destroyed directory
  ret,      \* what the last operation returned
  entries   \* history: what the blocks say the directory holds

dirVars == <<blocks, dead, ret, entries>>

ENOENT == -2
EEXIST == -17
EINVAL == -22
ENOSPC == -28
ENOTEMPTY == -39

Slots == 0 .. E - 1
Table == 0 .. NS - 1
Bytes == {0} \cup UNION {ToSet(name) : name \in Names}
Block == [numbers : [Slots -> Inodes \cup {INO_EOF}], names : [Table -> Bytes]]

EmptyBlock == [numbers |-> [i \in Slots |-> INO_EOF], names |-> [k \in Table |-> 0]]

-----------------------------------------------------------------------------
strlen(b, off) ==
  CHOOSE k \in 0 .. NS - off :
    /\ k = NS - off \/ b.names[off + k] = 0
    /\ \A j \in 0 .. k - 1 : b.names[off + j] # 0

(* Where the loops over a block stop: at the first free slot, or the end. *)
Count(b) ==
  CHOOSE i \in 0 .. E :
    /\ i = E \/ b.numbers[i] = INO_EOF
    /\ \A j \in 0 .. i - 1 : b.numbers[j] # INO_EOF

(* "nameoff" after i rounds of these loops. *)
nameoff(b, i) ==
  LET off[n \in 0 .. i] ==
        IF n = 0 THEN 0
        ELSE LET before == off[n - 1] IN before + strlen(b, before) + 1
  IN  off[i]

NameAt(b, i) ==
  LET off == nameoff(b, i)
  IN  [k \in 1 .. strlen(b, off) |-> b.names[off + k - 1]]

(* memcpy of name, without its zero, and of the number. *)
Put(b, i, off, name, ino) ==
  [numbers |-> [b.numbers EXCEPT ![i] = ino],
   names |-> [k \in Table |-> IF k - off \in 0 .. Len(name) - 1
                              THEN name[k - off + 1] ELSE b.names[k]]]

(* Changed: leaves what was last in the table behind the names. *)
CutUnpadded(b, i, off, size) ==
  [numbers |-> [j \in Slots |-> IF j < i THEN b.numbers[j]
                                ELSE IF j < E - 1 THEN b.numbers[j + 1]
                                ELSE INO_EOF],
   names |-> [k \in Table |-> IF k >= off /\ k < NS - size - 1
                              THEN b.names[k + size + 1] ELSE b.names[k]]]

(* The memmoves of dir_remove, and what it puts behind them. *)
Cut(b, i, off, size) ==
  [numbers |-> [j \in Slots |-> IF j < i THEN b.numbers[j]
                                ELSE IF j < E - 1 THEN b.numbers[j + 1]
                                ELSE INO_EOF],
   names |-> [k \in Table |-> IF k < off THEN b.names[k]
                              ELSE IF k < NS - size - 1 THEN b.names[k + size + 1]
                              ELSE 0]]

(* The place of the first entry with a name: <<block, slot>>, or none. *)
InUse(bs) == UNION {{p} \X (0 .. Count(bs[p]) - 1) : p \in DOMAIN bs}
Matches(bs, name) == {m \in InUse(bs) : NameAt(bs[m[1]], m[2]) = name}
First(ms) ==
  CHOOSE m \in ms : \A n \in ms : m[1] < n[1] \/ (m[1] = n[1] /\ m[2] <= n[2])

Entries(bs) ==
  {[name |-> NameAt(bs[m[1]], m[2]), ino |-> bs[m[1]].numbers[m[2]]] : m \in InUse(bs)}

-----------------------------------------------------------------------------
(* The end of every operation. *)
Return(bs, isDead, res) ==
  /\ blocks' = bs
  /\ dead' = isDead
  /\ ret' = res
  /\ entries' = Entries(bs)

Fail(error) == ret' = error /\ UNCHANGED <<blocks, dead, entries>>

(* A destroyed directory still reads as a block. *)
dir_lookup(name) ==
  LET ms == Matches(blocks, name)
  IN  Fail(IF ms = {} THEN ENOENT ELSE blocks[First(ms)[1]].numbers[First(ms)[2]])

(* Changed: forgets the zero after the last name. *)
FreeOffOneLess(b) == nameoff(b, Count(b)) - 1

(* dir_insert: the blocks with room, and where their free room begins.  A  *)
(* block without any entry does not count.                                 *)
FreeOff(b) == nameoff(b, Count(b))
Roomy(bs, name) ==
  {p \in DOMAIN bs :
     LET free == FreeOff(bs[p])
     IN  Count(bs[p]) < E /\ NS - free > Len(name) /\ free > 0}

(* Of the blocks with room, the first of those that are fullest. *)
BestBlock(bs, roomy) ==
  CHOOSE p \in roomy :
    LET free == FreeOff(bs[p])
    IN  \A q \in roomy :
          \/ free > FreeOff(bs[q])
          \/ free = FreeOff(bs[q]) /\ p <= q

(* dir_insert: into the fullest block with room. *)
InsertIntoBlock(p, name, ino) ==
  Return([blocks EXCEPT ![p] = Put(@, Count(@), FreeOff(@), name, ino)], dead, 0)

InsertAppends(name, ino) ==
  \/ /\ Len(blocks) < MaxBlocks
     /\ Return(Append(blocks, Put(EmptyBlock, 0, 0, name, ino)), dead, 0)
  \/ Fail(ENOSPC)

dir_insert(name, ino) ==
  LET there == Matches(blocks, name) # {}
      roomy == Roomy(blocks, name)
  IN  \/ dead /\ Fail(ENOENT)
      \/ ~dead /\ there /\ Fail(EEXIST)
      \/ /\ ~dead /\ ~there /\ roomy # {}
         /\ InsertIntoBlock(BestBlock(blocks, roomy), name, ino)
      \/ /\ ~dead /\ ~there /\ roomy = {}
         /\ InsertAppends(name, ino)

-----------------------------------------------------------------------------
(* Changed: only the last block is truncated away. *)
empty_countNone(p) == 0

(* The empty blocks right before block p. *)
empty_count(p) ==
  Max({n \in 0 .. p - 1 : \A q \in p - n .. p - 1 : Count(blocks[q]) = 0})

(* dir_remove: the only entry of the last block is not written back, but   *)
(* truncated away with the empty blocks before it.                         *)
RemoveEntry(m, name) ==
  LET p == m[1]
      i == m[2]
      b == blocks[p]
      last == i = 0 /\ b.numbers[1] = INO_EOF /\ p = Len(blocks)
  IN  Return(IF last
             THEN SubSeq(blocks, 1, p - 1 - empty_count(p))
             ELSE [blocks EXCEPT ![p] = Cut(b, i, nameoff(b, i), Len(name))],
             dead, b.numbers[i])

dir_remove(name) ==
  LET ms == Matches(blocks, name)
  IN  \/ dead /\ Fail(ENOENT)
      \/ ~dead /\ name = dot /\ Fail(EINVAL)
      \/ ~dead /\ name = dotdot /\ Fail(ENOTEMPTY)
      \/ ~dead /\ name \notin {dot, dotdot} /\ ms = {} /\ Fail(ENOENT)
      \/ /\ ~dead /\ name \notin {dot, dotdot} /\ ms # {}
         /\ RemoveEntry(First(ms), name)

(* Changed: takes one block for a proof that the directory is empty. *)
dir_destroyBySize ==
  IF dead THEN Fail(ENOENT)
  ELSE IF Len(blocks) > 1 THEN Fail(ENOTEMPTY)
  ELSE Return(blocks, TRUE, 0)

dir_destroy ==
  IF dead THEN Fail(ENOENT)
  ELSE IF Len(blocks) > 1 THEN Fail(ENOTEMPTY)
  ELSE IF blocks[1].numbers[2] # INO_EOF THEN Fail(ENOTEMPTY)
  ELSE Return(blocks, TRUE, 0)

dir_reparent(ino) ==
  IF dead THEN Fail(ENOENT)
  ELSE Return([blocks EXCEPT ![1].numbers[0] = ino], dead, 0)

(* dir_create: the one block it writes. *)
FirstBlock == Put(Put(EmptyBlock, 0, 0, dotdot, root), 1, 3, dot, self)

Init ==
  /\ blocks = <<FirstBlock>>
  /\ dead = FALSE
  /\ ret = 0
  /\ entries = Entries(blocks)

Next ==
  \/ \E name \in Names :
       \/ dir_lookup(name)
       \/ dir_remove(name)
       \/ \E ino \in Inodes : dir_insert(name, ino)
  \/ dir_destroy
  \/ \E ino \in Inodes : dir_reparent(ino)

Spec == Init /\ [][Next]_dirVars

-----------------------------------------------------------------------------
(* Every variable holds a value of the type the code gives it. *)
TypeOK ==
  /\ blocks \in Seq(Block) /\ blocks # <<>>
  /\ dead \in BOOLEAN
  /\ \A e \in entries : e.name \in Names /\ e.ino \in Inodes

(* "each block must be compacted" (dir.c:26): the numbers are the first    *)
(* ones of the array, and behind the last name the table is all zeros.     *)
(* Insertions rely on it: they write no zero after the name.               *)
Compacted ==
  \A p \in DOMAIN blocks :
    LET b == blocks[p]
        used == Count(b)
        free == FreeOff(b)
    IN  /\ \A i \in Slots : i >= used => b.numbers[i] = INO_EOF
        /\ \A k \in Table : k >= free => b.names[k] = 0
        /\ free <= NS

(* "this requires that our compaction works correctly, which it should,    *)
(* but how to test?" (dir.c:78): dir_destroy takes a second block for a    *)
(* proof that the directory is not empty.  Blocks in the middle may be     *)
(* empty, the last one never is.                                           *)
LastBlockInUse == Count(blocks[Len(blocks)]) > 0

(* Nobody is in the directory twice. *)
NamesUnique == \A name \in Names : Cardinality(Matches(blocks, name)) <= 1

(* The blocks implement the map. *)
Map == INSTANCE Directory

ImplementsDirectory == Map!Spec

=============================================================================
