------------------------------ MODULE DirProofs ------------------------------
(***************************************************************************)
(* Proofs about the blocks of a directory (Dir), for every set of names    *)
(* that are sequences of nonzero bytes, every number of entries and bytes  *)
(* of names in a block, and every number of blocks; and about a listing    *)
(* that others interrupt (DirScan).                                        *)
(*                                                                         *)
(* The first part is about one block: the numbers and the table of names   *)
(* agree on what it holds (Laid), which is what the loops of the code read *)
(* (ReadBlock), and writing, cutting out and renumbering an entry change   *)
(* exactly that entry.  The second is about the file of blocks: no name    *)
(* is there twice, and each operation changes the entries as the abstract  *)
(* directory says.  The third is about the offset of a listing.            *)
(***************************************************************************)
EXTENDS DirScan, ListLemmas, FiniteSetTheorems, WellFoundedInduction, TLAPS

(* A set of numbers has a least one. *)
LEMMA Least ==
  ASSUME NEW S \in SUBSET Nat, S # {}
  PROVE  \E n \in S : \A m \in S : n <= m
<1>1. \E n \in S : \A m \in S : ~(<<m, n>> \in OpToRel(<, Nat))
  BY WFMin, NatLessThanWellFounded
<1>2. PICK n \in S : \A m \in S : ~(<<m, n>> \in OpToRel(<, Nat))
  BY <1>1
<1>3. \A m \in S : ~(m < n)
  BY <1>2 DEF OpToRel
<1> QED BY <1>3

(* What the assumption says, as the proofs use it. *)
LEMMA Constants ==
  /\ E \in Nat /\ NS \in Nat /\ E >= 3 /\ NS >= 6
  /\ INO_EOF \notin Inodes
  /\ \A name \in Names :
       /\ Len(name) \in 1 .. NS - 1 /\ Len(name) \in Nat
       /\ name = [k \in 1 .. Len(name) |-> name[k]]
       /\ \A k \in 1 .. Len(name) : name[k] # 0 /\ name[k] \in Bytes
  /\ 0 \in Bytes
<1>1. /\ E \in Nat /\ NS \in Nat /\ E >= 3 /\ NS >= 6
      /\ INO_EOF \notin Inodes
      /\ \A name \in Names : name \in Seq(Nat \ {0}) /\ Len(name) \in 1 .. NS - 1
  BY DirAssumption
<1>2. ASSUME NEW name \in Names
      PROVE  /\ Len(name) \in Nat
             /\ name = [k \in 1 .. Len(name) |-> name[k]]
             /\ \A k \in 1 .. Len(name) : name[k] # 0 /\ name[k] \in Bytes
  <2>1. /\ name \in Seq(Nat \ {0}) /\ Len(name) \in 1 .. NS - 1
    BY <1>1
  <2>2. DOMAIN name = 1 .. Len(name) /\ name \in [1 .. Len(name) -> Nat \ {0}]
    BY <2>1
  <2>3. ASSUME NEW k \in 1 .. Len(name) PROVE name[k] \in Bytes
    <3>1. name[k] \in ToSet(name)
      BY <2>2 DEF ToSet
    <3> QED BY <3>1 DEF Bytes
  <2> QED BY <2>1, <2>2, <2>3, <1>1
<1>3. 0 \in Bytes
  BY DEF Bytes
<1> QED BY <1>1, <1>2, <1>3

-----------------------------------------------------------------------------
(* The first n numbers of a block are in use; the names w stand one after  *)
(* the other at off[0], ..., each before a zero; the rest is free, and all *)
(* zeros.                                                                  *)
Laid(b, n, w, off) ==
  /\ n \in 0 .. E
  /\ w \in [0 .. n - 1 -> Names]
  /\ off \in [0 .. n -> 0 .. NS] /\ off[0] = 0
  /\ \A i \in 0 .. n - 1 :
       /\ off[i + 1] = off[i] + Len(w[i]) + 1
       /\ \A k \in 0 .. Len(w[i]) - 1 : b.names[off[i] + k] = w[i][k + 1]
       /\ b.names[off[i] + Len(w[i])] = 0
       /\ b.numbers[i] \in Inodes
  /\ \A i \in n .. E - 1 : b.numbers[i] = INO_EOF
  /\ \A k \in off[n] .. NS - 1 : b.names[k] = 0

(* strlen stops at the first zero, or at the end of the table. *)
LEMMA StrlenIs ==
  ASSUME NEW b, NEW off \in 0 .. NS, NEW k \in 0 .. NS - off,
         k = NS - off \/ b.names[off + k] = 0,
         \A j \in 0 .. k - 1 : b.names[off + j] # 0
  PROVE  strlen(b, off) = k
<1> DEFINE P(l) == /\ l = NS - off \/ b.names[off + l] = 0
                   /\ \A j \in 0 .. l - 1 : b.names[off + j] # 0
<1>1. P(k)
  OBVIOUS
<1>2. ASSUME NEW l \in 0 .. NS - off, P(l) PROVE l = k
  <2>1. CASE l < k
    BY <2>1, <1>2, Constants
  <2>2. CASE k < l
    BY <2>2, <1>2, Constants
  <2> QED BY <2>1, <2>2, Constants
<1> HIDE DEF P
<1>3. (CHOOSE l \in 0 .. NS - off : P(l)) = k
  BY <1>1, <1>2
<1> QED BY <1>3 DEF strlen, P

(* The loops over a block stop after the numbers in use. *)
LEMMA CountIs ==
  ASSUME NEW b, NEW n \in 0 .. E,
         \A i \in 0 .. n - 1 : b.numbers[i] # INO_EOF,
         n = E \/ b.numbers[n] = INO_EOF
  PROVE  Count(b) = n
<1> DEFINE P(l) == /\ l = E \/ b.numbers[l] = INO_EOF
                   /\ \A j \in 0 .. l - 1 : b.numbers[j] # INO_EOF
<1>1. P(n)
  OBVIOUS
<1>2. ASSUME NEW l \in 0 .. E, P(l) PROVE l = n
  <2>1. CASE l < n
    BY <2>1, <1>2, Constants
  <2>2. CASE n < l
    BY <2>2, <1>2, Constants
  <2> QED BY <2>1, <2>2, Constants
<1> HIDE DEF P
<1>3. (CHOOSE l \in 0 .. E : P(l)) = n
  BY <1>1, <1>2
<1> QED BY <1>3 DEF Count, P

(* The recursion of nameoff goes through given offsets, if they are those  *)
(* of names one after the other.                                           *)
LEMMA NameoffIs ==
  ASSUME NEW b, NEW i \in Nat, NEW off, \A n \in 0 .. i : off[n] \in Int,
         off[0] = 0,
         \A n \in 1 .. i : off[n] = off[n - 1] + strlen(b, off[n - 1]) + 1
  PROVE  nameoff(b, i) = off[i]
<1> DEFINE Step(f, n) == f[n - 1] + strlen(b, f[n - 1]) + 1
           Eq(f) == f = [n \in 0 .. i |-> IF n = 0 THEN 0 ELSE Step(f, n)]
           g == CHOOSE f : Eq(f)
           h == [n \in 0 .. i |-> off[n]]
<1>1. Eq(h)
  <2>1. \A n \in 1 .. i : h[n] = Step(h, n)
    OBVIOUS
  <2>2. h[0] = 0
    OBVIOUS
  <2>3. \A n \in 0 .. i : h[n] = IF n = 0 THEN 0 ELSE Step(h, n)
    BY <2>1, <2>2
  <2> HIDE DEF Step
  <2> QED BY <2>3
<1>2. Eq(g)
  BY <1>1
<1> HIDE DEF g
<1>3. g[0] = 0 /\ \A n \in 1 .. i : g[n] = Step(g, n)
  <2> HIDE DEF Step
  <2>1. \A n \in 0 .. i : g[n] = IF n = 0 THEN 0 ELSE Step(g, n)
    BY <1>2
  <2> QED BY <2>1
<1>4. \A n \in 0 .. i : g[n] = off[n]
  <2> DEFINE S == {n \in 0 .. i : g[n] # off[n]}
  <2> SUFFICES ASSUME S # {} PROVE FALSE
    OBVIOUS
  <2>1. PICK n \in S : \A m \in S : n <= m
    <3>1. S \in SUBSET Nat
      OBVIOUS
    <3> QED BY <3>1, Least
  <2>2. n \in 1 .. i /\ n - 1 \in 0 .. i /\ n - 1 \notin S
    BY <2>1, <1>3
  <2>3. g[n - 1] = off[n - 1]
    BY <2>2
  <2> QED BY <2>1, <2>2, <2>3, <1>3
<1>5. nameoff(b, i) = g[i]
  BY DEF nameoff, g
<1> QED BY <1>4, <1>5

(* The facts of a laid out block, one by one. *)
LEMMA LaidIs ==
  ASSUME NEW b, NEW n, NEW w, NEW off, Laid(b, n, w, off)
  PROVE  /\ n \in 0 .. E /\ n \in Nat
         /\ \A i \in 0 .. n : off[i] \in 0 .. NS /\ off[i] \in Nat
         /\ off[0] = 0
         /\ \A i \in 0 .. n - 1 :
              /\ w[i] \in Names /\ Len(w[i]) \in Nat /\ Len(w[i]) >= 1
              /\ off[i + 1] = off[i] + Len(w[i]) + 1
<1>1. n \in 0 .. E /\ n \in Nat
  BY Constants DEF Laid
<1>2. off[0] = 0 /\ \A i \in 0 .. n : off[i] \in 0 .. NS /\ off[i] \in Nat
  BY <1>1, Constants DEF Laid
<1>3. \A i \in 0 .. n - 1 : w[i] \in Names /\ off[i + 1] = off[i] + Len(w[i]) + 1
  BY <1>1 DEF Laid
<1> QED BY <1>1, <1>2, <1>3, Constants

(* Each name ends before the next one begins, and all the later ones. *)
LEMMA Rising ==
  ASSUME NEW b, NEW n, NEW w, NEW off, Laid(b, n, w, off),
         NEW i \in 0 .. n - 1, NEW j \in i + 1 .. n
  PROVE  off[i] + Len(w[i]) + 1 <= off[j]
<1> DEFINE S == {k \in i + 1 .. n : ~(off[i + 1] <= off[k])}
<1>1. /\ n \in Nat /\ off[i + 1] = off[i] + Len(w[i]) + 1
      /\ \A k \in 0 .. n : off[k] \in Nat
      /\ \A k \in 0 .. n - 1 : off[k] <= off[k + 1]
  <2>1. \A k \in 0 .. n - 1 : off[k] \in Nat /\ Len(w[k]) \in Nat
    BY LaidIs
  <2> QED BY <2>1, LaidIs
<1>2. S = {}
  <2> SUFFICES ASSUME S # {} PROVE FALSE
    OBVIOUS
  <2>1. S \in SUBSET Nat
    BY <1>1
  <2>2. PICK k \in S : \A m \in S : k <= m
    BY <2>1, Least
  <2>3. k \in i + 2 .. n /\ k - 1 \in i + 1 .. n /\ k - 1 \notin S
    BY <2>2, <1>1
  <2>4. off[i + 1] <= off[k - 1] /\ off[k - 1] <= off[(k - 1) + 1]
    BY <2>3, <1>1
  <2>5. (k - 1) + 1 = k /\ k \in 0 .. n /\ k - 1 \in 0 .. n /\ i + 1 \in 0 .. n
    BY <2>3, <1>1
  <2> QED BY <2>2, <2>4, <2>5, <1>1
<1> QED BY <1>1, <1>2

(* What the code reads in a laid out block. *)
LEMMA ReadBlock ==
  ASSUME NEW b, NEW n, NEW w, NEW off, Laid(b, n, w, off)
  PROVE  /\ Count(b) = n
         /\ \A i \in 0 .. n : nameoff(b, i) = off[i]
         /\ \A i \in 0 .. n - 1 : NameAt(b, i) = w[i]
<1>1. Count(b) = n
  <2>1. /\ n \in 0 .. E /\ n \in Nat /\ E \in Nat
        /\ \A i \in 0 .. n - 1 : b.numbers[i] # INO_EOF
        /\ \A i \in n .. E - 1 : b.numbers[i] = INO_EOF
    BY Constants, LaidIs DEF Laid
  <2>2. n = E \/ b.numbers[n] = INO_EOF
    BY <2>1
  <2> QED BY <2>1, <2>2, CountIs
<1>2. ASSUME NEW i \in 0 .. n - 1 PROVE strlen(b, off[i]) = Len(w[i])
  <2> DEFINE o == off[i]
             l == Len(w[i])
  <2>1. /\ o \in 0 .. NS /\ l \in Nat /\ off[i + 1] = o + l + 1 /\ off[i + 1] \in 0 .. NS
        /\ w[i] \in Names
    BY LaidIs
  <2>2. b.names[o + l] = 0 /\ \A k \in 0 .. l - 1 : b.names[o + k] = w[i][k + 1]
    BY DEF Laid
  <2>3. \A k \in 0 .. l - 1 : w[i][k + 1] # 0
    <3>1. \A k \in 1 .. Len(w[i]) : w[i][k] # 0
      BY <2>1, Constants
    <3>2. \A k \in 0 .. l - 1 : k + 1 \in 1 .. Len(w[i])
      BY <2>1
    <3> QED BY <3>1, <3>2
  <2>4. l \in 0 .. NS - o
    BY <2>1, Constants
  <2> HIDE DEF o, l
  <2>5. strlen(b, o) = l
    BY <2>1, <2>2, <2>3, <2>4, StrlenIs
  <2> QED BY <2>5 DEF o, l
<1>3. ASSUME NEW i \in 0 .. n PROVE nameoff(b, i) = off[i]
  <2>1. i \in Nat /\ n \in Nat /\ off[0] = 0 /\ \A k \in 0 .. i : off[k] \in Int
    BY LaidIs
  <2>2. ASSUME NEW k \in 1 .. i
        PROVE  off[k] = off[k - 1] + strlen(b, off[k - 1]) + 1
    <3>1. k - 1 \in 0 .. n - 1 /\ (k - 1) + 1 = k
      BY <2>1
    <3>2. strlen(b, off[k - 1]) = Len(w[k - 1])
      BY <3>1, <1>2
    <3>3. off[(k - 1) + 1] = off[k - 1] + Len(w[k - 1]) + 1
      BY <3>1, LaidIs
    <3> QED BY <3>1, <3>2, <3>3
  <2> QED BY <2>1, <2>2, NameoffIs
<1>4. ASSUME NEW i \in 0 .. n - 1 PROVE NameAt(b, i) = w[i]
  <2>1. nameoff(b, i) = off[i] /\ strlen(b, off[i]) = Len(w[i])
    BY <1>2, <1>3, LaidIs
  <2>2. /\ w[i] \in Names /\ off[i] \in Nat /\ Len(w[i]) \in Nat
        /\ \A k \in 0 .. Len(w[i]) - 1 : b.names[off[i] + k] = w[i][k + 1]
    BY LaidIs DEF Laid
  <2>3. \A k \in 1 .. Len(w[i]) : b.names[off[i] + k - 1] = w[i][k]
    <3> TAKE k \in 1 .. Len(w[i])
    <3>1. k - 1 \in 0 .. Len(w[i]) - 1 /\ (k - 1) + 1 = k /\ off[i] + (k - 1) = off[i] + k - 1
      BY <2>2
    <3>2. b.names[off[i] + (k - 1)] = w[i][(k - 1) + 1]
      BY <3>1, <2>2
    <3> QED BY <3>1, <3>2
  <2>4. w[i] = [k \in 1 .. Len(w[i]) |-> w[i][k]]
    BY <2>2, Constants
  <2>5. NameAt(b, i) = [k \in 1 .. Len(w[i]) |-> b.names[off[i] + k - 1]]
    BY <2>1 DEF NameAt
  <2> QED BY <2>3, <2>4, <2>5
<1> QED BY <1>1, <1>3, <1>4

(* A block without a name. *)
LEMMA EmptyLaid ==
  /\ EmptyBlock \in Block
  /\ \E w, off : Laid(EmptyBlock, 0, w, off) /\ off[0] = 0
<1> DEFINE w == [i \in 0 .. -1 |-> dot]
           off == [i \in 0 .. 0 |-> 0]
<1>1. EmptyBlock \in Block
  BY Constants DEF EmptyBlock, Block, Table, Slots
<1>2. Laid(EmptyBlock, 0, w, off)
  <2>1. w \in [0 .. 0 - 1 -> Names]
    OBVIOUS
  <2>2. off \in [0 .. 0 -> 0 .. NS] /\ off[0] = 0 /\ 0 \in 0 .. E
    BY Constants
  <2>3. /\ \A i \in 0 .. E - 1 : EmptyBlock.numbers[i] = INO_EOF
        /\ \A k \in 0 .. NS - 1 : EmptyBlock.names[k] = 0
    BY DEF EmptyBlock, Slots, Table
  <2> HIDE DEF w, off
  <2> QED BY <2>1, <2>2, <2>3 DEF Laid
<1>3. off[0] = 0
  OBVIOUS
<1> QED BY <1>1, <1>2, <1>3

(* A name and a number behind those that are there. *)
WithName(w, n, name) == [i \in 0 .. n |-> IF i = n THEN name ELSE w[i]]
WithOffset(off, n, name) ==
  [i \in 0 .. n + 1 |-> IF i = n + 1 THEN off[n] + Len(name) + 1 ELSE off[i]]

LEMMA PutLaid ==
  ASSUME NEW b \in Block, NEW n, NEW w, NEW off, Laid(b, n, w, off),
         NEW name \in Names, NEW ino \in Inodes, n < E, NS - off[n] > Len(name)
  PROVE  LET b2 == Put(b, n, off[n], name, ino)
         IN  /\ b2 \in Block
             /\ Laid(b2, n + 1, WithName(w, n, name), WithOffset(off, n, name))
             /\ \A i \in 0 .. n - 1 : b2.numbers[i] = b.numbers[i]
             /\ b2.numbers[n] = ino
<1> DEFINE b2 == Put(b, n, off[n], name, ino)
           w2 == WithName(w, n, name)
           off2 == WithOffset(off, n, name)
           o == off[n]
           l == Len(name)
<1>1. /\ n \in 0 .. E - 1 /\ n \in Nat /\ o \in 0 .. NS /\ l \in Nat /\ l >= 1 /\ o + l + 1 \in 0 .. NS
      /\ E \in Nat /\ NS \in Nat
      /\ \A k \in 1 .. l : name[k] \in Bytes
  BY Constants, LaidIs
<1>2. /\ b.numbers \in [Slots -> Inodes \cup {INO_EOF}] /\ b.names \in [Table -> Bytes]
  BY DEF Block
<1>3. /\ b2.numbers = [b.numbers EXCEPT ![n] = ino]
      /\ b2.names = [k \in Table |-> IF k - o \in 0 .. l - 1
                                     THEN name[k - o + 1] ELSE b.names[k]]
      /\ b2 = [numbers |-> b2.numbers, names |-> b2.names]
  BY DEF Put
<1> HIDE DEF o, l, b2
<1>4. /\ b2.numbers \in [Slots -> Inodes \cup {INO_EOF}]
      /\ b2.numbers[n] = ino
      /\ \A i \in Slots : i # n => b2.numbers[i] = b.numbers[i]
  BY <1>1, <1>2, <1>3 DEF Slots
<1>5. /\ \A k \in 0 .. l - 1 : b2.names[o + k] = name[k + 1]
      /\ \A k \in Table : k < o \/ k >= o + l => b2.names[k] = b.names[k]
  <2>1. ASSUME NEW k \in 0 .. l - 1 PROVE b2.names[o + k] = name[k + 1]
    <3>1. o + k \in Table /\ (o + k) - o = k
      BY <1>1 DEF Table
    <3> QED BY <3>1, <1>3
  <2>2. ASSUME NEW k \in Table, k < o \/ k >= o + l PROVE b2.names[k] = b.names[k]
    <3>1. ~(k - o \in 0 .. l - 1)
      BY <2>2, <1>1 DEF Table
    <3> QED BY <3>1, <1>3
  <2> QED BY <2>1, <2>2
<1>6. b2.names \in [Table -> Bytes]
  <2>1. ASSUME NEW k \in Table
        PROVE  (IF k - o \in 0 .. l - 1 THEN name[k - o + 1] ELSE b.names[k]) \in Bytes
    <3>1. CASE k - o \in 0 .. l - 1
      <4>1. k - o + 1 \in 1 .. l
        BY <3>1, <1>1 DEF Table
      <4> QED BY <4>1, <3>1, <1>1
    <3>2. CASE ~(k - o \in 0 .. l - 1)
      BY <3>2, <1>2
    <3> QED BY <3>1, <3>2
  <2> QED BY <2>1, <1>3
<1>7. b2 \in Block
  BY <1>3, <1>4, <1>6 DEF Block
<1>8. /\ w2 \in [0 .. (n + 1) - 1 -> Names]
      /\ w2[n] = name /\ \A i \in 0 .. n - 1 : w2[i] = w[i]
  BY <1>1, LaidIs DEF WithName
<1>9. /\ off2 \in [0 .. n + 1 -> 0 .. NS]
      /\ off2[n + 1] = o + l + 1 /\ \A i \in 0 .. n : off2[i] = off[i]
  BY <1>1, LaidIs DEF WithOffset, o, l
<1> HIDE DEF w2, off2
<1>10. ASSUME NEW i \in 0 .. n - 1
       PROVE  /\ off2[i + 1] = off2[i] + Len(w2[i]) + 1
              /\ \A k \in 0 .. Len(w2[i]) - 1 : b2.names[off2[i] + k] = w2[i][k + 1]
              /\ b2.names[off2[i] + Len(w2[i])] = 0
              /\ b2.numbers[i] \in Inodes
  <2>1. /\ w2[i] = w[i] /\ off2[i] = off[i] /\ off2[i + 1] = off[i + 1]
    BY <1>1, <1>8, <1>9
  <2>2. /\ off[i + 1] = off[i] + Len(w[i]) + 1
        /\ \A k \in 0 .. Len(w[i]) - 1 : b.names[off[i] + k] = w[i][k + 1]
        /\ b.names[off[i] + Len(w[i])] = 0
        /\ b.numbers[i] \in Inodes
    BY DEF Laid
  <2>3. off[i] + Len(w[i]) + 1 <= o /\ off[i] \in Nat /\ Len(w[i]) \in Nat
    BY <1>1, Rising, LaidIs DEF o
  <2>4. \A k \in 0 .. Len(w[i]) : off[i] + k \in Table /\ off[i] + k < o
    BY <2>3, <1>1 DEF Table
  <2>5. \A k \in 0 .. Len(w[i]) : b2.names[off[i] + k] = b.names[off[i] + k]
    BY <2>4, <1>5
  <2>6. i \in Slots /\ i # n
    BY <1>1 DEF Slots
  <2>7. b2.names[off[i] + Len(w[i])] = 0
    BY <2>2, <2>3, <2>5
  <2>8. \A k \in 0 .. Len(w[i]) - 1 : b2.names[off[i] + k] = w[i][k + 1]
    BY <2>2, <2>3, <2>5
  <2> QED BY <2>1, <2>2, <2>6, <2>7, <2>8, <1>4
<1>11. /\ off2[n + 1] = off2[n] + Len(w2[n]) + 1
       /\ \A k \in 0 .. Len(w2[n]) - 1 : b2.names[off2[n] + k] = w2[n][k + 1]
       /\ b2.names[off2[n] + Len(w2[n])] = 0
       /\ b2.numbers[n] \in Inodes
  <2>1. w2[n] = name /\ off2[n] = o /\ off2[n + 1] = o + l + 1
    BY <1>1, <1>8, <1>9 DEF o
  <2>2. o + l \in Table /\ o + l \in o .. NS - 1
    BY <1>1 DEF Table
  <2>3. b.names[o + l] = 0
    BY <2>2 DEF Laid, o
  <2>4. b2.names[o + l] = 0
    BY <2>2, <2>3, <1>1, <1>5
  <2> QED BY <2>1, <2>4, <1>4, <1>5 DEF l
<1>12. \A i \in n + 1 .. E - 1 : b2.numbers[i] = INO_EOF
  <2>1. \A i \in n .. E - 1 : b.numbers[i] = INO_EOF
    BY DEF Laid
  <2>2. \A i \in n + 1 .. E - 1 : i \in n .. E - 1 /\ i \in Slots /\ i # n
    BY <1>1 DEF Slots
  <2> QED BY <2>1, <2>2, <1>4
<1>13. \A k \in off2[n + 1] .. NS - 1 : b2.names[k] = 0
  <2>1. \A k \in o .. NS - 1 : b.names[k] = 0
    BY DEF Laid, o
  <2>2. \A k \in o + l + 1 .. NS - 1 : k \in Table /\ k \in o .. NS - 1 /\ k >= o + l
    BY <1>1 DEF Table
  <2> QED BY <2>1, <2>2, <1>5, <1>9
<1>14. off2[0] = 0
  <2>1. 0 \in 0 .. n /\ off[0] = 0
    BY <1>1, LaidIs
  <2> QED BY <2>1, <1>9
<1>15. Laid(b2, n + 1, w2, off2)
  <2>1. n + 1 \in 0 .. E /\ \A i \in 0 .. (n + 1) - 1 : i = n \/ i \in 0 .. n - 1
    BY <1>1
  <2>2. \A i \in 0 .. (n + 1) - 1 :
          /\ off2[i + 1] = off2[i] + Len(w2[i]) + 1
          /\ \A k \in 0 .. Len(w2[i]) - 1 : b2.names[off2[i] + k] = w2[i][k + 1]
          /\ b2.names[off2[i] + Len(w2[i])] = 0
          /\ b2.numbers[i] \in Inodes
    BY <2>1, <1>10, <1>11
  <2> QED BY <2>1, <2>2, <1>8, <1>9, <1>12, <1>13, <1>14 DEF Laid
<1>16. \A i \in 0 .. n - 1 : b2.numbers[i] = b.numbers[i]
  BY <1>1, <1>4 DEF Slots
<1> QED BY <1>4, <1>7, <1>15, <1>16 DEF b2, w2, off2, o

(* The names and the offsets without the ith. *)
WithoutName(w, n, i) == [j \in 0 .. n - 2 |-> IF j < i THEN w[j] ELSE w[j + 1]]
WithoutOffset(off, n, i) ==
  [j \in 0 .. n - 1 |-> IF j <= i THEN off[j] ELSE off[j + 1] - (off[i + 1] - off[i])]

LEMMA CutLaid ==
  ASSUME NEW b \in Block, NEW n, NEW w, NEW off, Laid(b, n, w, off),
         NEW i \in 0 .. n - 1
  PROVE  LET b2 == Cut(b, i, off[i], Len(w[i]))
         IN  /\ b2 \in Block
             /\ Laid(b2, n - 1, WithoutName(w, n, i), WithoutOffset(off, n, i))
             /\ \A j \in 0 .. n - 2 :
                  b2.numbers[j] = IF j < i THEN b.numbers[j] ELSE b.numbers[j + 1]
<1> DEFINE b2 == Cut(b, i, off[i], Len(w[i]))
           w2 == WithoutName(w, n, i)
           off2 == WithoutOffset(off, n, i)
           o == off[i]
           l == Len(w[i])
<1>1. /\ n \in 1 .. E /\ n \in Nat /\ o \in 0 .. NS /\ l \in Nat /\ l >= 1
      /\ off[i + 1] = o + l + 1 /\ off[i + 1] \in 0 .. NS
      /\ E \in Nat /\ NS \in Nat
  BY Constants, LaidIs
<1>2. /\ b.numbers \in [Slots -> Inodes \cup {INO_EOF}] /\ b.names \in [Table -> Bytes]
  BY DEF Block
<1>3. /\ b2.numbers = [j \in Slots |-> IF j < i THEN b.numbers[j]
                                       ELSE IF j < E - 1 THEN b.numbers[j + 1]
                                       ELSE INO_EOF]
      /\ b2.names = [k \in Table |-> IF k < o THEN b.names[k]
                                     ELSE IF k < NS - l - 1 THEN b.names[k + l + 1]
                                     ELSE 0]
      /\ b2 = [numbers |-> b2.numbers, names |-> b2.names]
  BY DEF Cut
<1> HIDE DEF o, l, b2
<1>4. /\ b2.numbers \in [Slots -> Inodes \cup {INO_EOF}]
      /\ \A j \in Slots : j < i => b2.numbers[j] = b.numbers[j]
      /\ \A j \in Slots : j >= i /\ j < E - 1 => b2.numbers[j] = b.numbers[j + 1]
      /\ \A j \in Slots : j >= i /\ j = E - 1 => b2.numbers[j] = INO_EOF
  <2>1. \A j \in Slots : j < E - 1 => j + 1 \in Slots
    BY <1>1 DEF Slots
  <2>2. \A j \in Slots : (IF j < i THEN b.numbers[j]
                          ELSE IF j < E - 1 THEN b.numbers[j + 1]
                          ELSE INO_EOF) \in Inodes \cup {INO_EOF}
    BY <1>2, <2>1
  <2>3. \A j \in Slots : (j >= i => ~(j < i)) /\ (j = E - 1 => ~(j < E - 1))
    BY <1>1 DEF Slots
  <2> QED BY <2>2, <2>3, <1>3
<1>5. /\ \A k \in Table : k < o => b2.names[k] = b.names[k]
      /\ \A k \in Table : k >= o /\ k + l + 1 < NS => b2.names[k] = b.names[k + l + 1]
      /\ \A k \in Table : k >= o /\ k + l + 1 >= NS => b2.names[k] = 0
  <2>1. \A k \in Table : (k >= o => ~(k < o)) /\ (k + l + 1 < NS <=> k < NS - l - 1)
                         /\ (k + l + 1 >= NS => ~(k < NS - l - 1))
    BY <1>1 DEF Table
  <2> QED BY <2>1, <1>3
<1>6. b2.names \in [Table -> Bytes]
  <2>1. \A k \in Table : k + l + 1 < NS => k + l + 1 \in Table
    BY <1>1 DEF Table
  <2>2. \A k \in Table : b2.names[k] \in Bytes
    <3>1. \A k \in Table : k < o \/ (k >= o /\ k + l + 1 < NS) \/ (k >= o /\ k + l + 1 >= NS)
      BY <1>1 DEF Table
    <3> QED BY <3>1, <2>1, <1>2, <1>5, Constants
  <2> QED BY <2>2, <1>3
<1>7. b2 \in Block
  BY <1>3, <1>4, <1>6 DEF Block
<1>8. /\ w2 \in [0 .. (n - 1) - 1 -> Names]
      /\ \A j \in 0 .. n - 2 : j < i => w2[j] = w[j]
      /\ \A j \in 0 .. n - 2 : j >= i => w2[j] = w[j + 1]
  <2>1. \A j \in 0 .. n - 2 : (j >= i => ~(j < i)) /\ j \in 0 .. n - 1 /\ j + 1 \in 0 .. n - 1
    BY <1>1
  <2>2. \A j \in 0 .. n - 1 : w[j] \in Names
    BY LaidIs
  <2>3. (n - 1) - 1 = n - 2
    BY <1>1
  <2> QED BY <2>1, <2>2, <2>3 DEF WithoutName
<1>9. /\ \A j \in 0 .. n - 1 : j <= i => off2[j] = off[j]
      /\ \A j \in 0 .. n - 1 : j >= i => off2[j] = off[j + 1] - (l + 1)
      /\ off2 \in [0 .. n - 1 -> 0 .. NS]
  <2>1. \A j \in 0 .. n - 1 : j + 1 \in 0 .. n /\ j \in 0 .. n /\ (j <= i \/ j > i)
    BY <1>1
  <2>2. \A j \in 0 .. n : off[j] \in 0 .. NS
    BY LaidIs
  <2>3. off[i + 1] - off[i] = l + 1
    BY <1>1 DEF o
  <2>4. \A j \in 0 .. n - 1 :
          off2[j] = IF j <= i THEN off[j] ELSE off[j + 1] - (l + 1)
    BY <2>3 DEF WithoutOffset
  <2>5. ASSUME NEW j \in 0 .. n - 1, j >= i PROVE off2[j] = off[j + 1] - (l + 1)
    <3>1. CASE j = i
      BY <3>1, <2>4, <1>1 DEF o
    <3>2. CASE j # i
      BY <3>2, <2>4, <2>5
    <3> QED BY <3>1, <3>2
  <2>6. ASSUME NEW j \in 0 .. n - 1 PROVE off2[j] \in 0 .. NS
    <3>1. CASE j <= i
      BY <3>1, <2>1, <2>2, <2>4
    <3>2. CASE j > i
      <4>1. o + l + 1 <= off[j + 1]
        BY <3>2, <1>1, Rising DEF o, l
      <4>2. off[j + 1] \in 0 .. NS /\ off2[j] = off[j + 1] - (l + 1)
        BY <3>2, <2>1, <2>2, <2>5
      <4> QED BY <4>1, <4>2, <1>1
    <3> QED BY <3>1, <3>2, <2>1
  <2>7. DOMAIN off2 = 0 .. n - 1 /\ off2 = [j \in 0 .. n - 1 |-> off2[j]]
    BY DEF WithoutOffset
  <2> QED BY <2>4, <2>5, <2>6, <2>7
<1> HIDE DEF w2, off2
<1>10. ASSUME NEW j \in 0 .. n - 2, j < i
       PROVE  /\ off2[j + 1] = off2[j] + Len(w2[j]) + 1
              /\ \A k \in 0 .. Len(w2[j]) - 1 : b2.names[off2[j] + k] = w2[j][k + 1]
              /\ b2.names[off2[j] + Len(w2[j])] = 0
              /\ b2.numbers[j] \in Inodes
  <2>1. /\ w2[j] = w[j] /\ off2[j] = off[j] /\ off2[j + 1] = off[j + 1]
        /\ j \in 0 .. n - 1 /\ j \in Slots /\ i \in j + 1 .. n
    BY <1>1, <1>8, <1>9, <1>10 DEF Slots
  <2>2. /\ off[j + 1] = off[j] + Len(w[j]) + 1
        /\ \A k \in 0 .. Len(w[j]) - 1 : b.names[off[j] + k] = w[j][k + 1]
        /\ b.names[off[j] + Len(w[j])] = 0
        /\ b.numbers[j] \in Inodes
    BY <2>1 DEF Laid
  <2>3. off[j] + Len(w[j]) + 1 <= o /\ off[j] \in Nat /\ Len(w[j]) \in Nat
    <3>1. off[j] + Len(w[j]) + 1 <= off[i]
      BY <2>1, Rising
    <3>2. off[j] \in Nat /\ Len(w[j]) \in Nat
      BY <2>1, <1>1, LaidIs
    <3> QED BY <3>1, <3>2 DEF o
  <2>4. \A k \in 0 .. Len(w[j]) : off[j] + k \in Table /\ off[j] + k < o
    BY <2>3, <1>1 DEF Table
  <2>5. \A k \in 0 .. Len(w[j]) : b2.names[off[j] + k] = b.names[off[j] + k]
    BY <2>4, <1>5
  <2>6. Len(w[j]) \in 0 .. Len(w[j])
    BY <2>3
  <2>7. b2.names[off[j] + Len(w[j])] = 0
    BY <2>2, <2>5, <2>6
  <2>8. \A k \in 0 .. Len(w[j]) - 1 : b2.names[off[j] + k] = w[j][k + 1]
    BY <2>2, <2>3, <2>5
  <2> QED BY <2>1, <2>2, <2>7, <2>8, <1>4, <1>10
<1>11. ASSUME NEW j \in 0 .. n - 2, j >= i
       PROVE  /\ off2[j + 1] = off2[j] + Len(w2[j]) + 1
              /\ \A k \in 0 .. Len(w2[j]) - 1 : b2.names[off2[j] + k] = w2[j][k + 1]
              /\ b2.names[off2[j] + Len(w2[j])] = 0
              /\ b2.numbers[j] \in Inodes
  <2> DEFINE p == off[j + 1]
             q == off[(j + 1) + 1]
             v == w[j + 1]
             m == Len(v)
  <2>1. /\ w2[j] = v /\ off2[j] = p - (l + 1) /\ off2[j + 1] = q - (l + 1)
        /\ j + 1 \in 0 .. n - 1 /\ j + 1 \in i + 1 .. n
        /\ j \in Slots /\ j < E - 1
    <3>1. j + 1 \in 0 .. n - 1 /\ j \in 0 .. n - 1 /\ j + 1 >= i /\ j + 1 \in i + 1 .. n
          /\ j \in Slots /\ j < E - 1
      BY <1>1, <1>11 DEF Slots
    <3> QED BY <3>1, <1>8, <1>9, <1>11
  <2>2. /\ q = p + m + 1
        /\ \A k \in 0 .. m - 1 : b.names[p + k] = v[k + 1]
        /\ b.names[p + m] = 0
        /\ b.numbers[j + 1] \in Inodes
    BY <2>1 DEF Laid
  <2>3. /\ o + l + 1 <= p /\ p \in Nat /\ m \in Nat /\ q \in 0 .. NS
    <3>1. (j + 1) + 1 \in 0 .. n /\ j + 1 \in 0 .. n
      BY <2>1, <1>1
    <3> QED BY <3>1, <2>1, Rising, LaidIs DEF o, l
  <2> HIDE DEF p, q, v, m
  <2>4. \A k \in 0 .. m : /\ p - (l + 1) + k \in Table /\ p - (l + 1) + k >= o
                          /\ p - (l + 1) + k + l + 1 < NS
                          /\ p - (l + 1) + k + l + 1 = p + k
    BY <2>2, <2>3, <1>1 DEF Table
  <2>5. \A k \in 0 .. m : b2.names[p - (l + 1) + k] = b.names[p + k]
    BY <2>4, <1>5
  <2>6. q - (l + 1) = p - (l + 1) + m + 1
    BY <2>2, <2>3, <1>1
  <2>7. b2.names[p - (l + 1) + m] = 0
    BY <2>2, <2>3, <2>5
  <2>8. \A k \in 0 .. m - 1 : b2.names[p - (l + 1) + k] = v[k + 1]
    BY <2>2, <2>3, <2>5
  <2>9. b2.numbers[j] = b.numbers[j + 1]
    BY <2>1, <1>4, <1>11
  <2> QED BY <2>1, <2>2, <2>6, <2>7, <2>8, <2>9 DEF m
<1>12. \A j \in n - 1 .. E - 1 : b2.numbers[j] = INO_EOF
  <2>1. \A j \in n .. E - 1 : b.numbers[j] = INO_EOF
    BY DEF Laid
  <2>2. \A j \in n - 1 .. E - 1 :
          j \in Slots /\ j >= i /\ (j = E - 1 \/ (j < E - 1 /\ j + 1 \in n .. E - 1))
    BY <1>1 DEF Slots
  <2> QED BY <2>1, <2>2, <1>4
<1>13. \A k \in off2[n - 1] .. NS - 1 : b2.names[k] = 0
  <2> DEFINE z == off[n]
  <2>1. off2[n - 1] = z - (l + 1) /\ o + l + 1 <= z /\ z \in 0 .. NS
    <3>1. n - 1 \in 0 .. n - 1 /\ n - 1 >= i /\ (n - 1) + 1 = n /\ n \in i + 1 .. n /\ n \in 0 .. n
      BY <1>1
    <3> QED BY <3>1, <1>9, Rising, LaidIs DEF o, l
  <2>2. \A k \in z .. NS - 1 : b.names[k] = 0
    BY DEF Laid
  <2> HIDE DEF z
  <2>3. \A k \in z - (l + 1) .. NS - 1 :
          /\ k \in Table /\ k >= o
          /\ (k + l + 1 < NS /\ k + l + 1 \in z .. NS - 1) \/ k + l + 1 >= NS
    BY <2>1, <1>1 DEF Table
  <2> QED BY <2>1, <2>2, <2>3, <1>5
<1>14. off2[0] = 0
  <2>1. 0 \in 0 .. n - 1 /\ 0 <= i /\ off[0] = 0
    BY <1>1, LaidIs
  <2> QED BY <2>1, <1>9
<1>15. Laid(b2, n - 1, w2, off2)
  <2>1. /\ n - 1 \in 0 .. E /\ (n - 1) - 1 = n - 2
        /\ \A j \in 0 .. n - 2 : j < i \/ j >= i
    BY <1>1
  <2>2. \A j \in 0 .. (n - 1) - 1 :
          /\ off2[j + 1] = off2[j] + Len(w2[j]) + 1
          /\ \A k \in 0 .. Len(w2[j]) - 1 : b2.names[off2[j] + k] = w2[j][k + 1]
          /\ b2.names[off2[j] + Len(w2[j])] = 0
          /\ b2.numbers[j] \in Inodes
    BY <2>1, <1>10, <1>11
  <2> QED BY <2>1, <2>2, <1>8, <1>9, <1>12, <1>13, <1>14 DEF Laid
<1>16. ASSUME NEW j \in 0 .. n - 2
       PROVE  b2.numbers[j] = IF j < i THEN b.numbers[j] ELSE b.numbers[j + 1]
  <2>1. j \in Slots /\ j < E - 1 /\ (j < i \/ j >= i)
    BY <1>1 DEF Slots
  <2> QED BY <2>1, <1>4
<1> QED BY <1>7, <1>15, <1>16 DEF b2, w2, off2, o, l

-----------------------------------------------------------------------------
(* A block that is laid out as the code reads it. *)
NamesOf(b) == [i \in 0 .. Count(b) - 1 |-> NameAt(b, i)]
OffsetsOf(b) == [i \in 0 .. Count(b) |-> nameoff(b, i)]
Good(b) == Laid(b, Count(b), NamesOf(b), OffsetsOf(b))

LEMMA LaidGood ==
  ASSUME NEW b, NEW n, NEW w, NEW off, Laid(b, n, w, off)
  PROVE  /\ Good(b) /\ Count(b) = n /\ FreeOff(b) = off[n]
         /\ \A i \in 0 .. n - 1 : NameAt(b, i) = w[i]
<1>1. /\ Count(b) = n
      /\ \A i \in 0 .. n : nameoff(b, i) = off[i]
      /\ \A i \in 0 .. n - 1 : NameAt(b, i) = w[i]
  BY ReadBlock
<1>2. NamesOf(b) = w
  <2>1. w = [i \in 0 .. n - 1 |-> w[i]]
    BY DEF Laid
  <2>2. NamesOf(b) = [i \in 0 .. n - 1 |-> w[i]]
    BY <1>1 DEF NamesOf
  <2> QED BY <2>1, <2>2
<1>3. OffsetsOf(b) = off
  <2>1. off = [i \in 0 .. n |-> off[i]]
    BY DEF Laid
  <2>2. OffsetsOf(b) = [i \in 0 .. n |-> off[i]]
    BY <1>1 DEF OffsetsOf
  <2> QED BY <2>1, <2>2
<1>4. FreeOff(b) = off[n]
  <2>1. n \in 0 .. n
    BY LaidIs
  <2> QED BY <2>1, <1>1 DEF FreeOff
<1> QED BY <1>1, <1>2, <1>3, <1>4 DEF Good

(* The facts of a good block. *)
LEMMA GoodIs ==
  ASSUME NEW b, Good(b)
  PROVE  /\ Count(b) \in 0 .. E /\ Count(b) \in Nat
         /\ FreeOff(b) \in 0 .. NS /\ FreeOff(b) \in Nat
         /\ \A i \in 0 .. Count(b) - 1 : /\ NameAt(b, i) \in Names
                                         /\ b.numbers[i] \in Inodes
                                         /\ i \in Slots
         /\ \A i \in Count(b) .. E - 1 : b.numbers[i] = INO_EOF
         /\ \A k \in FreeOff(b) .. NS - 1 : b.names[k] = 0
<1> DEFINE n == Count(b)
           w == NamesOf(b)
           off == OffsetsOf(b)
<1>1. Laid(b, n, w, off)
  BY DEF Good
<1>2. FreeOff(b) = off[n] /\ \A i \in 0 .. n - 1 : NameAt(b, i) = w[i]
  BY <1>1, LaidGood
<1> HIDE DEF n, w, off
<1>3. n \in 0 .. E /\ n \in Nat /\ off[n] \in 0 .. NS /\ off[n] \in Nat
  <2>1. n \in 0 .. E /\ n \in Nat /\ \A i \in 0 .. n : off[i] \in 0 .. NS /\ off[i] \in Nat
    BY <1>1, LaidIs
  <2> QED BY <2>1
<1>4. \A i \in 0 .. n - 1 : w[i] \in Names /\ b.numbers[i] \in Inodes /\ i \in Slots
  <2>1. \A i \in 0 .. n - 1 : w[i] \in Names
    BY <1>1, LaidIs
  <2>2. \A i \in 0 .. n - 1 : b.numbers[i] \in Inodes
    BY <1>1 DEF Laid
  <2>3. \A i \in 0 .. n - 1 : i \in Slots
    BY <1>3, Constants DEF Slots
  <2> QED BY <2>1, <2>2, <2>3
<1>5. /\ \A i \in n .. E - 1 : b.numbers[i] = INO_EOF
      /\ \A k \in off[n] .. NS - 1 : b.names[k] = 0
  BY <1>1 DEF Laid
<1> QED BY <1>2, <1>3, <1>4, <1>5 DEF n

(* The empty block holds nothing. *)
LEMMA EmptyGood ==
  /\ EmptyBlock \in Block /\ Good(EmptyBlock)
  /\ Count(EmptyBlock) = 0 /\ FreeOff(EmptyBlock) = 0
<1>1. PICK w, off : Laid(EmptyBlock, 0, w, off) /\ off[0] = 0
  BY EmptyLaid
<1> QED BY <1>1, EmptyLaid, LaidGood

(* Put adds one name and its number at the end. *)
LEMMA PutGood ==
  ASSUME NEW b \in Block, Good(b), NEW name \in Names, NEW ino \in Inodes,
         Count(b) < E, NS - FreeOff(b) > Len(name)
  PROVE  LET b2 == Put(b, Count(b), FreeOff(b), name, ino)
         IN  /\ b2 \in Block /\ Good(b2)
             /\ Count(b2) = Count(b) + 1
             /\ FreeOff(b2) = FreeOff(b) + Len(name) + 1
             /\ \A i \in 0 .. Count(b) - 1 :
                  NameAt(b2, i) = NameAt(b, i) /\ b2.numbers[i] = b.numbers[i]
             /\ NameAt(b2, Count(b)) = name /\ b2.numbers[Count(b)] = ino
<1> DEFINE n == Count(b)
           w == NamesOf(b)
           off == OffsetsOf(b)
           b2 == Put(b, n, off[n], name, ino)
<1>1. Laid(b, n, w, off) /\ n \in Nat
  BY GoodIs DEF Good
<1>2. FreeOff(b) = off[n] /\ \A i \in 0 .. n - 1 : NameAt(b, i) = w[i]
  BY <1>1, LaidGood
<1> HIDE DEF w, off
<1>3. n < E /\ NS - off[n] > Len(name)
  BY <1>2
<1> HIDE DEF n
<1>4. /\ b2 \in Block
      /\ Laid(b2, n + 1, WithName(w, n, name), WithOffset(off, n, name))
      /\ \A i \in 0 .. n - 1 : b2.numbers[i] = b.numbers[i]
      /\ b2.numbers[n] = ino
  BY <1>1, <1>3, PutLaid
<1> HIDE DEF b2
<1>5. /\ Good(b2) /\ Count(b2) = n + 1
      /\ FreeOff(b2) = WithOffset(off, n, name)[n + 1]
      /\ \A i \in 0 .. (n + 1) - 1 : NameAt(b2, i) = WithName(w, n, name)[i]
  BY <1>4, LaidGood
<1>6. /\ WithOffset(off, n, name)[n + 1] = off[n] + Len(name) + 1
      /\ \A i \in 0 .. n - 1 : WithName(w, n, name)[i] = w[i]
      /\ WithName(w, n, name)[n] = name
  BY <1>1 DEF WithName, WithOffset
<1>7. \A i \in 0 .. n : i \in 0 .. (n + 1) - 1
  BY <1>1
<1>8. /\ \A i \in 0 .. n - 1 : NameAt(b2, i) = NameAt(b, i)
      /\ NameAt(b2, n) = name
  BY <1>1, <1>2, <1>5, <1>6, <1>7
<1> QED BY <1>2, <1>4, <1>5, <1>6, <1>8 DEF b2, n

(* Cut takes one name and its number out. *)
LEMMA CutGood ==
  ASSUME NEW b \in Block, Good(b), NEW i \in 0 .. Count(b) - 1
  PROVE  LET b2 == Cut(b, i, nameoff(b, i), Len(NameAt(b, i)))
         IN  /\ b2 \in Block /\ Good(b2)
             /\ Count(b2) = Count(b) - 1
             /\ \A j \in 0 .. Count(b) - 2 :
                  LET k == IF j < i THEN j ELSE j + 1
                  IN  NameAt(b2, j) = NameAt(b, k) /\ b2.numbers[j] = b.numbers[k]
<1> DEFINE n == Count(b)
           w == NamesOf(b)
           off == OffsetsOf(b)
           b2 == Cut(b, i, off[i], Len(w[i]))
<1>1. Laid(b, n, w, off) /\ n \in Nat
  BY GoodIs DEF Good
<1>2. nameoff(b, i) = off[i] /\ \A j \in 0 .. n - 1 : NameAt(b, j) = w[j]
  <2>1. i \in 0 .. n
    BY <1>1
  <2> QED BY <2>1, <1>1, ReadBlock
<1> HIDE DEF w, off, n
<1>3. i \in 0 .. n - 1
  BY DEF n
<1>4. /\ b2 \in Block
      /\ Laid(b2, n - 1, WithoutName(w, n, i), WithoutOffset(off, n, i))
      /\ \A j \in 0 .. n - 2 :
           b2.numbers[j] = IF j < i THEN b.numbers[j] ELSE b.numbers[j + 1]
  BY <1>1, <1>3, CutLaid
<1>5. b2 = Cut(b, i, nameoff(b, i), Len(NameAt(b, i)))
  BY <1>2, <1>3
<1> HIDE DEF b2
<1>6. /\ Good(b2) /\ Count(b2) = n - 1
      /\ \A j \in 0 .. (n - 1) - 1 : NameAt(b2, j) = WithoutName(w, n, i)[j]
  BY <1>4, LaidGood
<1>7. ASSUME NEW j \in 0 .. n - 2, NEW k, k = IF j < i THEN j ELSE j + 1
      PROVE  NameAt(b2, j) = NameAt(b, k) /\ b2.numbers[j] = b.numbers[k]
  <2>1. j \in 0 .. (n - 1) - 1 /\ k \in 0 .. n - 1
    BY <1>1, <1>7
  <2>2. WithoutName(w, n, i)[j] = w[k]
    BY <1>7 DEF WithoutName
  <2> QED BY <2>1, <2>2, <1>2, <1>4, <1>6, <1>7
<1> QED BY <1>4, <1>5, <1>6, <1>7 DEF n

(* A new number for an entry changes nothing else. *)
LEMMA RenumberGood ==
  ASSUME NEW b \in Block, Good(b), NEW i \in 0 .. Count(b) - 1, NEW ino \in Inodes
  PROVE  LET b2 == [b EXCEPT !.numbers[i] = ino]
         IN  /\ b2 \in Block /\ Good(b2) /\ Count(b2) = Count(b)
             /\ \A j \in 0 .. Count(b) - 1 :
                  /\ NameAt(b2, j) = NameAt(b, j)
                  /\ b2.numbers[j] = IF j = i THEN ino ELSE b.numbers[j]
<1> DEFINE n == Count(b)
           w == NamesOf(b)
           off == OffsetsOf(b)
           b2 == [b EXCEPT !.numbers[i] = ino]
<1>1. Laid(b, n, w, off) /\ n \in 0 .. E /\ n \in Nat /\ i \in Slots
  BY GoodIs DEF Good
<1>2. \A j \in 0 .. n - 1 : NameAt(b, j) = w[j]
  BY <1>1, LaidGood
<1> HIDE DEF w, off, n
<1>3. i \in 0 .. n - 1
  BY DEF n
<1>4. /\ b.numbers \in [Slots -> Inodes \cup {INO_EOF}] /\ b.names \in [Table -> Bytes]
  BY DEF Block
<1>5. /\ b2 \in Block /\ b2.names = b.names
      /\ b2.numbers = [b.numbers EXCEPT ![i] = ino]
  BY <1>1, <1>4 DEF Block
<1>6. \A j \in Slots : b2.numbers[j] = IF j = i THEN ino ELSE b.numbers[j]
  BY <1>4, <1>5
<1> HIDE DEF b2
<1>7. /\ \A j \in 0 .. n - 1 : j \in Slots
      /\ \A j \in n .. E - 1 : j \in Slots /\ j # i
  BY <1>1, <1>3, Constants DEF Slots
<1>8. Laid(b2, n, w, off)
  <2>1. /\ \A j \in 0 .. n - 1 : b2.numbers[j] \in Inodes
        /\ \A j \in n .. E - 1 : b2.numbers[j] = b.numbers[j]
    <3>1. \A j \in 0 .. n - 1 : b.numbers[j] \in Inodes
      BY <1>1 DEF Laid
    <3> QED BY <3>1, <1>6, <1>7
  <2> QED BY <2>1, <1>1, <1>5 DEF Laid
<1>9. Good(b2) /\ Count(b2) = n /\ \A j \in 0 .. n - 1 : NameAt(b2, j) = w[j]
  BY <1>8, LaidGood
<1> QED BY <1>2, <1>5, <1>6, <1>7, <1>9 DEF b2, n

-----------------------------------------------------------------------------
(* The entry at slot i of block p. *)
Used(bs, p, i) == p \in 1 .. Len(bs) /\ i \in 0 .. Count(bs[p]) - 1
Item(bs, p, i) == [name |-> NameAt(bs[p], i), ino |-> bs[p].numbers[i]]

(* No name is there twice. *)
Unique(bs) ==
  \A p, q, i, j :
    Used(bs, p, i) /\ Used(bs, q, j) /\ NameAt(bs[p], i) = NameAt(bs[q], j) =>
      p = q /\ i = j

(* What is kept of the blocks: dir_create's names stay where they are, and *)
(* the last block is not empty.                                            *)
Whole(bs) ==
  /\ bs \in Seq(Block) /\ bs # <<>>
  /\ \A p \in 1 .. Len(bs) : Good(bs[p])
  /\ Unique(bs)
  /\ Count(bs[1]) >= 2 /\ NameAt(bs[1], 0) = dotdot /\ NameAt(bs[1], 1) = dot
  /\ Count(bs[Len(bs)]) > 0

IInv ==
  /\ Whole(blocks)
  /\ dead \in BOOLEAN
  /\ entries = Entries(blocks)

(* The places the search goes through are those of the entries. *)
LEMMA PlacesAre ==
  ASSUME NEW bs \in Seq(Block)
  PROVE  /\ \A m : m \in InUse(bs) <=> \E p, i : Used(bs, p, i) /\ m = <<p, i>>
         /\ \A e : e \in Entries(bs) <=> \E p, i : Used(bs, p, i) /\ e = Item(bs, p, i)
<1>1. DOMAIN bs = 1 .. Len(bs)
  OBVIOUS
<1>2. \A m : m \in InUse(bs) <=> \E p, i : Used(bs, p, i) /\ m = <<p, i>>
  <2>1. \A m : m \in InUse(bs) <=>
                 \E p \in 1 .. Len(bs) : m \in {p} \X (0 .. Count(bs[p]) - 1)
    BY <1>1 DEF InUse
  <2> QED BY <2>1 DEF Used
<1>3. \A e : e \in Entries(bs) <=> \E m \in InUse(bs) : e = Item(bs, m[1], m[2])
  BY DEF Entries, Item
<1>4. \A p, i : <<p, i>>[1] = p /\ <<p, i>>[2] = i
  OBVIOUS
<1>5. ASSUME NEW e, e \in Entries(bs)
      PROVE  \E p, i : Used(bs, p, i) /\ e = Item(bs, p, i)
  <2>1. PICK m \in InUse(bs) : e = Item(bs, m[1], m[2])
    BY <1>3, <1>5
  <2>2. PICK p, i : Used(bs, p, i) /\ m = <<p, i>>
    BY <1>2
  <2> QED BY <2>1, <2>2, <1>4
<1>6. ASSUME NEW e, NEW p, NEW i, Used(bs, p, i), e = Item(bs, p, i)
      PROVE  e \in Entries(bs)
  BY <1>2, <1>3, <1>4, <1>6
<1> QED BY <1>2, <1>5, <1>6

(* A search finds the one place of a name, or nothing. *)
LEMMA Searched ==
  ASSUME NEW bs, Whole(bs), NEW name
  PROVE  /\ Matches(bs, name) = {} <=>
              \A p, i : Used(bs, p, i) => NameAt(bs[p], i) # name
         /\ Matches(bs, name) # {} =>
              \E p, i : /\ Used(bs, p, i) /\ NameAt(bs[p], i) = name
                        /\ Matches(bs, name) = {<<p, i>>}
                        /\ First(Matches(bs, name)) = <<p, i>>
<1>1. \A m : m \in InUse(bs) <=> \E p, i : Used(bs, p, i) /\ m = <<p, i>>
  BY PlacesAre DEF Whole
<1>2. \A p, i : <<p, i>>[1] = p /\ <<p, i>>[2] = i
  OBVIOUS
<1>3. ASSUME NEW m \in Matches(bs, name)
      PROVE  \E p, i : Used(bs, p, i) /\ NameAt(bs[p], i) = name /\ m = <<p, i>>
  <2>1. m \in InUse(bs) /\ NameAt(bs[m[1]], m[2]) = name
    BY <1>3 DEF Matches
  <2>2. PICK p, i : Used(bs, p, i) /\ m = <<p, i>>
    BY <1>1, <2>1
  <2> QED BY <2>1, <2>2, <1>2
<1>4. ASSUME NEW p, NEW i, Used(bs, p, i), NameAt(bs[p], i) = name
      PROVE  <<p, i>> \in Matches(bs, name)
  BY <1>1, <1>2, <1>4 DEF Matches
<1>5. ASSUME Matches(bs, name) # {}
      PROVE  \E p, i : /\ Used(bs, p, i) /\ NameAt(bs[p], i) = name
                       /\ Matches(bs, name) = {<<p, i>>}
                       /\ First(Matches(bs, name)) = <<p, i>>
  <2>1. PICK p, i : Used(bs, p, i) /\ NameAt(bs[p], i) = name
    BY <1>3, <1>5
  <2>2. \A m \in Matches(bs, name) : m = <<p, i>>
    BY <2>1, <1>3 DEF Whole, Unique
  <2>3. Matches(bs, name) = {<<p, i>>}
    BY <2>2, <1>5
  <2>4. First({<<p, i>>}) = <<p, i>>
    <3>1. p \in Int /\ i \in Int
      BY <2>1, GoodIs DEF Used, Whole
    <3>2. \A n \in {<<p, i>>} :
            <<p, i>>[1] < n[1] \/ (<<p, i>>[1] = n[1] /\ <<p, i>>[2] <= n[2])
      BY <3>1, <1>2
    <3> QED BY <3>2 DEF First
  <2> QED BY <2>1, <2>3, <2>4
<1> QED BY <1>3, <1>4, <1>5

(* What a change does to the places: an entry of an old name is where it   *)
(* was, or one slot further to the front, if another is gone.              *)
Moved(bs, bs2) ==
  \A p, i : Used(bs2, p, i) =>
    \/ NameAt(bs2[p], i) \notin NamesIn(Entries(bs))
    \/ Used(bs, p, i) /\ NameAt(bs[p], i) = NameAt(bs2[p], i)
    \/ /\ NamesIn(Entries(bs)) \ NamesIn(Entries(bs2)) # {}
       /\ Used(bs, p, i + 1) /\ NameAt(bs[p], i + 1) = NameAt(bs2[p], i)

(* The names are those at the places. *)
LEMMA NamesAre ==
  ASSUME NEW bs \in Seq(Block), NEW name
  PROVE  name \in NamesIn(Entries(bs)) <=>
           \E p, i : Used(bs, p, i) /\ NameAt(bs[p], i) = name
<1>1. \A e : e \in Entries(bs) <=> \E p, i : Used(bs, p, i) /\ e = Item(bs, p, i)
  BY PlacesAre
<1>2. \A p, i : Item(bs, p, i).name = NameAt(bs[p], i)
  BY DEF Item
<1> QED BY <1>1, <1>2 DEF NamesIn

(* Where nothing moves. *)
LEMMA Unmoved ==
  ASSUME NEW bs, NEW bs2,
         \A p, i : Used(bs2, p, i) => Used(bs, p, i) /\ NameAt(bs[p], i) = NameAt(bs2[p], i)
  PROVE  Moved(bs, bs2)
BY DEF Moved

(* One more entry, of a new name. *)
LEMMA OneMore ==
  ASSUME NEW bs \in Seq(Block), NEW bs2 \in Seq(Block), Unique(bs), NEW p, NEW i,
         ~Used(bs, p, i), Used(bs2, p, i),
         \A q, j : Used(bs, q, j) =>
                     /\ Used(bs2, q, j) /\ Item(bs2, q, j) = Item(bs, q, j)
                     /\ NameAt(bs[q], j) # NameAt(bs2[p], i),
         \A q, j : Used(bs2, q, j) => Used(bs, q, j) \/ (q = p /\ j = i)
  PROVE  /\ Unique(bs2) /\ Entries(bs2) = Entries(bs) \cup {Item(bs2, p, i)}
         /\ Moved(bs, bs2)
<1>1. \A e : e \in Entries(bs) <=> \E q, j : Used(bs, q, j) /\ e = Item(bs, q, j)
  BY PlacesAre
<1>2. \A e : e \in Entries(bs2) <=> \E q, j : Used(bs2, q, j) /\ e = Item(bs2, q, j)
  BY PlacesAre
<1>3. Entries(bs2) = Entries(bs) \cup {Item(bs2, p, i)}
  <2>1. ASSUME NEW e \in Entries(bs2) PROVE e \in Entries(bs) \cup {Item(bs2, p, i)}
    <3>1. PICK q, j : Used(bs2, q, j) /\ e = Item(bs2, q, j)
      BY <1>2
    <3> QED BY <3>1, <1>1
  <2>2. ASSUME NEW e \in Entries(bs) PROVE e \in Entries(bs2)
    <3>1. PICK q, j : Used(bs, q, j) /\ e = Item(bs, q, j)
      BY <1>1
    <3> QED BY <3>1, <1>2
  <2>3. Item(bs2, p, i) \in Entries(bs2)
    BY <1>2
  <2> QED BY <2>1, <2>2, <2>3
<1>4. \A q, j : Used(bs, q, j) => NameAt(bs2[q], j) = NameAt(bs[q], j)
  BY DEF Item
<1>5. Unique(bs2)
  <2> SUFFICES ASSUME NEW q, NEW r, NEW j, NEW k, Used(bs2, q, j), Used(bs2, r, k),
                      NameAt(bs2[q], j) = NameAt(bs2[r], k)
               PROVE  q = r /\ j = k
    BY DEF Unique
  <2>1. CASE Used(bs, q, j) /\ Used(bs, r, k)
    BY <2>1, <1>4 DEF Unique
  <2>2. CASE Used(bs, q, j) /\ ~Used(bs, r, k)
    BY <2>2, <1>4
  <2>3. CASE ~Used(bs, q, j) /\ Used(bs, r, k)
    BY <2>3, <1>4
  <2>4. CASE ~Used(bs, q, j) /\ ~Used(bs, r, k)
    BY <2>4
  <2> QED BY <2>1, <2>2, <2>3, <2>4
<1>6. Moved(bs, bs2)
  <2>1. ASSUME NEW q, NEW j, Used(bs2, q, j)
        PROVE  \/ NameAt(bs2[q], j) \notin NamesIn(Entries(bs))
               \/ Used(bs, q, j) /\ NameAt(bs[q], j) = NameAt(bs2[q], j)
    <3>1. CASE Used(bs, q, j)
      BY <3>1, <1>4
    <3>2. CASE q = p /\ j = i
      BY <3>2, NamesAre
    <3> QED BY <2>1, <3>1, <3>2
  <2> QED BY <2>1 DEF Moved
<1> QED BY <1>3, <1>5, <1>6

(* One entry less: those behind it in its block move up. *)
Before(p, i, q, j) == IF q = p /\ j >= i THEN j + 1 ELSE j

Shifted(bs, bs2, p, i) ==
  /\ \A q, j : Used(bs2, q, j) =>
                  /\ j \in Int
                  /\ Used(bs, q, Before(p, i, q, j))
                  /\ Item(bs2, q, j) = Item(bs, q, Before(p, i, q, j))
  /\ \A q, j : Used(bs, q, j) /\ ~(q = p /\ j = i) =>
                  \E k : Used(bs2, q, k) /\ Before(p, i, q, k) = j

LEMMA OneLess ==
  ASSUME NEW bs \in Seq(Block), NEW bs2 \in Seq(Block), Unique(bs), NEW p, NEW i,
         Used(bs, p, i), i \in Int, Shifted(bs, bs2, p, i)
  PROVE  /\ Unique(bs2) /\ Entries(bs2) = Entries(bs) \ {Item(bs, p, i)}
         /\ Moved(bs, bs2)
<1> USE DEF Shifted
<1>1. \A e : e \in Entries(bs) <=> \E q, j : Used(bs, q, j) /\ e = Item(bs, q, j)
  BY PlacesAre
<1>2. \A e : e \in Entries(bs2) <=> \E q, j : Used(bs2, q, j) /\ e = Item(bs2, q, j)
  BY PlacesAre
<1>3. \A q, j : j \in Int => ~(q = p /\ Before(p, i, q, j) = i)
  BY DEF Before
<1>4. \A q, j, k : j \in Int /\ k \in Int /\ Before(p, i, q, j) = Before(p, i, q, k) => j = k
  BY DEF Before
<1>5. Entries(bs2) = Entries(bs) \ {Item(bs, p, i)}
  <2>1. ASSUME NEW e \in Entries(bs2) PROVE e \in Entries(bs) \ {Item(bs, p, i)}
    <3>1. PICK q, j : Used(bs2, q, j) /\ e = Item(bs2, q, j)
      BY <1>2
    <3> DEFINE k == Before(p, i, q, j)
    <3>2. Used(bs, q, k) /\ e = Item(bs, q, k) /\ ~(q = p /\ k = i)
      BY <3>1, <1>3
    <3> HIDE DEF k
    <3>3. NameAt(bs[q], k) # NameAt(bs[p], i)
      BY <3>2 DEF Unique
    <3>4. e # Item(bs, p, i)
      BY <3>2, <3>3 DEF Item
    <3> QED BY <3>2, <3>4, <1>1
  <2>2. ASSUME NEW e \in Entries(bs), e # Item(bs, p, i) PROVE e \in Entries(bs2)
    <3>1. PICK q, j : Used(bs, q, j) /\ e = Item(bs, q, j)
      BY <1>1
    <3>2. ~(q = p /\ j = i)
      BY <3>1, <2>2
    <3>3. PICK k : Used(bs2, q, k) /\ Before(p, i, q, k) = j
      BY <3>1, <3>2
    <3>4. Item(bs2, q, k) = e
      BY <3>1, <3>3
    <3> QED BY <3>3, <3>4, <1>2
  <2> QED BY <2>1, <2>2
<1>6. Unique(bs2)
  <2> SUFFICES ASSUME NEW q, NEW r, NEW j, NEW k, Used(bs2, q, j), Used(bs2, r, k),
                      NameAt(bs2[q], j) = NameAt(bs2[r], k)
               PROVE  q = r /\ j = k
    BY DEF Unique
  <2> DEFINE a == Before(p, i, q, j)
             b == Before(p, i, r, k)
  <2>1. /\ j \in Int /\ k \in Int /\ Used(bs, q, a) /\ Used(bs, r, b)
        /\ NameAt(bs2[q], j) = NameAt(bs[q], a) /\ NameAt(bs2[r], k) = NameAt(bs[r], b)
    BY DEF Item
  <2>2. q = r /\ a = b
    <3>1. Used(bs, q, a) /\ Used(bs, r, b) /\ NameAt(bs[q], a) = NameAt(bs[r], b)
      BY <2>1
    <3> HIDE DEF a, b
    <3> QED BY <3>1 DEF Unique
  <2> QED BY <2>1, <2>2, <1>4
<1>7. NamesIn(Entries(bs)) \ NamesIn(Entries(bs2)) # {}
  <2>1. NameAt(bs[p], i) \in NamesIn(Entries(bs))
    BY NamesAre
  <2>2. ASSUME NEW q, NEW j, Used(bs2, q, j) PROVE NameAt(bs2[q], j) # NameAt(bs[p], i)
    <3> DEFINE k == Before(p, i, q, j)
    <3>1. Used(bs, q, k) /\ NameAt(bs2[q], j) = NameAt(bs[q], k) /\ ~(q = p /\ k = i)
      BY <2>2, <1>3 DEF Item
    <3> HIDE DEF k
    <3> QED BY <3>1 DEF Unique
  <2>3. NameAt(bs[p], i) \notin NamesIn(Entries(bs2))
    BY <2>2, NamesAre
  <2> QED BY <2>1, <2>3
<1>8. Moved(bs, bs2)
  <2>1. ASSUME NEW q, NEW j, Used(bs2, q, j)
        PROVE  \/ Used(bs, q, j) /\ NameAt(bs[q], j) = NameAt(bs2[q], j)
               \/ Used(bs, q, j + 1) /\ NameAt(bs[q], j + 1) = NameAt(bs2[q], j)
    <3>1. /\ Used(bs, q, Before(p, i, q, j))
          /\ NameAt(bs2[q], j) = NameAt(bs[q], Before(p, i, q, j))
      BY <2>1 DEF Item
    <3>2. Before(p, i, q, j) = j \/ Before(p, i, q, j) = j + 1
      BY DEF Before
    <3> QED BY <3>1, <3>2
  <2> QED BY <2>1, <1>7 DEF Moved
<1> QED BY <1>5, <1>6, <1>8

-----------------------------------------------------------------------------
(* What the abstract directory has is what the search finds. *)
LEMMA HasIs ==
  ASSUME IInv, NEW name
  PROVE  Map!Has(name) <=> Matches(blocks, name) # {}
<1>1. Whole(blocks) /\ blocks \in Seq(Block) /\ entries = Entries(blocks)
  BY DEF IInv, Whole
<1>2. Matches(blocks, name) = {} <=>
        \A p, i : Used(blocks, p, i) => NameAt(blocks[p], i) # name
  BY <1>1, Searched
<1>3. \A e : e \in entries <=> \E p, i : Used(blocks, p, i) /\ e = Item(blocks, p, i)
  BY <1>1, PlacesAre
<1>4. \A p, i : Item(blocks, p, i).name = NameAt(blocks[p], i)
  BY DEF Item
<1> QED BY <1>2, <1>3, <1>4 DEF Map!Has

(* dir_insert writes into a block with room. *)
LEMMA InsertStep ==
  ASSUME IInv, ~dead, NEW name \in Names, NEW ino \in Inodes,
         Matches(blocks, name) = {}, NEW p \in Roomy(blocks, name),
         InsertIntoBlock(p, name, ino)
  PROVE  IInv' /\ Map!Insert(name, ino) /\ Moved(blocks, blocks')
<1> DEFINE bs == blocks
           b == blocks[p]
           n == Count(b)
           b2 == Put(b, n, FreeOff(b), name, ino)
           bs2 == [blocks EXCEPT ![p] = b2]
<1>1. /\ Whole(bs) /\ bs \in Seq(Block) /\ bs # <<>> /\ Unique(bs)
      /\ Count(bs[1]) >= 2 /\ NameAt(bs[1], 0) = dotdot /\ NameAt(bs[1], 1) = dot
      /\ Count(bs[Len(bs)]) > 0
      /\ \A q \in 1 .. Len(bs) : Good(bs[q]) /\ Count(bs[q]) \in Nat
      /\ Len(bs) \in Nat /\ Len(bs) >= 1 /\ entries = Entries(bs)
  <2>1. Whole(bs) /\ bs \in Seq(Block) /\ bs # <<>>
    BY DEF IInv, Whole
  <2>2. \A q \in 1 .. Len(bs) : Good(bs[q]) /\ Count(bs[q]) \in Nat
    BY <2>1, GoodIs DEF Whole
  <2>3. Len(bs) \in Nat /\ Len(bs) >= 1
    BY <2>1
  <2> QED BY <2>1, <2>2, <2>3 DEF IInv, Whole
<1>2. /\ p \in 1 .. Len(bs) /\ b \in Block /\ Good(b) /\ n \in Nat
      /\ n < E /\ NS - FreeOff(b) > Len(name)
  <2>1. p \in 1 .. Len(bs) /\ n < E /\ NS - FreeOff(b) > Len(name)
    BY <1>1 DEF Roomy
  <2> QED BY <2>1, <1>1
<1>3. /\ blocks' = bs2 /\ dead' = dead /\ ret' = 0 /\ entries' = Entries(bs2)
  BY <1>2 DEF InsertIntoBlock, Return
<1>4. /\ b2 \in Block /\ Good(b2) /\ Count(b2) = n + 1
      /\ \A i \in 0 .. n - 1 : NameAt(b2, i) = NameAt(b, i) /\ b2.numbers[i] = b.numbers[i]
      /\ NameAt(b2, n) = name /\ b2.numbers[n] = ino
  BY <1>2, PutGood
<1> HIDE DEF b2, n, b
<1>5. /\ bs2 \in Seq(Block) /\ Len(bs2) = Len(bs) /\ bs2[p] = b2
      /\ \A q \in 1 .. Len(bs) : q # p => bs2[q] = bs[q]
  BY <1>1, <1>2, <1>4
<1> HIDE DEF bs2, bs
<1>6. \A q, j : Used(bs2, q, j) <=> Used(bs, q, j) \/ (q = p /\ j = n)
  <2>1. ASSUME NEW q, NEW j PROVE Used(bs2, q, j) <=> Used(bs, q, j) \/ (q = p /\ j = n)
    <3>1. CASE q = p
      <4>1. j \in 0 .. (n + 1) - 1 <=> j \in 0 .. n - 1 \/ j = n
        BY <1>2
      <4>2. bs[p] = b
        BY DEF b, bs
      <4> QED BY <3>1, <4>1, <4>2, <1>2, <1>4, <1>5 DEF Used, n
    <3>2. CASE q # p
      BY <3>2, <1>5 DEF Used
    <3> QED BY <3>1, <3>2
  <2> QED BY <2>1
<1>7. \A q, j : Used(bs, q, j) =>
        NameAt(bs2[q], j) = NameAt(bs[q], j) /\ bs2[q].numbers[j] = bs[q].numbers[j]
  <2>1. ASSUME NEW q, NEW j, Used(bs, q, j)
        PROVE  NameAt(bs2[q], j) = NameAt(bs[q], j) /\ bs2[q].numbers[j] = bs[q].numbers[j]
    <3>1. CASE q = p
      <4>1. j \in 0 .. n - 1 /\ bs[p] = b
        BY <3>1, <2>1 DEF Used, n, b, bs
      <4> QED BY <3>1, <4>1, <1>4, <1>5
    <3>2. CASE q # p
      BY <3>2, <2>1, <1>5 DEF Used
    <3> QED BY <3>1, <3>2
  <2> QED BY <2>1
<1>8. \A q, j : Used(bs, q, j) => NameAt(bs[q], j) # name
  BY <1>1, Searched DEF bs
<1>9. ~Used(bs, p, n) /\ Item(bs2, p, n) = [name |-> name, ino |-> ino]
      /\ NameAt(bs2[p], n) = name
  <2>1. ~(n \in 0 .. n - 1)
    BY <1>2
  <2>2. ~Used(bs, p, n)
    BY <2>1 DEF Used, n, b, bs
  <2> QED BY <2>2, <1>4, <1>5 DEF Item
<1>10. /\ Unique(bs2) /\ Entries(bs2) = Entries(bs) \cup {[name |-> name, ino |-> ino]}
       /\ Moved(bs, bs2)
  <2>1. \A q, j : Used(bs, q, j) =>
                    /\ Used(bs2, q, j) /\ Item(bs2, q, j) = Item(bs, q, j)
                    /\ NameAt(bs[q], j) # NameAt(bs2[p], n)
    BY <1>6, <1>7, <1>8, <1>9 DEF Item
  <2>2. Used(bs2, p, n)
    BY <1>6
  <2> QED BY <2>1, <2>2, <1>1, <1>5, <1>6, <1>9, OneMore
<1>11. /\ \A q \in 1 .. Len(bs2) : Good(bs2[q]) /\ Count(bs2[q]) >= Count(bs[q])
  <2>1. ASSUME NEW q \in 1 .. Len(bs2)
        PROVE  Good(bs2[q]) /\ Count(bs2[q]) >= Count(bs[q])
    <3>1. CASE q = p
      <4>1. Count(bs[p]) = n
        BY DEF n, b, bs
      <4> QED BY <3>1, <4>1, <1>2, <1>4, <1>5
    <3>2. CASE q # p
      BY <3>2, <1>1, <1>5
    <3> QED BY <3>1, <3>2
  <2> QED BY <2>1
<1>12. Whole(bs2)
  <2>1. Used(bs, 1, 0) /\ Used(bs, 1, 1)
    BY <1>1 DEF Used
  <2>2. NameAt(bs2[1], 0) = dotdot /\ NameAt(bs2[1], 1) = dot
    BY <2>1, <1>1, <1>7
  <2>3. /\ 1 \in 1 .. Len(bs2) /\ Len(bs2) \in 1 .. Len(bs2)
        /\ Count(bs2[1]) \in Nat /\ Count(bs2[Len(bs2)]) \in Nat
        /\ Count(bs[1]) \in Nat /\ Count(bs[Len(bs2)]) \in Nat
    BY <1>1, <1>5, <1>11, GoodIs
  <2>4. Count(bs2[1]) >= 2 /\ Count(bs2[Len(bs2)]) > 0 /\ bs2 # <<>>
    BY <2>3, <1>1, <1>5, <1>11
  <2> QED BY <2>2, <2>4, <1>5, <1>10, <1>11 DEF Whole
<1>13. IInv'
  BY <1>3, <1>12 DEF IInv
<1>14. ~Map!Has(name)
  BY HasIs
<1> QED BY <1>1, <1>3, <1>10, <1>13, <1>14 DEF Map!Insert, Map!Entry, bs

(* Of the blocks with room there is a first fullest one. *)
LEMMA BestBlockHasRoom ==
  ASSUME Whole(blocks), NEW name, Roomy(blocks, name) # {}
  PROVE  BestBlock(blocks, Roomy(blocks, name)) \in Roomy(blocks, name)
<1> DEFINE R == Roomy(blocks, name)
<1>1. /\ R \subseteq 1 .. Len(blocks) /\ Len(blocks) \in Nat
      /\ \A p \in R : FreeOff(blocks[p]) \in 0 .. NS
  <2>1. DOMAIN blocks = 1 .. Len(blocks) /\ Len(blocks) \in Nat
    BY DEF Whole
  <2>2. R \subseteq 1 .. Len(blocks)
    BY <2>1 DEF Roomy
  <2> QED BY <2>1, <2>2, GoodIs DEF Whole
<1> HIDE DEF R
<1>2. R # {}
  BY DEF R
<1> DEFINE V == {NS - FreeOff(blocks[p]) : p \in R}
<1>3. V \in SUBSET Nat /\ V # {}
  BY <1>1, <1>2, Constants
<1>4. PICK v \in V : \A u \in V : v <= u
  BY <1>3, Least
<1> DEFINE P == {p \in R : NS - FreeOff(blocks[p]) = v}
<1>5. P \in SUBSET Nat /\ P # {}
  <2>1. R \in SUBSET Nat
    BY <1>1
  <2>2. \E p \in R : NS - FreeOff(blocks[p]) = v
    BY <1>4
  <2> QED BY <2>1, <2>2
<1>6. PICK p \in P : \A q \in P : p <= q
  BY <1>5, Least
<1>7. ASSUME NEW q \in R
      PROVE  \/ FreeOff(blocks[p]) > FreeOff(blocks[q])
             \/ FreeOff(blocks[p]) = FreeOff(blocks[q]) /\ p <= q
  <2>1. v <= NS - FreeOff(blocks[q]) /\ v = NS - FreeOff(blocks[p]) /\ p \in R
    BY <1>4, <1>6
  <2>2. /\ FreeOff(blocks[p]) \in Nat /\ FreeOff(blocks[q]) \in Nat /\ NS \in Nat
    BY <2>1, <1>1, Constants
  <2>3. CASE NS - FreeOff(blocks[q]) = v
    <3>1. p <= q
      BY <2>3, <1>6
    <3> QED BY <2>1, <2>2, <2>3, <3>1
  <2>4. CASE NS - FreeOff(blocks[q]) # v
    BY <2>1, <2>2, <2>4
  <2> QED BY <2>3, <2>4
<1>8. p \in R
  BY <1>6
<1> QED BY <1>7, <1>8 DEF BestBlock, R

(* What a block that holds its first entry looks like. *)
LEMMA NewBlock ==
  ASSUME NEW name \in Names, NEW ino \in Inodes
  PROVE  LET b == Put(EmptyBlock, 0, 0, name, ino)
         IN  /\ b \in Block /\ Good(b) /\ Count(b) = 1 /\ FreeOff(b) = Len(name) + 1
             /\ NameAt(b, 0) = name /\ b.numbers[0] = ino
<1>1. Len(name) \in Nat /\ NS - 0 > Len(name) /\ 0 < E
  BY Constants
<1> QED BY <1>1, EmptyGood, PutGood

(* dir_insert appends a block. *)
LEMMA AppendStep ==
  ASSUME IInv, ~dead, NEW name \in Names, NEW ino \in Inodes,
         Matches(blocks, name) = {},
         Return(Append(blocks, Put(EmptyBlock, 0, 0, name, ino)), dead, 0)
  PROVE  IInv' /\ Map!Insert(name, ino) /\ Moved(blocks, blocks')
<1> DEFINE bs == blocks
           b2 == Put(EmptyBlock, 0, 0, name, ino)
           bs2 == Append(blocks, b2)
           p == Len(bs) + 1
<1>1. /\ Whole(bs) /\ bs \in Seq(Block) /\ Unique(bs)
      /\ Count(bs[1]) >= 2 /\ NameAt(bs[1], 0) = dotdot /\ NameAt(bs[1], 1) = dot
      /\ \A q \in 1 .. Len(bs) : Good(bs[q])
      /\ Len(bs) \in Nat /\ Len(bs) >= 1 /\ entries = Entries(bs)
  <2>1. Whole(bs) /\ bs \in Seq(Block) /\ bs # <<>>
    BY DEF IInv, Whole
  <2>3. Len(bs) \in Nat /\ Len(bs) >= 1
    BY <2>1
  <2> QED BY <2>1, <2>3 DEF IInv, Whole
<1>3. blocks' = bs2 /\ dead' = dead /\ ret' = 0 /\ entries' = Entries(bs2)
  BY DEF Return
<1>4. /\ b2 \in Block /\ Good(b2) /\ Count(b2) = 1
      /\ NameAt(b2, 0) = name /\ b2.numbers[0] = ino
  BY NewBlock
<1> HIDE DEF b2
<1>5. /\ bs2 \in Seq(Block) /\ Len(bs2) = Len(bs) + 1 /\ bs2[p] = b2
      /\ \A q \in 1 .. Len(bs) : bs2[q] = bs[q]
  BY <1>1, <1>4
<1> HIDE DEF bs2, bs
<1>6. \A q, j : Used(bs2, q, j) <=> Used(bs, q, j) \/ (q = p /\ j = 0)
  <2>1. ASSUME NEW q, NEW j PROVE Used(bs2, q, j) <=> Used(bs, q, j) \/ (q = p /\ j = 0)
    <3>1. j \in 0 .. 1 - 1 <=> j = 0
      OBVIOUS
    <3>2. q \in 1 .. Len(bs2) <=> q \in 1 .. Len(bs) \/ q = p
      BY <1>1, <1>5
    <3>3. ~(p \in 1 .. Len(bs))
      BY <1>1
    <3>4. CASE q = p
      BY <3>1, <3>2, <3>3, <3>4, <1>4, <1>5 DEF Used
    <3>5. CASE q # p
      BY <3>2, <3>5, <1>5 DEF Used
    <3> QED BY <3>4, <3>5
  <2> QED BY <2>1
<1>7. \A q, j : Used(bs, q, j) => bs2[q] = bs[q]
  BY <1>5 DEF Used
<1>8. \A q, j : Used(bs, q, j) => NameAt(bs[q], j) # name
  BY <1>1, Searched DEF bs
<1>9. ~Used(bs, p, 0) /\ Item(bs2, p, 0) = [name |-> name, ino |-> ino]
      /\ NameAt(bs2[p], 0) = name
  <2>1. ~(p \in 1 .. Len(bs))
    BY <1>1
  <2> QED BY <2>1, <1>4, <1>5 DEF Item, Used
<1>10. /\ Unique(bs2) /\ Entries(bs2) = Entries(bs) \cup {[name |-> name, ino |-> ino]}
       /\ Moved(bs, bs2)
  <2>1. \A q, j : Used(bs, q, j) =>
                    /\ Used(bs2, q, j) /\ Item(bs2, q, j) = Item(bs, q, j)
                    /\ NameAt(bs[q], j) # NameAt(bs2[p], 0)
    BY <1>6, <1>7, <1>8, <1>9 DEF Item
  <2>2. Used(bs2, p, 0)
    BY <1>6
  <2> HIDE DEF p
  <2> QED BY <2>1, <2>2, <1>1, <1>5, <1>6, <1>9, OneMore
<1>11. \A q \in 1 .. Len(bs2) : Good(bs2[q])
  <2>1. \A q \in 1 .. Len(bs2) : q = p \/ q \in 1 .. Len(bs)
    BY <1>1, <1>5
  <2> QED BY <2>1, <1>1, <1>4, <1>5
<1>12. Whole(bs2)
  <2>1. bs2[1] = bs[1] /\ bs2[Len(bs2)] = b2 /\ bs2 # <<>>
    BY <1>1, <1>5
  <2> QED BY <2>1, <1>1, <1>4, <1>5, <1>10, <1>11 DEF Whole
<1>13. IInv'
  BY <1>3, <1>12 DEF IInv
<1>14. ~Map!Has(name)
  BY HasIs
<1> QED BY <1>1, <1>3, <1>10, <1>13, <1>14 DEF Map!Insert, Map!Entry, bs

-----------------------------------------------------------------------------
(* The empty blocks before block p end at one that is not empty. *)
LEMMA EmptyCountIs ==
  ASSUME Whole(blocks), NEW p \in 2 .. Len(blocks)
  PROVE  LET c == empty_count(p)
         IN  /\ c \in 0 .. p - 2
             /\ \A q \in p - c .. p - 1 : Count(blocks[q]) = 0
             /\ Count(blocks[p - 1 - c]) > 0
<1> DEFINE Empty(n) == \A q \in p - n .. p - 1 : Count(blocks[q]) = 0
           S == {n \in 0 .. p - 1 : Empty(n)}
           c == empty_count(p)
<1>1. /\ p \in Nat /\ p >= 2 /\ p <= Len(blocks) /\ Len(blocks) \in Nat
      /\ \A q \in 1 .. p - 1 : Count(blocks[q]) \in Nat
      /\ Count(blocks[1]) >= 2 /\ Count(blocks[1]) \in Nat
  <2>1. p \in Nat /\ p >= 2 /\ p <= Len(blocks) /\ Len(blocks) \in Nat
    BY DEF Whole
  <2>2. \A q \in 1 .. p - 1 : q \in 1 .. Len(blocks)
    BY <2>1
  <2>3. \A q \in 1 .. p - 1 : Count(blocks[q]) \in Nat
    BY <2>2, GoodIs DEF Whole
  <2>4. 1 \in 1 .. p - 1
    BY <2>1
  <2> QED BY <2>1, <2>3, <2>4 DEF Whole
<1>2. Empty(0) /\ 0 \in S
  BY <1>1
<1> HIDE DEF Empty
<1>3. \E n \in S : \A m \in S : n >= m
  <2> DEFINE T == {p - 1 - n : n \in S}
  <2>1. T \in SUBSET Nat /\ T # {}
    BY <1>1, <1>2
  <2>2. PICK t \in T : \A u \in T : t <= u
    BY <2>1, Least
  <2>3. PICK n \in S : t = p - 1 - n
    BY <2>2
  <2>4. \A m \in S : p - 1 - n <= p - 1 - m
    BY <2>2, <2>3
  <2>5. \A m \in S : n >= m
    BY <2>4, <1>1
  <2> QED BY <2>5
<1>4. c \in S /\ \A m \in S : c >= m
  <2>1. c = CHOOSE n \in S : \A m \in S : n >= m
    BY DEF empty_count, Max, Empty
  <2> HIDE DEF c, S
  <2> QED BY <2>1, <1>3
<1> HIDE DEF c
<1>5. c \in 0 .. p - 1 /\ \A q \in p - c .. p - 1 : Count(blocks[q]) = 0
  BY <1>4 DEF Empty
<1>6. c # p - 1
  <2>1. c = p - 1 => 1 \in p - c .. p - 1
    BY <1>1
  <2> QED BY <2>1, <1>1, <1>5
<1>7. Count(blocks[p - 1 - c]) # 0
  <2> SUFFICES ASSUME Count(blocks[p - 1 - c]) = 0 PROVE FALSE
    OBVIOUS
  <2>1. \A q \in p - (c + 1) .. p - 1 : q = p - 1 - c \/ q \in p - c .. p - 1
    BY <1>1, <1>5
  <2>2. Empty(c + 1)
    BY <2>1, <1>5 DEF Empty
  <2>3. c + 1 \in S
    BY <2>2, <1>1, <1>5, <1>6
  <2> QED BY <2>3, <1>4, <1>5
<1>8. p - 1 - c \in 1 .. p - 1 /\ c \in 0 .. p - 2
  BY <1>1, <1>5, <1>6
<1> QED BY <1>1, <1>5, <1>7, <1>8 DEF c

(* The only entry of the last block goes, and the empty blocks before it. *)
LEMMA TruncateStep ==
  ASSUME Whole(blocks), NEW p, p = Len(blocks), Count(blocks[p]) = 1
  PROVE  LET bs2 == SubSeq(blocks, 1, p - 1 - empty_count(p))
         IN  /\ Whole(bs2) /\ Entries(bs2) = Entries(blocks) \ {Item(blocks, p, 0)}
             /\ Moved(blocks, bs2)
<1> DEFINE bs == blocks
           c == empty_count(p)
           r == p - 1 - c
           bs2 == SubSeq(bs, 1, r)
<1>1. /\ bs \in Seq(Block) /\ Unique(bs)
      /\ Count(bs[1]) >= 2 /\ NameAt(bs[1], 0) = dotdot /\ NameAt(bs[1], 1) = dot
      /\ \A q \in 1 .. Len(bs) : Good(bs[q])
      /\ p = Len(bs) /\ p \in Nat /\ p >= 2
  <2>1. bs \in Seq(Block) /\ bs # <<>> /\ Count(bs[1]) >= 2
    BY DEF Whole
  <2>2. p \in Nat /\ p >= 1 /\ p # 1
    BY <2>1
  <2> QED BY <2>1, <2>2 DEF Whole
<1>2. /\ c \in 0 .. p - 2
      /\ \A q \in p - c .. p - 1 : Count(bs[q]) = 0
      /\ Count(bs[p - 1 - c]) > 0
  <2>1. p \in 2 .. Len(blocks)
    BY <1>1
  <2> QED BY <2>1, EmptyCountIs
<1> HIDE DEF c
<1>3. /\ r \in 1 .. p - 1 /\ r \in Nat /\ r = p - 1 - c
      /\ \A q \in 1 .. p : q \in 1 .. r \/ q \in p - c .. p - 1 \/ q = p
  BY <1>1, <1>2
<1> HIDE DEF r
<1>4. /\ bs2 \in Seq(Block) /\ Len(bs2) = r /\ \A q \in 1 .. r : bs2[q] = bs[q]
      /\ \A q \in 1 .. r : q \in 1 .. Len(bs) /\ q # p
  BY <1>1, <1>3
<1> HIDE DEF bs2, bs
<1>5. \A q, j : Used(bs2, q, j) <=> Used(bs, q, j) /\ q \in 1 .. r
  BY <1>4 DEF Used
<1>6. \A q, j : Used(bs2, q, j) =>
                  j \in Int /\ Before(p, 0, q, j) = j /\ Item(bs2, q, j) = Item(bs, q, j)
  BY <1>4, GoodIs, <1>1 DEF Used, Before, Item
<1>7. ASSUME NEW q, NEW j, Used(bs, q, j), ~(q = p /\ j = 0)
      PROVE  Used(bs2, q, j) /\ Before(p, 0, q, j) = j
  <2>1. q \in 1 .. p /\ j \in 0 .. Count(bs[q]) - 1
    BY <1>1, <1>7 DEF Used
  <2>2. q # p
    BY <2>1, <1>7 DEF bs
  <2>3. ~(q \in p - c .. p - 1)
    BY <2>1, <1>2
  <2>4. q \in 1 .. r
    BY <2>1, <2>2, <2>3, <1>3
  <2> QED BY <2>2, <2>4, <1>5, <1>7 DEF Before
<1>8. Used(bs, p, 0)
  <2>1. p \in 1 .. Len(bs) /\ 0 \in 0 .. Count(bs[p]) - 1
    BY <1>1 DEF bs
  <2> QED BY <2>1 DEF Used
<1>9. Unique(bs2) /\ Entries(bs2) = Entries(bs) \ {Item(bs, p, 0)} /\ Moved(bs, bs2)
  <2>1. Shifted(bs, bs2, p, 0)
    BY <1>5, <1>6, <1>7 DEF Shifted
  <2> QED BY <2>1, <1>1, <1>4, <1>8, OneLess
<1>10. Whole(bs2)
  <2>1. 1 \in 1 .. r /\ r \in 1 .. r /\ bs2 # <<>>
    BY <1>3, <1>4
  <2>2. bs2[1] = bs[1] /\ Count(bs2[Len(bs2)]) > 0
    BY <2>1, <1>2, <1>3, <1>4
  <2> QED BY <2>1, <2>2, <1>1, <1>4, <1>9 DEF Whole
<1> QED BY <1>9, <1>10 DEF bs2, bs, r, c

(* An entry is cut out of its block. *)
LEMMA CutStep ==
  ASSUME Whole(blocks), NEW p, NEW i, Used(blocks, p, i),
         NameAt(blocks[p], i) \notin {dot, dotdot},
         p = Len(blocks) => Count(blocks[p]) # 1
  PROVE  LET b2 == Cut(blocks[p], i, nameoff(blocks[p], i), Len(NameAt(blocks[p], i)))
             bs2 == [blocks EXCEPT ![p] = b2]
         IN  /\ Whole(bs2) /\ Entries(bs2) = Entries(blocks) \ {Item(blocks, p, i)}
             /\ Moved(blocks, bs2)
<1> DEFINE bs == blocks
           b == blocks[p]
           n == Count(b)
           b2 == Cut(b, i, nameoff(b, i), Len(NameAt(b, i)))
           bs2 == [blocks EXCEPT ![p] = b2]
<1>1. /\ bs \in Seq(Block) /\ Unique(bs) /\ Len(bs) \in Nat /\ Len(bs) >= 1
      /\ Count(bs[1]) >= 2 /\ NameAt(bs[1], 0) = dotdot /\ NameAt(bs[1], 1) = dot
      /\ Count(bs[Len(bs)]) > 0
      /\ \A q \in 1 .. Len(bs) : Good(bs[q]) /\ Count(bs[q]) \in Nat
  <2>1. bs \in Seq(Block) /\ bs # <<>>
    BY DEF Whole
  <2>2. Len(bs) \in Nat /\ Len(bs) >= 1
    BY <2>1
  <2> QED BY <2>1, <2>2, GoodIs DEF Whole
<1>2. /\ p \in 1 .. Len(bs) /\ i \in 0 .. n - 1 /\ b \in Block /\ Good(b) /\ n \in Nat
  BY <1>1 DEF Used
<1>3. /\ b2 \in Block /\ Good(b2) /\ Count(b2) = n - 1
      /\ \A j \in 0 .. n - 2 :
           LET k == IF j < i THEN j ELSE j + 1
           IN  NameAt(b2, j) = NameAt(b, k) /\ b2.numbers[j] = b.numbers[k]
  BY <1>2, CutGood
<1>4. /\ n >= 1 /\ i \in Nat
      /\ p = Len(bs) => n >= 2
      /\ p = 1 => i >= 2 /\ n >= 3
  BY <1>1, <1>2
<1> HIDE DEF b2
<1>5. /\ bs2 \in Seq(Block) /\ Len(bs2) = Len(bs) /\ bs2[p] = b2
      /\ \A q \in 1 .. Len(bs) : q # p => bs2[q] = bs[q]
  BY <1>1, <1>2, <1>3
<1>6. bs[p] = b /\ Count(bs[p]) = n
  OBVIOUS
<1> HIDE DEF bs2, bs, b, n
<1>7. ASSUME NEW q, NEW j, Used(bs2, q, j)
      PROVE  /\ j \in Int
             /\ Used(bs, q, Before(p, i, q, j))
             /\ Item(bs2, q, j) = Item(bs, q, Before(p, i, q, j))
  <2>1. CASE q = p
    <3> DEFINE k == IF j < i THEN j ELSE j + 1
    <3>1. j \in 0 .. n - 2
      <4>1. j \in 0 .. (n - 1) - 1
        BY <1>7, <2>1, <1>3, <1>5 DEF Used
      <4> QED BY <4>1, <1>2
    <3>2. NameAt(b2, j) = NameAt(b, k) /\ b2.numbers[j] = b.numbers[k]
      BY <3>1, <1>3
    <3>3. k = Before(p, i, q, j) /\ k \in 0 .. n - 1 /\ j \in Int
      BY <2>1, <3>1, <1>2, <1>4 DEF Before
    <3> HIDE DEF k
    <3> QED BY <2>1, <3>2, <3>3, <1>2, <1>5, <1>6 DEF Used, Item
  <2>2. CASE q # p
    <3>1. bs2[q] = bs[q] /\ Used(bs, q, j)
      BY <2>2, <1>5, <1>7 DEF Used
    <3>2. Before(p, i, q, j) = j
      BY <2>2 DEF Before
    <3>3. j \in Int
      BY <3>1, <1>1 DEF Used
    <3> QED BY <3>1, <3>2, <3>3 DEF Item
  <2> QED BY <2>1, <2>2
<1>8. ASSUME NEW q, NEW j, Used(bs, q, j), ~(q = p /\ j = i)
      PROVE  \E k : Used(bs2, q, k) /\ Before(p, i, q, k) = j
  <2>1. CASE q = p
    <3>1. j \in 0 .. n - 1 /\ j # i
      BY <2>1, <1>6, <1>8 DEF Used
    <3> DEFINE k == IF j < i THEN j ELSE j - 1
    <3>2. k \in 0 .. (n - 1) - 1 /\ Before(p, i, q, k) = j
      BY <2>1, <3>1, <1>2, <1>4 DEF Before
    <3> HIDE DEF k
    <3>3. Used(bs2, q, k)
      BY <2>1, <3>2, <1>2, <1>3, <1>5 DEF Used
    <3> QED BY <3>2, <3>3
  <2>2. CASE q # p
    <3>1. bs2[q] = bs[q] /\ Used(bs2, q, j)
      BY <2>2, <1>5, <1>8 DEF Used
    <3>2. Before(p, i, q, j) = j
      BY <2>2 DEF Before
    <3> QED BY <3>1, <3>2
  <2> QED BY <2>1, <2>2
<1>9. Unique(bs2) /\ Entries(bs2) = Entries(bs) \ {Item(bs, p, i)} /\ Moved(bs, bs2)
  <2>1. Used(bs, p, i) /\ i \in Int
    BY <1>4 DEF bs
  <2>2. Shifted(bs, bs2, p, i)
    BY <1>7, <1>8 DEF Shifted
  <2>3. bs \in Seq(Block) /\ bs2 \in Seq(Block) /\ Unique(bs)
    BY <1>1, <1>5
  <2> QED BY <2>1, <2>2, <2>3, OneLess
<1>10. \A q \in 1 .. Len(bs2) : Good(bs2[q])
  BY <1>1, <1>3, <1>5
<1>11. Count(bs2[1]) >= 2 /\ NameAt(bs2[1], 0) = dotdot /\ NameAt(bs2[1], 1) = dot
  <2>1. 1 \in 1 .. Len(bs)
    BY <1>1
  <2>2. CASE p = 1
    <3>1. i >= 2 /\ n >= 3 /\ n - 1 >= 2
      BY <2>2, <1>2, <1>4
    <3>2. NameAt(b2, 0) = NameAt(b, 0) /\ NameAt(b2, 1) = NameAt(b, 1)
      <4>1. 0 \in 0 .. n - 2 /\ 1 \in 0 .. n - 2 /\ 0 < i /\ 1 < i
        BY <3>1, <1>2, <1>4
      <4> QED BY <4>1, <1>3
    <3>3. NameAt(bs2[1], 0) = NameAt(b2, 0) /\ NameAt(bs2[1], 1) = NameAt(b2, 1)
          /\ Count(bs2[1]) = n - 1
      BY <2>2, <1>3, <1>5
    <3> QED BY <2>2, <3>1, <3>2, <3>3, <1>1, <1>6
  <2>3. CASE p # 1
    BY <2>1, <2>3, <1>1, <1>5
  <2> QED BY <2>2, <2>3
<1>12. Count(bs2[Len(bs2)]) > 0
  <2>1. CASE p = Len(bs)
    BY <2>1, <1>2, <1>3, <1>4, <1>5
  <2>2. CASE p # Len(bs)
    <3>1. bs2[Len(bs2)] = bs[Len(bs)]
      BY <2>2, <1>1, <1>5
    <3> QED BY <3>1, <1>1
  <2> QED BY <2>1, <2>2
<1>13. Whole(bs2)
  <2>1. bs2 # <<>>
    BY <1>1, <1>5
  <2> QED BY <2>1, <1>5, <1>9, <1>10, <1>11, <1>12 DEF Whole
<1> QED BY <1>9, <1>13 DEF bs2, bs, b2, b

(* dir_remove removes the entry of its name. *)
LEMMA RemoveStep ==
  ASSUME IInv, ~dead, NEW name \in Names, name \notin {dot, dotdot},
         Matches(blocks, name) # {}, RemoveEntry(First(Matches(blocks, name)), name)
  PROVE  IInv' /\ Map!Remove(name) /\ Moved(blocks, blocks')
<1>1. Whole(blocks) /\ blocks \in Seq(Block) /\ entries = Entries(blocks)
  BY DEF IInv, Whole
<1>2. PICK p, i : /\ Used(blocks, p, i) /\ NameAt(blocks[p], i) = name
                  /\ First(Matches(blocks, name)) = <<p, i>>
  BY <1>1, Searched
<1> DEFINE b == blocks[p]
           last == i = 0 /\ b.numbers[1] = INO_EOF /\ p = Len(blocks)
           cut == [blocks EXCEPT ![p] = Cut(b, i, nameoff(b, i), Len(name))]
           bs2 == IF last THEN SubSeq(blocks, 1, p - 1 - empty_count(p)) ELSE cut
<1>3. blocks' = bs2 /\ dead' = dead /\ ret' = b.numbers[i] /\ entries' = Entries(bs2)
  <2>1. <<p, i>>[1] = p /\ <<p, i>>[2] = i
    OBVIOUS
  <2>2. RemoveEntry(<<p, i>>, name)
    BY <1>2
  <2> QED BY <2>1, <2>2 DEF RemoveEntry, Return
<1>4. /\ p \in 1 .. Len(blocks) /\ Good(b) /\ i \in 0 .. Count(b) - 1 /\ Count(b) \in Nat
  BY <1>1, <1>2, GoodIs DEF Used, Whole
<1>5. last <=> p = Len(blocks) /\ Count(b) = 1
  <2>1. ASSUME last PROVE Count(b) = 1
    <3>1. ~(1 \in 0 .. Count(b) - 1)
      BY <2>1, <1>4, GoodIs, Constants
    <3> QED BY <3>1, <1>4
  <2>2. ASSUME Count(b) = 1 PROVE i = 0 /\ b.numbers[1] = INO_EOF
    <3>1. 1 \in Count(b) .. E - 1 /\ i = 0
      BY <2>2, <1>4, Constants
    <3> QED BY <3>1, <1>4, GoodIs
  <2> QED BY <2>1, <2>2
<1> HIDE DEF last
<1>6. /\ Whole(bs2) /\ Entries(bs2) = Entries(blocks) \ {Item(blocks, p, i)}
      /\ Moved(blocks, bs2)
  <2>1. CASE last
    <3>1. p = Len(blocks) /\ Count(blocks[p]) = 1 /\ i = 0
      BY <2>1, <1>4, <1>5
    <3> QED BY <2>1, <3>1, <1>1, TruncateStep
  <2>2. CASE ~last
    <3>1. p = Len(blocks) => Count(blocks[p]) # 1
      BY <2>2, <1>5
    <3> QED BY <2>2, <3>1, <1>1, <1>2, CutStep
  <2> QED BY <2>1, <2>2
<1> HIDE DEF bs2
<1>7. IInv'
  BY <1>3, <1>6 DEF IInv
<1>8. Item(blocks, p, i) \in entries /\ Item(blocks, p, i).name = name
      /\ Item(blocks, p, i).ino = b.numbers[i]
  BY <1>1, <1>2, PlacesAre DEF Item
<1> QED BY <1>1, <1>3, <1>6, <1>7, <1>8 DEF Map!Remove

-----------------------------------------------------------------------------
(* dir_create writes ".." and ".". *)
LEMMA Initial ==
  ASSUME Init
  PROVE  IInv /\ Map!Init
<1> DEFINE b1 == Put(EmptyBlock, 0, 0, dotdot, root)
           b == FirstBlock
<1>1. /\ dot \in Names /\ dotdot \in Names /\ self \in Inodes /\ root \in Inodes
      /\ Len(dot) = 1 /\ Len(dotdot) = 2
  BY DirAssumption
<1>2. /\ b1 \in Block /\ Good(b1) /\ Count(b1) = 1 /\ FreeOff(b1) = 3
      /\ NameAt(b1, 0) = dotdot /\ b1.numbers[0] = root
  <2>1. /\ b1 \in Block /\ Good(b1) /\ Count(b1) = 1 /\ FreeOff(b1) = Len(dotdot) + 1
        /\ NameAt(b1, 0) = dotdot /\ b1.numbers[0] = root
    BY <1>1, NewBlock
  <2> HIDE DEF b1
  <2> QED BY <2>1, <1>1
<1>3. b = Put(b1, 1, 3, dot, self)
  BY DEF FirstBlock
<1> HIDE DEF b1, b
<1>4. /\ b \in Block /\ Good(b) /\ Count(b) = 2
      /\ NameAt(b, 0) = dotdot /\ b.numbers[0] = root
      /\ NameAt(b, 1) = dot /\ b.numbers[1] = self
  <2>1. Count(b1) < E /\ NS - FreeOff(b1) > Len(dot)
    BY <1>1, <1>2, Constants
  <2>2. 0 \in 0 .. Count(b1) - 1
    BY <1>2
  <2> DEFINE c == Put(b1, Count(b1), FreeOff(b1), dot, self)
  <2>3. /\ c \in Block /\ Good(c) /\ Count(c) = Count(b1) + 1
        /\ \A i \in 0 .. Count(b1) - 1 :
             NameAt(c, i) = NameAt(b1, i) /\ c.numbers[i] = b1.numbers[i]
        /\ NameAt(c, Count(b1)) = dot /\ c.numbers[Count(b1)] = self
    BY <2>1, <1>1, <1>2, PutGood
  <2>4. c = b
    BY <1>2, <1>3
  <2> HIDE DEF c
  <2> QED BY <2>2, <2>3, <2>4, <1>2
<1> DEFINE bs == <<b>>
<1>5. bs \in Seq(Block) /\ Len(bs) = 1 /\ bs[1] = b /\ bs # <<>>
  BY <1>4
<1> HIDE DEF bs
<1>6. \A p, i : Used(bs, p, i) <=> p = 1 /\ (i = 0 \/ i = 1)
  <2>1. \A p : p \in 1 .. Len(bs) <=> p = 1
    BY <1>5
  <2>2. \A i : i \in 0 .. 2 - 1 <=> i = 0 \/ i = 1
    OBVIOUS
  <2> QED BY <2>1, <2>2, <1>4, <1>5 DEF Used
<1>7. dot # dotdot
  BY <1>1
<1>8. Whole(bs)
  <2>1. Unique(bs)
    BY <1>4, <1>5, <1>6, <1>7 DEF Unique
  <2> QED BY <2>1, <1>4, <1>5 DEF Whole
<1>9. Entries(bs) = {[name |-> dotdot, ino |-> root], [name |-> dot, ino |-> self]}
  <2>1. \A e : e \in Entries(bs) <=> \E p, i : Used(bs, p, i) /\ e = Item(bs, p, i)
    BY <1>5, PlacesAre
  <2>2. /\ Item(bs, 1, 0) = [name |-> dotdot, ino |-> root]
        /\ Item(bs, 1, 1) = [name |-> dot, ino |-> self]
    BY <1>4, <1>5 DEF Item
  <2> QED BY <2>1, <2>2, <1>6
<1>10. blocks = bs /\ dead = FALSE /\ ret = 0 /\ entries = Entries(bs)
  BY DEF Init, bs, b
<1> QED BY <1>8, <1>9, <1>10 DEF IInv, Map!Init, Map!Entry

(* dir_lookup. *)
LEMMA LookupStep ==
  ASSUME IInv, NEW name \in Names, dir_lookup(name)
  PROVE  IInv' /\ Map!Lookup(name) /\ UNCHANGED blocks
<1>1. /\ Whole(blocks) /\ blocks \in Seq(Block) /\ entries = Entries(blocks)
      /\ UNCHANGED <<blocks, dead, entries>>
  BY DEF IInv, Whole, dir_lookup, Fail
<1>2. IInv'
  BY <1>1 DEF IInv
<1>3. ret' = IF Map!Has(name) THEN (CHOOSE e \in entries : e.name = name).ino ELSE ENOENT
  <2>1. CASE Matches(blocks, name) = {}
    BY <2>1, HasIs DEF dir_lookup, Fail
  <2>2. CASE Matches(blocks, name) # {}
    <3>1. PICK p, i : /\ Used(blocks, p, i) /\ NameAt(blocks[p], i) = name
                      /\ First(Matches(blocks, name)) = <<p, i>>
      BY <2>2, <1>1, Searched
    <3>2. ret' = blocks[p].numbers[i]
      <4>1. <<p, i>>[1] = p /\ <<p, i>>[2] = i
        OBVIOUS
      <4> QED BY <2>2, <3>1, <4>1 DEF dir_lookup, Fail
    <3>3. Item(blocks, p, i) \in entries /\ Item(blocks, p, i).name = name
      BY <3>1, <1>1, PlacesAre DEF Item
    <3>4. \A e \in entries : e.name = name => e = Item(blocks, p, i)
      <4>1. ASSUME NEW e \in entries, e.name = name PROVE e = Item(blocks, p, i)
        <5>1. PICK q, j : Used(blocks, q, j) /\ e = Item(blocks, q, j)
          BY <1>1, PlacesAre
        <5>2. NameAt(blocks[q], j) = NameAt(blocks[p], i)
          BY <3>1, <4>1, <5>1 DEF Item
        <5> QED BY <3>1, <5>1, <5>2, <1>1 DEF Whole, Unique
      <4> QED BY <4>1
    <3>5. (CHOOSE e \in entries : e.name = name) = Item(blocks, p, i)
      BY <3>3, <3>4
    <3>6. Item(blocks, p, i).ino = blocks[p].numbers[i]
      BY DEF Item
    <3> QED BY <2>2, <3>2, <3>5, <3>6, HasIs
  <2> QED BY <2>1, <2>2
<1> QED BY <1>1, <1>2, <1>3 DEF Map!Lookup, Map!ENOENT, ENOENT

(* "." and ".." are everything exactly when there is one block with        *)
(* nothing in its third slot.                                              *)
LEMMA EmptyIs ==
  ASSUME IInv
  PROVE  (\A e \in entries : e.name \in {dot, dotdot}) <=>
           Len(blocks) = 1 /\ blocks[1].numbers[2] = INO_EOF
<1>1. /\ Whole(blocks) /\ blocks \in Seq(Block) /\ entries = Entries(blocks)
      /\ Len(blocks) \in Nat /\ Len(blocks) >= 1
      /\ Count(blocks[1]) >= 2 /\ NameAt(blocks[1], 0) = dotdot /\ NameAt(blocks[1], 1) = dot
      /\ Count(blocks[Len(blocks)]) > 0
      /\ \A q \in 1 .. Len(blocks) : Good(blocks[q]) /\ Count(blocks[q]) \in Nat
  <2>1. Whole(blocks) /\ blocks \in Seq(Block) /\ blocks # <<>>
    BY DEF IInv, Whole
  <2>2. Len(blocks) \in Nat /\ Len(blocks) >= 1
    BY <2>1
  <2> QED BY <2>1, <2>2, GoodIs DEF IInv, Whole
<1>2. \A e : e \in entries <=> \E p, i : Used(blocks, p, i) /\ e = Item(blocks, p, i)
  BY <1>1, PlacesAre
<1>3. Used(blocks, 1, 0) /\ Used(blocks, 1, 1)
  <2>1. 1 \in 1 .. Len(blocks) /\ Count(blocks[1]) \in Nat
    BY <1>1
  <2> QED BY <2>1, <1>1 DEF Used
<1>4. ASSUME NEW p, NEW i, Used(blocks, p, i), ~(p = 1 /\ (i = 0 \/ i = 1))
      PROVE  ~ \A e \in entries : e.name \in {dot, dotdot}
  <2>1. NameAt(blocks[p], i) # dot /\ NameAt(blocks[p], i) # dotdot
    BY <1>1, <1>3, <1>4 DEF Whole, Unique
  <2>2. Item(blocks, p, i).name = NameAt(blocks[p], i)
    BY DEF Item
  <2> QED BY <2>1, <2>2, <1>2, <1>4
<1>5. 1 \in 1 .. Len(blocks) /\ Good(blocks[1]) /\ Count(blocks[1]) \in Nat
  BY <1>1
<1>6. CASE Len(blocks) > 1
  <2>1. Used(blocks, Len(blocks), 0)
    BY <1>1, <1>6 DEF Used
  <2>2. Len(blocks) # 1
    BY <1>1, <1>6
  <2> QED BY <2>1, <2>2, <1>4
<1>7. CASE Len(blocks) = 1 /\ blocks[1].numbers[2] # INO_EOF
  <2>1. Count(blocks[1]) > 2
    <3>1. ~(2 \in Count(blocks[1]) .. E - 1)
      BY <1>5, <1>7, GoodIs
    <3> QED BY <3>1, <1>5, Constants
  <2>2. Used(blocks, 1, 2)
    BY <2>1, <1>5 DEF Used
  <2> QED BY <2>2, <1>4, <1>7
<1>8. CASE Len(blocks) = 1 /\ blocks[1].numbers[2] = INO_EOF
  <2>1. ~(2 \in 0 .. Count(blocks[1]) - 1)
    BY <1>5, <1>8, GoodIs, Constants
  <2>2. \A p, i : Used(blocks, p, i) => p = 1 /\ (i = 0 \/ i = 1)
    BY <2>1, <1>5, <1>8 DEF Used
  <2>3. \A p, i : Used(blocks, p, i) => Item(blocks, p, i).name \in {dot, dotdot}
    BY <2>2, <1>1 DEF Item
  <2> QED BY <2>3, <1>2, <1>8
<1>9. Len(blocks) > 1 \/ Len(blocks) = 1
  <2>1. Len(blocks) \in Nat /\ Len(blocks) >= 1
    BY <1>1
  <2> QED BY <2>1
<1> QED BY <1>6, <1>7, <1>8, <1>9

(* dir_destroy tells an empty directory from one that is not. *)
LEMMA DestroyStep ==
  ASSUME IInv, dir_destroy
  PROVE  IInv' /\ Map!Destroy /\ UNCHANGED blocks
<1> DEFINE empty == \A e \in entries : e.name \in {dot, dotdot}
<1>1. empty <=> Len(blocks) = 1 /\ blocks[1].numbers[2] = INO_EOF
  BY EmptyIs
<1>2. Len(blocks) > 1 <=> Len(blocks) # 1
  <2>1. blocks \in Seq(Block) /\ blocks # <<>>
    BY DEF IInv, Whole
  <2>2. Len(blocks) \in Nat /\ Len(blocks) >= 1
    BY <2>1
  <2>3. \A n \in Nat : n >= 1 => (n > 1 <=> n # 1)
    OBVIOUS
  <2> QED BY <2>2, <2>3
<1> HIDE DEF empty
<1>3. /\ blocks' = blocks /\ entries' = entries
      /\ dead' = (dead \/ empty)
      /\ ret' = IF dead THEN ENOENT ELSE IF empty THEN 0 ELSE ENOTEMPTY
  <2>1. CASE dead
    BY <2>1 DEF dir_destroy, Fail, IInv
  <2>2. CASE ~dead /\ ~empty
    BY <2>2, <1>1, <1>2 DEF dir_destroy, Fail, IInv
  <2>3. CASE ~dead /\ empty
    BY <2>3, <1>1, <1>2 DEF dir_destroy, Return, IInv
  <2> QED BY <2>1, <2>2, <2>3
<1>4. IInv'
  BY <1>3 DEF IInv
<1> QED BY <1>3, <1>4
        DEF Map!Destroy, Map!ENOENT, ENOENT, Map!ENOTEMPTY, ENOTEMPTY, empty

(* dir_reparent writes the number of "..". *)
LEMMA ReparentStep ==
  ASSUME IInv, NEW ino \in Inodes, dir_reparent(ino)
  PROVE  IInv' /\ Map!Reparent(ino) /\ Moved(blocks, blocks')
<1>1. CASE dead
  BY <1>1, Unmoved DEF dir_reparent, Fail, IInv, Map!Reparent, Map!ENOENT, ENOENT
<1>2. CASE ~dead
  <2> DEFINE bs == blocks
             b == blocks[1]
             b2 == [b EXCEPT !.numbers[0] = ino]
             bs2 == [blocks EXCEPT ![1] = b2]
  <2>1. /\ Whole(bs) /\ bs \in Seq(Block) /\ Unique(bs)
        /\ Len(bs) \in Nat /\ Len(bs) >= 1 /\ entries = Entries(bs)
        /\ Count(bs[1]) >= 2 /\ NameAt(bs[1], 0) = dotdot /\ NameAt(bs[1], 1) = dot
        /\ Count(bs[Len(bs)]) > 0
        /\ \A q \in 1 .. Len(bs) : Good(bs[q])
        /\ b \in Block /\ Good(b) /\ 0 \in 0 .. Count(b) - 1
    <3>1. Whole(bs) /\ bs \in Seq(Block) /\ bs # <<>>
      BY DEF IInv, Whole
    <3>2. Len(bs) \in Nat /\ Len(bs) >= 1
      BY <3>1
    <3>3. Good(b) /\ Count(b) \in Nat /\ Count(b) >= 2
      BY <3>1, <3>2, GoodIs DEF Whole
    <3> QED BY <3>1, <3>2, <3>3 DEF IInv, Whole
  <2>2. blocks' = bs2 /\ dead' = dead /\ ret' = 0 /\ entries' = Entries(bs2)
    BY <1>2 DEF dir_reparent, Return
  <2>3. /\ b2 \in Block /\ Good(b2) /\ Count(b2) = Count(b)
        /\ \A j \in 0 .. Count(b) - 1 :
             /\ NameAt(b2, j) = NameAt(b, j)
             /\ b2.numbers[j] = IF j = 0 THEN ino ELSE b.numbers[j]
    BY <2>1, RenumberGood
  <2> HIDE DEF b2
  <2>4. /\ bs2 \in Seq(Block) /\ Len(bs2) = Len(bs) /\ bs2[1] = b2 /\ bs[1] = b
        /\ \A q \in 1 .. Len(bs) : q # 1 => bs2[q] = bs[q]
    BY <2>1, <2>3
  <2> HIDE DEF bs2, bs, b
  <2>5. \A q, j : Used(bs2, q, j) <=> Used(bs, q, j)
    <3>1. \A q \in 1 .. Len(bs) : Count(bs2[q]) = Count(bs[q])
      BY <2>3, <2>4
    <3> QED BY <3>1, <2>4 DEF Used
  <2>6. \A q, j : Used(bs, q, j) =>
          /\ NameAt(bs2[q], j) = NameAt(bs[q], j)
          /\ bs2[q].numbers[j] = IF q = 1 /\ j = 0 THEN ino ELSE bs[q].numbers[j]
    <3>1. ASSUME NEW q, NEW j, Used(bs, q, j)
          PROVE  /\ NameAt(bs2[q], j) = NameAt(bs[q], j)
                 /\ bs2[q].numbers[j] = IF q = 1 /\ j = 0 THEN ino ELSE bs[q].numbers[j]
      <4>1. CASE q = 1
        BY <3>1, <4>1, <2>3, <2>4 DEF Used
      <4>2. CASE q # 1
        BY <3>1, <4>2, <2>4 DEF Used
      <4> QED BY <4>1, <4>2
    <3> QED BY <3>1
  <2>7. Used(bs, 1, 0) /\ Used(bs, 1, 1)
    <3>1. 1 \in 1 .. Len(bs) /\ Count(bs[1]) \in Nat
      BY <2>1, <2>4, GoodIs
    <3>2. 1 \in 0 .. Count(bs[1]) - 1 /\ 0 \in 0 .. Count(bs[1]) - 1
      BY <3>1, <2>1
    <3> QED BY <3>1, <3>2 DEF Used
  <2>8. \A q, j : Used(bs, q, j) => (NameAt(bs[q], j) = dotdot <=> q = 1 /\ j = 0)
    BY <2>1, <2>7 DEF Unique
  <2>9. Entries(bs2) = {e \in Entries(bs) : e.name # dotdot}
                         \cup {[name |-> dotdot, ino |-> ino]}
    <3>1. /\ \A e : e \in Entries(bs) <=> \E q, j : Used(bs, q, j) /\ e = Item(bs, q, j)
          /\ \A e : e \in Entries(bs2) <=> \E q, j : Used(bs, q, j) /\ e = Item(bs2, q, j)
      BY <2>1, <2>4, <2>5, PlacesAre
    <3>2. Item(bs2, 1, 0) = [name |-> dotdot, ino |-> ino]
      BY <2>1, <2>6, <2>7 DEF Item
    <3>3. \A q, j : Used(bs, q, j) /\ ~(q = 1 /\ j = 0) =>
                      Item(bs2, q, j) = Item(bs, q, j) /\ Item(bs, q, j).name # dotdot
      BY <2>6, <2>8 DEF Item
    <3>4. Item(bs, 1, 0).name = dotdot
      BY <2>1 DEF Item
    <3>5. ASSUME NEW e \in Entries(bs2)
          PROVE  e \in {f \in Entries(bs) : f.name # dotdot}
                         \cup {[name |-> dotdot, ino |-> ino]}
      <4>1. PICK q, j : Used(bs, q, j) /\ e = Item(bs2, q, j)
        BY <3>1
      <4>2. CASE q = 1 /\ j = 0
        BY <4>1, <4>2, <3>2
      <4>3. CASE ~(q = 1 /\ j = 0)
        BY <4>1, <4>3, <3>1, <3>3
      <4> QED BY <4>2, <4>3
    <3>6. ASSUME NEW e \in Entries(bs), e.name # dotdot PROVE e \in Entries(bs2)
      <4>1. PICK q, j : Used(bs, q, j) /\ e = Item(bs, q, j)
        BY <3>1
      <4>2. ~(q = 1 /\ j = 0)
        BY <4>1, <3>4, <3>6
      <4> QED BY <4>1, <4>2, <3>1, <3>3
    <3>7. [name |-> dotdot, ino |-> ino] \in Entries(bs2)
      BY <3>1, <3>2, <2>7
    <3> QED BY <3>5, <3>6, <3>7
  <2>10. Whole(bs2)
    <3>1. Unique(bs2)
      BY <2>1, <2>5, <2>6 DEF Unique
    <3>2. NameAt(bs2[1], 0) = dotdot /\ NameAt(bs2[1], 1) = dot
      BY <2>1, <2>6, <2>7
    <3>3. \A q \in 1 .. Len(bs2) : Good(bs2[q]) /\ Count(bs2[q]) = Count(bs[q])
      BY <2>1, <2>3, <2>4
    <3>4. 1 \in 1 .. Len(bs2) /\ Len(bs2) \in 1 .. Len(bs2) /\ bs2 # <<>>
      BY <2>1, <2>4
    <3>5. Count(bs2[1]) >= 2 /\ Count(bs2[Len(bs2)]) > 0
      BY <3>3, <3>4, <2>1, <2>4
    <3> QED BY <3>1, <3>2, <3>3, <3>4, <3>5, <2>4 DEF Whole
  <2>11. IInv'
    BY <2>2, <2>10 DEF IInv
  <2>12. Moved(bs, bs2)
    BY <2>5, <2>6, Unmoved
  <2> QED BY <1>2, <2>1, <2>2, <2>9, <2>11, <2>12 DEF Map!Reparent, Map!Entry, bs
<1> QED BY <1>1, <1>2

-----------------------------------------------------------------------------
(* dir_insert, in its outcomes. *)
LEMMA InsertAny ==
  ASSUME IInv, NEW name \in Names, NEW ino \in Inodes, dir_insert(name, ino)
  PROVE  /\ IInv' /\ (Map!Insert(name, ino) \/ Map!InsertFails(name))
         /\ Moved(blocks, blocks')
<1>0. UNCHANGED blocks => Moved(blocks, blocks')
  BY Unmoved
<1>1. CASE dead /\ Fail(ENOENT)
  BY <1>0, <1>1 DEF Fail, IInv, Map!InsertFails, Map!ENOENT, ENOENT
<1>2. CASE ~dead /\ Matches(blocks, name) # {} /\ Fail(EEXIST)
  BY <1>0, <1>2, HasIs DEF Fail, IInv, Map!InsertFails, Map!EEXIST, EEXIST
<1>3. CASE /\ ~dead /\ Matches(blocks, name) = {} /\ Roomy(blocks, name) # {}
           /\ InsertIntoBlock(BestBlock(blocks, Roomy(blocks, name)), name, ino)
  <2>1. Whole(blocks)
    BY DEF IInv
  <2> QED BY <2>1, <1>3, BestBlockHasRoom, InsertStep
<1>4. CASE ~dead /\ Matches(blocks, name) = {} /\ InsertAppends(name, ino)
  <2>1. CASE Return(Append(blocks, Put(EmptyBlock, 0, 0, name, ino)), dead, 0)
    BY <1>4, <2>1, AppendStep
  <2>2. CASE Fail(ENOSPC)
    BY <1>0, <1>4, <2>2, HasIs DEF Fail, IInv, Map!InsertFails, Map!ENOSPC, ENOSPC
  <2> QED BY <1>4, <2>1, <2>2 DEF InsertAppends
<1> QED BY <1>1, <1>2, <1>3, <1>4 DEF dir_insert

(* dir_remove, in its outcomes. *)
LEMMA RemoveAny ==
  ASSUME IInv, NEW name \in Names, dir_remove(name)
  PROVE  /\ IInv' /\ (Map!Remove(name) \/ Map!RemoveFails(name))
         /\ Moved(blocks, blocks')
<1> USE DEF Map!RemoveFails, Fail
<1>0. UNCHANGED blocks => Moved(blocks, blocks')
  BY Unmoved
<1>1. CASE dead /\ Fail(ENOENT)
  BY <1>0, <1>1 DEF IInv, Map!ENOENT, ENOENT
<1>2. CASE ~dead /\ name = dot /\ Fail(EINVAL)
  BY <1>0, <1>2 DEF IInv, Map!EINVAL, EINVAL
<1>3. CASE ~dead /\ name = dotdot /\ Fail(ENOTEMPTY)
  <2>1. Len(dot) = 1 /\ Len(dotdot) = 2
    BY DirAssumption
  <2>2. dot # dotdot
    BY <2>1
  <2> QED BY <1>0, <1>3, <2>2 DEF IInv, Map!ENOTEMPTY, ENOTEMPTY
<1>4. CASE ~dead /\ name \notin {dot, dotdot} /\ Matches(blocks, name) = {} /\ Fail(ENOENT)
  BY <1>0, <1>4, HasIs DEF IInv, Map!ENOENT, ENOENT
<1>5. CASE /\ ~dead /\ name \notin {dot, dotdot} /\ Matches(blocks, name) # {}
           /\ RemoveEntry(First(Matches(blocks, name)), name)
  BY <1>5, RemoveStep
<1> QED BY <1>1, <1>2, <1>3, <1>4, <1>5 DEF dir_remove

(* Every step keeps the invariant, and is one of the abstract directory. *)
LEMMA StepKeeps ==
  ASSUME IInv, [Next]_dirVars
  PROVE  IInv' /\ [Map!Next]_(Map!directory) /\ Moved(blocks, blocks')
<1>1. ASSUME NEW name \in Names, dir_lookup(name) PROVE IInv' /\ Map!Next /\ Moved(blocks, blocks')
  BY <1>1, LookupStep, Unmoved DEF Map!Next
<1>2. ASSUME NEW name \in Names, dir_remove(name) PROVE IInv' /\ Map!Next /\ Moved(blocks, blocks')
  BY <1>2, RemoveAny DEF Map!Next
<1>3. ASSUME NEW name \in Names, NEW ino \in Inodes, dir_insert(name, ino)
      PROVE  IInv' /\ Map!Next /\ Moved(blocks, blocks')
  BY <1>3, InsertAny DEF Map!Next
<1>4. CASE dir_destroy
  BY <1>4, DestroyStep, Unmoved DEF Map!Next
<1>5. ASSUME NEW ino \in Inodes, dir_reparent(ino) PROVE IInv' /\ Map!Next /\ Moved(blocks, blocks')
  BY <1>5, ReparentStep DEF Map!Next
<1>6. CASE UNCHANGED dirVars
  BY <1>6, Unmoved DEF dirVars, IInv, Map!directory
<1> QED BY <1>1, <1>2, <1>3, <1>4, <1>5, <1>6 DEF Next

(* Whatever dir_insert, dir_remove, dir_destroy and dir_reparent do, every *)
(* block stays laid out as the code reads it, no name is there twice, the  *)
(* first block begins with the names dir_create wrote, and the last block  *)
(* is not empty (dir.c:65-272).                                            *)
THEOREM DirInvariant == Spec => []IInv
BY Initial, StepKeeps, PTL DEF Spec

(* The blocks hold inode numbers and bytes, at least one block is there,   *)
(* and what the search loops of dir.c read in them are names that callers  *)
(* gave to dir_insert.                                                     *)
THEOREM DirTypes == Spec => []TypeOK
<1>1. IInv => TypeOK
  <2> SUFFICES ASSUME IInv PROVE TypeOK
    OBVIOUS
  <2>1. Whole(blocks) /\ blocks \in Seq(Block) /\ blocks # <<>>
    BY DEF IInv, Whole
  <2>2. ASSUME NEW e \in entries PROVE e.name \in Names /\ e.ino \in Inodes
    <3>1. PICK p, i : Used(blocks, p, i) /\ e = Item(blocks, p, i)
      BY <2>1, PlacesAre DEF IInv
    <3>2. Good(blocks[p]) /\ i \in 0 .. Count(blocks[p]) - 1
      BY <2>1, <3>1 DEF Whole, Used
    <3>3. NameAt(blocks[p], i) \in Names /\ blocks[p].numbers[i] \in Inodes
      BY <3>2, GoodIs
    <3> QED BY <3>1, <3>3 DEF Item
  <2> QED BY <2>1, <2>2 DEF TypeOK, IInv
<1> QED BY <1>1, DirInvariant, PTL

(* The blocks stay compacted (dir.c:26): the memmoves and the clearing in  *)
(* dir_remove leave nothing but zeros behind the last name, which          *)
(* dir_insert relies on when it writes a name without its zero.            *)
THEOREM DirCompacted == Spec => []Compacted
<1>1. IInv => Compacted
  <2> SUFFICES ASSUME IInv, NEW p \in DOMAIN blocks
               PROVE  LET b == blocks[p]
                          used == Count(b)
                          free == FreeOff(b)
                      IN  /\ \A i \in Slots : i >= used => b.numbers[i] = INO_EOF
                          /\ \A k \in Table : k >= free => b.names[k] = 0
                          /\ free <= NS
    BY DEF Compacted
  <2> DEFINE b == blocks[p]
  <2>1. Good(b)
    BY DEF IInv, Whole
  <2> HIDE DEF b
  <2>2. /\ Count(b) \in Nat /\ FreeOff(b) \in 0 .. NS
        /\ \A i \in Count(b) .. E - 1 : b.numbers[i] = INO_EOF
        /\ \A k \in FreeOff(b) .. NS - 1 : b.names[k] = 0
    BY <2>1, GoodIs
  <2>3. /\ \A i \in Slots : i >= Count(b) => i \in Count(b) .. E - 1
        /\ \A k \in Table : k >= FreeOff(b) => k \in FreeOff(b) .. NS - 1
        /\ FreeOff(b) <= NS
    BY <2>2, Constants DEF Slots, Table
  <2> QED BY <2>2, <2>3 DEF b
<1> QED BY <1>1, DirInvariant, PTL

(* The last block is never empty, so that more than one block means an     *)
(* entry to dir_destroy (dir.c:78): dir_remove truncates the last block    *)
(* away with all the empty ones before it.                                 *)
THEOREM DirLastBlock == Spec => []LastBlockInUse
<1>1. IInv => LastBlockInUse
  BY DEF IInv, Whole, LastBlockInUse
<1> QED BY <1>1, DirInvariant, PTL

(* Nobody is in the directory twice: dir_insert searches all the blocks    *)
(* before it chooses one.                                                  *)
THEOREM DirNamesUnique == Spec => []NamesUnique
<1>1. IInv => NamesUnique
  <2> SUFFICES ASSUME IInv, NEW name \in Names
               PROVE  Cardinality(Matches(blocks, name)) <= 1
    BY DEF NamesUnique
  <2>1. CASE Matches(blocks, name) = {}
    BY <2>1, FS_EmptySet
  <2>2. CASE Matches(blocks, name) # {}
    <3>1. PICK p, i : Matches(blocks, name) = {<<p, i>>}
      BY <2>2, Searched DEF IInv
    <3>2. Cardinality({<<p, i>>}) = 1
      BY FS_Singleton
    <3> QED BY <3>1, <3>2
  <2> QED BY <2>1, <2>2
<1> QED BY <1>1, DirInvariant, PTL

(* The blocks implement the map from names to inode numbers: what          *)
(* dir_lookup returns, and what dir_insert, dir_remove, dir_destroy and    *)
(* dir_reparent change and return, is what the abstract directory says,    *)
(* whichever block an entry is in and however full it is.                  *)
THEOREM DirRefinesDirectory == Spec => ImplementsDirectory
BY Initial, StepKeeps, DirInvariant, PTL DEF Spec, ImplementsDirectory, Map!Spec

-----------------------------------------------------------------------------
(* The listing has gone past a place: the offset is behind it. *)
Passed(o, p, i) == p < o \div E + 1 \/ (p = o \div E + 1 /\ i < o % E)

(* Until something is removed, the listing has reported what it has gone   *)
(* past; and it has gone past what it reported, whatever happens.          *)
ScanInv ==
  /\ IInv
  /\ offset \in Nat
  /\ done \in BOOLEAN
  /\ seen \subseteq steady /\ steady \subseteq NamesIn(entries)
  /\ \A p, i : Used(blocks, p, i) /\ NameAt(blocks[p], i) \in seen => Passed(offset, p, i)
  /\ ~shrunk => \A p, i :
       Used(blocks, p, i) /\ Passed(offset, p, i) /\ NameAt(blocks[p], i) \in steady =>
         NameAt(blocks[p], i) \in seen
  /\ ~twice
  /\ done /\ ~shrunk => seen = steady

(* Slots and blocks, as the arithmetic needs them. *)
LEMMA PlaceIs ==
  ASSUME NEW bs, Whole(bs), NEW p, NEW i, Used(bs, p, i)
  PROVE  /\ p \in Nat \ {0} /\ i \in 0 .. E - 1 /\ i \in Slots /\ p \in DOMAIN bs
         /\ \A j \in 0 .. i : Used(bs, p, j) /\ bs[p].numbers[j] # INO_EOF
<1>1. /\ Good(bs[p]) /\ bs \in Seq(Block) /\ p \in 1 .. Len(bs)
      /\ i \in 0 .. Count(bs[p]) - 1
  BY DEF Whole, Used
<1>2. /\ Count(bs[p]) \in Nat
      /\ \A j \in 0 .. Count(bs[p]) - 1 : bs[p].numbers[j] \in Inodes /\ j \in Slots
  BY <1>1, GoodIs
<1>3. \A j \in 0 .. i : j \in 0 .. Count(bs[p]) - 1
  BY <1>1, <1>2
<1>4. i \in Slots /\ i \in 0 .. E - 1
  BY <1>1, <1>2 DEF Slots
<1>5. \A j \in 0 .. i : Used(bs, p, j) /\ bs[p].numbers[j] # INO_EOF
  BY <1>1, <1>2, <1>3, Constants DEF Used
<1>6. p \in Nat \ {0} /\ p \in DOMAIN bs
  BY <1>1
<1> QED BY <1>4, <1>5, <1>6

(* A slot that has a number is one the loops reach. *)
LEMMA NumberIsUsed ==
  ASSUME NEW bs, Whole(bs), NEW p \in DOMAIN bs, NEW i \in Slots, bs[p].numbers[i] # INO_EOF
  PROVE  Used(bs, p, i)
<1>1. Good(bs[p]) /\ p \in 1 .. Len(bs)
  BY DEF Whole
<1>2. Count(bs[p]) \in Nat /\ \A j \in Count(bs[p]) .. E - 1 : bs[p].numbers[j] = INO_EOF
  BY <1>1, GoodIs
<1>3. i \in 0 .. Count(bs[p]) - 1
  BY <1>2, Constants DEF Slots
<1> QED BY <1>1, <1>3 DEF Used

(* The offset dir_enumerate returns: it is behind the entry it returned,   *)
(* and nothing else, also at the end of a block.                           *)
LEMMA OffsetBehind ==
  ASSUME NEW p \in Nat \ {0}, NEW i \in 0 .. E - 1, NEW a \in Nat, NEW j \in 0 .. E - 1
  PROVE  LET o == i + (p - 1) * E + 1
         IN  o \in Nat /\ (Passed(o, a, j) <=> a < p \/ (a = p /\ j <= i))
<1> DEFINE o == i + (p - 1) * E + 1
<1>0. E \in Nat \ {0}
  BY Constants
<1>1. o \in Nat /\ o = E * (p - 1) + (i + 1)
  BY <1>0
<1> HIDE DEF o
<1> DEFINE q == o \div E
           r == o % E
<1>2. q \in Nat /\ r \in 0 .. E - 1 /\ o = E * q + r
  BY <1>0, <1>1, DivMod
<1> HIDE DEF q, r
<1>3. CASE i + 1 < E
  <2>1. p - 1 \in Nat /\ i + 1 \in 0 .. E - 1
    BY <1>0, <1>3
  <2>2. E * q + r = E * (p - 1) + (i + 1)
    BY <1>1, <1>2
  <2>3. q = p - 1 /\ r = i + 1
    BY ONLY <1>0, <1>2, <2>1, <2>2, DivisionUnique
  <2> QED BY <2>3, <1>0, <1>1 DEF Passed, q, r, o
<1>4. CASE i + 1 = E
  <2>1. E * (p - 1) + E = E * p
    BY <1>0
  <2>2. E * q + r = E * p + 0
    BY <1>0, <1>1, <1>2, <1>4, <2>1
  <2>3. q = p /\ r = 0
    <3>1. p \in Nat /\ 0 \in 0 .. E - 1
      BY <1>0
    <3> QED BY ONLY <1>0, <1>2, <3>1, <2>2, DivisionUnique
  <2> QED BY <2>3, <1>0, <1>1, <1>4 DEF Passed, q, r, o
<1> QED BY <1>0, <1>3, <1>4

(* What dir_enumerate looks at is in use, and not yet passed. *)
LEMMA LookedAt ==
  ASSUME IInv, offset \in Nat, NEW m \in ToLookAt
  PROVE  /\ Used(blocks, m[1], m[2]) /\ m = <<m[1], m[2]>>
         /\ m[1] \in Nat /\ m[2] \in Nat
         /\ \A a \in Nat, j \in Nat : Passed(offset, a, j) =>
              a < m[1] \/ (a = m[1] /\ j < m[2])
<1> DEFINE q == offset \div E
           r == offset % E
<1>1. q \in Nat /\ r \in 0 .. E - 1 /\ E \in Nat /\ E >= 1
  <2>1. E \in Nat \ {0} /\ E \in Nat /\ E >= 1
    BY Constants
  <2> QED BY <2>1, DivMod
<1>2. /\ m \in (DOMAIN blocks) \X Slots
      /\ m = <<q + 1, r>> \/ (m[1] > q + 1 /\ m[2] = 0)
      /\ blocks[m[1]].numbers[m[2]] # INO_EOF
  BY DEF ToLookAt
<1>3. m[1] \in DOMAIN blocks /\ m[2] \in Slots /\ m = <<m[1], m[2]>>
  BY <1>2
<1>4. Used(blocks, m[1], m[2])
  BY <1>2, <1>3, NumberIsUsed DEF IInv
<1>5. m[1] \in Nat /\ m[2] \in Nat
  BY <1>4, PlaceIs DEF IInv
<1>6. ASSUME NEW a \in Nat, NEW j \in Nat, Passed(offset, a, j)
      PROVE  a < m[1] \/ (a = m[1] /\ j < m[2])
  <2>1. a < q + 1 \/ (a = q + 1 /\ j < r)
    BY <1>6 DEF Passed
  <2> HIDE DEF q, r
  <2>2. CASE m = <<q + 1, r>>
    <3>1. m[1] = q + 1 /\ m[2] = r
      BY <2>2
    <3> QED BY <2>1, <3>1
  <2>3. CASE m[1] > q + 1 /\ m[2] = 0
    BY <2>1, <2>3, <1>1, <1>5
  <2> QED BY <1>2, <2>2, <2>3 DEF q, r
<1> QED BY <1>3, <1>4, <1>5, <1>6

(* It looks at a place in every block with an entry it has not passed,     *)
(* and not behind that entry.                                              *)
LEMMA NoneLeftOut ==
  ASSUME IInv, offset \in Nat, NEW a, NEW j, Used(blocks, a, j), ~Passed(offset, a, j)
  PROVE  \E k \in 0 .. j : <<a, k>> \in ToLookAt
<1> DEFINE q == offset \div E
           r == offset % E
<1>1. q \in Nat /\ r \in 0 .. E - 1
  BY Constants, DivMod
<1>2. /\ a \in Nat \ {0} /\ j \in 0 .. E - 1 /\ a \in DOMAIN blocks /\ E \in Nat
      /\ \A k \in 0 .. j : blocks[a].numbers[k] # INO_EOF
  BY PlaceIs, Constants DEF IInv
<1>3. ~(a < q + 1 \/ (a = q + 1 /\ j < r))
  BY DEF Passed
<1>4. \A k \in 0 .. j : k \in Slots /\ <<a, k>> \in (DOMAIN blocks) \X Slots
  BY <1>2 DEF Slots
<1>5. \A k \in 0 .. j : (a = q + 1 /\ k = r) \/ (a > q + 1 /\ k = 0) =>
                          <<a, k>> \in ToLookAt
  BY <1>2, <1>4 DEF ToLookAt
<1> HIDE DEF q, r
<1>6. CASE a = q + 1
  <2>1. r \in 0 .. j
    BY <1>1, <1>2, <1>3, <1>6
  <2> QED BY <2>1, <1>5, <1>6
<1>7. CASE a # q + 1
  <2>1. a > q + 1 /\ 0 \in 0 .. j
    BY <1>1, <1>2, <1>3, <1>7
  <2> QED BY <2>1, <1>5
<1> QED BY <1>6, <1>7

(* The first of the places it looks at, and what the new offset is behind. *)
LEMMA FirstLookedAt ==
  ASSUME IInv, offset \in Nat, ToLookAt # {}
  PROVE  LET m == First(ToLookAt)
             o == m[2] + (m[1] - 1) * E + 1
         IN  /\ o \in Nat
             /\ Used(blocks, m[1], m[2]) /\ ~Passed(offset, m[1], m[2])
             /\ \A a, j : Used(blocks, a, j) =>
                  (Passed(o, a, j) <=> Passed(offset, a, j) \/ (a = m[1] /\ j = m[2]))
<1> DEFINE T == ToLookAt
           m == First(T)
           o == m[2] + (m[1] - 1) * E + 1
           IsFirst(x) == \A n \in T : x[1] < n[1] \/ (x[1] = n[1] /\ x[2] <= n[2])
<1>1. \A x \in T : /\ Used(blocks, x[1], x[2]) /\ x = <<x[1], x[2]>>
                   /\ x[1] \in Nat /\ x[2] \in Nat
                   /\ x[2] \in 0 .. E - 1
  BY LookedAt, PlaceIs DEF IInv
<1>2. \E x \in T : IsFirst(x)
  <2> DEFINE A == {x[1] : x \in T}
  <2>1. A \in SUBSET Nat /\ A # {}
    BY <1>1
  <2>2. PICK a \in A : \A n \in A : a <= n
    BY <2>1, Least
  <2> DEFINE B == {y[2] : y \in {z \in T : z[1] = a}}
  <2>3. B \in SUBSET Nat /\ B # {}
    BY <1>1, <2>2
  <2>4. PICK b \in B : \A n \in B : b <= n
    BY <2>3, Least
  <2>5. PICK x \in T : x[1] = a /\ x[2] = b
    BY <2>4
  <2>6. ASSUME NEW n \in T PROVE x[1] < n[1] \/ (x[1] = n[1] /\ x[2] <= n[2])
    <3>1. a <= n[1] /\ a \in Nat /\ n[1] \in Nat
      BY <2>1, <2>2, <1>1
    <3>2. n[1] = a => b <= n[2]
      BY <2>4
    <3> QED BY <3>1, <3>2, <2>5
  <2> QED BY <2>5, <2>6
<1>3. m \in T /\ IsFirst(m)
  BY <1>2 DEF First
<1> HIDE DEF m, T
<1>4. /\ Used(blocks, m[1], m[2])
      /\ m[1] \in Nat \ {0} /\ m[2] \in 0 .. E - 1 /\ m[1] \in Nat /\ m[2] \in Nat
  BY <1>1, <1>3, PlaceIs DEF IInv
<1>5. o \in Nat /\ \A a \in Nat, j \in 0 .. E - 1 :
                     Passed(o, a, j) <=> a < m[1] \/ (a = m[1] /\ j <= m[2])
  BY <1>4, OffsetBehind
<1> HIDE DEF o
<1>6. \A a \in Nat, j \in Nat : Passed(offset, a, j) =>
                                  a < m[1] \/ (a = m[1] /\ j < m[2])
  BY <1>3, LookedAt DEF T
<1>7. ~Passed(offset, m[1], m[2])
  BY <1>4, <1>6
<1>8. ASSUME NEW a, NEW j, Used(blocks, a, j)
      PROVE  Passed(o, a, j) <=> Passed(offset, a, j) \/ (a = m[1] /\ j = m[2])
  <2>1. a \in Nat /\ j \in 0 .. E - 1 /\ j \in Nat
    BY <1>8, PlaceIs DEF IInv
  <2>2. ASSUME Passed(o, a, j), ~Passed(offset, a, j) PROVE a = m[1] /\ j = m[2]
    <3>1. PICK k \in 0 .. j : <<a, k>> \in T
      BY <1>8, <2>2, NoneLeftOut DEF T
    <3>2. m[1] < <<a, k>>[1] \/ (m[1] = <<a, k>>[1] /\ m[2] <= <<a, k>>[2])
      BY <1>3, <3>1
    <3>3. m[1] < a \/ (m[1] = a /\ m[2] <= j)
      BY <3>2, <2>1, <1>4
    <3>4. a < m[1] \/ (a = m[1] /\ j <= m[2])
      BY <2>1, <2>2, <1>5
    <3> QED BY <3>3, <3>4, <2>1, <1>4
  <2>3. ASSUME Passed(offset, a, j) PROVE Passed(o, a, j)
    <3>1. a < m[1] \/ (a = m[1] /\ j <= m[2])
      BY <2>1, <2>3, <1>4, <1>6
    <3> QED BY <3>1, <2>1, <1>5
  <2>4. ASSUME a = m[1], j = m[2] PROVE Passed(o, a, j)
    BY <2>1, <2>4, <1>4, <1>5
  <2> QED BY <2>2, <2>3, <2>4
<1> QED BY <1>4, <1>5, <1>7, <1>8 DEF m, o, T

-----------------------------------------------------------------------------
(* A listing begins before the first entry. *)
LEMMA NothingPassed ==
  ASSUME IInv, NEW p, NEW i, Used(blocks, p, i)
  PROVE  ~Passed(0, p, i)
<1>1. p \in Nat \ {0} /\ i \in 0 .. E - 1
  BY PlaceIs DEF IInv
<1>2. E \in Nat \ {0}
  BY Constants
<1>3. 0 \div E = 0 /\ 0 % E = 0
  <2> DEFINE q == 0 \div E
             r == 0 % E
  <2>1. q \in Nat /\ r \in 0 .. E - 1 /\ 0 = E * q + r /\ 0 \in 0 .. E - 1
    BY <1>2, DivMod
  <2> HIDE DEF q, r
  <2>2. E * q + r = E * 0 + 0
    BY <2>1, <1>2
  <2>3. q = 0 /\ r = 0
    BY ONLY <1>2, <2>1, <2>2, DivisionUnique
  <2> QED BY <2>3 DEF q, r
<1> QED BY <1>1, <1>3 DEF Passed

(* Before any listing. *)
LEMMA ScanInitial ==
  ASSUME ScanInit
  PROVE  ScanInv
<1>1. IInv
  BY Initial DEF ScanInit
<1> QED BY <1>1 DEF ScanInit, ScanInv

(* A new listing has reported nothing and gone past nothing. *)
LEMMA OpendirStep ==
  ASSUME ScanInv, opendir
  PROVE  ScanInv'
<1>1. /\ IInv' /\ offset' = 0 /\ done' = FALSE /\ seen' = {}
      /\ blocks' = blocks /\ entries' = entries
      /\ steady' = NamesIn(entries) /\ twice' = FALSE /\ shrunk' = FALSE
  BY DEF opendir, ScanInv, dirVars, IInv
<1>2. \A p, i : Used(blocks, p, i) => ~Passed(0, p, i)
  BY NothingPassed DEF ScanInv
<1>3. /\ offset' \in Nat /\ done' \in BOOLEAN /\ ~twice' /\ (done' /\ ~shrunk' => seen' = steady')
      /\ seen' \subseteq steady' /\ steady' \subseteq NamesIn(entries')
      /\ \A p, i : ~(NameAt(blocks'[p], i) \in seen')
      /\ \A p, i : Used(blocks', p, i) => ~Passed(offset', p, i)
  BY <1>1, <1>2
<1> QED BY <1>1, <1>3 DEF ScanInv

(* The end: there is nothing behind the offset. *)
LEMMA EndStep ==
  ASSUME ScanInv, dir_enumerate, ToLookAt = {}
  PROVE  ScanInv'
<1>1. /\ IInv' /\ offset' = offset /\ done' = TRUE /\ seen' = seen
      /\ blocks' = blocks /\ entries' = entries
      /\ steady' = steady /\ twice' = twice /\ shrunk' = shrunk
  BY DEF dir_enumerate, ScanInv, dirVars, IInv
<1>2. ASSUME ~shrunk, NEW name \in steady PROVE name \in seen
  <2>1. blocks \in Seq(Block) /\ entries = Entries(blocks)
    BY DEF ScanInv, IInv, Whole
  <2>2. PICK p, i : Used(blocks, p, i) /\ NameAt(blocks[p], i) = name
    BY <2>1, NamesAre DEF ScanInv
  <2>3. Passed(offset, p, i)
    BY <2>2, NoneLeftOut DEF ScanInv
  <2> QED BY <1>2, <2>2, <2>3 DEF ScanInv
<1>3. ~shrunk => seen = steady
  BY <1>2 DEF ScanInv
<1> QED BY <1>1, <1>3 DEF ScanInv

(* One more entry. *)
LEMMA EntryStep ==
  ASSUME ScanInv, dir_enumerate, ToLookAt # {}
  PROVE  ScanInv'
<1> DEFINE m == First(ToLookAt)
           o == m[2] + (m[1] - 1) * E + 1
           name == NameAt(blocks[m[1]], m[2])
<1>1. /\ IInv' /\ offset' = o /\ done' = done /\ ~done
      /\ seen' = seen \cup ({name} \cap steady)
      /\ blocks' = blocks /\ entries' = entries
      /\ steady' = steady /\ twice' = (twice \/ name \in seen) /\ shrunk' = shrunk
  BY DEF dir_enumerate, ScanInv, dirVars, IInv
<1>2. /\ o \in Nat
      /\ Used(blocks, m[1], m[2]) /\ ~Passed(offset, m[1], m[2])
      /\ \A a, j : Used(blocks, a, j) =>
           (Passed(o, a, j) <=> Passed(offset, a, j) \/ (a = m[1] /\ j = m[2]))
  BY FirstLookedAt DEF ScanInv
<1>3. \A a, j : Used(blocks, a, j) =>
                  (NameAt(blocks[a], j) = name <=> a = m[1] /\ j = m[2])
  BY <1>2 DEF ScanInv, IInv, Whole, Unique
<1> HIDE DEF m, o, name
<1>4. name \notin seen
  BY <1>2 DEF ScanInv, name
<1>5. /\ \A p, i : Used(blocks, p, i) /\ NameAt(blocks[p], i) \in seen' => Passed(o, p, i)
      /\ ~shrunk => \A p, i :
           Used(blocks, p, i) /\ Passed(o, p, i) /\ NameAt(blocks[p], i) \in steady =>
             NameAt(blocks[p], i) \in seen'
  BY <1>1, <1>2, <1>3 DEF ScanInv
<1>6. /\ seen' \subseteq steady' /\ steady' \subseteq NamesIn(entries')
      /\ ~twice' /\ ~done' /\ done' \in BOOLEAN /\ offset' \in Nat
  BY <1>1, <1>2, <1>4 DEF ScanInv
<1> QED BY <1>1, <1>5, <1>6 DEF ScanInv

(* Somebody else's operation. *)
LEMMA ChangeStep ==
  ASSUME ScanInv, Change
  PROVE  ScanInv'
<1>1. IInv' /\ Moved(blocks, blocks')
  BY StepKeeps DEF ScanInv, Change
<1>2. CASE done
  <2>1. seen' = {} /\ steady' = {} /\ offset' = 0 /\ twice' = twice /\ done' = done
    BY <1>2 DEF Change
  <2>2. /\ offset' \in Nat /\ done' \in BOOLEAN /\ ~twice'
        /\ seen' \subseteq steady' /\ steady' \subseteq NamesIn(entries')
        /\ \A p, i : /\ NameAt(blocks'[p], i) \notin seen'
                     /\ NameAt(blocks'[p], i) \notin steady'
    BY <2>1 DEF ScanInv
  <2> QED BY <1>1, <2>1, <2>2 DEF ScanInv
<1>3. CASE ~done
  <2>1. /\ seen' = seen \cap NamesIn(entries') /\ steady' = steady \cap NamesIn(entries')
        /\ shrunk' = (shrunk \/ NamesIn(entries) \ NamesIn(entries') # {})
        /\ offset' = offset /\ twice' = twice /\ done' = done
    BY <1>3 DEF Change
  <2>2. entries = Entries(blocks) /\ entries' = Entries(blocks')
    BY <1>1 DEF ScanInv, IInv
  <2>3. /\ offset \in Nat /\ seen \subseteq steady /\ steady \subseteq NamesIn(entries)
        /\ \A p, i : Used(blocks, p, i) /\ NameAt(blocks[p], i) \in seen => Passed(offset, p, i)
        /\ ~shrunk => \A p, i :
             Used(blocks, p, i) /\ Passed(offset, p, i) /\ NameAt(blocks[p], i) \in steady =>
               NameAt(blocks[p], i) \in seen
        /\ IInv
    BY DEF ScanInv
  <2>4. ASSUME NEW p, NEW i, Used(blocks', p, i), NameAt(blocks'[p], i) \in seen'
        PROVE  Passed(offset', p, i)
    <3>1. \/ Used(blocks, p, i) /\ NameAt(blocks[p], i) = NameAt(blocks'[p], i)
          \/ Used(blocks, p, i + 1) /\ NameAt(blocks[p], i + 1) = NameAt(blocks'[p], i)
      BY <1>1, <2>1, <2>2, <2>3, <2>4 DEF Moved
    <3>2. Passed(offset, p, i) \/ Passed(offset, p, i + 1)
      BY <3>1, <2>1, <2>3, <2>4
    <3>3. p \in Nat /\ i \in Nat /\ offset \div E \in Int /\ offset % E \in Int
      <4>1. p \in Nat \ {0} /\ i \in 0 .. E - 1 /\ E \in Nat \ {0}
        BY <1>1, <2>4, PlaceIs, Constants DEF IInv
      <4>2. offset \div E \in Nat /\ offset % E \in 0 .. E - 1
        BY <4>1, <2>3, DivMod
      <4> QED BY <4>1, <4>2
    <3> QED BY <3>2, <3>3, <2>1 DEF Passed
  <2>5. ASSUME ~shrunk', NEW p, NEW i, Used(blocks', p, i), Passed(offset', p, i),
               NameAt(blocks'[p], i) \in steady'
        PROVE  NameAt(blocks'[p], i) \in seen'
    <3>1. Used(blocks, p, i) /\ NameAt(blocks[p], i) = NameAt(blocks'[p], i)
      BY <1>1, <2>1, <2>2, <2>3, <2>5 DEF Moved
    <3> QED BY <3>1, <2>1, <2>3, <2>5
  <2>6. /\ seen' \subseteq steady' /\ steady' \subseteq NamesIn(entries')
        /\ offset' \in Nat /\ done' \in BOOLEAN /\ ~twice' /\ ~done'
    BY <1>3, <2>1, <2>3 DEF ScanInv
  <2> QED BY <1>1, <2>4, <2>5, <2>6 DEF ScanInv
<1> QED BY <1>2, <1>3

(* Every step of the listing and of the others keeps the invariant. *)
LEMMA ScanStepKeeps ==
  ASSUME ScanInv, [ScanNext]_<<dirVars, scanVars>>
  PROVE  ScanInv'
<1>1. CASE UNCHANGED <<dirVars, scanVars>>
  BY <1>1 DEF ScanInv, IInv, dirVars, scanVars
<1> QED BY <1>1, OpendirStep, EndStep, EntryStep, ChangeStep DEF ScanNext

(* Whatever is inserted and removed between the calls of dir_enumerate, it *)
(* has gone past all it reported, and until a removal it has reported all  *)
(* that it has gone past and that was there throughout (dir.c:278).    *)
THEOREM DirScanInvariant == ScanSpec => []ScanInv
BY ScanInitial, ScanStepKeeps, PTL DEF ScanSpec

(* dir_enumerate reports no entry twice that is there throughout the       *)
(* listing: insertions and removals never move an entry from before the    *)
(* offset to behind it.                                                    *)
THEOREM DirScanNoneTwice == ScanSpec => []NoneTwice
<1>1. ScanInv => NoneTwice
  BY DEF ScanInv, NoneTwice
<1> QED BY <1>1, DirScanInvariant, PTL

(* A listing by dir_enumerate during which nothing is removed misses no    *)
(* entry that is there throughout.                                         *)
THEOREM DirScanComplete == ScanSpec => []ScanComplete
<1>1. ScanInv => ScanComplete
  BY DEF ScanInv, ScanComplete
<1> QED BY <1>1, DirScanInvariant, PTL

(* Listing a directory does not disturb it: with a listing between the     *)
(* operations, the blocks still change as the operations alone change      *)
(* them, so that all of the above holds of them.                           *)
THEOREM ScanLeavesDir == ScanSpec => Spec
<1>1. ScanInit => Init
  BY DEF ScanInit
<1>2. [ScanNext]_<<dirVars, scanVars>> => [Next]_dirVars
  BY DEF ScanNext, opendir, dir_enumerate, Change
<1> QED BY <1>1, <1>2, PTL DEF ScanSpec, Spec

=============================================================================
