---------------------------- MODULE InodeProofs ----------------------------
EXTENDS Inode, ListLemmas, FiniteSetTheorems, WellFoundedInduction, TLAPS

(***************************************************************************)
(* Proofs about the inode layer.  The inductive invariant, Valid, says of  *)
(* every inode that its slots hold a forest (Forest: no block twice) that  *)
(* fits its size (FitsAll), that no two inodes hold the same block and     *)
(* none a free one (Apart), and that every block is accounted for          *)
(* (Covers); and of the last operation that it stopped short only for want *)
(* of blocks.                                                              *)
(*                                                                         *)
(* The parts follow the code: what the loops of inode_indirect_grow and    *)
(* inode_indirect_shrink leave, level by level (Grows, Shrinks); the loops *)
(* of inode_setsize over the slots (SetSizeRight); inode_write and         *)
(* inode_truncate (WriteRight, TruncateRight); then the disk with all its  *)
(* inodes, an operation on one of which leaves the others alone (Landed).  *)
(***************************************************************************)

(* A set of numbers has a least one. *)
LEMMA Least ==
  ASSUME NEW S \in SUBSET Nat, S # {}
  PROVE  \E n \in S : \A m \in S : n <= m
<1>1. \E n \in S : \A m \in S : ~(<<m, n>> \in OpToRel(<, Nat))
  BY WFMin, NatLessThanWellFounded
<1>2. PICK n \in S : \A m \in S : ~(<<m, n>> \in OpToRel(<, Nat))
  BY <1>1
<1>3. \A m \in S : ~(m < n)
  BY <1>2 DEF OpToRel
<1> QED BY <1>3

-----------------------------------------------------------------------------
(* The recursions of the code, one level down and one round on. *)
GrowOne(r, i, level, cur, old, new) ==
  LET sub == indirect_count(level - 1)
  IN  IF i \in FirstChild(cur, sub, old) .. LastChild(cur, sub, new) /\ r.ok
      THEN WithChild(r, i, inode_indirect_grow(r.st, r.data[i], cur + sub * i,
                                               level - 1, old, new))
      ELSE r

ShrinkOne(r, i, level, cur, old, new) ==
  LET sub == indirect_count(level - 1)
  IN  IF i \in FirstChild(cur, sub, new) .. LastChild(cur, sub, old)
      THEN WithoutChild(r, i, inode_indirect_shrink(r.st, r.data[i], cur + sub * i,
                                                    level - 1, old, new))
      ELSE r

(* The states of the loop over the children that grow. *)
GrowRun(start, level, cur, old, new) ==
  CHOOSE f : f = [i \in 0 .. W |-> IF i = 0 THEN start ELSE GrowOne(f[i - 1], i - 1, level, cur, old, new)]

(* The run of the growing loop exists: it is the recursive function of     *)
(* GrowChildren.                                                           *)
LEMMA GrowRunIs ==
  ASSUME NEW start, NEW level, NEW cur, NEW old, NEW new
  PROVE  LET f == GrowRun(start, level, cur, old, new)
         IN  /\ f = [i \in 0 .. W |-> f[i]] /\ f[0] = start
             /\ \A i \in 1 .. W : f[i] = GrowOne(f[i - 1], i - 1, level, cur, old, new)
<1> DEFINE P(f, m) == /\ f[0] = start
                      /\ \A i \in 1 .. m : f[i] = GrowOne(f[i - 1], i - 1, level, cur, old, new)
           S == {m \in Nat : ~\E f : P(f, m)}
<1>1. S = {}
  <2> SUFFICES ASSUME S # {} PROVE FALSE
    OBVIOUS
  <2>1. PICK m \in S : \A k \in S : m <= k
    BY Least
  <2>2. m # 0
    <3> DEFINE f == [i \in {0} |-> start]
    <3>1. P(f, 0)
      OBVIOUS
    <3> QED BY <3>1
  <2>3. m - 1 \in Nat /\ m - 1 \notin S
    BY <2>1, <2>2
  <2>4. PICK f : P(f, m - 1)
    BY <2>3
  <2> DEFINE g == [i \in 0 .. m |-> IF i = m THEN GrowOne(f[m - 1], m - 1, level, cur, old, new) ELSE f[i]]
  <2>5. P(g, m)
    <3>1. /\ g[0] = f[0] /\ g[m] = GrowOne(f[m - 1], m - 1, level, cur, old, new)
          /\ \A i \in 0 .. m - 1 : g[i] = f[i]
      BY <2>3
    <3> HIDE DEF g
    <3>2. ASSUME NEW i \in 1 .. m PROVE g[i] = GrowOne(g[i - 1], i - 1, level, cur, old, new)
      <4>1. CASE i = m
        BY <4>1, <3>1, <2>3
      <4>2. CASE i # m
        <5>1. i \in 1 .. m - 1 /\ i - 1 \in 0 .. m - 1 /\ i \in 0 .. m - 1
          BY <4>2, <2>3
        <5> QED BY <5>1, <3>1, <2>4
      <4> QED BY <4>1, <4>2
    <3> QED BY <3>1, <3>2, <2>4
  <2> QED BY <2>1, <2>5
<1>2. W \in Nat
  BY InodeAssumption
<1>3. PICK h : P(h, W)
  BY <1>1, <1>2
<1> DEFINE Eq(f) == f = [i \in 0 .. W |-> IF i = 0 THEN start ELSE GrowOne(f[i - 1], i - 1, level, cur, old, new)]
           k == [i \in 0 .. W |-> h[i]]
           F == CHOOSE f : Eq(f)
<1>4. Eq(k)
  <2>1. k[0] = start /\ \A i \in 1 .. W : k[i] = GrowOne(k[i - 1], i - 1, level, cur, old, new)
    BY <1>2, <1>3
  <2>2. \A i \in 0 .. W : k[i] = IF i = 0 THEN start ELSE GrowOne(k[i - 1], i - 1, level, cur, old, new)
    BY <2>1
  <2>3. k = [i \in 0 .. W |-> k[i]]
    OBVIOUS
  <2> HIDE DEF k
  <2> QED BY <2>2, <2>3
<1>5. Eq(F)
  BY <1>4
<1> HIDE DEF F
<1>6. \A i \in 0 .. W : F[i] = IF i = 0 THEN start ELSE GrowOne(F[i - 1], i - 1, level, cur, old, new)
  BY <1>5
<1>7. F[0] = start /\ \A i \in 1 .. W : F[i] = GrowOne(F[i - 1], i - 1, level, cur, old, new)
  BY <1>2, <1>6
<1>8. F = [i \in 0 .. W |-> F[i]]
  BY <1>5
<1> QED BY <1>7, <1>8 DEF GrowRun, F

(* The states of the loop over the children that shrink. *)
ShrinkRun(start, level, cur, old, new) ==
  CHOOSE f : f = [i \in 0 .. W |-> IF i = 0 THEN start ELSE ShrinkOne(f[i - 1], i - 1, level, cur, old, new)]

(* The run of the shrinking loop exists. *)
LEMMA ShrinkRunIs ==
  ASSUME NEW start, NEW level, NEW cur, NEW old, NEW new
  PROVE  LET f == ShrinkRun(start, level, cur, old, new)
         IN  /\ f = [i \in 0 .. W |-> f[i]] /\ f[0] = start
             /\ \A i \in 1 .. W : f[i] = ShrinkOne(f[i - 1], i - 1, level, cur, old, new)
<1> DEFINE P(f, m) == /\ f[0] = start
                      /\ \A i \in 1 .. m : f[i] = ShrinkOne(f[i - 1], i - 1, level, cur, old, new)
           S == {m \in Nat : ~\E f : P(f, m)}
<1>1. S = {}
  <2> SUFFICES ASSUME S # {} PROVE FALSE
    OBVIOUS
  <2>1. PICK m \in S : \A k \in S : m <= k
    BY Least
  <2>2. m # 0
    <3> DEFINE f == [i \in {0} |-> start]
    <3>1. P(f, 0)
      OBVIOUS
    <3> QED BY <3>1
  <2>3. m - 1 \in Nat /\ m - 1 \notin S
    BY <2>1, <2>2
  <2>4. PICK f : P(f, m - 1)
    BY <2>3
  <2> DEFINE g == [i \in 0 .. m |-> IF i = m THEN ShrinkOne(f[m - 1], m - 1, level, cur, old, new) ELSE f[i]]
  <2>5. P(g, m)
    <3>1. /\ g[0] = f[0] /\ g[m] = ShrinkOne(f[m - 1], m - 1, level, cur, old, new)
          /\ \A i \in 0 .. m - 1 : g[i] = f[i]
      BY <2>3
    <3> HIDE DEF g
    <3>2. ASSUME NEW i \in 1 .. m PROVE g[i] = ShrinkOne(g[i - 1], i - 1, level, cur, old, new)
      <4>1. CASE i = m
        BY <4>1, <3>1, <2>3
      <4>2. CASE i # m
        <5>1. i \in 1 .. m - 1 /\ i - 1 \in 0 .. m - 1 /\ i \in 0 .. m - 1
          BY <4>2, <2>3
        <5> QED BY <5>1, <3>1, <2>4
      <4> QED BY <4>1, <4>2
    <3> QED BY <3>1, <3>2, <2>4
  <2> QED BY <2>1, <2>5
<1>2. W \in Nat
  BY InodeAssumption
<1>3. PICK h : P(h, W)
  BY <1>1, <1>2
<1> DEFINE Eq(f) == f = [i \in 0 .. W |-> IF i = 0 THEN start ELSE ShrinkOne(f[i - 1], i - 1, level, cur, old, new)]
           k == [i \in 0 .. W |-> h[i]]
           F == CHOOSE f : Eq(f)
<1>4. Eq(k)
  <2>1. k[0] = start /\ \A i \in 1 .. W : k[i] = ShrinkOne(k[i - 1], i - 1, level, cur, old, new)
    BY <1>2, <1>3
  <2>2. \A i \in 0 .. W : k[i] = IF i = 0 THEN start ELSE ShrinkOne(k[i - 1], i - 1, level, cur, old, new)
    BY <2>1
  <2>3. k = [i \in 0 .. W |-> k[i]]
    OBVIOUS
  <2> HIDE DEF k
  <2> QED BY <2>2, <2>3
<1>5. Eq(F)
  BY <1>4
<1> HIDE DEF F
<1>6. \A i \in 0 .. W : F[i] = IF i = 0 THEN start ELSE ShrinkOne(F[i - 1], i - 1, level, cur, old, new)
  BY <1>5
<1>7. F[0] = start /\ \A i \in 1 .. W : F[i] = ShrinkOne(F[i - 1], i - 1, level, cur, old, new)
  BY <1>2, <1>6
<1>8. F = [i \in 0 .. W |-> F[i]]
  BY <1>5
<1> QED BY <1>7, <1>8 DEF ShrinkRun, F

(* The states of the loop over the slots that grow. *)
GrowRounds(start, old, new) ==
  CHOOSE f : f = [i \in 0 .. D + 3 |-> IF i = 0 THEN start ELSE GrowRound(f[i - 1], old, new)]

(* The run of the growing loop over the slots exists. *)
LEMMA GrowRoundsIs ==
  ASSUME NEW start, NEW old, NEW new
  PROVE  LET f == GrowRounds(start, old, new)
         IN  /\ f = [i \in 0 .. D + 3 |-> f[i]] /\ f[0] = start
             /\ \A i \in 1 .. D + 3 : f[i] = GrowRound(f[i - 1], old, new)
<1> DEFINE P(f, m) == /\ f[0] = start
                      /\ \A i \in 1 .. m : f[i] = GrowRound(f[i - 1], old, new)
           S == {m \in Nat : ~\E f : P(f, m)}
<1>1. S = {}
  <2> SUFFICES ASSUME S # {} PROVE FALSE
    OBVIOUS
  <2>1. PICK m \in S : \A k \in S : m <= k
    BY Least
  <2>2. m # 0
    <3> DEFINE f == [i \in {0} |-> start]
    <3>1. P(f, 0)
      OBVIOUS
    <3> QED BY <3>1
  <2>3. m - 1 \in Nat /\ m - 1 \notin S
    BY <2>1, <2>2
  <2>4. PICK f : P(f, m - 1)
    BY <2>3
  <2> DEFINE g == [i \in 0 .. m |-> IF i = m THEN GrowRound(f[m - 1], old, new) ELSE f[i]]
  <2>5. P(g, m)
    <3>1. /\ g[0] = f[0] /\ g[m] = GrowRound(f[m - 1], old, new)
          /\ \A i \in 0 .. m - 1 : g[i] = f[i]
      BY <2>3
    <3> HIDE DEF g
    <3>2. ASSUME NEW i \in 1 .. m PROVE g[i] = GrowRound(g[i - 1], old, new)
      <4>1. CASE i = m
        BY <4>1, <3>1, <2>3
      <4>2. CASE i # m
        <5>1. i \in 1 .. m - 1 /\ i - 1 \in 0 .. m - 1 /\ i \in 0 .. m - 1
          BY <4>2, <2>3
        <5> QED BY <5>1, <3>1, <2>4
      <4> QED BY <4>1, <4>2
    <3> QED BY <3>1, <3>2, <2>4
  <2> QED BY <2>1, <2>5
<1>2. D + 3 \in Nat
  BY InodeAssumption
<1>3. PICK h : P(h, D + 3)
  BY <1>1, <1>2
<1> DEFINE Eq(f) == f = [i \in 0 .. D + 3 |-> IF i = 0 THEN start ELSE GrowRound(f[i - 1], old, new)]
           k == [i \in 0 .. D + 3 |-> h[i]]
           F == CHOOSE f : Eq(f)
<1>4. Eq(k)
  <2>1. k[0] = start /\ \A i \in 1 .. D + 3 : k[i] = GrowRound(k[i - 1], old, new)
    BY <1>2, <1>3
  <2>2. \A i \in 0 .. D + 3 : k[i] = IF i = 0 THEN start ELSE GrowRound(k[i - 1], old, new)
    BY <2>1
  <2>3. k = [i \in 0 .. D + 3 |-> k[i]]
    OBVIOUS
  <2> HIDE DEF k
  <2> QED BY <2>2, <2>3
<1>5. Eq(F)
  BY <1>4
<1> HIDE DEF F
<1>6. \A i \in 0 .. D + 3 : F[i] = IF i = 0 THEN start ELSE GrowRound(F[i - 1], old, new)
  BY <1>5
<1>7. F[0] = start /\ \A i \in 1 .. D + 3 : F[i] = GrowRound(F[i - 1], old, new)
  BY <1>2, <1>6
<1>8. F = [i \in 0 .. D + 3 |-> F[i]]
  BY <1>5
<1> QED BY <1>7, <1>8 DEF GrowRounds, F

(* The states of the loop over the slots that shrink. *)
ShrinkRounds(start, old, new) ==
  CHOOSE f : f = [i \in 0 .. D + 3 |-> IF i = 0 THEN start ELSE ShrinkRound(f[i - 1], old, new)]

(* The run of the shrinking loop over the slots exists. *)
LEMMA ShrinkRoundsIs ==
  ASSUME NEW start, NEW old, NEW new
  PROVE  LET f == ShrinkRounds(start, old, new)
         IN  /\ f = [i \in 0 .. D + 3 |-> f[i]] /\ f[0] = start
             /\ \A i \in 1 .. D + 3 : f[i] = ShrinkRound(f[i - 1], old, new)
<1> DEFINE P(f, m) == /\ f[0] = start
                      /\ \A i \in 1 .. m : f[i] = ShrinkRound(f[i - 1], old, new)
           S == {m \in Nat : ~\E f : P(f, m)}
<1>1. S = {}
  <2> SUFFICES ASSUME S # {} PROVE FALSE
    OBVIOUS
  <2>1. PICK m \in S : \A k \in S : m <= k
    BY Least
  <2>2. m # 0
    <3> DEFINE f == [i \in {0} |-> start]
    <3>1. P(f, 0)
      OBVIOUS
    <3> QED BY <3>1
  <2>3. m - 1 \in Nat /\ m - 1 \notin S
    BY <2>1, <2>2
  <2>4. PICK f : P(f, m - 1)
    BY <2>3
  <2> DEFINE g == [i \in 0 .. m |-> IF i = m THEN ShrinkRound(f[m - 1], old, new) ELSE f[i]]
  <2>5. P(g, m)
    <3>1. /\ g[0] = f[0] /\ g[m] = ShrinkRound(f[m - 1], old, new)
          /\ \A i \in 0 .. m - 1 : g[i] = f[i]
      BY <2>3
    <3> HIDE DEF g
    <3>2. ASSUME NEW i \in 1 .. m PROVE g[i] = ShrinkRound(g[i - 1], old, new)
      <4>1. CASE i = m
        BY <4>1, <3>1, <2>3
      <4>2. CASE i # m
        <5>1. i \in 1 .. m - 1 /\ i - 1 \in 0 .. m - 1 /\ i \in 0 .. m - 1
          BY <4>2, <2>3
        <5> QED BY <5>1, <3>1, <2>4
      <4> QED BY <4>1, <4>2
    <3> QED BY <3>1, <3>2, <2>4
  <2> QED BY <2>1, <2>5
<1>2. D + 3 \in Nat
  BY InodeAssumption
<1>3. PICK h : P(h, D + 3)
  BY <1>1, <1>2
<1> DEFINE Eq(f) == f = [i \in 0 .. D + 3 |-> IF i = 0 THEN start ELSE ShrinkRound(f[i - 1], old, new)]
           k == [i \in 0 .. D + 3 |-> h[i]]
           F == CHOOSE f : Eq(f)
<1>4. Eq(k)
  <2>1. k[0] = start /\ \A i \in 1 .. D + 3 : k[i] = ShrinkRound(k[i - 1], old, new)
    BY <1>2, <1>3
  <2>2. \A i \in 0 .. D + 3 : k[i] = IF i = 0 THEN start ELSE ShrinkRound(k[i - 1], old, new)
    BY <2>1
  <2>3. k = [i \in 0 .. D + 3 |-> k[i]]
    OBVIOUS
  <2> HIDE DEF k
  <2> QED BY <2>2, <2>3
<1>5. Eq(F)
  BY <1>4
<1> HIDE DEF F
<1>6. \A i \in 0 .. D + 3 : F[i] = IF i = 0 THEN start ELSE ShrinkRound(F[i - 1], old, new)
  BY <1>5
<1>7. F[0] = start /\ \A i \in 1 .. D + 3 : F[i] = ShrinkRound(F[i - 1], old, new)
  BY <1>2, <1>6
<1>8. F = [i \in 0 .. D + 3 |-> F[i]]
  BY <1>5
<1> QED BY <1>7, <1>8 DEF ShrinkRounds, F


(* Two runs that start alike and step alike end alike. *)
LEMMA SameRun ==
  ASSUME NEW n \in Nat, NEW f, NEW g, f[0] = g[0],
         \A i \in 1 .. n : f[i - 1] = g[i - 1] => f[i] = g[i]
  PROVE  f[n] = g[n]
<1> DEFINE S == {m \in 0 .. n : f[m] # g[m]}
<1>1. S = {}
  <2> SUFFICES ASSUME S # {} PROVE FALSE
    OBVIOUS
  <2>1. S \in SUBSET Nat
    OBVIOUS
  <2>2. PICK m \in S : \A k \in S : m <= k
    BY <2>1, Least
  <2>3. m \in 1 .. n
    BY <2>2
  <2>4. m - 1 \in 0 .. n /\ m - 1 \notin S
    BY <2>2, <2>3
  <2> QED BY <2>2, <2>3, <2>4
<1> QED BY <1>1

(* inode_indirect_grow and inode_indirect_shrink by the run of their loop. *)
GrowLoop(st, dest, cur, level, old, new) ==
  LET b == IF dest = EOF THEN Min(st.free) ELSE dest
  IN  GrowRun(StartGrow(st, b, dest = EOF), level, cur, old, new)

(* inode_indirect_grow of an indirect block is what its loop leaves,       *)
(* finished by GrownUnder.                                                 *)
LEMMA GrowIs ==
  ASSUME NEW st, NEW dest, NEW cur, NEW level \in 1 .. 3, NEW old, NEW new
  PROVE  inode_indirect_grow(st, dest, cur, level, old, new) =
           IF dest = EOF /\ OutOfBlocks(st) THEN NoBlockLeft(st)
           ELSE GrownUnder(GrowLoop(st, dest, cur, level, old, new)[W],
                           IF dest = EOF THEN Min(st.free) ELSE dest, dest = EOF,
                           FirstChild(cur, indirect_count(level - 1), old))
<1> DEFINE b == IF dest = EOF THEN Min(st.free) ELSE dest
           start == StartGrow(st, b, dest = EOF)
           R == GrowRun(start, level, cur, old, new)
<1>0. W \in Nat
  BY InodeAssumption
<1> HIDE DEF start
<1>1. /\ R = [i \in 0 .. W |-> R[i]] /\ R[0] = start
      /\ \A i \in 1 .. W : R[i] = GrowOne(R[i - 1], i - 1, level, cur, old, new)
  BY GrowRunIs
<1> HIDE DEF R
<1>2. CASE level = 1
  <2> DEFINE Eq(f) == f = [i \in 0 .. W |-> IF i = 0 THEN start
                                    ELSE GrowChild(GrowData, 1, f[i - 1], i - 1, cur, old, new)]
             F == CHOOSE f : Eq(f)
  <2>1. \A r, i : GrowOne(r, i, level, cur, old, new) = GrowChild(GrowData, 1, r, i, cur, old, new)
    BY <1>2 DEF GrowOne, GrowChild, inode_indirect_grow, indirect_count
  <2>0. \A i \in 0 .. W : R[i] = IF i = 0 THEN start
                                ELSE GrowChild(GrowData, 1, R[i - 1], i - 1, cur, old, new)
    <3> SUFFICES ASSUME NEW i \in 0 .. W, i # 0
                 PROVE  R[i] = GrowChild(GrowData, 1, R[i - 1], i - 1, cur, old, new)
      BY <1>1
    <3>1. i \in 1 .. W
      BY <1>0
    <3> QED BY <3>1, <1>1, <2>1
  <2>2. Eq(R)
    BY <1>1, <2>0
  <2>3. Eq(F)
    BY <2>2
  <2>4. GrowChildren(GrowData, 1, start, cur, old, new) = F[W]
    BY DEF GrowChildren
  <2> HIDE DEF F
  <2>5. \A i \in 0 .. W : F[i] = IF i = 0 THEN start ELSE GrowChild(GrowData, 1, F[i - 1], i - 1, cur, old, new)
    BY <2>3
  <2>6. F[0] = R[0] /\ \A i \in 1 .. W : F[i - 1] = R[i - 1] => F[i] = R[i]
    <3>1. 0 \in 0 .. W /\ \A i \in 1 .. W : i \in 0 .. W /\ i # 0
      BY <1>0
    <3> QED BY <2>5, <2>0, <3>1
  <2>7. F[W] = R[W]
    BY <2>6, <1>0, SameRun
  <2> QED BY <1>2, <2>4, <2>7 DEF inode_indirect_grow, GrowSingle, GrowIndirect, GrowLoop, indirect_count, R, start
<1>3. CASE level = 2
  <2> DEFINE Eq(f) == f = [i \in 0 .. W |-> IF i = 0 THEN start
                                    ELSE GrowChild(GrowSingle, W, f[i - 1], i - 1, cur, old, new)]
             F == CHOOSE f : Eq(f)
  <2>1. \A r, i : GrowOne(r, i, level, cur, old, new) = GrowChild(GrowSingle, W, r, i, cur, old, new)
    BY <1>3 DEF GrowOne, GrowChild, inode_indirect_grow, indirect_count
  <2>0. \A i \in 0 .. W : R[i] = IF i = 0 THEN start
                                ELSE GrowChild(GrowSingle, W, R[i - 1], i - 1, cur, old, new)
    <3> SUFFICES ASSUME NEW i \in 0 .. W, i # 0
                 PROVE  R[i] = GrowChild(GrowSingle, W, R[i - 1], i - 1, cur, old, new)
      BY <1>1
    <3>1. i \in 1 .. W
      BY <1>0
    <3> QED BY <3>1, <1>1, <2>1
  <2>2. Eq(R)
    BY <1>1, <2>0
  <2>3. Eq(F)
    BY <2>2
  <2>4. GrowChildren(GrowSingle, W, start, cur, old, new) = F[W]
    BY DEF GrowChildren
  <2> HIDE DEF F
  <2>5. \A i \in 0 .. W : F[i] = IF i = 0 THEN start ELSE GrowChild(GrowSingle, W, F[i - 1], i - 1, cur, old, new)
    BY <2>3
  <2>6. F[0] = R[0] /\ \A i \in 1 .. W : F[i - 1] = R[i - 1] => F[i] = R[i]
    <3>1. 0 \in 0 .. W /\ \A i \in 1 .. W : i \in 0 .. W /\ i # 0
      BY <1>0
    <3> QED BY <2>5, <2>0, <3>1
  <2>7. F[W] = R[W]
    BY <2>6, <1>0, SameRun
  <2> QED BY <1>3, <2>4, <2>7 DEF inode_indirect_grow, GrowDouble, GrowIndirect, GrowLoop, indirect_count, R, start
<1>4. CASE level = 3
  <2> DEFINE Eq(f) == f = [i \in 0 .. W |-> IF i = 0 THEN start
                                    ELSE GrowChild(GrowDouble, W * W, f[i - 1], i - 1, cur, old, new)]
             F == CHOOSE f : Eq(f)
  <2>1. \A r, i : GrowOne(r, i, level, cur, old, new) = GrowChild(GrowDouble, W * W, r, i, cur, old, new)
    BY <1>4 DEF GrowOne, GrowChild, inode_indirect_grow, indirect_count
  <2>0. \A i \in 0 .. W : R[i] = IF i = 0 THEN start
                                ELSE GrowChild(GrowDouble, W * W, R[i - 1], i - 1, cur, old, new)
    <3> SUFFICES ASSUME NEW i \in 0 .. W, i # 0
                 PROVE  R[i] = GrowChild(GrowDouble, W * W, R[i - 1], i - 1, cur, old, new)
      BY <1>1
    <3>1. i \in 1 .. W
      BY <1>0
    <3> QED BY <3>1, <1>1, <2>1
  <2>2. Eq(R)
    BY <1>1, <2>0
  <2>3. Eq(F)
    BY <2>2
  <2>4. GrowChildren(GrowDouble, W * W, start, cur, old, new) = F[W]
    BY DEF GrowChildren
  <2> HIDE DEF F
  <2>5. \A i \in 0 .. W : F[i] = IF i = 0 THEN start ELSE GrowChild(GrowDouble, W * W, F[i - 1], i - 1, cur, old, new)
    BY <2>3
  <2>6. F[0] = R[0] /\ \A i \in 1 .. W : F[i - 1] = R[i - 1] => F[i] = R[i]
    <3>1. 0 \in 0 .. W /\ \A i \in 1 .. W : i \in 0 .. W /\ i # 0
      BY <1>0
    <3> QED BY <2>5, <2>0, <3>1
  <2>7. F[W] = R[W]
    BY <2>6, <1>0, SameRun
  <2> QED BY <1>4, <2>4, <2>7 DEF inode_indirect_grow, GrowTriple, GrowIndirect, GrowLoop, indirect_count, R, start
<1> QED BY <1>2, <1>3, <1>4

ShrinkLoop(st, dest, cur, level, old, new) ==
  ShrinkRun(StartShrink(st, dest), level, cur, old, new)

(* inode_indirect_shrink of an indirect block is what its loop leaves,     *)
(* finished by ShrunkUnder.                                                *)
LEMMA ShrinkIs ==
  ASSUME NEW st, NEW dest, NEW cur, NEW level \in 1 .. 3, NEW old, NEW new
  PROVE  inode_indirect_shrink(st, dest, cur, level, old, new) =
           IF dest = EOF THEN NothingThere(st)
           ELSE ShrunkUnder(ShrinkLoop(st, dest, cur, level, old, new)[W], dest)
<1> DEFINE start == StartShrink(st, dest)
           R == ShrinkRun(start, level, cur, old, new)
<1>0. W \in Nat
  BY InodeAssumption
<1> HIDE DEF start
<1>1. /\ R = [i \in 0 .. W |-> R[i]] /\ R[0] = start
      /\ \A i \in 1 .. W : R[i] = ShrinkOne(R[i - 1], i - 1, level, cur, old, new)
  BY ShrinkRunIs
<1> HIDE DEF R
<1>2. CASE level = 1
  <2> DEFINE Eq(f) == f = [i \in 0 .. W |-> IF i = 0 THEN start
                                    ELSE ShrinkChild(ShrinkData, 1, f[i - 1], i - 1, cur, old, new)]
             F == CHOOSE f : Eq(f)
  <2>1. \A r, i : ShrinkOne(r, i, level, cur, old, new) = ShrinkChild(ShrinkData, 1, r, i, cur, old, new)
    BY <1>2 DEF ShrinkOne, ShrinkChild, inode_indirect_shrink, indirect_count
  <2>0. \A i \in 0 .. W : R[i] = IF i = 0 THEN start
                                ELSE ShrinkChild(ShrinkData, 1, R[i - 1], i - 1, cur, old, new)
    <3> SUFFICES ASSUME NEW i \in 0 .. W, i # 0
                 PROVE  R[i] = ShrinkChild(ShrinkData, 1, R[i - 1], i - 1, cur, old, new)
      BY <1>1
    <3>1. i \in 1 .. W
      BY <1>0
    <3> QED BY <3>1, <1>1, <2>1
  <2>2. Eq(R)
    BY <1>1, <2>0
  <2>3. Eq(F)
    BY <2>2
  <2>4. ShrinkChildren(ShrinkData, 1, start, cur, old, new) = F[W]
    BY DEF ShrinkChildren
  <2> HIDE DEF F
  <2>5. \A i \in 0 .. W : F[i] = IF i = 0 THEN start ELSE ShrinkChild(ShrinkData, 1, F[i - 1], i - 1, cur, old, new)
    BY <2>3
  <2>6. F[0] = R[0] /\ \A i \in 1 .. W : F[i - 1] = R[i - 1] => F[i] = R[i]
    <3>1. 0 \in 0 .. W /\ \A i \in 1 .. W : i \in 0 .. W /\ i # 0
      BY <1>0
    <3> QED BY <2>5, <2>0, <3>1
  <2>7. F[W] = R[W]
    BY <2>6, <1>0, SameRun
  <2> QED BY <1>2, <2>4, <2>7 DEF inode_indirect_shrink, ShrinkSingle, ShrinkIndirect, ShrinkLoop, indirect_count, R, start
<1>3. CASE level = 2
  <2> DEFINE Eq(f) == f = [i \in 0 .. W |-> IF i = 0 THEN start
                                    ELSE ShrinkChild(ShrinkSingle, W, f[i - 1], i - 1, cur, old, new)]
             F == CHOOSE f : Eq(f)
  <2>1. \A r, i : ShrinkOne(r, i, level, cur, old, new) = ShrinkChild(ShrinkSingle, W, r, i, cur, old, new)
    BY <1>3 DEF ShrinkOne, ShrinkChild, inode_indirect_shrink, indirect_count
  <2>0. \A i \in 0 .. W : R[i] = IF i = 0 THEN start
                                ELSE ShrinkChild(ShrinkSingle, W, R[i - 1], i - 1, cur, old, new)
    <3> SUFFICES ASSUME NEW i \in 0 .. W, i # 0
                 PROVE  R[i] = ShrinkChild(ShrinkSingle, W, R[i - 1], i - 1, cur, old, new)
      BY <1>1
    <3>1. i \in 1 .. W
      BY <1>0
    <3> QED BY <3>1, <1>1, <2>1
  <2>2. Eq(R)
    BY <1>1, <2>0
  <2>3. Eq(F)
    BY <2>2
  <2>4. ShrinkChildren(ShrinkSingle, W, start, cur, old, new) = F[W]
    BY DEF ShrinkChildren
  <2> HIDE DEF F
  <2>5. \A i \in 0 .. W : F[i] = IF i = 0 THEN start ELSE ShrinkChild(ShrinkSingle, W, F[i - 1], i - 1, cur, old, new)
    BY <2>3
  <2>6. F[0] = R[0] /\ \A i \in 1 .. W : F[i - 1] = R[i - 1] => F[i] = R[i]
    <3>1. 0 \in 0 .. W /\ \A i \in 1 .. W : i \in 0 .. W /\ i # 0
      BY <1>0
    <3> QED BY <2>5, <2>0, <3>1
  <2>7. F[W] = R[W]
    BY <2>6, <1>0, SameRun
  <2> QED BY <1>3, <2>4, <2>7 DEF inode_indirect_shrink, ShrinkDouble, ShrinkIndirect, ShrinkLoop, indirect_count, R, start
<1>4. CASE level = 3
  <2> DEFINE Eq(f) == f = [i \in 0 .. W |-> IF i = 0 THEN start
                                    ELSE ShrinkChild(ShrinkDouble, W * W, f[i - 1], i - 1, cur, old, new)]
             F == CHOOSE f : Eq(f)
  <2>1. \A r, i : ShrinkOne(r, i, level, cur, old, new) = ShrinkChild(ShrinkDouble, W * W, r, i, cur, old, new)
    BY <1>4 DEF ShrinkOne, ShrinkChild, inode_indirect_shrink, indirect_count
  <2>0. \A i \in 0 .. W : R[i] = IF i = 0 THEN start
                                ELSE ShrinkChild(ShrinkDouble, W * W, R[i - 1], i - 1, cur, old, new)
    <3> SUFFICES ASSUME NEW i \in 0 .. W, i # 0
                 PROVE  R[i] = ShrinkChild(ShrinkDouble, W * W, R[i - 1], i - 1, cur, old, new)
      BY <1>1
    <3>1. i \in 1 .. W
      BY <1>0
    <3> QED BY <3>1, <1>1, <2>1
  <2>2. Eq(R)
    BY <1>1, <2>0
  <2>3. Eq(F)
    BY <2>2
  <2>4. ShrinkChildren(ShrinkDouble, W * W, start, cur, old, new) = F[W]
    BY DEF ShrinkChildren
  <2> HIDE DEF F
  <2>5. \A i \in 0 .. W : F[i] = IF i = 0 THEN start ELSE ShrinkChild(ShrinkDouble, W * W, F[i - 1], i - 1, cur, old, new)
    BY <2>3
  <2>6. F[0] = R[0] /\ \A i \in 1 .. W : F[i - 1] = R[i - 1] => F[i] = R[i]
    <3>1. 0 \in 0 .. W /\ \A i \in 1 .. W : i \in 0 .. W /\ i # 0
      BY <1>0
    <3> QED BY <2>5, <2>0, <3>1
  <2>7. F[W] = R[W]
    BY <2>6, <1>0, SameRun
  <2> QED BY <1>4, <2>4, <2>7 DEF inode_indirect_shrink, ShrinkTriple, ShrinkIndirect, ShrinkLoop, indirect_count, R, start
<1> QED BY <1>2, <1>3, <1>4

(* The loops over the slots by their rounds. *)
LEMMA GrowSlotsIs ==
  ASSUME NEW start, NEW old, NEW new
  PROVE  GrowSlots(start, old, new) = GrowRounds(start, old, new)[D + 3]
<1> DEFINE R == GrowRounds(start, old, new)
           Eq(f) == f = [n \in Rounds |-> IF n = 0 THEN start ELSE GrowRound(f[n - 1], old, new)]
           F == CHOOSE f : Eq(f)
<1>0. D + 3 \in Nat /\ Rounds = 0 .. D + 3
  BY InodeAssumption DEF Rounds
<1>1. /\ R = [i \in 0 .. D + 3 |-> R[i]] /\ R[0] = start
      /\ \A i \in 1 .. D + 3 : R[i] = GrowRound(R[i - 1], old, new)
  BY GrowRoundsIs
<1> HIDE DEF R
<1>2. \A i \in 0 .. D + 3 : R[i] = IF i = 0 THEN start ELSE GrowRound(R[i - 1], old, new)
  <2> SUFFICES ASSUME NEW i \in 0 .. D + 3, i # 0
               PROVE  R[i] = GrowRound(R[i - 1], old, new)
    BY <1>1
  <2>1. i \in 1 .. D + 3
    BY <1>0
  <2> QED BY <2>1, <1>1
<1>3. Eq(R)
  BY <1>0, <1>1, <1>2
<1>4. Eq(F)
  BY <1>3
<1>5. GrowSlots(start, old, new) = F[D + 3]
  BY DEF GrowSlots
<1> HIDE DEF F
<1>6. \A i \in 0 .. D + 3 : F[i] = IF i = 0 THEN start ELSE GrowRound(F[i - 1], old, new)
  BY <1>4, <1>0
<1>7. F[0] = R[0] /\ \A i \in 1 .. D + 3 : F[i - 1] = R[i - 1] => F[i] = R[i]
  <2>1. 0 \in 0 .. D + 3 /\ \A i \in 1 .. D + 3 : i \in 0 .. D + 3 /\ i # 0
    BY <1>0
  <2> QED BY <1>6, <1>2, <2>1
<1>8. F[D + 3] = R[D + 3]
  BY <1>7, <1>0, SameRun
<1> QED BY <1>5, <1>8 DEF R

(* The loop of inode_setsize that shrinks is the last of its rounds. *)
LEMMA ShrinkSlotsIs ==
  ASSUME NEW start, NEW old, NEW new
  PROVE  ShrinkSlots(start, old, new) = ShrinkRounds(start, old, new)[D + 3]
<1> DEFINE R == ShrinkRounds(start, old, new)
           Eq(f) == f = [n \in Rounds |-> IF n = 0 THEN start ELSE ShrinkRound(f[n - 1], old, new)]
           F == CHOOSE f : Eq(f)
<1>0. D + 3 \in Nat /\ Rounds = 0 .. D + 3
  BY InodeAssumption DEF Rounds
<1>1. /\ R = [i \in 0 .. D + 3 |-> R[i]] /\ R[0] = start
      /\ \A i \in 1 .. D + 3 : R[i] = ShrinkRound(R[i - 1], old, new)
  BY ShrinkRoundsIs
<1> HIDE DEF R
<1>2. \A i \in 0 .. D + 3 : R[i] = IF i = 0 THEN start ELSE ShrinkRound(R[i - 1], old, new)
  <2> SUFFICES ASSUME NEW i \in 0 .. D + 3, i # 0
               PROVE  R[i] = ShrinkRound(R[i - 1], old, new)
    BY <1>1
  <2>1. i \in 1 .. D + 3
    BY <1>0
  <2> QED BY <2>1, <1>1
<1>3. Eq(R)
  BY <1>0, <1>1, <1>2
<1>4. Eq(F)
  BY <1>3
<1>5. ShrinkSlots(start, old, new) = F[D + 3]
  BY DEF ShrinkSlots
<1> HIDE DEF F
<1>6. \A i \in 0 .. D + 3 : F[i] = IF i = 0 THEN start ELSE ShrinkRound(F[i - 1], old, new)
  BY <1>4, <1>0
<1>7. F[0] = R[0] /\ \A i \in 1 .. D + 3 : F[i - 1] = R[i - 1] => F[i] = R[i]
  <2>1. 0 \in 0 .. D + 3 /\ \A i \in 1 .. D + 3 : i \in 0 .. D + 3 /\ i # 0
    BY <1>0
  <2> QED BY <1>6, <1>2, <2>1
<1>8. F[D + 3] = R[D + 3]
  BY <1>7, <1>0, SameRun
<1> QED BY <1>5, <1>8 DEF R

-----------------------------------------------------------------------------
(* Paths.                                                                  *)
Node == Blocks \cup {EOF}
Ptrs == [Blocks -> [Children -> Node]]

(* What the assumptions say of the constants, one by one. *)
LEMMA Constants ==
  /\ W \in Nat /\ W > 0 /\ D \in Nat /\ D > 0 /\ BS \in Nat /\ BS > 0
  /\ EOF \notin Nat /\ EOF \notin Blocks /\ Blocks \subseteq Nat
  /\ EOF \in Int
  /\ 0 \in Children /\ Children \subseteq Nat
BY InodeAssumption DEF Children

(* indirect_count at every level: W times the count one level down. *)
LEMMA Counts ==
  /\ indirect_count(0) = 1 /\ indirect_count(1) = W
  /\ \A l \in 0 .. 3 : indirect_count(l) \in Nat /\ indirect_count(l) > 0
  /\ \A l \in 1 .. 3 : indirect_count(l) = W * indirect_count(l - 1)
  /\ \A l \in 1 .. 3 : l - 1 \in 0 .. 2 /\ l - 1 \in 0 .. 3
<1>1. W \in Nat /\ W > 0
  BY InodeAssumption
<1>2. W * W \in Nat /\ W * W > 0
  BY <1>1
<1>3. W * W * W \in Nat /\ W * W * W > 0 /\ W * W * W = W * (W * W)
  BY <1>1, <1>2
<1>4. \A l \in 0 .. 3 : l = 0 \/ l = 1 \/ l = 2 \/ l = 3
  OBVIOUS
<1>5. /\ indirect_count(0) = 1 /\ indirect_count(1) = W
      /\ indirect_count(2) = W * W /\ indirect_count(3) = W * W * W
  BY DEF indirect_count
<1>6. \A l \in 1 .. 3 : l = 1 \/ l = 2 \/ l = 3
  OBVIOUS
<1>7. \A l \in 1 .. 3 : indirect_count(l) = W * indirect_count(l - 1)
  BY <1>1, <1>3, <1>5, <1>6
<1> QED BY <1>1, <1>2, <1>3, <1>4, <1>5, <1>7

(* The paths into a tree of level l: at most l children. *)
LEMMA PathsAre ==
  ASSUME NEW l \in 0 .. 3
  PROVE  Paths(l) = {s \in Seq(Children) : Len(s) <= l}
<1>1. ASSUME NEW s \in Paths(l) PROVE s \in Seq(Children) /\ Len(s) <= l
  <2>1. PICK k \in 0 .. l : s \in [1 .. k -> Children]
    BY DEF Paths
  <2>2. s \in Seq(Children) /\ Len(s) = k
    BY <2>1
  <2> QED BY <2>1, <2>2
<1>2. ASSUME NEW s \in Seq(Children), Len(s) <= l PROVE s \in Paths(l)
  <2>1. s \in [1 .. Len(s) -> Children] /\ Len(s) \in 0 .. l
    BY <1>2
  <2> QED BY <2>1 DEF Paths
<1> QED BY <1>1, <1>2

(* A data block has one path, the empty one. *)
LEMMA PathZero ==
  Paths(0) = {<<>>}
<1>1. \A s \in Seq(Children) : Len(s) <= 0 => s = <<>>
  OBVIOUS
<1>2. <<>> \in Seq(Children) /\ Len(<<>>) = 0
  OBVIOUS
<1>3. 0 \in 0 .. 3
  OBVIOUS
<1>4. Paths(0) = {s \in Seq(Children) : Len(s) <= 0}
  BY <1>3, PathsAre
<1>5. ASSUME NEW x \in Paths(0) PROVE x = <<>>
  <2>1. x \in Seq(Children) /\ Len(x) <= 0
    BY <1>4
  <2> QED BY <2>1, <1>1
<1>6. <<>> \in Paths(0)
  <2>1. 0 <= 0 /\ Len(<<>>) <= 0
    BY <1>2
  <2> QED BY <2>1, <1>2, <1>4
<1> QED BY <1>5, <1>6

(* A path is empty, or goes to a child and on from there. *)
LEMMA PathCons ==
  ASSUME NEW l \in 1 .. 3
  PROVE  /\ <<>> \in Paths(l)
         /\ \A c \in Children : \A rest \in Paths(l - 1) : <<c>> \o rest \in Paths(l)
         /\ \A path \in Paths(l) :
              path = <<>> \/ \E c \in Children : \E rest \in Paths(l - 1) : path = <<c>> \o rest
<1>0. l - 1 \in 0 .. 3 /\ l \in 0 .. 3 /\ l >= 0
  OBVIOUS
<1>P. /\ Paths(l) = {s \in Seq(Children) : Len(s) <= l}
      /\ Paths(l - 1) = {s \in Seq(Children) : Len(s) <= l - 1}
  BY <1>0, PathsAre
<1>1. <<>> \in Paths(l)
  <2>1. <<>> \in Seq(Children) /\ Len(<<>>) = 0
    OBVIOUS
  <2> QED BY <2>1, <1>0, <1>P
<1>2. ASSUME NEW c \in Children, NEW rest \in Paths(l - 1)
      PROVE  <<c>> \o rest \in Paths(l)
  <2>1. rest \in Seq(Children) /\ Len(rest) <= l - 1
    BY <1>P
  <2>2. <<c>> \o rest \in Seq(Children) /\ Len(<<c>> \o rest) = Len(rest) + 1 /\ Len(rest) \in Nat
    BY <2>1, ConsPositions
  <2>3. Len(<<c>> \o rest) <= l
    BY <2>1, <2>2
  <2> QED BY <2>2, <2>3, <1>P
<1>3. ASSUME NEW path \in Paths(l), path # <<>>
      PROVE  \E c \in Children : \E rest \in Paths(l - 1) : path = <<c>> \o rest
  <2>1. path \in Seq(Children) /\ Len(path) <= l
    BY <1>P
  <2>2. /\ Tail(path) \in Seq(Children) /\ Len(path) \in Nat \ {0}
        /\ Len(Tail(path)) = Len(path) - 1
        /\ \A k \in 1 .. Len(path) - 1 : Tail(path)[k] = path[k + 1]
    BY <2>1, <1>3, TailPositions
  <2>6. Len(Tail(path)) <= l - 1
    BY <2>1, <2>2
  <2>3. Tail(path) \in Paths(l - 1)
    BY <2>2, <2>6, <1>P
  <2>4. path[1] \in Children
    BY <2>1, <2>2
  <2>5. path = <<path[1]>> \o Tail(path)
    BY <2>1, <1>3
  <2> QED BY <2>3, <2>4, <2>5
<1> QED BY <1>1, <1>2, <1>3

(* The empty path ends where it starts. *)
LEMMA EmptyPath ==
  ASSUME NEW ptrs, NEW b, NEW cur \in Int, NEW l
  PROVE  NodeAt(ptrs, b, <<>>) = b /\ IndexAt(cur, l, <<>>) = cur
<1>1. Len(<<>>) = 0
  OBVIOUS
<1>2. NodeAt(ptrs, b, <<>>) = b
  BY <1>1 DEF NodeAt
<1>3. \A k \in 1 .. 3 : Skipped(l, <<>>, k) = 0
  BY <1>1 DEF Skipped
<1>4. IndexAt(cur, l, <<>>) = cur
  BY <1>3 DEF IndexAt
<1> QED BY <1>2, <1>4

(* The block at the end of a path, by the first child on it. *)
LEMMA NodeCons ==
  ASSUME NEW ptrs, NEW b, NEW l \in 1 .. 3, NEW c \in Children, NEW rest \in Paths(l - 1)
  PROVE  NodeAt(ptrs, b, <<c>> \o rest) = NodeAt(ptrs, Child(ptrs, b, c), rest)
<1> DEFINE p == <<c>> \o rest
<1>00. l - 1 \in 0 .. 3 /\ l - 1 <= 2
  OBVIOUS
<1>0. rest \in Seq(Children) /\ Len(rest) <= l - 1 /\ l - 1 <= 2
  BY <1>00, PathsAre
<1>1. /\ Len(p) = Len(rest) + 1 /\ p[1] = c /\ Len(rest) \in Nat
      /\ \A k \in 2 .. Len(rest) + 1 : p[k] = rest[k - 1]
  BY <1>0, ConsPositions
<1> SUFFICES NodeAt(ptrs, b, p) = NodeAt(ptrs, Child(ptrs, b, c), rest)
  OBVIOUS
<1> HIDE DEF p
<1>2. CASE Len(rest) = 0
  <2>1. Len(p) = 1
    BY <1>1, <1>2
  <2>2. NodeAt(ptrs, b, p) = Child(ptrs, b, p[1])
    BY <2>1 DEF NodeAt
  <2>3. NodeAt(ptrs, Child(ptrs, b, c), rest) = Child(ptrs, b, c)
    BY <1>2 DEF NodeAt
  <2> QED BY <2>2, <2>3, <1>1
<1>3. CASE Len(rest) = 1
  <2>1. Len(p) = 2 /\ p[2] = rest[1]
    BY <1>1, <1>3
  <2>2. NodeAt(ptrs, b, p) = Child(ptrs, Child(ptrs, b, p[1]), p[2])
    BY <2>1 DEF NodeAt
  <2>3. NodeAt(ptrs, Child(ptrs, b, c), rest) = Child(ptrs, Child(ptrs, b, c), rest[1])
    BY <1>3 DEF NodeAt
  <2> QED BY <2>1, <2>2, <2>3, <1>1
<1>4. CASE Len(rest) = 2
  <2>1. Len(p) = 3 /\ p[2] = rest[1] /\ p[3] = rest[2]
    BY <1>1, <1>4
  <2>2. NodeAt(ptrs, b, p) = Child(ptrs, Child(ptrs, Child(ptrs, b, p[1]), p[2]), p[3])
    BY <2>1 DEF NodeAt
  <2>3. NodeAt(ptrs, Child(ptrs, b, c), rest) = Child(ptrs, Child(ptrs, Child(ptrs, b, c), rest[1]), rest[2])
    BY <1>4 DEF NodeAt
  <2> QED BY <2>1, <2>2, <2>3, <1>1
<1>5. Len(rest) = 0 \/ Len(rest) = 1 \/ Len(rest) = 2
  <2>1. Len(rest) \in Nat /\ Len(rest) <= 2
    BY <1>00, <1>0, <1>1
  <2>2. \A n \in Nat : n <= 2 => n = 0 \/ n = 1 \/ n = 2
    OBVIOUS
  <2> QED BY <2>1, <2>2
<1> QED BY <1>2, <1>3, <1>4, <1>5

(* The index of the first data block at the end of a path, by the first    *)
(* child on it.                                                            *)
LEMMA IndexCons ==
  ASSUME NEW cur \in Int, NEW l \in 1 .. 3, NEW c \in Children, NEW rest \in Paths(l - 1)
  PROVE  IndexAt(cur, l, <<c>> \o rest) = IndexAt(cur + indirect_count(l - 1) * c, l - 1, rest)
<1> DEFINE p == <<c>> \o rest
<1>00. l - 1 \in 0 .. 3 /\ l - 1 <= 2
  OBVIOUS
<1>0. rest \in Seq(Children) /\ Len(rest) <= l - 1 /\ l - 1 <= 2
  BY <1>00, PathsAre
<1>1. /\ Len(p) = Len(rest) + 1 /\ p[1] = c /\ Len(rest) \in Nat
      /\ \A k \in 2 .. Len(rest) + 1 : p[k] = rest[k - 1]
  BY <1>0, ConsPositions
<1> HIDE DEF p
<1>2. c \in Nat /\ indirect_count(l - 1) \in Nat
  BY Constants, Counts
<1>3. c * indirect_count(l - 1) = indirect_count(l - 1) * c /\ c * indirect_count(l - 1) \in Int
  BY <1>2
<1>4. Skipped(l, p, 1) = indirect_count(l - 1) * c
  BY <1>1, <1>3 DEF Skipped
<1>5. \A k \in 1 .. 2 : Skipped(l, p, k + 1) = Skipped(l - 1, rest, k)
  <2> TAKE k \in 1 .. 2
  <2>1. l - (k + 1) = l - 1 - k
    OBVIOUS
  <2>2. k + 1 <= Len(p) <=> k <= Len(rest)
    BY <1>1
  <2>3. k <= Len(rest) => p[k + 1] = rest[k]
    <3> SUFFICES ASSUME k <= Len(rest) PROVE p[k + 1] = rest[k]
      OBVIOUS
    <3>1. k + 1 \in 2 .. Len(rest) + 1 /\ (k + 1) - 1 = k
      BY <1>1
    <3> QED BY <3>1, <1>1
  <2> QED BY <2>1, <2>2, <2>3 DEF Skipped
<1>6. Skipped(l - 1, rest, 3) = 0
  BY <1>0, <1>1 DEF Skipped
<1>7. \A k \in 1 .. 2 : Skipped(l - 1, rest, k) \in Int
  <2> TAKE k \in 1 .. 2
  <2>1. CASE k <= Len(rest)
    <3>0. k \in 1 .. Len(rest)
      BY <2>1, <1>1
    <3>5. rest[k] \in Children
      BY <3>0, <1>0
    <3>1. rest[k] \in Nat
      BY <3>5, Constants
    <3>2. l - 1 - k \in 0 .. 3
      BY <2>1, <1>0, <1>1
    <3>3. indirect_count(l - 1 - k) \in Nat
      BY <3>2, Counts
    <3>4. rest[k] * indirect_count(l - 1 - k) \in Int
      BY <3>1, <3>3
    <3> QED BY <2>1, <3>4 DEF Skipped
  <2>2. CASE ~(k <= Len(rest))
    BY <2>2 DEF Skipped
  <2> QED BY <2>1, <2>2
<1>8. Skipped(l, p, 2) = Skipped(l - 1, rest, 1) /\ Skipped(l, p, 3) = Skipped(l - 1, rest, 2)
  BY <1>5
<1>9. Skipped(l - 1, rest, 1) \in Int /\ Skipped(l - 1, rest, 2) \in Int
  BY <1>7
<1> HIDE DEF Skipped
<1>10. IndexAt(cur, l, p) = cur + indirect_count(l - 1) * c + Skipped(l - 1, rest, 1) + Skipped(l - 1, rest, 2)
  BY <1>4, <1>8 DEF IndexAt
<1>11. IndexAt(cur + indirect_count(l - 1) * c, l - 1, rest)
       = cur + indirect_count(l - 1) * c + Skipped(l - 1, rest, 1) + Skipped(l - 1, rest, 2)
  BY <1>6, <1>9, <1>3 DEF IndexAt
<1> QED BY <1>10, <1>11 DEF p

-----------------------------------------------------------------------------
(* Trees, level by level.                                                  *)

(* No block is in two places of a tree. *)
Proper(ptrs, b, level) ==
  \A p, q \in Paths(level) :
    NodeAt(ptrs, b, p) = NodeAt(ptrs, b, q) /\ NodeAt(ptrs, b, p) # EOF => p = q

(* Nothing hangs from EOF. *)
LEMMA NoNode ==
  ASSUME NEW ptrs, NEW l \in 0 .. 3, NEW path \in Paths(l)
  PROVE  NodeAt(ptrs, EOF, path) = EOF
<1>1. path \in Seq(Children) /\ Len(path) <= l
  BY PathsAre
<1>2. Len(path) \in Nat /\ Len(path) <= 3
  BY <1>1
<1>3. \A n \in Nat : n <= 3 => n = 0 \/ n = 1 \/ n = 2 \/ n = 3
  OBVIOUS
<1>4. Len(path) = 0 \/ Len(path) = 1 \/ Len(path) = 2 \/ Len(path) = 3
  BY <1>2, <1>3
<1>5. \A x : Child(ptrs, EOF, x) = EOF
  BY DEF Child
<1> QED BY <1>4, <1>5 DEF NodeAt

(* An index in a tree is not below the first of the tree. *)
LEMMA IndexBeyond ==
  ASSUME NEW l \in 0 .. 3, NEW path \in Paths(l), NEW cur \in Int
  PROVE  IndexAt(cur, l, path) \in Int /\ IndexAt(cur, l, path) >= cur
<1>1. path \in Seq(Children) /\ Len(path) <= l
  BY PathsAre
<1>2. Len(path) \in Nat
  BY <1>1
<1>3. ASSUME NEW k \in 1 .. 3 PROVE Skipped(l, path, k) \in Nat
  <2>1. CASE k <= Len(path)
    <3>1. path[k] \in Children
      BY <1>1, <1>2, <2>1
    <3>2. l - k \in 0 .. 3
      BY <1>1, <1>2, <2>1
    <3>3. path[k] \in Nat /\ indirect_count(l - k) \in Nat
      BY <3>1, <3>2, Counts, Constants
    <3>4. path[k] * indirect_count(l - k) \in Nat
      BY <3>3
    <3> QED BY <2>1, <3>4 DEF Skipped
  <2>2. CASE ~(k <= Len(path))
    BY <2>2 DEF Skipped
  <2> QED BY <2>1, <2>2
<1>4. Skipped(l, path, 1) \in Nat /\ Skipped(l, path, 2) \in Nat /\ Skipped(l, path, 3) \in Nat
  BY <1>3
<1> QED BY <1>4 DEF IndexAt

(* A tree of level 0 is its data block. *)
LEMMA TreeZero ==
  ASSUME NEW ptrs, NEW b
  PROVE  /\ Tree(ptrs, b, 0) = {b} \ {EOF}
         /\ Proper(ptrs, b, 0)
         /\ \A e \in BOOLEAN, cur \in Int, n \in Int :
              Fits(e, ptrs, b, 0, cur, n) <=> (b # EOF => cur < n) /\ (e /\ cur < n => b # EOF)
<1>1. NodeAt(ptrs, b, <<>>) = b /\ \A cur \in Int : IndexAt(cur, 0, <<>>) = cur
  BY EmptyPath
<1>2. Tree(ptrs, b, 0) = {b} \ {EOF}
  BY <1>1, PathZero DEF Tree
<1>3. Proper(ptrs, b, 0)
  BY PathZero DEF Proper
<1>4. ASSUME NEW e \in BOOLEAN, NEW cur \in Int, NEW n \in Int
      PROVE  Fits(e, ptrs, b, 0, cur, n) <=> (b # EOF => cur < n) /\ (e /\ cur < n => b # EOF)
  BY <1>1, PathZero DEF Fits
<1> QED BY <1>2, <1>3, <1>4

(* A data block is right if it is there exactly when the file reaches it. *)
LEMMA FitsZero ==
  ASSUME NEW ptrs, NEW b, NEW e \in BOOLEAN, NEW cur \in Int, NEW n \in Int
  PROVE  Fits(e, ptrs, b, 0, cur, n) <=> (b # EOF => cur < n) /\ (e /\ cur < n => b # EOF)
<1>1. NodeAt(ptrs, b, <<>>) = b /\ IndexAt(cur, 0, <<>>) = cur
  BY EmptyPath
<1> QED BY <1>1, PathZero DEF Fits

(* Where there is no block there is no tree: right for a file that ends    *)
(* before.                                                                 *)
LEMMA TreeNone ==
  ASSUME NEW ptrs, NEW l \in 0 .. 3
  PROVE  /\ Tree(ptrs, EOF, l) = {}
         /\ Proper(ptrs, EOF, l)
         /\ \A e \in BOOLEAN, cur \in Int, n \in Int :
              Fits(e, ptrs, EOF, l, cur, n) <=> (e => n <= cur)
<1>1. \A path \in Paths(l) : NodeAt(ptrs, EOF, path) = EOF
  BY NoNode
<1>2. Tree(ptrs, EOF, l) = {} /\ Proper(ptrs, EOF, l)
  BY <1>1 DEF Tree, Proper
<1>3. <<>> \in Paths(l)
  <2>1. <<>> \in Seq(Children) /\ Len(<<>>) = 0 /\ 0 <= l
    OBVIOUS
  <2> QED BY <2>1, PathsAre
<1>4. ASSUME NEW e \in BOOLEAN, NEW cur \in Int, NEW n \in Int
      PROVE  Fits(e, ptrs, EOF, l, cur, n) <=> (e => n <= cur)
  <2>1. IndexAt(cur, l, <<>>) = cur
    BY EmptyPath
  <2>2. \A path \in Paths(l) : IndexAt(cur, l, path) \in Int /\ IndexAt(cur, l, path) >= cur
    BY IndexBeyond
  <2>3. Fits(e, ptrs, EOF, l, cur, n) <=> \A path \in Paths(l) : e => ~(IndexAt(cur, l, path) < n)
    BY <1>1 DEF Fits
  <2>4. ASSUME NEW path \in Paths(l), n <= cur PROVE ~(IndexAt(cur, l, path) < n)
    <3>1. IndexAt(cur, l, path) \in Int /\ IndexAt(cur, l, path) >= cur
      BY <2>2
    <3> QED BY <3>1, <2>4
  <2>5. ASSUME \A path \in Paths(l) : ~(IndexAt(cur, l, path) < n) PROVE n <= cur
    BY <2>5, <2>1, <1>3
  <2> QED BY <2>3, <2>4, <2>5
<1> QED BY <1>2, <1>4

(* A tree is its root and the trees of its children. *)
LEMMA TreeStep ==
  ASSUME NEW ptrs, NEW l \in 1 .. 3, NEW b, b # EOF
  PROVE  Tree(ptrs, b, l) = {b} \cup UNION {Tree(ptrs, ptrs[b][c], l - 1) : c \in Children}
<1>1. \A c \in Children : Child(ptrs, b, c) = ptrs[b][c]
  BY DEF Child
<1>2. NodeAt(ptrs, b, <<>>) = b
  BY EmptyPath, 0 \in Int
<1>3. \A c \in Children, rest \in Paths(l - 1) :
        NodeAt(ptrs, b, <<c>> \o rest) = NodeAt(ptrs, ptrs[b][c], rest)
  <2> TAKE c \in Children, rest \in Paths(l - 1)
  <2>1. NodeAt(ptrs, b, <<c>> \o rest) = NodeAt(ptrs, Child(ptrs, b, c), rest)
    BY NodeCons
  <2> QED BY <2>1, <1>1
<1>4. ASSUME NEW x \in Tree(ptrs, b, l)
      PROVE  x \in {b} \cup UNION {Tree(ptrs, ptrs[b][c], l - 1) : c \in Children}
  <2>1. PICK path \in Paths(l) : x = NodeAt(ptrs, b, path) /\ x # EOF
    BY DEF Tree
  <2>2. CASE path = <<>>
    BY <2>1, <2>2, <1>2
  <2>3. CASE path # <<>>
    <3>1. PICK c \in Children, rest \in Paths(l - 1) : path = <<c>> \o rest
      BY <2>3, PathCons
    <3>2. x = NodeAt(ptrs, ptrs[b][c], rest)
      BY <2>1, <3>1, <1>3
    <3>3. x \in Tree(ptrs, ptrs[b][c], l - 1)
      BY <3>2, <2>1 DEF Tree
    <3> QED BY <3>3
  <2> QED BY <2>2, <2>3
<1>5. b \in Tree(ptrs, b, l)
  BY <1>2, PathCons DEF Tree
<1>6. ASSUME NEW c \in Children, NEW x \in Tree(ptrs, ptrs[b][c], l - 1)
      PROVE  x \in Tree(ptrs, b, l)
  <2>1. PICK rest \in Paths(l - 1) : x = NodeAt(ptrs, ptrs[b][c], rest) /\ x # EOF
    BY DEF Tree
  <2>2. <<c>> \o rest \in Paths(l) /\ x = NodeAt(ptrs, b, <<c>> \o rest)
    BY <2>1, <1>3, PathCons
  <2> QED BY <2>1, <2>2 DEF Tree
<1> QED BY <1>4, <1>5, <1>6

(* Paths that are equal have the same first child and the same rest. *)
LEMMA ConsSame ==
  ASSUME NEW S, NEW c \in S, NEW d \in S, NEW s \in Seq(S), NEW t \in Seq(S),
         <<c>> \o s = <<d>> \o t
  PROVE  c = d /\ s = t
<1>1. /\ Len(<<c>> \o s) = Len(s) + 1 /\ (<<c>> \o s)[1] = c /\ Len(s) \in Nat
      /\ \A k \in 2 .. Len(s) + 1 : (<<c>> \o s)[k] = s[k - 1]
  BY ConsPositions
<1>2. /\ Len(<<d>> \o t) = Len(t) + 1 /\ (<<d>> \o t)[1] = d /\ Len(t) \in Nat
      /\ \A k \in 2 .. Len(t) + 1 : (<<d>> \o t)[k] = t[k - 1]
  BY ConsPositions
<1>3. c = d
  BY <1>1, <1>2
<1>4. Len(s) = Len(t)
  BY <1>1, <1>2
<1>5. ASSUME NEW k \in 1 .. Len(s) PROVE s[k] = t[k]
  <2>1. k + 1 \in 2 .. Len(s) + 1 /\ k + 1 \in 2 .. Len(t) + 1 /\ (k + 1) - 1 = k
    BY <1>1, <1>4
  <2>2. (<<c>> \o s)[k + 1] = s[(k + 1) - 1] /\ (<<d>> \o t)[k + 1] = t[(k + 1) - 1]
    BY <2>1, <1>1, <1>2
  <2> QED BY <2>1, <2>2
<1>6. s = [k \in 1 .. Len(s) |-> s[k]] /\ t = [k \in 1 .. Len(t) |-> t[k]]
  OBVIOUS
<1> QED BY <1>3, <1>4, <1>5, <1>6

(* No block is in two places of a tree: not in one of its children, not    *)
(* in two of them, and not the root in any.                                *)
LEMMA ProperStep ==
  ASSUME NEW ptrs, NEW l \in 1 .. 3, NEW b, b # EOF
  PROVE  Proper(ptrs, b, l) <=>
           /\ \A c \in Children : Proper(ptrs, ptrs[b][c], l - 1)
           /\ \A c \in Children : b \notin Tree(ptrs, ptrs[b][c], l - 1)
           /\ \A c, d \in Children :
                c # d => Tree(ptrs, ptrs[b][c], l - 1) \cap Tree(ptrs, ptrs[b][d], l - 1) = {}
<1>1. \A c \in Children : Child(ptrs, b, c) = ptrs[b][c]
  BY DEF Child
<1>2. NodeAt(ptrs, b, <<>>) = b
  BY EmptyPath, 0 \in Int
<1>3. \A c \in Children, rest \in Paths(l - 1) :
        NodeAt(ptrs, b, <<c>> \o rest) = NodeAt(ptrs, ptrs[b][c], rest)
  <2> TAKE c \in Children, rest \in Paths(l - 1)
  <2>1. NodeAt(ptrs, b, <<c>> \o rest) = NodeAt(ptrs, Child(ptrs, b, c), rest)
    BY NodeCons
  <2> QED BY <2>1, <1>1
<1>P. ASSUME NEW c \in Children, NEW rest \in Paths(l - 1), NEW d \in Children,
             NEW more \in Paths(l - 1), <<c>> \o rest = <<d>> \o more
      PROVE  c = d /\ rest = more
  <2>1. rest \in Seq(Children) /\ more \in Seq(Children)
    <3>1. l - 1 \in 0 .. 3
      OBVIOUS
    <3> QED BY <3>1, PathsAre
  <2> QED BY <2>1, <1>P, ConsSame
<1>N. ASSUME NEW c \in Children, NEW rest \in Paths(l - 1) PROVE <<c>> \o rest # <<>>
  <2>1. rest \in Seq(Children)
    <3>1. l - 1 \in 0 .. 3
      OBVIOUS
    <3> QED BY <3>1, PathsAre
  <2> QED BY <2>1, ConsPositions
<1>4. ASSUME Proper(ptrs, b, l)
      PROVE  /\ \A c \in Children : Proper(ptrs, ptrs[b][c], l - 1)
             /\ \A c \in Children : b \notin Tree(ptrs, ptrs[b][c], l - 1)
             /\ \A c, d \in Children :
                  c # d => Tree(ptrs, ptrs[b][c], l - 1) \cap Tree(ptrs, ptrs[b][d], l - 1) = {}
  <2>1. ASSUME NEW c \in Children, NEW p \in Paths(l - 1), NEW d \in Children, NEW q \in Paths(l - 1),
               NodeAt(ptrs, ptrs[b][c], p) = NodeAt(ptrs, ptrs[b][d], q),
               NodeAt(ptrs, ptrs[b][c], p) # EOF
        PROVE  c = d /\ p = q
    <3>1. <<c>> \o p \in Paths(l) /\ <<d>> \o q \in Paths(l)
      BY PathCons
    <3>2. <<c>> \o p = <<d>> \o q
      BY <3>1, <2>1, <1>3, <1>4 DEF Proper
    <3> QED BY <3>2, <1>P
  <2>2. ASSUME NEW c \in Children, NEW p \in Paths(l - 1), NodeAt(ptrs, ptrs[b][c], p) = b PROVE FALSE
    <3>1. <<c>> \o p \in Paths(l) /\ <<>> \in Paths(l)
      BY PathCons
    <3>2. <<c>> \o p = <<>>
      BY <3>1, <2>2, <1>2, <1>3, <1>4 DEF Proper
    <3> QED BY <3>2, <1>N
  <2>3. \A c \in Children : Proper(ptrs, ptrs[b][c], l - 1)
    BY <2>1 DEF Proper
  <2>4. \A c \in Children : b \notin Tree(ptrs, ptrs[b][c], l - 1)
    BY <2>2 DEF Tree
  <2>5. \A c, d \in Children :
          c # d => Tree(ptrs, ptrs[b][c], l - 1) \cap Tree(ptrs, ptrs[b][d], l - 1) = {}
    BY <2>1 DEF Tree
  <2> QED BY <2>3, <2>4, <2>5
<1>5. ASSUME \A c \in Children : Proper(ptrs, ptrs[b][c], l - 1),
             \A c \in Children : b \notin Tree(ptrs, ptrs[b][c], l - 1),
             \A c, d \in Children :
               c # d => Tree(ptrs, ptrs[b][c], l - 1) \cap Tree(ptrs, ptrs[b][d], l - 1) = {}
      PROVE  Proper(ptrs, b, l)
  <2> SUFFICES ASSUME NEW p \in Paths(l), NEW q \in Paths(l),
                      NodeAt(ptrs, b, p) = NodeAt(ptrs, b, q), NodeAt(ptrs, b, p) # EOF
               PROVE  p = q
    BY DEF Proper
  <2>1. ASSUME NEW c \in Children, NEW rest \in Paths(l - 1), NodeAt(ptrs, ptrs[b][c], rest) # EOF
        PROVE  NodeAt(ptrs, ptrs[b][c], rest) \in Tree(ptrs, ptrs[b][c], l - 1)
    BY <2>1 DEF Tree
  <2>2. CASE p = <<>> /\ q = <<>>
    BY <2>2
  <2>3. CASE p = <<>> /\ q # <<>>
    <3>1. PICK c \in Children, rest \in Paths(l - 1) : q = <<c>> \o rest
      BY <2>3, PathCons
    <3>2. NodeAt(ptrs, ptrs[b][c], rest) = b
      BY <3>1, <2>3, <1>2, <1>3
    <3> QED BY <3>2, <2>1, <1>5
  <2>4. CASE p # <<>> /\ q = <<>>
    <3>1. PICK c \in Children, rest \in Paths(l - 1) : p = <<c>> \o rest
      BY <2>4, PathCons
    <3>2. NodeAt(ptrs, ptrs[b][c], rest) = b
      BY <3>1, <2>4, <1>2, <1>3
    <3> QED BY <3>2, <2>1, <1>5
  <2>5. CASE p # <<>> /\ q # <<>>
    <3>1. PICK c \in Children, rest \in Paths(l - 1) : p = <<c>> \o rest
      BY <2>5, PathCons
    <3>2. PICK d \in Children, more \in Paths(l - 1) : q = <<d>> \o more
      BY <2>5, PathCons
    <3>3. /\ NodeAt(ptrs, ptrs[b][c], rest) = NodeAt(ptrs, ptrs[b][d], more)
          /\ NodeAt(ptrs, ptrs[b][c], rest) # EOF
      BY <3>1, <3>2, <1>3
    <3>4. c = d
      BY <3>3, <2>1, <1>5
    <3>5. rest = more
      BY <3>3, <3>4, <1>5 DEF Proper
    <3> QED BY <3>1, <3>2, <3>4, <3>5
  <2> QED BY <2>2, <2>3, <2>4, <2>5
<1> QED BY <1>4, <1>5

(* A tree is right for n data blocks if all its children are, each from    *)
(* its first index on.                                                     *)
LEMMA FitsStep ==
  ASSUME NEW ptrs, NEW l \in 1 .. 3, NEW b, b # EOF, NEW e \in BOOLEAN,
         NEW cur \in Int, NEW n \in Int
  PROVE  Fits(e, ptrs, b, l, cur, n) <=>
           /\ cur < n
           /\ \A c \in Children :
                Fits(e, ptrs, ptrs[b][c], l - 1, cur + indirect_count(l - 1) * c, n)
<1>1. \A c \in Children : Child(ptrs, b, c) = ptrs[b][c]
  BY DEF Child
<1>2. NodeAt(ptrs, b, <<>>) = b /\ IndexAt(cur, l, <<>>) = cur
  BY EmptyPath
<1>3. \A c \in Children, rest \in Paths(l - 1) :
        /\ NodeAt(ptrs, b, <<c>> \o rest) = NodeAt(ptrs, ptrs[b][c], rest)
        /\ IndexAt(cur, l, <<c>> \o rest) = IndexAt(cur + indirect_count(l - 1) * c, l - 1, rest)
  <2> TAKE c \in Children, rest \in Paths(l - 1)
  <2>1. NodeAt(ptrs, b, <<c>> \o rest) = NodeAt(ptrs, Child(ptrs, b, c), rest)
    BY NodeCons
  <2>2. IndexAt(cur, l, <<c>> \o rest) = IndexAt(cur + indirect_count(l - 1) * c, l - 1, rest)
    BY IndexCons
  <2> QED BY <2>1, <2>2, <1>1
<1> DEFINE At(path) == LET there == NodeAt(ptrs, b, path) # EOF
                           below == IndexAt(cur, l, path) < n
                       IN  (there => below) /\ (e /\ below => there)
<1>4. Fits(e, ptrs, b, l, cur, n) <=> \A path \in Paths(l) : At(path)
  BY DEF Fits
<1>5. At(<<>>) <=> cur < n
  BY <1>2
<1>6. ASSUME NEW c \in Children
      PROVE  Fits(e, ptrs, ptrs[b][c], l - 1, cur + indirect_count(l - 1) * c, n)
             <=> \A rest \in Paths(l - 1) : At(<<c>> \o rest)
  BY <1>3 DEF Fits
<1> HIDE DEF At
<1>7. (\A path \in Paths(l) : At(path)) <=>
        At(<<>>) /\ \A c \in Children : \A rest \in Paths(l - 1) : At(<<c>> \o rest)
  BY PathCons
<1> QED BY <1>4, <1>5, <1>6, <1>7

-----------------------------------------------------------------------------
(* What leaves a tree as it is.                                            *)
Same(ptrs, more, b, l) ==
  \A path \in Paths(l) : NodeAt(more, b, path) = NodeAt(ptrs, b, path)

(* A data block is not moved by changes to indirect blocks. *)
LEMMA FrameZero ==
  \A ptrs, more, b :
    (\A x \in Tree(ptrs, b, 0) : more[x] = ptrs[x]) => Same(ptrs, more, b, 0)
<1> TAKE ptrs, more, b
<1>1. NodeAt(more, b, <<>>) = b /\ NodeAt(ptrs, b, <<>>) = b
  BY EmptyPath, 0 \in Int
<1> QED BY <1>1, PathZero DEF Same

(* One level up: changes outside a tree leave it the same. *)
LEMMA FrameUp ==
  ASSUME NEW l \in 1 .. 3,
         \A ptrs, more, b :
           (\A x \in Tree(ptrs, b, l - 1) : more[x] = ptrs[x]) => Same(ptrs, more, b, l - 1)
  PROVE  \A ptrs, more, b :
           (\A x \in Tree(ptrs, b, l) : more[x] = ptrs[x]) => Same(ptrs, more, b, l)
<1> SUFFICES ASSUME NEW ptrs, NEW more, NEW b, \A x \in Tree(ptrs, b, l) : more[x] = ptrs[x]
             PROVE  Same(ptrs, more, b, l)
  OBVIOUS
<1>1. CASE b = EOF
  <2>1. \A path \in Paths(l) : NodeAt(ptrs, EOF, path) = EOF /\ NodeAt(more, EOF, path) = EOF
    BY NoNode
  <2> QED BY <1>1, <2>1 DEF Same
<1>2. CASE b # EOF
  <2>1. Tree(ptrs, b, l) = {b} \cup UNION {Tree(ptrs, ptrs[b][c], l - 1) : c \in Children}
    BY <1>2, TreeStep
  <2>2. more[b] = ptrs[b]
    BY <2>1
  <2>3. \A c \in Children : Same(ptrs, more, ptrs[b][c], l - 1)
    BY <2>1
  <2>4. ASSUME NEW c \in Children, NEW rest \in Paths(l - 1)
        PROVE  NodeAt(more, b, <<c>> \o rest) = NodeAt(ptrs, b, <<c>> \o rest)
    <3>1. NodeAt(more, b, <<c>> \o rest) = NodeAt(more, Child(more, b, c), rest)
      BY NodeCons
    <3>2. NodeAt(ptrs, b, <<c>> \o rest) = NodeAt(ptrs, Child(ptrs, b, c), rest)
      BY NodeCons
    <3>3. Child(more, b, c) = ptrs[b][c] /\ Child(ptrs, b, c) = ptrs[b][c]
      BY <1>2, <2>2 DEF Child
    <3> QED BY <3>1, <3>2, <3>3, <2>3 DEF Same
  <2>5. NodeAt(more, b, <<>>) = NodeAt(ptrs, b, <<>>)
    BY EmptyPath, 0 \in Int
  <2> QED BY <2>4, <2>5, PathCons DEF Same
<1> QED BY <1>1, <1>2

(* A tree none of whose blocks is changed is the same tree. *)
LEMMA Frame ==
  ASSUME NEW l \in 0 .. 3, NEW ptrs, NEW more, NEW b,
         \A x \in Tree(ptrs, b, l) : more[x] = ptrs[x]
  PROVE  Same(ptrs, more, b, l)
<1> DEFINE S(k) == \A p, m, a : (\A x \in Tree(p, a, k) : m[x] = p[x]) => Same(p, m, a, k)
<1>0. S(0)
  BY FrameZero
<1>U. \A k \in 1 .. 3 : S(k - 1) => S(k)
  BY FrameUp
<1>1. S(0) /\ S(1 - 1) /\ (S(1) => S(2 - 1)) /\ (S(2) => S(3 - 1))
  BY <1>0
<1> HIDE DEF S
<1>2. S(1)
  BY <1>1, <1>U
<1>3. S(2)
  BY <1>1, <1>2, <1>U
<1>4. S(3)
  BY <1>1, <1>3, <1>U
<1>5. l = 0 \/ l = 1 \/ l = 2 \/ l = 3
  OBVIOUS
<1>6. S(l)
  BY <1>0, <1>2, <1>3, <1>4, <1>5
<1> QED BY <1>6 DEF S

(* Trees with the same blocks in the same places agree in all that is      *)
(* said of them.                                                           *)
LEMMA SameIs ==
  ASSUME NEW l \in 0 .. 3, NEW ptrs, NEW more, NEW b, Same(ptrs, more, b, l)
  PROVE  /\ Tree(more, b, l) = Tree(ptrs, b, l)
         /\ Proper(more, b, l) <=> Proper(ptrs, b, l)
         /\ \A e \in BOOLEAN, cur \in Int, n \in Int :
              Fits(e, more, b, l, cur, n) <=> Fits(e, ptrs, b, l, cur, n)
<1>1. Tree(more, b, l) = Tree(ptrs, b, l)
  BY DEF Tree, Same
<1>2. Proper(more, b, l) <=> Proper(ptrs, b, l)
  BY DEF Proper, Same
<1>3. \A e \in BOOLEAN, cur \in Int, n \in Int :
              Fits(e, more, b, l, cur, n) <=> Fits(e, ptrs, b, l, cur, n)
  BY DEF Fits, Same
<1> QED BY <1>1, <1>2, <1>3

(* One level up: what hangs from a block is blocks. *)
LEMMA TreeTypeUp ==
  ASSUME NEW l \in 1 .. 3, NEW ptrs \in Ptrs,
         \A a \in Node : Tree(ptrs, a, l - 1) \subseteq Blocks
  PROVE  \A a \in Node : Tree(ptrs, a, l) \subseteq Blocks
<1> TAKE a \in Node
<1>1. CASE a = EOF
  <2>1. Tree(ptrs, EOF, l) = {}
    BY TreeNone
  <2> QED BY <2>1, <1>1
<1>2. CASE a # EOF
  <2>1. Tree(ptrs, a, l) = {a} \cup UNION {Tree(ptrs, ptrs[a][c], l - 1) : c \in Children}
    BY <1>2, TreeStep
  <2>2. \A c \in Children : ptrs[a][c] \in Node
    BY <1>2 DEF Ptrs, Node
  <2> QED BY <1>2, <2>1, <2>2 DEF Node
<1> QED BY <1>1, <1>2

(* What hangs from a block or from EOF is blocks. *)
LEMMA TreeType ==
  ASSUME NEW ptrs \in Ptrs, NEW b \in Node, NEW l \in 0 .. 3
  PROVE  Tree(ptrs, b, l) \subseteq Blocks
<1> DEFINE S(k) == \A a \in Node : Tree(ptrs, a, k) \subseteq Blocks
<1>0. S(0)
  BY TreeZero DEF Node
<1>U. \A k \in 1 .. 3 : S(k - 1) => S(k)
  BY TreeTypeUp
<1>1. S(0) /\ S(1 - 1) /\ (S(1) => S(2 - 1)) /\ (S(2) => S(3 - 1))
  BY <1>0
<1> HIDE DEF S
<1>2. S(1)
  BY <1>1, <1>U
<1>3. S(2)
  BY <1>1, <1>2, <1>U
<1>4. S(3)
  BY <1>1, <1>3, <1>U
<1>5. l = 0 \/ l = 1 \/ l = 2 \/ l = 3
  OBVIOUS
<1>6. S(l)
  BY <1>0, <1>2, <1>3, <1>4, <1>5
<1> QED BY <1>6 DEF S

(* EOF is not in a tree. *)
LEMMA TreeHasNoEOF ==
  ASSUME NEW ptrs, NEW b, NEW l
  PROVE  EOF \notin Tree(ptrs, b, l)
BY DEF Tree

(* The indexes of a tree's blocks lie in its range. *)
LEMMA ChildSpan ==
  ASSUME NEW l \in 1 .. 3, NEW c \in Children, NEW cur \in Int
  PROVE  /\ cur + indirect_count(l - 1) * c \in Int
         /\ cur <= cur + indirect_count(l - 1) * c
         /\ cur + indirect_count(l - 1) * c + indirect_count(l - 1) <= cur + indirect_count(l)
<1> DEFINE s == indirect_count(l - 1)
<1>1. l - 1 \in 0 .. 3
  OBVIOUS
<1>2. s \in Nat /\ s > 0 /\ indirect_count(l) = W * s
  BY <1>1, Counts
<1>3. c \in Nat /\ c < W /\ W \in Nat
  BY Constants DEF Children
<1> HIDE DEF s
<1>4. s * c + s <= s * W
  BY <1>2, <1>3, MultipleGap
<1>5. s * c \in Nat /\ s * W = W * s /\ s * W \in Nat
  BY <1>2, <1>3
<1>6. cur + s * c \in Int /\ cur <= cur + s * c /\ cur + s * c + s <= cur + indirect_count(l)
  BY <1>2, <1>4, <1>5
<1> QED BY <1>6 DEF s

(* One level up: the indexes of a tree lie below its end. *)
LEMMA IndexBelowUp ==
  ASSUME NEW l \in 1 .. 3,
         \A cur \in Int : \A path \in Paths(l - 1) :
           IndexAt(cur, l - 1, path) < cur + indirect_count(l - 1)
  PROVE  \A cur \in Int : \A path \in Paths(l) :
           IndexAt(cur, l, path) < cur + indirect_count(l)
<1> TAKE cur \in Int
<1> TAKE path \in Paths(l)
<1>1. CASE path = <<>>
  <2>1. IndexAt(cur, l, <<>>) = cur
    BY EmptyPath
  <2>2. indirect_count(l) \in Nat /\ indirect_count(l) > 0
    <3>1. l \in 0 .. 3
      OBVIOUS
    <3> QED BY <3>1, Counts
  <2> QED BY <1>1, <2>1, <2>2
<1>2. CASE path # <<>>
  <2>1. PICK c \in Children, rest \in Paths(l - 1) : path = <<c>> \o rest
    BY <1>2, PathCons
  <2> DEFINE k == cur + indirect_count(l - 1) * c
  <2>2. /\ k \in Int /\ k + indirect_count(l - 1) <= cur + indirect_count(l)
        /\ indirect_count(l - 1) \in Nat /\ indirect_count(l) \in Nat
    <3>1. l \in 0 .. 3 /\ l - 1 \in 0 .. 3
      OBVIOUS
    <3> QED BY <3>1, ChildSpan, Counts
  <2>3. IndexAt(cur, l, path) = IndexAt(k, l - 1, rest)
    BY <2>1, IndexCons
  <2> HIDE DEF k
  <2>4. IndexAt(k, l - 1, rest) < k + indirect_count(l - 1)
    BY <2>2
  <2>5. IndexAt(k, l - 1, rest) \in Int
    <3>1. l - 1 \in 0 .. 3
      OBVIOUS
    <3> QED BY <3>1, <2>2, IndexBeyond
  <2> QED BY <2>2, <2>3, <2>4, <2>5
<1> QED BY <1>1, <1>2

(* The indexes of a tree lie below its end. *)
LEMMA IndexBelow ==
  ASSUME NEW l \in 0 .. 3, NEW cur \in Int, NEW path \in Paths(l)
  PROVE  IndexAt(cur, l, path) < cur + indirect_count(l)
<1> DEFINE S(k) == \A c \in Int : \A p \in Paths(k) : IndexAt(c, k, p) < c + indirect_count(k)
<1>0. S(0)
  <2> SUFFICES ASSUME NEW c \in Int PROVE IndexAt(c, 0, <<>>) < c + indirect_count(0)
    BY PathZero
  <2>1. IndexAt(c, 0, <<>>) = c
    BY EmptyPath
  <2> QED BY <2>1, Counts
<1>U. \A k \in 1 .. 3 : S(k - 1) => S(k)
  BY IndexBelowUp
<1>1. S(0) /\ S(1 - 1) /\ (S(1) => S(2 - 1)) /\ (S(2) => S(3 - 1))
  BY <1>0
<1> HIDE DEF S
<1>2. S(1)
  BY <1>1, <1>U
<1>3. S(2)
  BY <1>1, <1>2, <1>U
<1>4. S(3)
  BY <1>1, <1>3, <1>U
<1>5. l = 0 \/ l = 1 \/ l = 2 \/ l = 3
  OBVIOUS
<1>6. S(l)
  BY <1>0, <1>2, <1>3, <1>4, <1>5
<1> QED BY <1>6 DEF S

(* Only what happens to the file's length in its range matters to a tree. *)
LEMMA FitsSame ==
  ASSUME NEW e \in BOOLEAN, NEW ptrs, NEW b, NEW l \in 0 .. 3, NEW cur \in Int,
         NEW n \in Int, NEW m \in Int,
         \/ n <= cur /\ m <= cur
         \/ n >= cur + indirect_count(l) /\ m >= cur + indirect_count(l)
         \/ n = m
  PROVE  Fits(e, ptrs, b, l, cur, n) <=> Fits(e, ptrs, b, l, cur, m)
<1>1. ASSUME NEW path \in Paths(l)
      PROVE  IndexAt(cur, l, path) < n <=> IndexAt(cur, l, path) < m
  <2>1. /\ IndexAt(cur, l, path) \in Int /\ IndexAt(cur, l, path) >= cur
        /\ IndexAt(cur, l, path) < cur + indirect_count(l)
    BY IndexBeyond, IndexBelow
  <2>2. indirect_count(l) \in Nat
    BY Counts
  <2> QED BY <2>1, <2>2
<1> QED BY <1>1 DEF Fits

(* A tree that fits whole also fits with blocks missing. *)
LEMMA FitsWeaker ==
  ASSUME NEW e \in BOOLEAN, NEW f \in BOOLEAN, NEW ptrs, NEW b, NEW l, NEW cur, NEW n,
         Fits(e, ptrs, b, l, cur, n), f => e
  PROVE  Fits(f, ptrs, b, l, cur, n)
BY DEF Fits

(* The least number of a set of numbers is one of them. *)
LEMMA MinIn ==
  ASSUME NEW S \in SUBSET Nat, S # {}
  PROVE  Min(S) \in S
<1>1. \E n \in S : \A m \in S : n <= m
  BY Least
<1> QED BY <1>1 DEF Min

-----------------------------------------------------------------------------
(* Stores.                                                                 *)
IsBytes(f) == f = [b \in Blocks |-> f[b]] /\ \A b \in Blocks : DOMAIN f[b] = 0 .. BS - 1

IsStore(st) ==
  /\ st = [free |-> st.free, ind |-> st.ind, bytes |-> st.bytes,
           bad |-> st.bad, hyper |-> st.hyper]
  /\ st.free \subseteq Blocks
  /\ st.ind \in Ptrs
  /\ IsBytes(st.bytes)
  /\ st.bad \in BOOLEAN
  /\ st.hyper \in BOOLEAN

(* A cleared indirect block has EOF for every child. *)
LEMMA NoChildrenIs ==
  /\ NoChildren \in [Children -> Node]
  /\ \A c \in Children : NoChildren[c] = EOF
BY DEF NoChildren, Node

(* Taking a block changes the free blocks and nothing else. *)
LEMMA TakenIs ==
  ASSUME NEW st, IsStore(st), NEW b
  PROVE  /\ IsStore(Taken(st, b))
         /\ Taken(st, b).free = st.free \ {b} /\ Taken(st, b).ind = st.ind
         /\ Taken(st, b).bad = st.bad /\ Taken(st, b).hyper = st.hyper
<1>1. Taken(st, b) = [free |-> st.free \ {b}, ind |-> st.ind, bytes |-> st.bytes,
                      bad |-> st.bad, hyper |-> st.hyper]
  BY DEF IsStore, Taken
<1> QED BY <1>1 DEF IsStore

(* Freeing a block adds it to the free ones and changes no other block. *)
LEMMA FreedIs ==
  ASSUME NEW st, IsStore(st), NEW b \in Blocks
  PROVE  /\ IsStore(block_free(st, b))
         /\ block_free(st, b).free = st.free \cup {b}
         /\ \A x \in Blocks : x # b => block_free(st, b).ind[x] = st.ind[x]
         /\ block_free(st, b).bad = st.bad /\ block_free(st, b).hyper = st.hyper
<1>0. st = [free |-> st.free, ind |-> st.ind, bytes |-> st.bytes,
            bad |-> st.bad, hyper |-> st.hyper]
  BY DEF IsStore
<1> DEFINE s1 == [st EXCEPT !.free = @ \cup {b}]
           s2 == [s1 EXCEPT !.ind[b] = NoChildren]
<1>01. block_free(st, b) = [s2 EXCEPT !.bytes[b] = JunkBytes]
  BY DEF block_free
<1>02. s1 = [free |-> st.free \cup {b}, ind |-> st.ind, bytes |-> st.bytes,
             bad |-> st.bad, hyper |-> st.hyper]
  BY <1>0
<1> HIDE DEF s1
<1>03. s2 = [free |-> st.free \cup {b}, ind |-> [st.ind EXCEPT ![b] = NoChildren],
             bytes |-> st.bytes, bad |-> st.bad, hyper |-> st.hyper]
  BY <1>02
<1> HIDE DEF s2
<1>1. block_free(st, b) =
        [free |-> st.free \cup {b}, ind |-> [st.ind EXCEPT ![b] = NoChildren],
         bytes |-> [st.bytes EXCEPT ![b] = JunkBytes], bad |-> st.bad, hyper |-> st.hyper]
  BY <1>01, <1>03
<1>2. [st.ind EXCEPT ![b] = NoChildren] \in Ptrs
  BY NoChildrenIs DEF IsStore, Ptrs
<1>3. IsBytes([st.bytes EXCEPT ![b] = JunkBytes])
  <2>1. DOMAIN JunkBytes = 0 .. BS - 1
    BY DEF JunkBytes
  <2>2. DOMAIN st.bytes = Blocks
    BY DEF IsStore, IsBytes
  <2>3. \A x \in Blocks : [st.bytes EXCEPT ![b] = JunkBytes][x] = IF x = b THEN JunkBytes ELSE st.bytes[x]
    BY <2>2
  <2>4. [st.bytes EXCEPT ![b] = JunkBytes] = [x \in Blocks |-> [st.bytes EXCEPT ![b] = JunkBytes][x]]
    BY <2>2
  <2> HIDE DEF JunkBytes
  <2> QED BY <2>1, <2>3, <2>4 DEF IsStore, IsBytes
<1>4. \A x \in Blocks : x # b => [st.ind EXCEPT ![b] = NoChildren][x] = st.ind[x]
  BY DEF IsStore, Ptrs
<1> QED BY <1>1, <1>2, <1>3, <1>4 DEF IsStore

(* Writing an indirect block changes that block and nothing else. *)
LEMMA PointedIs ==
  ASSUME NEW st, IsStore(st), NEW b \in Blocks, NEW data \in [Children -> Node]
  PROVE  LET to == [st EXCEPT !.ind[b] = data]
         IN  /\ IsStore(to) /\ to.free = st.free /\ to.ind[b] = data
             /\ \A x \in Blocks : x # b => to.ind[x] = st.ind[x]
             /\ to.bad = st.bad /\ to.hyper = st.hyper
<1> DEFINE to == [st EXCEPT !.ind[b] = data]
<1>1. to = [free |-> st.free, ind |-> [st.ind EXCEPT ![b] = data],
            bytes |-> st.bytes, bad |-> st.bad, hyper |-> st.hyper]
  BY DEF IsStore
<1>2. [st.ind EXCEPT ![b] = data] \in Ptrs
  BY DEF IsStore, Ptrs
<1>3. /\ \A x \in Blocks : x # b => [st.ind EXCEPT ![b] = data][x] = st.ind[x]
      /\ [st.ind EXCEPT ![b] = data][b] = data
  BY DEF IsStore, Ptrs
<1> QED BY <1>1, <1>2, <1>3 DEF IsStore

(* Raising a flag changes no block. *)
LEMMA FlaggedIs ==
  ASSUME NEW st, IsStore(st), NEW x \in BOOLEAN
  PROVE  /\ LET to == [st EXCEPT !.hyper = @ \/ x]
            IN  /\ IsStore(to) /\ to.free = st.free /\ to.ind = st.ind
                /\ to.bad = st.bad /\ to.hyper = (st.hyper \/ x)
         /\ LET to == [st EXCEPT !.bad = @ \/ x]
            IN  /\ IsStore(to) /\ to.free = st.free /\ to.ind = st.ind
                /\ to.bad = (st.bad \/ x) /\ to.hyper = st.hyper
<1>1. [st EXCEPT !.hyper = @ \/ x] = [free |-> st.free, ind |-> st.ind, bytes |-> st.bytes,
                                      bad |-> st.bad, hyper |-> st.hyper \/ x]
  BY DEF IsStore
<1>2. [st EXCEPT !.bad = @ \/ x] = [free |-> st.free, ind |-> st.ind, bytes |-> st.bytes,
                                    bad |-> st.bad \/ x, hyper |-> st.hyper]
  BY DEF IsStore
<1>3. (st.hyper \/ x) \in BOOLEAN /\ (st.bad \/ x) \in BOOLEAN
  OBVIOUS
<1> QED BY <1>1, <1>2, <1>3 DEF IsStore

-----------------------------------------------------------------------------
(* What growing and shrinking do to the blocks: what hung from a and the   *)
(* free blocks become what hangs from the new block and the new free ones, *)
(* all of them unless the tree was damaged.                                *)
Moved(e, st, a, more, b, l) ==
  /\ IsStore(more) /\ b \in Node
  /\ Proper(more.ind, b, l)
  /\ Tree(more.ind, b, l) \cap more.free = {}
  /\ Tree(more.ind, b, l) \cup more.free \subseteq Tree(st.ind, a, l) \cup st.free
  /\ e /\ ~more.hyper => Tree(more.ind, b, l) \cup more.free = Tree(st.ind, a, l) \cup st.free
  /\ \A x \in Blocks : x \notin Tree(st.ind, a, l) \cup st.free => more.ind[x] = st.ind[x]
  /\ st.hyper => more.hyper

(* Trees that hang side by side. *)
Forest(I, R, L, ptrs, F) ==
  /\ \A i \in I : Proper(ptrs, R[i], L[i]) /\ Tree(ptrs, R[i], L[i]) \cap F = {}
  /\ \A i, j \in I : i # j => Tree(ptrs, R[i], L[i]) \cap Tree(ptrs, R[j], L[j]) = {}

Wood(I, R, L, ptrs) == UNION {Tree(ptrs, R[i], L[i]) : i \in I}

(* When one tree of a forest moves, the others stay, and the forest and    *)
(* the free blocks still hold what they held.                              *)
LEMMA ForestStep ==
  ASSUME NEW e \in BOOLEAN, NEW I, NEW R \in [I -> Node], NEW L \in [I -> 0 .. 3], NEW st, IsStore(st),
         Forest(I, R, L, st.ind, st.free), NEW i \in I, NEW more, NEW b,
         Moved(e, st, R[i], more, b, L[i])
  PROVE  LET Q == [R EXCEPT ![i] = b]
         IN  /\ Q \in [I -> Node]
             /\ \A j \in I : j # i => Same(st.ind, more.ind, R[j], L[j])
             /\ Forest(I, Q, L, more.ind, more.free)
             /\ Wood(I, Q, L, more.ind) \cup more.free \subseteq Wood(I, R, L, st.ind) \cup st.free
             /\ e /\ ~more.hyper =>
                  Wood(I, Q, L, more.ind) \cup more.free = Wood(I, R, L, st.ind) \cup st.free
             /\ \A x \in Blocks :
                  x \notin Wood(I, R, L, st.ind) \cup st.free => more.ind[x] = st.ind[x]
<1> DEFINE Q == [R EXCEPT ![i] = b]
           T(j) == Tree(st.ind, R[j], L[j])
           U(j) == Tree(more.ind, Q[j], L[j])
<1>1. Q \in [I -> Node] /\ Q[i] = b /\ \A j \in I : j # i => Q[j] = R[j]
  BY DEF Moved
<1> HIDE DEF Q
<1>2. \A j \in I : T(j) \subseteq Blocks
  BY TreeType DEF IsStore
<1>3. \A j \in I : j # i => T(j) \cap T(i) = {} /\ T(j) \cap st.free = {}
  BY DEF Forest
<1>4. ASSUME NEW j \in I, j # i PROVE Same(st.ind, more.ind, R[j], L[j])
  <2>1. \A x \in T(j) : more.ind[x] = st.ind[x]
    BY <1>2, <1>3, <1>4 DEF Moved
  <2>2. L[j] \in 0 .. 3
    OBVIOUS
  <2> QED BY <2>1, <2>2, Frame
<1>5. ASSUME NEW j \in I, j # i
      PROVE  U(j) = T(j) /\ Proper(more.ind, Q[j], L[j])
  <2>1. Proper(st.ind, R[j], L[j]) /\ L[j] \in 0 .. 3
    BY DEF Forest
  <2> QED BY <2>1, <1>1, <1>4, <1>5, SameIs
<1>6. /\ Proper(more.ind, Q[i], L[i]) /\ U(i) \cap more.free = {}
      /\ U(i) \cup more.free \subseteq T(i) \cup st.free
      /\ e /\ ~more.hyper => U(i) \cup more.free = T(i) \cup st.free
  BY <1>1 DEF Moved
<1>7. \A j, k \in I : j # k => T(j) \cap T(k) = {}
  BY DEF Forest
<1>8. /\ \A x : x \in Wood(I, R, L, st.ind) <=> \E j \in I : x \in T(j)
      /\ \A x : x \in Wood(I, Q, L, more.ind) <=> \E j \in I : x \in U(j)
  BY DEF Wood
<1>9. \A x \in Blocks : x \notin T(i) \cup st.free => more.ind[x] = st.ind[x]
  BY DEF Moved
<1>10. \A j \in I : j # i => U(j) = T(j)
  BY <1>5
<1>11. Forest(I, Q, L, more.ind, more.free) <=>
         /\ \A j \in I : Proper(more.ind, Q[j], L[j]) /\ U(j) \cap more.free = {}
         /\ \A j, k \in I : j # k => U(j) \cap U(k) = {}
  BY DEF Forest
<1>12. \A j \in I : Proper(more.ind, Q[j], L[j])
  BY <1>5, <1>6
<1> HIDE DEF T, U
<1>13. \A j \in I : U(j) \cap more.free = {}
  BY <1>3, <1>6, <1>10
<1>14. \A j, k \in I : j # k => U(j) \cap U(k) = {}
  <2> SUFFICES ASSUME NEW j \in I, NEW k \in I, j # k PROVE U(j) \cap U(k) = {}
    OBVIOUS
  <2>1. CASE j = i
    BY <2>1, <1>3, <1>6, <1>10
  <2>2. CASE k = i
    BY <2>2, <1>3, <1>6, <1>10
  <2>3. CASE j # i /\ k # i
    BY <2>3, <1>7, <1>10
  <2> QED BY <2>1, <2>2, <2>3
<1>15. Forest(I, Q, L, more.ind, more.free)
  BY <1>11, <1>12, <1>13, <1>14
<1>16. ASSUME NEW x \in Wood(I, Q, L, more.ind) \cup more.free
       PROVE  x \in Wood(I, R, L, st.ind) \cup st.free
  <2>1. CASE x \in more.free
    BY <2>1, <1>6, <1>8
  <2>2. CASE x \in Wood(I, Q, L, more.ind)
    <3>1. PICK j \in I : x \in U(j)
      BY <2>2, <1>8
    <3>2. CASE j = i
      BY <3>1, <3>2, <1>6, <1>8
    <3>3. CASE j # i
      BY <3>1, <3>3, <1>10, <1>8
    <3> QED BY <3>2, <3>3
  <2> QED BY <2>1, <2>2
<1>17. ASSUME e /\ ~more.hyper, NEW x \in Wood(I, R, L, st.ind) \cup st.free
       PROVE  x \in Wood(I, Q, L, more.ind) \cup more.free
  <2>0. U(i) \cup more.free = T(i) \cup st.free
    BY <1>6, <1>17
  <2>1. CASE x \in st.free
    <3>1. x \in U(i) \/ x \in more.free
      BY <2>1, <2>0
    <3> QED BY <3>1, <1>8
  <2>2. CASE x \in Wood(I, R, L, st.ind)
    <3>1. PICK j \in I : x \in T(j)
      BY <2>2, <1>8
    <3>2. CASE j = i
      <4>1. x \in U(i) \/ x \in more.free
        BY <3>1, <3>2, <2>0
      <4> QED BY <4>1, <1>8
    <3>3. CASE j # i
      BY <3>1, <3>3, <1>10, <1>8
    <3> QED BY <3>2, <3>3
  <2> QED BY <2>1, <2>2
<1>18. \A x \in Blocks :
         x \notin Wood(I, R, L, st.ind) \cup st.free => more.ind[x] = st.ind[x]
  BY <1>9, <1>8
<1>19. /\ Wood(I, Q, L, more.ind) \cup more.free \subseteq Wood(I, R, L, st.ind) \cup st.free
       /\ e /\ ~more.hyper =>
            Wood(I, Q, L, more.ind) \cup more.free = Wood(I, R, L, st.ind) \cup st.free
  BY <1>16, <1>17
<1> QED BY <1>1, <1>4, <1>15, <1>18, <1>19 DEF Q

-----------------------------------------------------------------------------
(* An indirect block and the forest of its children.                       *)
Below(l) == [c \in Children |-> l - 1]

(* The children of an indirect block of level l have level l - 1. *)
LEMMA BelowIs ==
  ASSUME NEW l \in 1 .. 3
  PROVE  Below(l) \in [Children -> 0 .. 3] /\ \A c \in Children : Below(l)[c] = l - 1
<1>1. l - 1 \in 0 .. 3
  OBVIOUS
<1> QED BY <1>1 DEF Below

(* The blocks below an indirect block. *)
LEMMA WoodBelow ==
  ASSUME NEW l \in 1 .. 3, NEW R, NEW ptrs
  PROVE  Wood(Children, R, Below(l), ptrs) = UNION {Tree(ptrs, R[c], l - 1) : c \in Children}
BY BelowIs DEF Wood

(* A tree with its root taken off is a forest of its children. *)
LEMMA Open ==
  ASSUME NEW l \in 1 .. 3, NEW st, IsStore(st), NEW b \in Blocks,
         Proper(st.ind, b, l), Tree(st.ind, b, l) \cap st.free = {}
  PROVE  /\ st.ind[b] \in [Children -> Node]
         /\ Forest(Children, st.ind[b], Below(l), st.ind, st.free)
         /\ b \notin Wood(Children, st.ind[b], Below(l), st.ind) /\ b \notin st.free
         /\ Tree(st.ind, b, l) = {b} \cup Wood(Children, st.ind[b], Below(l), st.ind)
<1> DEFINE T(c) == Tree(st.ind, st.ind[b][c], l - 1)
<1>0. b # EOF
  BY Constants
<1>1. st.ind[b] \in [Children -> Node]
  BY DEF IsStore, Ptrs
<1>2. Tree(st.ind, b, l) = {b} \cup Wood(Children, st.ind[b], Below(l), st.ind)
  <2> DEFINE R == st.ind[b]
  <2>1. Tree(st.ind, b, l) = {b} \cup UNION {Tree(st.ind, R[c], l - 1) : c \in Children}
    BY <1>0, TreeStep
  <2>2. Wood(Children, R, Below(l), st.ind) = UNION {Tree(st.ind, R[c], l - 1) : c \in Children}
    BY WoodBelow
  <2> QED BY <2>1, <2>2
<1>3. /\ \A c \in Children : Proper(st.ind, st.ind[b][c], l - 1)
      /\ \A c \in Children : b \notin T(c)
      /\ \A c, d \in Children : c # d => T(c) \cap T(d) = {}
  BY <1>0, ProperStep
<1>4. \A x : x \in Wood(Children, st.ind[b], Below(l), st.ind) <=> \E c \in Children : x \in T(c)
  BY WoodBelow
<1>5. \A c \in Children : T(c) \cap st.free = {}
  BY <1>2, <1>4
<1>6. \A c \in Children : Below(l)[c] = l - 1
  BY BelowIs
<1>7. Forest(Children, st.ind[b], Below(l), st.ind, st.free)
  BY <1>3, <1>5, <1>6 DEF Forest
<1>8. b \notin Wood(Children, st.ind[b], Below(l), st.ind) /\ b \notin st.free
  BY <1>2, <1>3, <1>4
<1> QED BY <1>1, <1>2, <1>7, <1>8

(* A block over a forest of children is a tree again. *)
LEMMA Close ==
  ASSUME NEW l \in 1 .. 3, NEW st, IsStore(st), NEW b \in Blocks,
         NEW R \in [Children -> Node], Forest(Children, R, Below(l), st.ind, st.free),
         b \notin Wood(Children, R, Below(l), st.ind), b \notin st.free,
         NEW to, IsStore(to), to.ind[b] = R, to.free = st.free,
         \A x \in Blocks : x # b => to.ind[x] = st.ind[x]
  PROVE  /\ Proper(to.ind, b, l)
         /\ Tree(to.ind, b, l) = {b} \cup Wood(Children, R, Below(l), st.ind)
         /\ Tree(to.ind, b, l) \cap to.free = {}
         /\ \A c \in Children : Same(st.ind, to.ind, R[c], l - 1)
<1> DEFINE T(c) == Tree(st.ind, R[c], l - 1)
<1>0. b # EOF /\ l - 1 \in 0 .. 3
  BY Constants
<1>4. \A x : x \in Wood(Children, R, Below(l), st.ind) <=> \E c \in Children : x \in T(c)
  BY WoodBelow
<1>6. \A c \in Children : Below(l)[c] = l - 1
  BY BelowIs
<1>1. ASSUME NEW c \in Children PROVE Same(st.ind, to.ind, R[c], l - 1)
  <2>1. T(c) \subseteq Blocks /\ b \notin T(c)
    BY <1>0, <1>4, TreeType DEF IsStore
  <2> QED BY <2>1, <1>0, Frame
<1>2. \A c \in Children :
        /\ Tree(to.ind, to.ind[b][c], l - 1) = T(c)
        /\ Proper(to.ind, to.ind[b][c], l - 1) <=> Proper(st.ind, R[c], l - 1)
  BY <1>0, <1>1, SameIs
<1>3. Tree(to.ind, b, l) = {b} \cup UNION {Tree(to.ind, to.ind[b][c], l - 1) : c \in Children}
  BY <1>0, TreeStep
<1>5. \A x : x \in Tree(to.ind, b, l) <=> x = b \/ \E c \in Children : x \in T(c)
  BY <1>2, <1>3
<1>7. Tree(to.ind, b, l) = {b} \cup Wood(Children, R, Below(l), st.ind)
  BY <1>4, <1>5
<1>8. /\ \A c \in Children : Proper(st.ind, R[c], l - 1) /\ T(c) \cap st.free = {}
      /\ \A c, d \in Children : c # d => T(c) \cap T(d) = {}
  BY <1>6 DEF Forest
<1>9. Proper(to.ind, b, l)
  <2>1. \A c \in Children : Proper(to.ind, to.ind[b][c], l - 1)
    BY <1>2, <1>8
  <2>2. \A c \in Children : b \notin Tree(to.ind, to.ind[b][c], l - 1)
    BY <1>2, <1>4
  <2>3. \A c, d \in Children :
          c # d => Tree(to.ind, to.ind[b][c], l - 1) \cap Tree(to.ind, to.ind[b][d], l - 1) = {}
    BY <1>2, <1>8
  <2> QED BY <2>1, <2>2, <2>3, <1>0, ProperStep
<1>10. Tree(to.ind, b, l) \cap to.free = {}
  BY <1>5, <1>8
<1> QED BY <1>1, <1>7, <1>9, <1>10

-----------------------------------------------------------------------------
(* Arithmetic.                                                             *)
Hi(x, y) == IF x < y THEN y ELSE x
Lo(x, y) == IF x < y THEN x ELSE y

(* The loop visits the children with an index in the range. *)
LEMMA ChildRange ==
  ASSUME NEW l \in 1 .. 3, NEW cur \in Nat, NEW old \in Nat, NEW new \in Nat,
         cur < new, old < cur + indirect_count(l), NEW c \in Children
  PROVE  LET s == indirect_count(l - 1)
         IN  c \in FirstChild(cur, s, old) .. LastChild(cur, s, new)
             <=> cur + s * c < new /\ old < cur + s * c + s
<1> DEFINE s == indirect_count(l - 1)
<1>1. s \in Nat /\ s > 0 /\ indirect_count(l) = W * s /\ s \in Nat \ {0}
  <2>1. l - 1 \in 0 .. 3
    OBVIOUS
  <2> QED BY <2>1, Counts
<1>2. c \in Nat /\ c < W /\ W \in Nat
  BY Constants DEF Children
<1> HIDE DEF s
<1>3. s * c \in Nat /\ W * s \in Nat
  BY <1>1, <1>2
<1>4. FirstChild(cur, s, old) \in Nat /\ (FirstChild(cur, s, old) <= c <=> old < cur + s * c + s)
  <2>1. CASE cur < old
    <3> DEFINE a == old - cur
               q == a \div s
    <3>1. a \in Nat
      BY <2>1
    <3> HIDE DEF a
    <3>2. q \in Nat /\ a % s \in 0 .. s - 1 /\ a = s * q + (a % s)
      BY <3>1, <1>1, DivMod
    <3> HIDE DEF q
    <3>3. s * q \in Nat
      BY <3>2, <1>1
    <3>4. ASSUME q <= c PROVE a < s * c + s
      <4>1. s * q <= s * c
        <5>1. CASE q = c
          BY <5>1, <1>3
        <5>2. CASE q < c
          <6>1. s * q + s <= s * c
            BY <5>2, <3>2, <1>1, <1>2, MultipleGap
          <6> QED BY <6>1, <3>3, <1>3, <1>1
        <5> QED BY <3>4, <5>1, <5>2, <3>2, <1>2
      <4> QED BY <4>1, <3>2, <3>3, <1>3, <1>1
    <3>5. ASSUME ~(q <= c) PROVE ~(a < s * c + s)
      <4>0. c < q
        BY <3>5, <3>2, <1>2
      <4>1. s * c + s <= s * q
        BY <4>0, <3>2, <1>1, <1>2, MultipleGap
      <4> QED BY <4>1, <3>2, <3>3, <1>3, <1>1
    <3>6. FirstChild(cur, s, old) = q
      BY <2>1 DEF FirstChild, a, q
    <3>7. a < s * c + s <=> old < cur + s * c + s
      BY <1>3, <1>1 DEF a
    <3> QED BY <3>2, <3>4, <3>5, <3>6, <3>7
  <2>2. CASE ~(cur < old)
    <3>1. FirstChild(cur, s, old) = 0
      BY <2>2 DEF FirstChild
    <3>2. old < cur + s * c + s
      BY <2>2, <1>1, <1>3
    <3> QED BY <3>1, <3>2, <1>2
  <2> QED BY <2>1, <2>2
<1>5. LastChild(cur, s, new) \in Int /\ (c <= LastChild(cur, s, new) <=> cur + s * c < new)
  <2> DEFINE end == cur + W * s
  <2>0. end \in Nat
    BY <1>3
  <2>3. s * c + s <= s * W /\ s * W = W * s
    BY <1>1, <1>2, MultipleGap
  <2>1. CASE end > new
    <3> DEFINE a == end - new
               q == a \div s
    <3>1. a \in Nat
      BY <2>1, <2>0
    <3> HIDE DEF a
    <3>2. q \in Nat /\ a % s \in 0 .. s - 1 /\ a = s * q + (a % s)
      BY <3>1, <1>1, DivMod
    <3> HIDE DEF q
    <3>6. LastChild(cur, s, new) = W - 1 - q
      BY <2>1 DEF LastChild, a, q
    <3> DEFINE d == W - 1 - c
    <3>3. d \in Nat
      BY <1>2
    <3>4. s * q \in Nat /\ s * d \in Nat
      BY <3>2, <3>3, <1>1
    <3>5. s * d + s + s * c = W * s
      <4>1. s * (W - 1 - c) = s * W - s - s * c
        BY <1>1, <1>2
      <4> QED BY <4>1, <2>3, <1>1, <1>2, <1>3
    <3> HIDE DEF d
    <3>7. ASSUME q <= d PROVE a < s * d + s
      <4>1. s * q <= s * d
        <5>1. CASE q = d
          BY <5>1, <3>4
        <5>2. CASE q < d
          <6>1. s * q + s <= s * d
            BY <5>2, <3>2, <3>3, <1>1, MultipleGap
          <6> QED BY <6>1, <3>4, <1>1
        <5> QED BY <3>7, <5>1, <5>2, <3>2, <3>3
      <4> QED BY <4>1, <3>2, <3>4, <1>1
    <3>8. ASSUME ~(q <= d) PROVE ~(a < s * d + s)
      <4>0. d < q
        BY <3>8, <3>2, <3>3
      <4>1. s * d + s <= s * q
        BY <4>0, <3>2, <3>3, <1>1, MultipleGap
      <4> QED BY <4>1, <3>2, <3>4, <1>1
    <3>9. a < s * d + s <=> cur + s * c < new
      BY <3>4, <3>5, <1>1, <1>3 DEF a
    <3>10. c <= W - 1 - q <=> q <= d
      BY <3>2, <1>2 DEF d
    <3>11. W - 1 - q \in Int
      BY <3>2, <1>2
    <3> QED BY <3>6, <3>7, <3>8, <3>9, <3>10, <3>11
  <2>2. CASE ~(end > new)
    <3>1. LastChild(cur, s, new) = W - 1
      BY <2>2 DEF LastChild
    <3>2. cur + s * c < new
      BY <2>2, <2>0, <2>3, <1>1, <1>3
    <3> QED BY <3>1, <3>2, <1>2
  <2> QED BY <2>1, <2>2
<1>6. c \in FirstChild(cur, s, old) .. LastChild(cur, s, new)
      <=> cur + s * c < new /\ old < cur + s * c + s
  BY <1>2, <1>4, <1>5
<1> QED BY <1>6 DEF s

-----------------------------------------------------------------------------
(* Too few free blocks for one more data block, at k data blocks into a    *)
(* tree of level l.                                                        *)
Full(l, k) == {j \in 1 .. l : k % indirect_count(j) = 0}
Few(F, l, k) == IsFiniteSet(F) /\ Cardinality(F) < 1 + Cardinality(Full(l, k))

(* How many levels are full is a number. *)
LEMMA FullIs ==
  ASSUME NEW l \in 0 .. 3, NEW k
  PROVE  IsFiniteSet(Full(l, k)) /\ Cardinality(Full(l, k)) \in Nat
<1>1. IsFiniteSet(1 .. l)
  BY FS_Interval
<1>2. Full(l, k) \subseteq 1 .. l
  BY DEF Full
<1>3. IsFiniteSet(Full(l, k))
  BY <1>1, <1>2, FS_Subset
<1> QED BY <1>3, FS_CardinalityType

(* One level up, and a whole number of children further on. *)
LEMMA FullUp ==
  ASSUME NEW l \in 1 .. 3, NEW c \in Children, NEW k \in Nat
  PROVE  LET m == indirect_count(l - 1) * c + k
         IN  /\ Full(l - 1, k) \subseteq Full(l, m)
             /\ c = 0 /\ k = 0 => l \in Full(l, m) /\ l \notin Full(l - 1, k)
<1> DEFINE m == indirect_count(l - 1) * c + k
<1>1. c \in Nat
  BY Constants
<1>2. ASSUME NEW j \in 1 .. l - 1
      PROVE  \E q \in Nat : indirect_count(l - 1) * c = indirect_count(j) * q
  <2>1. W \in Nat
    BY Constants
  <2>2. /\ indirect_count(1) = W /\ indirect_count(2) = W * W
    BY DEF indirect_count
  <2>3. CASE j = l - 1
    BY <2>3, <1>1
  <2>4. CASE j # l - 1
    <3>1. j = 1 /\ l - 1 = 2
      BY <2>4
    <3>2. W * c \in Nat /\ (W * W) * c = W * (W * c)
      BY <2>1, <1>1
    <3> QED BY <3>1, <3>2, <2>2
  <2> QED BY <2>3, <2>4
<1>3. ASSUME NEW j \in 1 .. l - 1, k % indirect_count(j) = 0
      PROVE  m % indirect_count(j) = 0
  <2> DEFINE s == indirect_count(j)
  <2>1. s \in Nat \ {0}
    <3>1. j \in 0 .. 3
      OBVIOUS
    <3> QED BY <3>1, Counts
  <2>2. PICK q \in Nat : indirect_count(l - 1) * c = s * q
    BY <1>2
  <2> DEFINE p == k \div s
  <2> HIDE DEF s
  <2>3. p \in Nat /\ k % s \in 0 .. s - 1 /\ k = s * p + (k % s)
    BY <2>1, DivMod
  <2>30. k % s = 0
    BY <1>3 DEF s
  <2> HIDE DEF p
  <2>31. s * p \in Nat /\ s * q \in Nat
    BY <2>1, <2>3
  <2>32. k = s * p
    BY <2>3, <2>30, <2>31
  <2>4. m = s * q + s * p
    BY <2>2, <2>32
  <2>6. s * q + s * p = s * (q + p) /\ q + p \in Nat /\ s * (q + p) \in Nat
    BY <2>1, <2>3
  <2>7. m \in Nat /\ m = s * (q + p)
    BY <2>4, <2>6
  <2> HIDE DEF m
  <2>8. m \div s \in Nat /\ m % s \in 0 .. s - 1 /\ m = s * (m \div s) + (m % s)
    BY <2>1, <2>7, DivMod
  <2> DEFINE u == m \div s
             v == m % s
             w == q + p
  <2>9. u \in Nat /\ v \in 0 .. s - 1 /\ w \in Nat /\ 0 \in 0 .. s - 1 /\ s * u + v = s * w + 0
    BY <2>1, <2>6, <2>7, <2>8
  <2> HIDE DEF u, v, w
  <2>10. v = 0
    BY <2>9, <2>1, DivisionUnique
  <2> QED BY <2>10 DEF m, s, v
<1>4. Full(l - 1, k) \subseteq Full(l, m)
  BY <1>3 DEF Full
<1>5. ASSUME c = 0, k = 0 PROVE l \in Full(l, m) /\ l \notin Full(l - 1, k)
  <2>1. l - 1 \in 0 .. 3 /\ l \in 0 .. 3
    OBVIOUS
  <2>2. indirect_count(l - 1) \in Nat /\ indirect_count(l) \in Nat /\ indirect_count(l) > 0
    BY <2>1, Counts
  <2>3. m = 0
    BY <1>5, <2>2
  <2>4. m % indirect_count(l) = 0
    BY <2>2, <2>3
  <2> HIDE DEF m
  <2> QED BY <2>4 DEF Full
<1> QED BY <1>4, <1>5

(* Too few blocks for a child are too few for its parent. *)
LEMMA FewUp ==
  ASSUME NEW l \in 1 .. 3, NEW c \in Children, NEW k \in Nat, NEW F, Few(F, l - 1, k)
  PROVE  Few(F, l, indirect_count(l - 1) * c + k)
<1> DEFINE m == indirect_count(l - 1) * c + k
<1>0. l - 1 \in 0 .. 3 /\ l \in 0 .. 3
  OBVIOUS
<1>1. Full(l - 1, k) \subseteq Full(l, m)
  BY FullUp
<1>2. Cardinality(Full(l - 1, k)) <= Cardinality(Full(l, m))
  BY <1>0, <1>1, FullIs, FS_Subset
<1>3. Cardinality(Full(l - 1, k)) \in Nat /\ Cardinality(Full(l, m)) \in Nat
  BY <1>0, FullIs
<1>4. Cardinality(F) \in Nat
  BY FS_CardinalityType DEF Few
<1> QED BY <1>2, <1>3, <1>4 DEF Few

(* With the indirect block given back. *)
LEMMA FewMore ==
  ASSUME NEW l \in 1 .. 3, NEW F, Few(F, l - 1, 0), NEW b
  PROVE  Few(F \cup {b}, l, 0)
<1>0. l - 1 \in 0 .. 3 /\ l \in 0 .. 3 /\ 0 \in Children
  BY Constants
<1>1. indirect_count(l - 1) * 0 + 0 = 0
  <2>1. indirect_count(l - 1) \in Nat
    BY <1>0, Counts
  <2> QED BY <2>1
<1>2. Full(l - 1, 0) \subseteq Full(l, 0) /\ l \in Full(l, 0) /\ l \notin Full(l - 1, 0)
  BY <1>0, <1>1, FullUp
<1>3. Full(l - 1, 0) \cup {l} \subseteq Full(l, 0)
  BY <1>2
<1>4. /\ IsFiniteSet(Full(l - 1, 0)) /\ Cardinality(Full(l - 1, 0)) \in Nat
      /\ IsFiniteSet(Full(l, 0)) /\ Cardinality(Full(l, 0)) \in Nat
  BY <1>0, FullIs
<1>5. Cardinality(Full(l - 1, 0) \cup {l}) = Cardinality(Full(l - 1, 0)) + 1
  BY <1>2, <1>4, FS_AddElement
<1>6. Cardinality(Full(l - 1, 0)) + 1 <= Cardinality(Full(l, 0))
  BY <1>3, <1>4, <1>5, FS_Subset
<1>7. IsFiniteSet(F) /\ Cardinality(F) \in Nat /\ Cardinality(F) < 1 + Cardinality(Full(l - 1, 0))
  BY FS_CardinalityType DEF Few
<1>8. /\ IsFiniteSet(F \cup {b}) /\ Cardinality(F \cup {b}) \in Nat
      /\ Cardinality(F \cup {b}) <= Cardinality(F) + 1
  <2>1. CASE b \in F
    <3>1. F \cup {b} = F
      BY <2>1
    <3>2. \A n \in Nat : n <= n + 1
      OBVIOUS
    <3> QED BY <3>1, <3>2, <1>7
  <2>2. CASE b \notin F
    <3>1. IsFiniteSet(F \cup {b}) /\ Cardinality(F \cup {b}) = Cardinality(F) + 1
      BY <2>2, <1>7, FS_AddElement
    <3> QED BY <3>1, <1>7
  <2> QED BY <2>1, <2>2
<1> QED BY <1>4, <1>6, <1>7, <1>8 DEF Few

-----------------------------------------------------------------------------
(* Growing.                                                                *)
GrowPre(st, dest, cur, l, old, new, e) ==
  /\ IsStore(st) /\ dest \in Node
  /\ Proper(st.ind, dest, l) /\ Tree(st.ind, dest, l) \cap st.free = {}
  /\ Hi(cur, old) < Lo(cur + indirect_count(l), new)
  /\ Fits(e, st.ind, dest, l, cur, Hi(cur, old))

GrowPost(st, dest, cur, l, old, new, e, g) ==
  LET reach == Hi(cur, old) + g.allocated
      whole == e /\ ~g.st.hyper
  IN  /\ Moved(e, st, dest, g.st, g.dest, l)
      /\ g.allocated \in Nat /\ g.ok \in BOOLEAN
      /\ g.ok => reach = Lo(cur + indirect_count(l), new)
      /\ ~g.ok => reach < Lo(cur + indirect_count(l), new)
      /\ Fits(whole, g.st.ind, g.dest, l, cur, reach)
      /\ g.st.bad = st.bad
      /\ ~g.ok /\ whole => Few(g.st.free, l, reach - cur)

(* GrowData keeps its promise: it takes a free block, if there is one. *)
LEMMA GrowZero ==
  ASSUME NEW st, NEW dest, NEW cur \in Nat, NEW old \in Nat, NEW new \in Nat,
         NEW e \in BOOLEAN, GrowPre(st, dest, cur, 0, old, new, e)
  PROVE  GrowPost(st, dest, cur, 0, old, new, e, GrowData(st, dest, cur, old, new))
<1> DEFINE g == GrowData(st, dest, cur, old, new)
<1> SUFFICES GrowPost(st, dest, cur, 0, old, new, e, g)
  OBVIOUS
<1>0. IsStore(st) /\ st.bad \in BOOLEAN /\ st.hyper \in BOOLEAN /\ st.free \subseteq Blocks
  BY DEF GrowPre, IsStore
<1>1. Hi(cur, old) = cur /\ Lo(cur + 1, new) = cur + 1
  BY Counts DEF GrowPre, Hi, Lo
<1>2. dest = EOF
  <2>1. Fits(e, st.ind, dest, 0, cur, cur)
    BY <1>1 DEF GrowPre
  <2>2. cur \in Int /\ ~(cur < cur)
    OBVIOUS
  <2>3. Fits(e, st.ind, dest, 0, cur, cur) => (dest # EOF => cur < cur)
    BY <2>2, FitsZero
  <2> QED BY <2>1, <2>2, <2>3
<1>3. Tree(st.ind, EOF, 0) = {} /\ \A p : Proper(p, EOF, 0) /\ Tree(p, EOF, 0) = {}
  BY TreeNone, 0 \in 0 .. 3
<1>4. \A p, x : Proper(p, x, 0) /\ Tree(p, x, 0) = {x} \ {EOF}
  BY TreeZero
<1>C. indirect_count(0) = 1
  BY Counts
<1>5. CASE st.free = {}
  <2>1. g = NoBlockLeft(st)
    BY <1>2, <1>5 DEF GrowData, OutOfBlocks
  <2>2. g.st = st /\ g.dest = EOF /\ g.allocated = 0 /\ g.ok = FALSE
    BY <2>1 DEF NoBlockLeft
  <2> HIDE DEF g
  <2>3. Moved(e, st, dest, g.st, g.dest, 0)
    BY <1>0, <1>2, <1>3, <1>5, <2>2 DEF Moved, Node
  <2>4. Few(st.free, 0, 0)
    <3>1. IsFiniteSet(st.free) /\ Cardinality(st.free) = 0
      BY <1>5, FS_EmptySet
    <3>2. Cardinality(Full(0, 0)) \in Nat
      BY FullIs, 0 \in 0 .. 3
    <3> QED BY <3>1, <3>2 DEF Few
  <2>5. ASSUME NEW f \in BOOLEAN PROVE Fits(f, st.ind, EOF, 0, cur, cur)
    <3>1. cur \in Int /\ ~(cur < cur)
      OBVIOUS
    <3>2. Fits(f, st.ind, EOF, 0, cur, cur) <=> (EOF # EOF => cur < cur) /\ (f /\ cur < cur => EOF # EOF)
      BY <3>1, FitsZero
    <3> QED BY <3>1, <3>2
  <2>6. cur + 0 = cur /\ cur - cur = 0 /\ cur < cur + 1
    OBVIOUS
  <2>7. (e /\ ~g.st.hyper) \in BOOLEAN
    OBVIOUS
  <2> DEFINE whole == e /\ ~g.st.hyper
  <2>8. Fits(whole, g.st.ind, g.dest, 0, cur, Hi(cur, old) + g.allocated)
    BY <1>1, <2>2, <2>5, <2>6, <2>7
  <2>9. Few(g.st.free, 0, (Hi(cur, old) + g.allocated) - cur)
    BY <1>1, <2>2, <2>4, <2>6
  <2>10. Hi(cur, old) + g.allocated < Lo(cur + indirect_count(0), new)
    BY <1>1, <1>C, <2>2, <2>6
  <2>11. ~g.ok /\ g.ok \in BOOLEAN
    BY <2>2
  <2>12. g.allocated \in Nat /\ g.st.bad = st.bad
    BY <2>2
  <2> DEFINE reach == Hi(cur, old) + g.allocated
  <2>13. /\ Fits(whole, g.st.ind, g.dest, 0, cur, reach)
         /\ Few(g.st.free, 0, reach - cur)
         /\ reach < Lo(cur + indirect_count(0), new)
    <3>1. Fits(whole, g.st.ind, g.dest, 0, cur, reach)
      BY <2>8
    <3>2. Few(g.st.free, 0, reach - cur)
      BY <2>9
    <3>3. reach < Lo(cur + indirect_count(0), new)
      BY <2>10
    <3> QED BY <3>1, <3>2, <3>3
  <2>14. GrowPost(st, dest, cur, 0, old, new, e, g) <=>
           /\ Moved(e, st, dest, g.st, g.dest, 0)
           /\ g.allocated \in Nat /\ g.ok \in BOOLEAN
           /\ g.ok => reach = Lo(cur + indirect_count(0), new)
           /\ ~g.ok => reach < Lo(cur + indirect_count(0), new)
           /\ Fits(whole, g.st.ind, g.dest, 0, cur, reach)
           /\ g.st.bad = st.bad
           /\ ~g.ok /\ whole => Few(g.st.free, 0, reach - cur)
    BY DEF GrowPost
  <2> HIDE DEF reach, whole
  <2> QED BY <2>3, <2>13, <2>14, <2>11, <2>12
<1>6. CASE st.free # {}
  <2> DEFINE b == Min(st.free)
  <2>0. b \in st.free
    BY <1>0, <1>6, MinIn, Constants
  <2>1. g = [st |-> [Taken(st, b) EXCEPT !.bad = @ \/ FALSE], dest |-> b, allocated |-> 1, ok |-> TRUE]
    BY <1>2, <1>6 DEF GrowData, OutOfBlocks
  <2> DEFINE no == ~(dest = EOF)
  <2>10. g = [st |-> [Taken(st, b) EXCEPT !.bad = @ \/ no], dest |-> b, allocated |-> 1, ok |-> TRUE]
    BY <1>2, <1>6 DEF GrowData, OutOfBlocks
  <2>11. no = FALSE /\ no \in BOOLEAN
    BY <1>2
  <2> HIDE DEF b, g, no
  <2>2. /\ IsStore(Taken(st, b)) /\ Taken(st, b).free = st.free \ {b} /\ Taken(st, b).ind = st.ind
        /\ Taken(st, b).bad = st.bad /\ Taken(st, b).hyper = st.hyper
    BY <1>0, TakenIs
  <2>3. /\ IsStore(g.st) /\ g.st.free = st.free \ {b} /\ g.st.ind = st.ind
        /\ g.st.bad = st.bad /\ g.st.hyper = st.hyper
        /\ g.dest = b /\ g.allocated = 1 /\ g.ok = TRUE
    <3>1. g.st = [Taken(st, b) EXCEPT !.bad = @ \/ no]
      BY <2>10
    <3> DEFINE u == Taken(st, b)
    <3>5. u = [free |-> u.free, ind |-> u.ind, bytes |-> u.bytes, bad |-> u.bad, hyper |-> u.hyper]
      BY <2>2 DEF IsStore
    <3> HIDE DEF u
    <3>6. g.st = [free |-> u.free, ind |-> u.ind, bytes |-> u.bytes, bad |-> u.bad \/ no, hyper |-> u.hyper]
      BY <3>1, <3>5 DEF u
    <3>7. (u.bad \/ no) \in BOOLEAN
      OBVIOUS
    <3>2. /\ IsStore(g.st) /\ g.st.free = Taken(st, b).free /\ g.st.ind = Taken(st, b).ind
          /\ g.st.bad = (Taken(st, b).bad \/ no) /\ g.st.hyper = Taken(st, b).hyper
      BY <3>6, <3>7, <2>2 DEF IsStore, u
    <3>3. g.dest = b /\ g.allocated = 1 /\ g.ok = TRUE
      BY <2>10
    <3>4. g.st.bad = st.bad
      BY <3>2, <2>2, <2>11, <1>0
    <3> QED BY <3>2, <3>3, <3>4, <2>2
  <2>4. b # EOF /\ b \in Node
    BY <2>0, <1>0, Constants DEF Node
  <2>5. Moved(e, st, dest, g.st, g.dest, 0)
    BY <1>0, <1>2, <1>3, <1>4, <2>0, <2>3, <2>4 DEF Moved
  <2>6. ASSUME NEW f \in BOOLEAN PROVE Fits(f, st.ind, b, 0, cur, cur + 1)
    <3>1. cur \in Int /\ cur + 1 \in Int /\ cur < cur + 1
      OBVIOUS
    <3>2. Fits(f, st.ind, b, 0, cur, cur + 1) <=> (b # EOF => cur < cur + 1) /\ (f /\ cur < cur + 1 => b # EOF)
      BY <3>1, FitsZero
    <3> QED BY <3>1, <3>2, <2>4
  <2>7. (e /\ ~g.st.hyper) \in BOOLEAN
    OBVIOUS
  <2> DEFINE whole == e /\ ~g.st.hyper
  <2>8. Fits(whole, g.st.ind, g.dest, 0, cur, Hi(cur, old) + g.allocated)
    BY <1>1, <2>3, <2>6, <2>7
  <2>9. Hi(cur, old) + g.allocated = Lo(cur + indirect_count(0), new)
    BY <1>1, <1>C, <2>3
  <2>12. g.ok /\ g.ok \in BOOLEAN
    BY <2>3
  <2>13. g.allocated \in Nat /\ g.st.bad = st.bad
    BY <2>3
  <2> QED BY <2>5, <2>8, <2>9, <2>12, <2>13 DEF GrowPost
<1> QED BY <1>5, <1>6

-----------------------------------------------------------------------------
(* The loop over the children of an indirect block: the store st0 and the  *)
(* children data0 it began with, and those it is at.                       *)
Stock(st, data, l) == Wood(Children, data, Below(l), st.ind) \cup st.free

Kept(e, st0, data0, st, data, l) ==
  /\ IsStore(st) /\ data \in [Children -> Node]
  /\ Forest(Children, data, Below(l), st.ind, st.free)
  /\ Stock(st, data, l) \subseteq Stock(st0, data0, l)
  /\ e /\ ~st.hyper => Stock(st, data, l) = Stock(st0, data0, l)
  /\ \A x \in Blocks : x \notin Stock(st0, data0, l) => st.ind[x] = st0.ind[x]
  /\ st0.hyper => st.hyper

(* Before the first child nothing has moved. *)
LEMMA KeptStart ==
  ASSUME NEW e, NEW l, NEW st, IsStore(st), NEW data \in [Children -> Node],
         Forest(Children, data, Below(l), st.ind, st.free)
  PROVE  Kept(e, st, data, st, data, l)
BY DEF Kept

(* One child moves, the other children stay. *)
LEMMA KeptStep ==
  ASSUME NEW e \in BOOLEAN, NEW l \in 1 .. 3, NEW st0, NEW data0, NEW st, NEW data, Kept(e, st0, data0, st, data, l),
         NEW i \in Children, NEW more, NEW b, Moved(e, st, data[i], more, b, l - 1)
  PROVE  /\ Kept(e, st0, data0, more, [data EXCEPT ![i] = b], l)
         /\ \A j \in Children : j # i => Same(st.ind, more.ind, data[j], l - 1)
<1> DEFINE Q == [data EXCEPT ![i] = b]
           L == Below(l)
<1>1. L \in [Children -> 0 .. 3] /\ \A c \in Children : L[c] = l - 1
  BY BelowIs
<1>2. /\ IsStore(st) /\ data \in [Children -> Node]
      /\ Forest(Children, data, L, st.ind, st.free)
  BY DEF Kept
<1>3. Moved(e, st, data[i], more, b, L[i])
  BY <1>1
<1>M. IsStore(more) /\ st.hyper => more.hyper
  BY DEF Moved
<1>N. IsStore(more)
  BY DEF Moved
<1> HIDE DEF L
<1>4. /\ Q \in [Children -> Node]
      /\ \A j \in Children : j # i => Same(st.ind, more.ind, data[j], L[j])
      /\ Forest(Children, Q, L, more.ind, more.free)
      /\ Wood(Children, Q, L, more.ind) \cup more.free
           \subseteq Wood(Children, data, L, st.ind) \cup st.free
      /\ e /\ ~more.hyper => Wood(Children, Q, L, more.ind) \cup more.free
                          = Wood(Children, data, L, st.ind) \cup st.free
      /\ \A x \in Blocks :
           x \notin Wood(Children, data, L, st.ind) \cup st.free => more.ind[x] = st.ind[x]
  BY <1>1, <1>2, <1>3, ForestStep
<1> HIDE DEF Q
<1>5. /\ Stock(more, Q, l) = Wood(Children, Q, L, more.ind) \cup more.free
      /\ Stock(st, data, l) = Wood(Children, data, L, st.ind) \cup st.free
  BY DEF Stock, L
<1>6. Forest(Children, Q, Below(l), more.ind, more.free)
  BY <1>4 DEF L
<1>7. Kept(e, st0, data0, more, Q, l)
  BY <1>M, <1>N, <1>4, <1>5, <1>6 DEF Kept
<1>8. \A j \in Children : j # i => Same(st.ind, more.ind, data[j], l - 1)
  BY <1>1, <1>4
<1> QED BY <1>7, <1>8 DEF Q

-----------------------------------------------------------------------------
(* The loop that grows, when the children before i are done.               *)
GrowInv(st0, data0, cur, l, old, new, e, i, r) ==
  LET s == indirect_count(l - 1)
      reach == Hi(cur, old) + r.sum
      whole == e /\ ~r.st.hyper
  IN  /\ Kept(e, st0, data0, r.st, r.data, l)
      /\ r.st.bad = st0.bad
      /\ r.sum \in Nat /\ r.ok \in BOOLEAN
      /\ r.ok => reach = Hi(Hi(cur, old), Lo(cur + s * i, new))
      /\ ~r.ok => reach < Lo(cur + s * i, new)
      /\ \A c \in Children : Fits(whole, r.st.ind, r.data[c], l - 1, cur + s * c, reach)
      /\ ~r.ok /\ whole =>
           \E c \in Children : reach >= cur + s * c /\ Few(r.st.free, l - 1, reach - (cur + s * c))

GrowsRight(l) ==
  \A st, dest : \A cur, old, new \in Nat : \A e \in BOOLEAN :
    GrowPre(st, dest, cur, l, old, new, e) =>
      GrowPost(st, dest, cur, l, old, new, e, inode_indirect_grow(st, dest, cur, l, old, new))

(* Where a loop that has not failed has got to. *)
LEMMA GrowAt ==
  ASSUME NEW l \in 1 .. 3, NEW cur \in Nat, NEW old \in Nat, NEW new \in Nat,
         Hi(cur, old) < Lo(cur + indirect_count(l), new), NEW i \in Children,
         NEW reach \in Nat,
         reach = Hi(Hi(cur, old), Lo(cur + indirect_count(l - 1) * i, new))
  PROVE  LET s == indirect_count(l - 1)
             at == cur + s * i
             in == i \in FirstChild(cur, s, old) .. LastChild(cur, s, new)
         IN  /\ at \in Nat /\ s \in Nat /\ s > 0 /\ cur <= at
             /\ at + s <= cur + indirect_count(l)
             /\ cur + s * (i + 1) = at + s
             /\ in => reach = Hi(at, old) /\ Hi(at, old) < Lo(at + s, new)
             /\ in => Lo(at + s, new) = Hi(Hi(cur, old), Lo(at + s, new))
             /\ ~in => reach = Hi(Hi(cur, old), Lo(at + s, new))
<1> DEFINE s == indirect_count(l - 1)
           at == cur + s * i
           E == cur + indirect_count(l)
<1>1. s \in Nat /\ s > 0 /\ E \in Nat
  <2>1. l - 1 \in 0 .. 3 /\ l \in 0 .. 3
    OBVIOUS
  <2> QED BY <2>1, Counts
<1>2. at \in Int /\ cur <= at /\ at + s <= E
  BY ChildSpan
<1>3. i \in Nat
  BY Constants
<1>4. s * i \in Nat /\ s * (i + 1) = s * i + s
  BY <1>1, <1>3
<1>5. at \in Nat /\ cur + s * (i + 1) = at + s
  BY <1>1, <1>4
<1>6. cur < new /\ old < E /\ old < new
  BY <1>1 DEF Hi, Lo
<1>7. i \in FirstChild(cur, s, old) .. LastChild(cur, s, new) <=> at < new /\ old < at + s
  BY <1>6, ChildRange
<1>8. reach = Hi(Hi(cur, old), Lo(at, new))
  OBVIOUS
<1> HIDE DEF s, at, E
<1>9. ASSUME at < new, old < at + s
      PROVE  /\ reach = Hi(at, old) /\ Hi(at, old) < Lo(at + s, new)
             /\ Lo(at + s, new) = Hi(Hi(cur, old), Lo(at + s, new))
  BY <1>9, <1>1, <1>2, <1>5, <1>6, <1>8 DEF Hi, Lo
<1>10. ASSUME ~(at < new /\ old < at + s)
       PROVE  reach = Hi(Hi(cur, old), Lo(at + s, new))
  BY <1>10, <1>1, <1>2, <1>5, <1>6, <1>8 DEF Hi, Lo
<1> QED BY <1>1, <1>2, <1>5, <1>7, <1>9, <1>10 DEF s, at, E

(* One child of the growing loop: the invariant goes on from child i to    *)
(* child i + 1.                                                            *)
LEMMA GrowStep ==
  ASSUME NEW l \in 1 .. 3, GrowsRight(l - 1),
         NEW cur \in Nat, NEW old \in Nat, NEW new \in Nat, NEW e \in BOOLEAN,
         Hi(cur, old) < Lo(cur + indirect_count(l), new),
         NEW st0, NEW data0, NEW i \in Children, NEW r,
         GrowInv(st0, data0, cur, l, old, new, e, i, r)
  PROVE  GrowInv(st0, data0, cur, l, old, new, e, i + 1, GrowOne(r, i, l, cur, old, new))
<1> DEFINE s == indirect_count(l - 1)
           M == Hi(cur, old)
           reach == M + r.sum
           whole == e /\ ~r.st.hyper
           at == cur + s * i
           in == i \in FirstChild(cur, s, old) .. LastChild(cur, s, new)
           q == GrowOne(r, i, l, cur, old, new)
<1> SUFFICES GrowInv(st0, data0, cur, l, old, new, e, i + 1, q)
  OBVIOUS
<1>L. l - 1 \in 0 .. 3 /\ i \in Nat /\ e \in BOOLEAN
  BY Constants
<1>0. /\ s \in Nat /\ s > 0 /\ M \in Nat /\ at \in Nat
      /\ cur + s * (i + 1) = at + s
  <2>1. s \in Nat /\ s > 0
    BY <1>L, Counts
  <2>2. s * i \in Nat /\ s * (i + 1) = s * i + s
    BY <2>1, <1>L
  <2>3. M \in Nat
    BY DEF Hi
  <2> QED BY <2>1, <2>2, <2>3
<1>1. /\ Kept(e, st0, data0, r.st, r.data, l)
      /\ r.st.bad = st0.bad
      /\ r.sum \in Nat /\ r.ok \in BOOLEAN
      /\ r.ok => reach = Hi(M, Lo(at, new))
      /\ ~r.ok => reach < Lo(at, new)
      /\ \A c \in Children : Fits(whole, r.st.ind, r.data[c], l - 1, cur + s * c, reach)
      /\ ~r.ok /\ whole =>
           \E c \in Children : reach >= cur + s * c /\ Few(r.st.free, l - 1, reach - (cur + s * c))
  BY DEF GrowInv
<1>R. reach \in Nat
  BY <1>0, <1>1
<1>2. CASE ~r.ok
  <2>1. q = r
    BY <1>2 DEF GrowOne
  <2>2. reach < Lo(cur + s * (i + 1), new)
    <3>1. reach < Lo(at, new)
      BY <1>1, <1>2
    <3> HIDE DEF reach, at, s
    <3>2. reach < Lo(at + s, new)
      BY <3>1, <1>0, <1>R DEF Lo
    <3> QED BY <3>2, <1>0
  <2> HIDE DEF q
  <2> QED BY <2>1, <2>2, <1>1, <1>2 DEF GrowInv
<1>3. CASE r.ok
  <2>0. reach = Hi(M, Lo(at, new))
    BY <1>1, <1>3
  <2>1. /\ cur <= at /\ at + s <= cur + indirect_count(l)
        /\ in => reach = Hi(at, old) /\ Hi(at, old) < Lo(at + s, new)
        /\ in => Lo(at + s, new) = Hi(M, Lo(at + s, new))
        /\ ~in => reach = Hi(M, Lo(at + s, new))
    <3> DEFINE G(t) == LET u == indirect_count(l - 1)
                           v == cur + u * i
                           w == i \in FirstChild(cur, u, old) .. LastChild(cur, u, new)
                       IN  /\ v \in Nat /\ u \in Nat /\ u > 0 /\ cur <= v
                           /\ v + u <= cur + indirect_count(l)
                           /\ cur + u * (i + 1) = v + u
                           /\ w => t = Hi(v, old) /\ Hi(v, old) < Lo(v + u, new)
                           /\ w => Lo(v + u, new) = Hi(Hi(cur, old), Lo(v + u, new))
                           /\ ~w => t = Hi(Hi(cur, old), Lo(v + u, new))
    <3>1. G(reach)
      BY <2>0, <1>R, GrowAt
    <3> QED BY <3>1
  <2>2. CASE ~in
    <3>1. q = r
      BY <2>2 DEF GrowOne
    <3>2. reach = Hi(M, Lo(cur + s * (i + 1), new))
      BY <2>1, <2>2, <1>0
    <3> HIDE DEF q
    <3> QED BY <3>1, <3>2, <1>1, <1>3 DEF GrowInv
  <2>3. CASE in
    <3> DEFINE g == inode_indirect_grow(r.st, r.data[i], at, l - 1, old, new)
               d == [r.data EXCEPT ![i] = g.dest]
               more == e /\ ~g.st.hyper
               next == reach + g.allocated
    <3>1. q = WithChild(r, i, g)
      BY <2>3, <1>3 DEF GrowOne
    <3>2. q.st = g.st /\ q.data = d /\ q.sum = r.sum + g.allocated /\ q.ok = g.ok
      BY <3>1 DEF WithChild
    <3>3. /\ IsStore(r.st) /\ r.data \in [Children -> Node]
          /\ Forest(Children, r.data, Below(l), r.st.ind, r.st.free)
      BY <1>1 DEF Kept
    <3>4. Proper(r.st.ind, r.data[i], l - 1) /\ Tree(r.st.ind, r.data[i], l - 1) \cap r.st.free = {}
      BY <3>3, BelowIs DEF Forest
    <3>5. reach = Hi(at, old) /\ Hi(at, old) < Lo(at + s, new)
      BY <2>1, <2>3
    <3>6. Fits(e, r.st.ind, r.data[i], l - 1, at, reach) \/ r.st.hyper
      <4>1. Fits(whole, r.st.ind, r.data[i], l - 1, at, reach)
        BY <1>1
      <4>2. ~r.st.hyper => whole = e
        BY <1>L
      <4> QED BY <4>1, <4>2
    <3>7. whole \in BOOLEAN
      OBVIOUS
    <3>8. GrowPre(r.st, r.data[i], at, l - 1, old, new, whole)
      <4>1. Fits(whole, r.st.ind, r.data[i], l - 1, at, Hi(at, old))
        BY <1>1, <3>5
      <4> QED BY <3>3, <3>4, <3>5, <4>1 DEF GrowPre
    <3>9. GrowPost(r.st, r.data[i], at, l - 1, old, new, whole, g)
      BY <3>7, <3>8, <1>0 DEF GrowsRight
    <3> HIDE DEF q, g
    <3>10. /\ Moved(whole, r.st, r.data[i], g.st, g.dest, l - 1)
           /\ g.allocated \in Nat /\ g.ok \in BOOLEAN
           /\ g.ok => next = Lo(at + s, new)
           /\ ~g.ok => next < Lo(at + s, new)
           /\ Fits(whole /\ ~g.st.hyper, g.st.ind, g.dest, l - 1, at, next)
           /\ g.st.bad = r.st.bad
           /\ ~g.ok /\ (whole /\ ~g.st.hyper) => Few(g.st.free, l - 1, next - at)
      BY <3>9, <3>5 DEF GrowPost
    <3>11. (whole /\ ~g.st.hyper) = more
      <4>1. r.st.hyper => g.st.hyper
        BY <3>10 DEF Moved
      <4> QED BY <4>1
    <3>25. Moved(e, r.st, r.data[i], g.st, g.dest, l - 1)
      BY <3>10 DEF Moved
    <3>12. /\ Kept(e, st0, data0, g.st, d, l)
           /\ \A j \in Children : j # i => Same(r.st.ind, g.st.ind, r.data[j], l - 1)
      BY <1>1, <3>25, KeptStep
    <3>13. next \in Nat /\ next = M + q.sum /\ q.sum \in Nat /\ reach <= next
      BY <3>2, <3>10, <1>0, <1>1
    <3>14. next <= Lo(at + s, new)
      <4>1. Lo(at + s, new) \in Nat
        BY <1>0 DEF Lo
      <4> QED BY <4>1, <3>10, <3>13
    <3>15. reach >= at /\ next <= at + s
      <4> HIDE DEF reach, next, at, s
      <4>1. reach >= at
        BY <3>5, <1>0, <1>R DEF Hi
      <4>2. next <= at + s
        BY <3>14, <3>13, <1>0 DEF Lo
      <4> QED BY <4>1, <4>2
    <3>16. ASSUME NEW c \in Children
           PROVE  Fits(more, g.st.ind, d[c], l - 1, cur + s * c, next)
      <4>1. CASE c = i
        <5>1. d[c] = g.dest
          BY <4>1, <3>3
        <5> QED BY <5>1, <4>1, <3>10, <3>11
      <4>2. CASE c # i
        <5> DEFINE k == cur + s * c
        <5>1. d[c] = r.data[c]
          BY <4>2, <3>3
        <5>2. Fits(whole, r.st.ind, r.data[c], l - 1, k, reach)
          BY <1>1
        <5>3. more \in BOOLEAN /\ (more => whole)
          BY <3>11
        <5>4. Fits(more, r.st.ind, r.data[c], l - 1, k, reach)
          BY <5>2, <5>3, <3>7, FitsWeaker
        <5>5. c \in Nat /\ k \in Nat
          <6>1. c \in Nat
            BY Constants
          <6>2. s * c \in Nat
            BY <6>1, <1>0
          <6> QED BY <6>1, <6>2
        <5>6. \/ reach <= k /\ next <= k
              \/ reach >= k + s /\ next >= k + s
          <6>1. CASE c < i
            <7>1. s * c + s <= s * i
              BY <6>1, <5>5, <1>L, <1>0, MultipleGap
            <7>2. k + s <= at
              BY <7>1, <5>5, <1>0, <1>L
            <7> HIDE DEF k, at, reach, next, s
            <7> QED BY <7>2, <3>15, <3>13, <5>5, <1>0, <1>R
          <6>2. CASE i < c
            <7>1. s * i + s <= s * c
              BY <6>2, <5>5, <1>L, <1>0, MultipleGap
            <7>2. at + s <= k
              BY <7>1, <5>5, <1>0, <1>L
            <7> HIDE DEF k, at, reach, next, s
            <7> QED BY <7>2, <3>15, <3>13, <5>5, <1>0, <1>R
          <6> QED BY <6>1, <6>2, <4>2, <5>5, <1>L
        <5> HIDE DEF k, reach, next, more
        <5>7. Fits(more, r.st.ind, r.data[c], l - 1, k, next)
          BY <5>3, <5>4, <5>5, <5>6, <1>L, <1>R, <3>13, FitsSame
        <5>8. Fits(more, g.st.ind, r.data[c], l - 1, k, next)
          BY <5>3, <5>5, <5>7, <3>12, <3>13, <4>2, <1>L, SameIs
        <5> QED BY <5>1, <5>8 DEF k
      <4> QED BY <4>1, <4>2
    <3>17. ~q.ok /\ more =>
             \E c \in Children : next >= cur + s * c /\ Few(q.st.free, l - 1, next - (cur + s * c))
      <4> SUFFICES ASSUME ~q.ok /\ more
                   PROVE  next >= at /\ Few(q.st.free, l - 1, next - at)
        OBVIOUS
      <4>1. Few(g.st.free, l - 1, next - at)
        BY <3>2, <3>10, <3>11
      <4> HIDE DEF next, at, reach
      <4>2. next >= at
        BY <3>13, <3>15, <1>0, <1>R
      <4> QED BY <3>2, <4>1, <4>2
    <3>18. q.ok \in BOOLEAN /\ q.st.bad = st0.bad
      BY <3>2, <3>10, <1>1
    <3>19. q.ok => next = Hi(M, Lo(cur + s * (i + 1), new))
      BY <3>2, <3>10, <2>1, <2>3, <1>0
    <3>20. ~q.ok => next < Lo(cur + s * (i + 1), new)
      BY <3>2, <3>10, <1>0
    <3>21. Kept(e, st0, data0, q.st, q.data, l)
      BY <3>2, <3>12
    <3>22. \A c \in Children : Fits(e /\ ~q.st.hyper, q.st.ind, q.data[c], l - 1, cur + s * c, next)
      BY <3>2, <3>16
    <3>23. GrowInv(st0, data0, cur, l, old, new, e, i + 1, q) <=>
             /\ Kept(e, st0, data0, q.st, q.data, l)
             /\ q.st.bad = st0.bad
             /\ q.sum \in Nat /\ q.ok \in BOOLEAN
             /\ q.ok => M + q.sum = Hi(Hi(cur, old), Lo(cur + s * (i + 1), new))
             /\ ~q.ok => M + q.sum < Lo(cur + s * (i + 1), new)
             /\ \A c \in Children : Fits(e /\ ~q.st.hyper, q.st.ind, q.data[c], l - 1, cur + s * c, M + q.sum)
             /\ ~q.ok /\ (e /\ ~q.st.hyper) =>
                  \E c \in Children : M + q.sum >= cur + s * c
                                      /\ Few(q.st.free, l - 1, (M + q.sum) - (cur + s * c))
      BY DEF GrowInv
    <3>24. (e /\ ~q.st.hyper) = more
      BY <3>2
    <3> HIDE DEF next, more, s
    <3> QED BY <3>13, <3>17, <3>18, <3>19, <3>20, <3>21, <3>22, <3>23, <3>24
  <2> QED BY <2>2, <2>3
<1> QED BY <1>2, <1>3

(* A tree that is there begins before the end of the file. *)
LEMMA FitsRoot ==
  ASSUME NEW e \in BOOLEAN, NEW ptrs, NEW b, NEW l \in 0 .. 3, NEW cur \in Int, NEW n \in Int,
         Fits(e, ptrs, b, l, cur, n)
  PROVE  /\ b # EOF => cur < n
         /\ e /\ cur < n => b # EOF
<1>1. <<>> \in Paths(l)
  <2>1. <<>> \in Seq(Children) /\ Len(<<>>) = 0 /\ 0 <= l
    OBVIOUS
  <2> QED BY <2>1, PathsAre
<1>2. NodeAt(ptrs, b, <<>>) = b /\ IndexAt(cur, l, <<>>) = cur
  BY EmptyPath
<1> QED BY <1>1, <1>2 DEF Fits

(* No tree at all is right for a file that ends before it. *)
LEMMA FitsNone ==
  ASSUME NEW e \in BOOLEAN, NEW ptrs, NEW l \in 0 .. 3, NEW cur \in Int, NEW n \in Int
  PROVE  Fits(e, ptrs, EOF, l, cur, n) <=> (e => n <= cur)
BY TreeNone

(* The start of the loop. *)
GrowBegun(st, dest, cur, l, old, new, e) ==
  LET b == IF dest = EOF THEN Min(st.free) ELSE dest
      start == StartGrow(st, b, dest = EOF)
  IN  /\ b \in Blocks
      /\ GrowInv(start.st, start.data, cur, l, old, new, e, 0, start)
      /\ b \notin Stock(start.st, start.data, l)
      /\ {b} \cup Stock(start.st, start.data, l) = Tree(st.ind, dest, l) \cup st.free
      /\ start.st.ind = st.ind /\ start.st.bad = st.bad /\ start.st.hyper = st.hyper

(* A growth that gets its indirect block starts the loop with its          *)
(* invariant true.                                                         *)
LEMMA GrowBegins ==
  ASSUME NEW l \in 1 .. 3, NEW st, NEW dest, NEW cur \in Nat, NEW old \in Nat, NEW new \in Nat,
         NEW e \in BOOLEAN, GrowPre(st, dest, cur, l, old, new, e),
         ~(dest = EOF /\ OutOfBlocks(st))
  PROVE  GrowBegun(st, dest, cur, l, old, new, e)
<1> DEFINE b == IF dest = EOF THEN Min(st.free) ELSE dest
           start == StartGrow(st, b, dest = EOF)
           s == indirect_count(l - 1)
           M == Hi(cur, old)
<1> SUFFICES /\ b \in Blocks
             /\ GrowInv(start.st, start.data, cur, l, old, new, e, 0, start)
             /\ b \notin Stock(start.st, start.data, l)
             /\ {b} \cup Stock(start.st, start.data, l) = Tree(st.ind, dest, l) \cup st.free
             /\ start.st.ind = st.ind /\ start.st.bad = st.bad /\ start.st.hyper = st.hyper
  BY DEF GrowBegun
<1>L. l - 1 \in 0 .. 3 /\ l \in 0 .. 3 /\ cur \in Int
  OBVIOUS
<1>0. /\ IsStore(st) /\ dest \in Node
      /\ Proper(st.ind, dest, l) /\ Tree(st.ind, dest, l) \cap st.free = {}
      /\ M < Lo(cur + indirect_count(l), new)
      /\ Fits(e, st.ind, dest, l, cur, M)
  BY DEF GrowPre
<1>1. s \in Nat /\ s > 0 /\ M \in Nat /\ cur <= M
  BY <1>L, Counts DEF Hi
<1>2. \A c \in Children : cur + s * c \in Int /\ cur <= cur + s * c
  BY ChildSpan
<1>3. M + 0 = Hi(M, Lo(cur + s * 0, new)) /\ M + 0 = M
  <2> HIDE DEF M, s
  <2>1. cur + s * 0 = cur
    BY <1>1
  <2> QED BY <2>1, <1>1 DEF Hi, Lo
<1>4. start.sum = 0 /\ start.sum \in Nat /\ start.ok /\ start.ok \in BOOLEAN
  BY DEF StartGrow
<1>5. ASSUME Kept(e, start.st, start.data, start.st, start.data, l),
             \A c \in Children : Fits(e /\ ~start.st.hyper, start.st.ind, start.data[c], l - 1, cur + s * c, M)
      PROVE  GrowInv(start.st, start.data, cur, l, old, new, e, 0, start)
  <2> HIDE DEF start, s, M
  <2>1. start.ok /\ start.ok \in BOOLEAN /\ start.sum \in Nat
    BY <1>4
  <2>2. M + start.sum = Hi(M, Lo(cur + s * 0, new)) /\ M + start.sum = M
    BY <1>3, <1>4
  <2>3. GrowInv(start.st, start.data, cur, l, old, new, e, 0, start) <=>
           /\ Kept(e, start.st, start.data, start.st, start.data, l)
           /\ start.st.bad = start.st.bad
           /\ start.sum \in Nat /\ start.ok \in BOOLEAN
           /\ start.ok => M + start.sum = Hi(M, Lo(cur + s * 0, new))
           /\ ~start.ok => M + start.sum < Lo(cur + s * 0, new)
           /\ \A c \in Children : Fits(e /\ ~start.st.hyper, start.st.ind, start.data[c], l - 1, cur + s * c, M + start.sum)
           /\ ~start.ok /\ (e /\ ~start.st.hyper) =>
                \E c \in Children : M + start.sum >= cur + s * c
                  /\ Few(start.st.free, l - 1, (M + start.sum) - (cur + s * c))
    BY DEF GrowInv, M, s
  <2> QED BY <2>1, <2>2, <2>3, <1>5
<1>6. CASE dest = EOF
  <2>0. st.free # {} /\ st.free \in SUBSET Nat /\ st.free \subseteq Blocks
    BY <1>0, <1>6, Constants DEF OutOfBlocks, IsStore
  <2>1. b \in st.free
    BY <2>0, <1>6, MinIn
  <2> HIDE DEF b
  <2>2. start.st = Taken(st, b) /\ start.data = NoChildren
    BY <1>6 DEF StartGrow
  <2>3. /\ IsStore(start.st) /\ start.st.free = st.free \ {b} /\ start.st.ind = st.ind
        /\ start.st.bad = st.bad /\ start.st.hyper = st.hyper
    BY <2>2, <1>0, TakenIs
  <2> HIDE DEF start
  <2>4. start.data \in [Children -> Node] /\ \A c \in Children : start.data[c] = EOF
    BY <2>2, NoChildrenIs
  <2>5. \A c \in Children : Proper(start.st.ind, start.data[c], l - 1) /\ Tree(start.st.ind, start.data[c], l - 1) = {}
    BY <2>4, <1>L, TreeNone
  <2>6. Forest(Children, start.data, Below(l), start.st.ind, start.st.free)
    BY <2>5, BelowIs DEF Forest
  <2>7. Wood(Children, start.data, Below(l), start.st.ind) = {}
    <3>1. Wood(Children, start.data, Below(l), start.st.ind) =
            UNION {Tree(start.st.ind, start.data[c], l - 1) : c \in Children}
      BY WoodBelow
    <3>2. \A c \in Children : Tree(start.st.ind, start.data[c], l - 1) = {}
      BY <2>5
    <3> QED BY <3>1, <3>2
  <2>8. Stock(start.st, start.data, l) = st.free \ {b}
    BY <2>3, <2>7 DEF Stock
  <2>9. Kept(e, start.st, start.data, start.st, start.data, l)
    BY <2>3, <2>4, <2>6, KeptStart
  <2>10. ASSUME NEW c \in Children
         PROVE  Fits(e /\ ~start.st.hyper, start.st.ind, start.data[c], l - 1, cur + s * c, M)
    <3> DEFINE k == cur + s * c
               f == e /\ ~start.st.hyper
    <3>0. Fits(e, st.ind, EOF, l, cur, M) /\ M \in Int
      BY <1>0, <1>1, <1>6
    <3>1. e => M <= cur
      BY <3>0, <1>L, FitsNone
    <3>2. k \in Int /\ cur <= k /\ M \in Int
      BY <1>1, <1>2
    <3> HIDE DEF k, s, M
    <3>3. e => M <= k
      BY <3>1, <3>2
    <3>4. f \in BOOLEAN /\ (f => M <= k)
      BY <3>3
    <3> HIDE DEF f
    <3>5. Fits(f, start.st.ind, EOF, l - 1, k, M)
      BY <3>2, <3>4, <1>L, FitsNone
    <3> QED BY <3>5, <2>4 DEF f, k
  <2>11. Tree(st.ind, dest, l) = {}
    BY <1>6, <1>L, TreeNone
  <2>12. {b} \cup (st.free \ {b}) = st.free
    BY <2>1
  <2> QED BY <2>0, <2>1, <2>3, <2>8, <2>9, <2>10, <2>11, <2>12, <1>5
<1>7. CASE dest # EOF
  <2>0. b = dest /\ b \in Blocks /\ b # EOF
    BY <1>0, <1>7 DEF Node
  <2> HIDE DEF b
  <2>2. start.st = st /\ start.data = st.ind[b]
    BY <1>7 DEF StartGrow
  <2> HIDE DEF start
  <2>3. /\ st.ind[b] \in [Children -> Node]
        /\ Forest(Children, st.ind[b], Below(l), st.ind, st.free)
        /\ b \notin Wood(Children, st.ind[b], Below(l), st.ind) /\ b \notin st.free
        /\ Tree(st.ind, b, l) = {b} \cup Wood(Children, st.ind[b], Below(l), st.ind)
    BY <1>0, <2>0, Open
  <2>4. Stock(start.st, start.data, l) = Wood(Children, st.ind[b], Below(l), st.ind) \cup st.free
    BY <2>2 DEF Stock
  <2>5. Kept(e, start.st, start.data, start.st, start.data, l)
    BY <1>0, <2>2, <2>3, KeptStart
  <2>6. ASSUME NEW c \in Children
        PROVE  Fits(e /\ ~start.st.hyper, start.st.ind, start.data[c], l - 1, cur + s * c, M)
    <3>1. Fits(e, st.ind, st.ind[b][c], l - 1, cur + s * c, M)
      BY <1>0, <1>1, <1>L, <2>0, FitsStep
    <3>2. (e /\ ~start.st.hyper) \in BOOLEAN /\ (e /\ ~start.st.hyper => e)
      OBVIOUS
    <3> QED BY <3>1, <3>2, <2>2, FitsWeaker
  <2> QED BY <2>0, <2>2, <2>3, <2>4, <2>5, <2>6, <1>5
<1> QED BY <1>6, <1>7

(* The end of the loop. *)
LEMMA GrowEnds ==
  ASSUME NEW l \in 1 .. 3, NEW st, NEW dest, NEW cur \in Nat, NEW old \in Nat, NEW new \in Nat,
         NEW e \in BOOLEAN, GrowPre(st, dest, cur, l, old, new, e),
         NEW b \in Blocks, dest # EOF => b = dest, NEW st0, NEW data0,
         b \notin Stock(st0, data0, l),
         {b} \cup Stock(st0, data0, l) = Tree(st.ind, dest, l) \cup st.free,
         st0.ind = st.ind, st0.bad = st.bad, st0.hyper = st.hyper,
         NEW r, GrowInv(st0, data0, cur, l, old, new, e, W, r)
  PROVE  GrowPost(st, dest, cur, l, old, new, e,
           GrownUnder(r, b, dest = EOF, FirstChild(cur, indirect_count(l - 1), old)))
<1> DEFINE s == indirect_count(l - 1)
           M == Hi(cur, old)
           E == cur + indirect_count(l)
           isNew == dest = EOF
           first == FirstChild(cur, s, old)
           g == GrownUnder(r, b, isNew, first)
           reach == M + r.sum
           whole == e /\ ~r.st.hyper
<1> SUFFICES GrowPost(st, dest, cur, l, old, new, e, g)
  OBVIOUS
<1>L. l - 1 \in 0 .. 3 /\ l \in 0 .. 3 /\ cur \in Int /\ W \in Nat /\ W > 0
  BY Constants
<1>0. /\ IsStore(st) /\ dest \in Node
      /\ Proper(st.ind, dest, l) /\ Tree(st.ind, dest, l) \cap st.free = {}
      /\ M < Lo(E, new)
      /\ Fits(e, st.ind, dest, l, cur, M)
  BY DEF GrowPre
<1>1. s \in Nat /\ s > 0 /\ M \in Nat /\ cur <= M /\ E = cur + s * W /\ E \in Nat
  <2>1. s \in Nat /\ s > 0 /\ indirect_count(l) = W * s
    BY <1>L, Counts
  <2> HIDE DEF s
  <2>2. s * W = W * s /\ W * s \in Nat
    BY <2>1, <1>L
  <2> QED BY <2>1, <2>2 DEF Hi
<1>2. /\ Kept(e, st0, data0, r.st, r.data, l)
      /\ r.st.bad = st0.bad
      /\ r.sum \in Nat /\ r.ok \in BOOLEAN
      /\ r.ok => reach = Hi(M, Lo(E, new))
      /\ ~r.ok => reach < Lo(E, new)
      /\ \A c \in Children : Fits(whole, r.st.ind, r.data[c], l - 1, cur + s * c, reach)
      /\ ~r.ok /\ whole =>
           \E c \in Children : reach >= cur + s * c /\ Few(r.st.free, l - 1, reach - (cur + s * c))
  BY <1>1 DEF GrowInv
<1>3. /\ IsStore(r.st) /\ r.data \in [Children -> Node]
      /\ Forest(Children, r.data, Below(l), r.st.ind, r.st.free)
      /\ Stock(r.st, r.data, l) \subseteq Stock(st0, data0, l)
      /\ e /\ ~r.st.hyper => Stock(r.st, r.data, l) = Stock(st0, data0, l)
      /\ \A x \in Blocks : x \notin Stock(st0, data0, l) => r.st.ind[x] = st0.ind[x]
      /\ st0.hyper => r.st.hyper
  BY <1>2 DEF Kept
<1>4. reach \in Nat /\ M <= reach
  <2> HIDE DEF M
  <2> QED BY <1>1, <1>2
<1>5. r.ok => reach = Lo(E, new)
  <2> HIDE DEF M, E, reach
  <2> QED BY <1>0, <1>1, <1>2 DEF Hi
<1>6. b \notin Wood(Children, r.data, Below(l), r.st.ind) /\ b \notin r.st.free
  BY <1>3 DEF Stock
<1>7. \A c \in Children : cur + s * c \in Nat /\ cur <= cur + s * c
  <2> TAKE c \in Children
  <2>1. c \in Nat
    BY Constants
  <2>2. s * c \in Nat
    BY <1>1, <2>1
  <2> QED BY <2>2
<1>8. ~r.ok /\ whole =>
        \E c \in Children : \E k \in Nat :
          reach = cur + s * c + k /\ Few(r.st.free, l - 1, k)
  <2> SUFFICES ASSUME ~r.ok /\ whole
               PROVE  \E c \in Children : \E k \in Nat :
                        reach = cur + s * c + k /\ Few(r.st.free, l - 1, k)
    OBVIOUS
  <2>1. PICK c \in Children : reach >= cur + s * c /\ Few(r.st.free, l - 1, reach - (cur + s * c))
    BY <1>2
  <2> DEFINE k == reach - (cur + s * c)
             a == cur + s * c
  <2>2. a \in Nat
    BY <1>7
  <2> HIDE DEF reach, a
  <2>3. k \in Nat /\ reach = a + k
    BY <2>1, <2>2, <1>4 DEF a
  <2>4. Few(r.st.free, l - 1, k)
    BY <2>1
  <2> HIDE DEF k
  <2> QED BY <2>3, <2>4 DEF a
<1>S. \A x : x \in Stock(r.st, r.data, l) <=>
             x \in Wood(Children, r.data, Below(l), r.st.ind) \/ x \in r.st.free
  BY DEF Stock
<1>9. CASE NothingAdded(r, first)
  <2>1. ~r.ok /\ first = 0 /\ r.sum = 0
    BY <1>9 DEF NothingAdded
  <2>2. reach = M
    <3> HIDE DEF M
    <3> QED BY <2>1, <1>1
  <2> DEFINE u == block_free(r.st, b)
             no == ~isNew
  <2>3. /\ g.st = [u EXCEPT !.hyper = @ \/ no]
        /\ g.dest = EOF /\ g.allocated = 0 /\ ~g.ok /\ g.ok \in BOOLEAN
    BY <1>9 DEF GrownUnder, UndoGrow
  <2>4. /\ IsStore(u) /\ u.free = r.st.free \cup {b}
        /\ \A x \in Blocks : x # b => u.ind[x] = r.st.ind[x]
        /\ u.bad = r.st.bad /\ u.hyper = r.st.hyper
    BY <1>3, FreedIs
  <2>5. no \in BOOLEAN
    OBVIOUS
  <2> HIDE DEF u, g, no
  <2>6. /\ IsStore(g.st) /\ g.st.free = r.st.free \cup {b}
        /\ \A x \in Blocks : x # b => g.st.ind[x] = r.st.ind[x]
        /\ g.st.bad = r.st.bad /\ g.st.hyper = (u.hyper \/ no)
    <3>1. u = [free |-> u.free, ind |-> u.ind, bytes |-> u.bytes, bad |-> u.bad, hyper |-> u.hyper]
      BY <2>4 DEF IsStore
    <3>2. g.st = [free |-> u.free, ind |-> u.ind, bytes |-> u.bytes, bad |-> u.bad, hyper |-> u.hyper \/ no]
      BY <2>3, <3>1
    <3>3. (u.hyper \/ no) \in BOOLEAN
      BY <2>4, <2>5 DEF IsStore
    <3>4. IsStore(g.st) /\ g.st.free = u.free /\ g.st.ind = u.ind /\ g.st.bad = u.bad
      BY <3>2, <3>3, <2>4 DEF IsStore
    <3>5. g.st.hyper = (u.hyper \/ no)
      BY <3>2
    <3> QED BY <3>4, <3>5, <2>4
  <2>7. /\ g.st.hyper <=> (r.st.hyper \/ ~isNew)
        /\ r.st.hyper => g.st.hyper
    BY <2>4, <2>6 DEF no
  <2>8. ASSUME e, ~g.st.hyper
        PROVE  isNew /\ whole /\ M = cur /\ Wood(Children, r.data, Below(l), r.st.ind) = {}
    <3>1. isNew /\ whole
      BY <2>7, <2>8
    <3>2. M <= cur
      <4>0. dest = EOF
        BY <3>1
      <4>1. Fits(e, st.ind, EOF, l, cur, M)
        BY <1>0, <4>0
      <4>3. M \in Int
        BY <1>1
      <4> HIDE DEF M
      <4>2. e => M <= cur
        BY <4>1, <4>3, <1>L, FitsNone
      <4> QED BY <4>2, <2>8
    <3>3. M = cur
      <4> HIDE DEF M
      <4> QED BY <3>2, <1>1
    <3>4. \A c \in Children : r.data[c] = EOF
      <4> TAKE c \in Children
      <4> DEFINE k == cur + s * c
      <4>1. Fits(whole, r.st.ind, r.data[c], l - 1, k, reach)
        BY <1>2
      <4>2. whole \in BOOLEAN /\ k \in Int /\ reach \in Int /\ cur <= k /\ reach = cur
        BY <1>7, <1>4, <2>2, <3>3
      <4> HIDE DEF k, reach, whole
      <4> DEFINE v == l - 1
                 q == r.data[c]
      <4>5. v \in 0 .. 3
        BY <1>L
      <4> HIDE DEF v, q
      <4>6. Fits(whole, r.st.ind, q, v, k, reach)
        BY <4>1 DEF q, v
      <4>3. q # EOF => k < reach
        BY <4>2, <4>5, <4>6, FitsRoot
      <4> QED BY <4>2, <4>3 DEF q
    <3>5. \A c \in Children : Tree(r.st.ind, r.data[c], l - 1) = {}
      BY <3>4, <1>L, TreeNone
    <3>6. Wood(Children, r.data, Below(l), r.st.ind) = {}
      <4> DEFINE wood == Wood(Children, r.data, Below(l), r.st.ind)
      <4>1. \A x : x \in wood <=> \E c \in Children : x \in Tree(r.st.ind, r.data[c], l - 1)
        BY WoodBelow
      <4> HIDE DEF wood
      <4>2. wood = {}
        BY <4>1, <3>5
      <4> QED BY <4>2 DEF wood
    <3> QED BY <3>1, <3>3, <3>6
  <2>9. Tree(g.st.ind, EOF, l) = {} /\ Proper(g.st.ind, EOF, l)
    BY <1>L, TreeNone
  <2>10. r.st.free \subseteq Stock(st0, data0, l)
    BY <1>3, <1>S
  <2>11. Moved(e, st, dest, g.st, g.dest, l)
    <3>1. Tree(g.st.ind, g.dest, l) \cup g.st.free = r.st.free \cup {b}
      BY <2>3, <2>6, <2>9
    <3>2. r.st.free \cup {b} \subseteq Tree(st.ind, dest, l) \cup st.free
      BY <2>10
    <3>3. ASSUME e, ~g.st.hyper PROVE r.st.free \cup {b} = Tree(st.ind, dest, l) \cup st.free
      <4>1. Stock(r.st, r.data, l) = Stock(st0, data0, l)
        BY <2>8, <3>3, <1>3
      <4>2. Stock(r.st, r.data, l) = r.st.free
        BY <2>8, <3>3 DEF Stock
      <4> QED BY <4>1, <4>2
    <3>4. ASSUME NEW x \in Blocks, x \notin Tree(st.ind, dest, l) \cup st.free
          PROVE  g.st.ind[x] = st.ind[x]
      <4>1. x # b /\ x \notin Stock(st0, data0, l)
        BY <3>4
      <4> QED BY <4>1, <2>6, <1>3
    <3>5. st.hyper => g.st.hyper
      BY <2>7, <1>3
    <3>6. g.dest \in Node /\ Proper(g.st.ind, g.dest, l) /\ Tree(g.st.ind, g.dest, l) = {}
      BY <2>3, <2>9 DEF Node
    <3> QED BY <3>1, <3>2, <3>3, <3>4, <3>5, <3>6, <2>6 DEF Moved
  <2> DEFINE more == e /\ ~g.st.hyper
             next == M + g.allocated
  <2>12. next = M
    <3> HIDE DEF M
    <3> QED BY <2>3, <1>1
  <2>13. Fits(more, g.st.ind, g.dest, l, cur, next)
    <3>1. more \in BOOLEAN /\ (more => M <= cur) /\ M \in Int
      BY <2>8, <1>1
    <3> HIDE DEF more, M
    <3>2. Fits(more, g.st.ind, EOF, l, cur, M)
      BY <3>1, <1>L, FitsNone
    <3> QED BY <3>2, <2>3, <2>12
  <2>14. ASSUME more PROVE Few(g.st.free, l, next - cur)
    <3>1. whole /\ M = cur
      BY <2>8, <2>14
    <3>2. PICK c \in Children, k \in Nat : reach = cur + s * c + k /\ Few(r.st.free, l - 1, k)
      BY <1>8, <2>1, <3>1
    <3>3. k = 0
      <4>1. c \in Nat
        BY Constants
      <4>2. s * c \in Nat
        BY <1>1, <4>1
      <4>3. reach = cur
        BY <2>2, <3>1
      <4> HIDE DEF reach, s
      <4> QED BY <3>2, <4>2, <4>3
    <3>4. Few(r.st.free \cup {b}, l, 0)
      BY <3>2, <3>3, FewMore
    <3>5. next - cur = 0
      BY <2>12, <3>1
    <3> QED BY <3>4, <3>5, <2>6
  <2>15. next < Lo(E, new)
    BY <2>12, <1>0
  <2>16. GrowPost(st, dest, cur, l, old, new, e, g) <=>
           /\ Moved(e, st, dest, g.st, g.dest, l)
           /\ g.allocated \in Nat /\ g.ok \in BOOLEAN
           /\ g.ok => next = Lo(E, new)
           /\ ~g.ok => next < Lo(E, new)
           /\ Fits(more, g.st.ind, g.dest, l, cur, next)
           /\ g.st.bad = st.bad
           /\ ~g.ok /\ more => Few(g.st.free, l, next - cur)
    BY DEF GrowPost
  <2>17. g.allocated \in Nat /\ g.st.bad = st.bad
    BY <2>3, <2>6, <1>2
  <2> HIDE DEF next, more, E
  <2> QED BY <2>3, <2>11, <2>13, <2>14, <2>15, <2>16, <2>17
<1>10. CASE ~NothingAdded(r, first)
  <2>1. /\ g.st = [r.st EXCEPT !.ind[b] = r.data]
        /\ g.dest = b /\ g.allocated = r.sum /\ g.ok = r.ok
    BY <1>10 DEF GrownUnder
  <2> HIDE DEF g
  <2>2. /\ IsStore(g.st) /\ g.st.free = r.st.free /\ g.st.ind[b] = r.data
        /\ \A x \in Blocks : x # b => g.st.ind[x] = r.st.ind[x]
        /\ g.st.bad = r.st.bad /\ g.st.hyper = r.st.hyper
    BY <2>1, <1>3, PointedIs
  <2>3. /\ Proper(g.st.ind, b, l)
        /\ Tree(g.st.ind, b, l) = {b} \cup Wood(Children, r.data, Below(l), r.st.ind)
        /\ Tree(g.st.ind, b, l) \cap g.st.free = {}
        /\ \A c \in Children : Same(r.st.ind, g.st.ind, r.data[c], l - 1)
    BY <1>3, <1>6, <2>2, Close
  <2>4. Tree(g.st.ind, b, l) \cup g.st.free = {b} \cup Stock(r.st, r.data, l)
    BY <2>2, <2>3 DEF Stock
  <2>5. Moved(e, st, dest, g.st, g.dest, l)
    <3>1. Tree(g.st.ind, g.dest, l) \cup g.st.free \subseteq Tree(st.ind, dest, l) \cup st.free
      BY <2>1, <2>4, <1>3
    <3>2. e /\ ~g.st.hyper =>
            Tree(g.st.ind, g.dest, l) \cup g.st.free = Tree(st.ind, dest, l) \cup st.free
      BY <2>1, <2>2, <2>4, <1>3
    <3>3. ASSUME NEW x \in Blocks, x \notin Tree(st.ind, dest, l) \cup st.free
          PROVE  g.st.ind[x] = st.ind[x]
      <4>1. x # b /\ x \notin Stock(st0, data0, l)
        BY <3>3
      <4> QED BY <4>1, <2>2, <1>3
    <3>4. st.hyper => g.st.hyper
      BY <2>2, <1>3
    <3>5. g.dest \in Node
      BY <2>1 DEF Node
    <3> QED BY <3>1, <3>2, <3>3, <3>4, <3>5, <2>1, <2>2, <2>3 DEF Moved
  <2>6. cur < reach
    <3>1. CASE r.ok
      <4> HIDE DEF M, E, reach
      <4> QED BY <3>1, <1>0, <1>1, <1>4, <1>5 DEF Lo
    <3>2. CASE r.sum # 0
      <4> HIDE DEF M
      <4> QED BY <3>2, <1>1, <1>2
    <3>3. CASE ~r.ok /\ r.sum = 0
      <4>1. first # 0
        BY <3>3, <1>10 DEF NothingAdded
      <4>2. cur < old
        BY <4>1 DEF FirstChild
      <4>3. cur < M
        BY <4>2 DEF Hi
      <4> HIDE DEF M, reach
      <4> QED BY <4>3, <1>1, <1>4
    <3> QED BY <3>1, <3>2, <3>3
  <2>7. Fits(whole, g.st.ind, b, l, cur, reach)
    <3>1. ASSUME NEW c \in Children
          PROVE  Fits(whole, g.st.ind, g.st.ind[b][c], l - 1, cur + s * c, reach)
      <4> DEFINE k == cur + s * c
      <4>1. Fits(whole, r.st.ind, r.data[c], l - 1, k, reach) /\ k \in Int /\ reach \in Int
        BY <1>2, <1>4, <1>7
      <4>2. Same(r.st.ind, g.st.ind, r.data[c], l - 1) /\ whole \in BOOLEAN
        BY <2>3
      <4> HIDE DEF k, reach, whole
      <4>3. Fits(whole, g.st.ind, r.data[c], l - 1, k, reach)
        BY <4>1, <4>2, <1>L, SameIs
      <4> QED BY <4>3, <2>2 DEF k
    <3>2. b # EOF /\ whole \in BOOLEAN /\ reach \in Int
      BY Constants, <1>4
    <3> HIDE DEF reach, whole
    <3> QED BY <2>6, <3>1, <3>2, <1>L, FitsStep
  <2>8. ASSUME ~r.ok, whole PROVE Few(r.st.free, l, reach - cur)
    <3>1. PICK c \in Children, k \in Nat : reach = cur + s * c + k /\ Few(r.st.free, l - 1, k)
      BY <1>8, <2>8
    <3>2. Few(r.st.free, l, s * c + k)
      BY <3>1, FewUp
    <3>3. reach - cur = s * c + k
      <4>1. c \in Nat
        BY Constants
      <4>2. s * c \in Nat
        BY <1>1, <4>1
      <4> HIDE DEF reach, s
      <4> QED BY <3>1, <4>2
    <3> QED BY <3>2, <3>3
  <2> DEFINE more == e /\ ~g.st.hyper
             next == M + g.allocated
  <2>9. next = reach /\ (more <=> whole) /\ more = whole
    BY <2>1, <2>2
  <2>16. GrowPost(st, dest, cur, l, old, new, e, g) <=>
           /\ Moved(e, st, dest, g.st, g.dest, l)
           /\ g.allocated \in Nat /\ g.ok \in BOOLEAN
           /\ g.ok => next = Lo(E, new)
           /\ ~g.ok => next < Lo(E, new)
           /\ Fits(more, g.st.ind, g.dest, l, cur, next)
           /\ g.st.bad = st.bad
           /\ ~g.ok /\ more => Few(g.st.free, l, next - cur)
    BY DEF GrowPost
  <2>17. g.allocated \in Nat /\ g.st.bad = st.bad /\ g.ok \in BOOLEAN /\ (g.ok <=> r.ok)
    BY <2>1, <2>2, <1>2
  <2>18. Fits(more, g.st.ind, g.dest, l, cur, next)
    BY <2>1, <2>7, <2>9
  <2>19. ~g.ok /\ more => Few(g.st.free, l, next - cur)
    BY <2>2, <2>8, <2>9, <2>17
  <2>20. /\ g.ok => next = Lo(E, new)
         /\ ~g.ok => next < Lo(E, new)
    BY <2>9, <2>17, <1>2, <1>5
  <2> HIDE DEF next, more, E
  <2> QED BY <2>5, <2>16, <2>17, <2>18, <2>19, <2>20
<1> QED BY <1>9, <1>10

(* No block for the indirect block itself. *)
LEMMA GrowNone ==
  ASSUME NEW l \in 1 .. 3, NEW st, NEW dest, NEW cur \in Nat, NEW old \in Nat, NEW new \in Nat,
         NEW e \in BOOLEAN, GrowPre(st, dest, cur, l, old, new, e),
         dest = EOF, st.free = {}
  PROVE  GrowPost(st, dest, cur, l, old, new, e, NoBlockLeft(st))
<1> DEFINE g == NoBlockLeft(st)
           M == Hi(cur, old)
           E == cur + indirect_count(l)
           next == M + g.allocated
           whole == e /\ ~g.st.hyper
<1> SUFFICES GrowPost(st, dest, cur, l, old, new, e, g)
  OBVIOUS
<1>L. l \in 0 .. 3 /\ cur \in Int
  OBVIOUS
<1>0. /\ IsStore(st) /\ dest \in Node
      /\ Proper(st.ind, dest, l) /\ Tree(st.ind, dest, l) \cap st.free = {}
      /\ M < Lo(E, new)
      /\ Fits(e, st.ind, dest, l, cur, M)
  BY DEF GrowPre
<1>1. M \in Nat /\ cur <= M
  BY DEF Hi
<1>2. /\ g.st = st /\ g.dest = EOF /\ g.allocated = 0
      /\ ~g.ok /\ g.ok \in BOOLEAN
  BY DEF NoBlockLeft
<1>3. next = M
  <2> HIDE DEF M, g
  <2> QED BY <1>1, <1>2
<1>4. e => M = cur
  <2>1. Fits(e, st.ind, EOF, l, cur, M)
    BY <1>0
  <2>2. M \in Int
    BY <1>1
  <2> HIDE DEF M
  <2>3. e => M <= cur
    BY <2>1, <2>2, <1>L, FitsNone
  <2> QED BY <2>3, <1>1
<1>5. Moved(e, st, dest, g.st, g.dest, l)
  <2>1. g.dest \in Node
    BY <1>2 DEF Node
  <2> HIDE DEF g
  <2> QED BY <2>1, <1>0, <1>2 DEF Moved
<1>6. Fits(whole, g.st.ind, g.dest, l, cur, next)
  <2>1. whole \in BOOLEAN /\ M \in Int /\ (whole => M <= cur)
    BY <1>1, <1>4
  <2> HIDE DEF whole, M
  <2>2. Fits(whole, st.ind, EOF, l, cur, M)
    BY <2>1, <1>L, FitsNone
  <2> QED BY <2>2, <1>2, <1>3
<1>7. whole => Few(g.st.free, l, next - cur)
  <2> SUFFICES ASSUME whole PROVE Few(g.st.free, l, next - cur)
    OBVIOUS
  <2>1. next - cur = 0
    BY <1>3, <1>4
  <2>2. Few({}, l, 0)
    <3>1. IsFiniteSet({}) /\ Cardinality({}) = 0
      BY FS_EmptySet
    <3>2. Cardinality(Full(l, 0)) \in Nat
      BY <1>L, FullIs
    <3> QED BY <3>1, <3>2 DEF Few
  <2> QED BY <2>1, <2>2, <1>2
<1>8. GrowPost(st, dest, cur, l, old, new, e, g) <=>
           /\ Moved(e, st, dest, g.st, g.dest, l)
           /\ g.allocated \in Nat /\ g.ok \in BOOLEAN
           /\ g.ok => next = Lo(E, new)
           /\ ~g.ok => next < Lo(E, new)
           /\ Fits(whole, g.st.ind, g.dest, l, cur, next)
           /\ g.st.bad = st.bad
           /\ ~g.ok /\ whole => Few(g.st.free, l, next - cur)
  BY DEF GrowPost
<1>9. g.allocated \in Nat /\ g.st.bad = st.bad /\ next < Lo(E, new)
  BY <1>0, <1>2, <1>3
<1> HIDE DEF next, whole, E, g
<1> QED BY <1>2, <1>5, <1>6, <1>7, <1>8, <1>9

(* One level up. *)
LEMMA GrowLevel ==
  ASSUME NEW l \in 1 .. 3, GrowsRight(l - 1)
  PROVE  GrowsRight(l)
<1> SUFFICES ASSUME NEW st, NEW dest, NEW cur \in Nat, NEW old \in Nat, NEW new \in Nat,
                    NEW e \in BOOLEAN, GrowPre(st, dest, cur, l, old, new, e)
             PROVE  GrowPost(st, dest, cur, l, old, new, e,
                             inode_indirect_grow(st, dest, cur, l, old, new))
  BY DEF GrowsRight
<1>1. CASE dest = EOF /\ OutOfBlocks(st)
  <2>1. inode_indirect_grow(st, dest, cur, l, old, new) = NoBlockLeft(st)
    BY <1>1, GrowIs
  <2>2. st.free = {}
    BY <1>1 DEF OutOfBlocks
  <2> QED BY <1>1, <2>1, <2>2, GrowNone
<1>2. CASE ~(dest = EOF /\ OutOfBlocks(st))
  <2> DEFINE b == IF dest = EOF THEN Min(st.free) ELSE dest
             start == StartGrow(st, b, dest = EOF)
             F == GrowRun(start, l, cur, old, new)
             S == {i \in 0 .. W : ~GrowInv(start.st, start.data, cur, l, old, new, e, i, F[i])}
  <2>1. inode_indirect_grow(st, dest, cur, l, old, new) =
          GrownUnder(F[W], b, dest = EOF, FirstChild(cur, indirect_count(l - 1), old))
    BY <1>2, GrowIs DEF GrowLoop
  <2>2. /\ b \in Blocks
        /\ GrowInv(start.st, start.data, cur, l, old, new, e, 0, start)
        /\ b \notin Stock(start.st, start.data, l)
        /\ {b} \cup Stock(start.st, start.data, l) = Tree(st.ind, dest, l) \cup st.free
        /\ start.st.ind = st.ind /\ start.st.bad = st.bad /\ start.st.hyper = st.hyper
    <3>1. GrowBegun(st, dest, cur, l, old, new, e)
      BY <1>2, GrowBegins
    <3> QED BY <3>1 DEF GrowBegun
  <2>3. dest # EOF => b = dest
    OBVIOUS
  <2>4. Hi(cur, old) < Lo(cur + indirect_count(l), new)
    BY DEF GrowPre
  <2> HIDE DEF b, start
  <2>5. F[0] = start /\ \A i \in 1 .. W : F[i] = GrowOne(F[i - 1], i - 1, l, cur, old, new)
    BY GrowRunIs
  <2> HIDE DEF F
  <2>6. W \in Nat
    BY Constants
  <2>7. S = {}
    <3> SUFFICES ASSUME S # {} PROVE FALSE
      OBVIOUS
    <3>1. S \in SUBSET Nat
      OBVIOUS
    <3>2. PICK m \in S : \A k \in S : m <= k
      BY <3>1, Least
    <3>3. m \in 1 .. W
      BY <3>2, <2>2, <2>5
    <3>4. m - 1 \in 0 .. W /\ m - 1 \notin S /\ m - 1 \in Children /\ (m - 1) + 1 = m
      BY <3>2, <3>3, <2>6 DEF Children
    <3>5. GrowInv(start.st, start.data, cur, l, old, new, e, m - 1, F[m - 1])
      BY <3>4
    <3> DEFINE c == m - 1
               r == F[c]
    <3>6. GrowInv(start.st, start.data, cur, l, old, new, e, c, r) /\ c \in Children
      BY <3>4, <3>5
    <3>7. F[m] = GrowOne(r, c, l, cur, old, new)
      BY <3>3, <2>5
    <3>8. c + 1 = m
      BY <3>4
    <3> HIDE DEF c, r
    <3>9. GrowInv(start.st, start.data, cur, l, old, new, e, c + 1, GrowOne(r, c, l, cur, old, new))
      BY <3>6, <2>4, GrowStep
    <3> QED BY <3>2, <3>7, <3>8, <3>9
  <2>8. GrowInv(start.st, start.data, cur, l, old, new, e, W, F[W])
    BY <2>6, <2>7
  <2> DEFINE r == F[W]
  <2> HIDE DEF r
  <2>9. GrowInv(start.st, start.data, cur, l, old, new, e, W, r)
    BY <2>8 DEF r
  <2>10. GrowPost(st, dest, cur, l, old, new, e,
           GrownUnder(r, b, dest = EOF, FirstChild(cur, indirect_count(l - 1), old)))
    BY <2>2, <2>3, <2>9, GrowEnds
  <2> QED BY <2>1, <2>10 DEF r
<1> QED BY <1>1, <1>2

(* What inode_indirect_grow promises, at every level. *)
LEMMA Grows ==
  ASSUME NEW l \in 0 .. 3
  PROVE  GrowsRight(l)
<1>0. GrowsRight(0)
  <2>1. \A st, dest, cur, old, new :
          inode_indirect_grow(st, dest, cur, 0, old, new) = GrowData(st, dest, cur, old, new)
    BY DEF inode_indirect_grow
  <2> QED BY <2>1, GrowZero DEF GrowsRight
<1>1. GrowsRight(1)
  BY <1>0, GrowLevel, 1 - 1 = 0, 1 \in 1 .. 3
<1>2. GrowsRight(2)
  BY <1>1, GrowLevel, 2 - 1 = 1, 2 \in 1 .. 3
<1>3. GrowsRight(3)
  BY <1>2, GrowLevel, 3 - 1 = 2, 3 \in 1 .. 3
<1>4. l = 0 \/ l = 1 \/ l = 2 \/ l = 3
  OBVIOUS
<1> QED BY <1>0, <1>1, <1>2, <1>3, <1>4

-----------------------------------------------------------------------------
(* Shrinking loses no block, not even of a tree that blocks are missing    *)
(* from: whether it keeps all of them does not depend on e.                *)
Whole == TRUE

(* Whole is a truth value; that is all the proofs use of it. *)
LEMMA WholeIs == Whole \in BOOLEAN
BY DEF Whole

(* What inode_indirect_shrink expects and promises: it is called only      *)
(* where there is a block to free, and ends without a failed assertion, if *)
(* at all, with the tree of the new number of blocks; on a tree that is    *)
(* whole no assertion fails.                                               *)
ShrinkPre(st, dest, cur, l, old, new, e) ==
  /\ IsStore(st) /\ dest \in Node
  /\ Proper(st.ind, dest, l) /\ Tree(st.ind, dest, l) \cap st.free = {}
  /\ Hi(cur, new) < Lo(cur + indirect_count(l), old)
  /\ Fits(e, st.ind, dest, l, cur, old)

ShrinkPost(st, dest, cur, l, old, new, e, g) ==
  /\ Moved(Whole, st, dest, g.st, g.dest, l)
  /\ g.st.hyper = st.hyper
  /\ st.bad => g.st.bad
  /\ e /\ ~st.bad => ~g.st.bad
  /\ g.freed \in Nat
  /\ ~g.st.bad => Hi(cur, new) + g.freed = Lo(cur + indirect_count(l), old)
  /\ ~g.st.bad => Fits(e, g.st.ind, g.dest, l, cur, new)

ShrinksRight(l) ==
  \A st, dest : \A cur, old, new \in Nat : \A e \in BOOLEAN :
    ShrinkPre(st, dest, cur, l, old, new, e) =>
      ShrinkPost(st, dest, cur, l, old, new, e, inode_indirect_shrink(st, dest, cur, l, old, new))

(* Where a block was expected there is none. *)
LEMMA ShrinkNothing ==
  ASSUME NEW l \in 0 .. 3, NEW st, NEW dest, NEW cur \in Nat, NEW old \in Nat, NEW new \in Nat,
         NEW e \in BOOLEAN, ShrinkPre(st, dest, cur, l, old, new, e), dest = EOF
  PROVE  ShrinkPost(st, dest, cur, l, old, new, e, NothingThere(st))
<1> DEFINE g == NothingThere(st)
           yes == TRUE
           u == [st EXCEPT !.bad = yes]
<1>0. IsStore(st)
  BY DEF ShrinkPre
<1>1. g.st = u /\ g.dest = EOF /\ g.freed = 0
  BY DEF NothingThere
<1>Y. yes /\ yes \in BOOLEAN
  OBVIOUS
<1> HIDE DEF yes
<1>2. u = [free |-> st.free, ind |-> st.ind, bytes |-> st.bytes, bad |-> yes, hyper |-> st.hyper]
  BY <1>0 DEF IsStore
<1>3. IsStore(u) /\ u.free = st.free /\ u.ind = st.ind /\ u.bad /\ u.hyper = st.hyper
  BY <1>0, <1>2, <1>Y DEF IsStore
<1>4. EOF \in Node
  BY DEF Node
<1> SUFFICES ShrinkPost(st, dest, cur, l, old, new, e, g)
  OBVIOUS
<1> HIDE DEF g, u
<1>5. IsStore(g.st) /\ g.st.free = st.free /\ g.st.ind = st.ind /\ g.st.bad /\ g.st.hyper = st.hyper
  BY <1>1, <1>3
<1>6. Moved(Whole, st, dest, g.st, g.dest, l)
  BY <1>1, <1>4, <1>5 DEF Moved, ShrinkPre
<1>7. g.freed \in Nat
  BY <1>1
<1>8. ~e
  <2>1. Fits(e, st.ind, dest, l, cur, old) /\ cur \in Int /\ old \in Int
    BY DEF ShrinkPre
  <2>2. cur < old
    <3>1. indirect_count(l) \in Nat
      BY Counts
    <3> QED BY <3>1 DEF ShrinkPre, Hi, Lo
  <2> QED BY <2>1, <2>2, FitsRoot
<1> QED BY <1>5, <1>6, <1>7, <1>8 DEF ShrinkPost

(* ShrinkData keeps its promise: it frees the block. *)
LEMMA ShrinkZero ==
  ASSUME NEW st, NEW dest, NEW cur \in Nat, NEW old \in Nat, NEW new \in Nat,
         NEW e \in BOOLEAN, ShrinkPre(st, dest, cur, 0, old, new, e)
  PROVE  ShrinkPost(st, dest, cur, 0, old, new, e, ShrinkData(st, dest, cur, old, new))
<1>1. CASE dest = EOF
  <2>1. ShrinkData(st, dest, cur, old, new) = NothingThere(st)
    BY <1>1 DEF ShrinkData
  <2> QED BY <1>1, <2>1, ShrinkNothing, 0 \in 0 .. 3
<1>2. CASE dest # EOF
  <2> DEFINE g == ShrinkData(st, dest, cur, old, new)
             u == block_free(st, dest)
  <2> SUFFICES ShrinkPost(st, dest, cur, 0, old, new, e, g)
    OBVIOUS
  <2>0. IsStore(st) /\ dest \in Blocks
    BY <1>2 DEF ShrinkPre, Node
  <2>1. g.st = u /\ g.dest = EOF /\ g.freed = 1
    BY <1>2 DEF ShrinkData, ShrinkLeaf
  <2>2. /\ IsStore(u) /\ u.free = st.free \cup {dest}
        /\ \A x \in Blocks : x # dest => u.ind[x] = st.ind[x]
        /\ u.bad = st.bad /\ u.hyper = st.hyper
    BY <2>0, FreedIs
  <2> HIDE DEF g, u
  <2>3. /\ IsStore(g.st) /\ g.st.free = st.free \cup {dest}
        /\ \A x \in Blocks : x # dest => g.st.ind[x] = st.ind[x]
        /\ g.st.bad = st.bad /\ g.st.hyper = st.hyper
    BY <2>1, <2>2
  <2>4. Tree(st.ind, dest, 0) = {dest}
    BY <1>2, TreeZero
  <2>5. Tree(g.st.ind, EOF, 0) = {} /\ Proper(g.st.ind, EOF, 0) /\ EOF \in Node
    BY TreeNone, 0 \in 0 .. 3 DEF Node
  <2>6. Moved(Whole, st, dest, g.st, g.dest, 0)
    <3>1. Tree(g.st.ind, g.dest, 0) = {}
      BY <2>1, <2>5
    <3>2. Tree(g.st.ind, g.dest, 0) \cup g.st.free = Tree(st.ind, dest, 0) \cup st.free
      BY <3>1, <2>3, <2>4
    <3>3. \A x \in Blocks : x \notin Tree(st.ind, dest, 0) \cup st.free => g.st.ind[x] = st.ind[x]
      BY <2>3, <2>4
    <3> QED BY <3>1, <3>2, <3>3, <2>1, <2>3, <2>5 DEF Moved
  <2>7. Hi(cur, new) + 1 = Lo(cur + indirect_count(0), old) /\ new <= cur
    BY Counts DEF ShrinkPre, Hi, Lo
  <2>8. Fits(e, g.st.ind, g.dest, 0, cur, new)
    <3>1. Fits(e, g.st.ind, EOF, 0, cur, new)
      BY <2>7, FitsNone, 0 \in 0 .. 3, cur \in Int, new \in Int
    <3> QED BY <3>1, <2>1
  <2>9. g.freed \in Nat /\ Hi(cur, new) + g.freed = Lo(cur + indirect_count(0), old)
    BY <2>1, <2>7
  <2> QED BY <2>3, <2>6, <2>8, <2>9 DEF ShrinkPost
<1> QED BY <1>1, <1>2

-----------------------------------------------------------------------------
(* The loop that shrinks, when the children before i are done.             *)
ShrinkInv(st0, data0, cur, l, old, new, e, i, r) ==
  LET s == indirect_count(l - 1)
  IN  /\ Kept(Whole, st0, data0, r.st, r.data, l)
      /\ r.st.hyper = st0.hyper
      /\ st0.bad => r.st.bad
      /\ e /\ ~st0.bad => ~r.st.bad
      /\ r.sum \in Nat
      /\ ~r.st.bad => Hi(cur, new) + r.sum = Hi(Hi(cur, new), Lo(cur + s * i, old))
      /\ \A c \in Children : c >= i => Fits(e, r.st.ind, r.data[c], l - 1, cur + s * c, old)
      /\ ~r.st.bad =>
           \A c \in Children : c < i => Fits(e, r.st.ind, r.data[c], l - 1, cur + s * c, new)

(* One child of the shrinking loop: the invariant goes on from child i to  *)
(* child i + 1.                                                            *)
LEMMA ShrinkStep ==
  ASSUME NEW l \in 1 .. 3, ShrinksRight(l - 1),
         NEW cur \in Nat, NEW old \in Nat, NEW new \in Nat, NEW e \in BOOLEAN,
         Hi(cur, new) < Lo(cur + indirect_count(l), old),
         NEW st0, NEW data0, NEW i \in Children, NEW r,
         ShrinkInv(st0, data0, cur, l, old, new, e, i, r)
  PROVE  ShrinkInv(st0, data0, cur, l, old, new, e, i + 1, ShrinkOne(r, i, l, cur, old, new))
<1> DEFINE s == indirect_count(l - 1)
           M == Hi(cur, new)
           at == cur + s * i
           in == i \in FirstChild(cur, s, new) .. LastChild(cur, s, old)
           q == ShrinkOne(r, i, l, cur, old, new)
           reach == Hi(M, Lo(at, old))
<1> SUFFICES ShrinkInv(st0, data0, cur, l, old, new, e, i + 1, q)
  OBVIOUS
<1>L. l - 1 \in 0 .. 3 /\ i \in Nat /\ e \in BOOLEAN
  BY Constants
<1>C. \A c \in Children : c \in Nat
  BY Constants
<1>0. /\ s \in Nat /\ s > 0 /\ M \in Nat /\ at \in Nat
      /\ cur + s * (i + 1) = at + s
  <2>1. s \in Nat /\ s > 0
    BY <1>L, Counts
  <2>2. s * i \in Nat /\ s * (i + 1) = s * i + s
    BY <2>1, <1>L
  <2>3. M \in Nat
    BY DEF Hi
  <2> QED BY <2>1, <2>2, <2>3
<1>1. /\ Kept(Whole, st0, data0, r.st, r.data, l)
      /\ r.st.hyper = st0.hyper
      /\ st0.bad => r.st.bad
      /\ e /\ ~st0.bad => ~r.st.bad
      /\ r.sum \in Nat
      /\ ~r.st.bad => M + r.sum = reach
      /\ \A c \in Children : c >= i => Fits(e, r.st.ind, r.data[c], l - 1, cur + s * c, old)
      /\ ~r.st.bad =>
           \A c \in Children : c < i => Fits(e, r.st.ind, r.data[c], l - 1, cur + s * c, new)
  BY DEF ShrinkInv
<1>R. reach \in Nat
  <2> HIDE DEF M, at
  <2> QED BY <1>0 DEF Hi, Lo
<1>2. /\ cur <= at /\ at + s <= cur + indirect_count(l)
      /\ in => reach = Hi(at, new) /\ Hi(at, new) < Lo(at + s, old)
      /\ in => Lo(at + s, old) = Hi(M, Lo(at + s, old))
      /\ ~in => reach = Hi(M, Lo(at + s, old))
  <2> DEFINE G(t) == LET u == indirect_count(l - 1)
                         v == cur + u * i
                         w == i \in FirstChild(cur, u, new) .. LastChild(cur, u, old)
                     IN  /\ v \in Nat /\ u \in Nat /\ u > 0 /\ cur <= v
                         /\ v + u <= cur + indirect_count(l)
                         /\ cur + u * (i + 1) = v + u
                         /\ w => t = Hi(v, new) /\ Hi(v, new) < Lo(v + u, old)
                         /\ w => Lo(v + u, old) = Hi(Hi(cur, new), Lo(v + u, old))
                         /\ ~w => t = Hi(Hi(cur, new), Lo(v + u, old))
  <2>1. G(reach)
    BY <1>R, GrowAt
  <2> QED BY <2>1
<1>S. ShrinkInv(st0, data0, cur, l, old, new, e, i + 1, q) <=>
        /\ Kept(Whole, st0, data0, q.st, q.data, l)
        /\ q.st.hyper = st0.hyper
        /\ st0.bad => q.st.bad
        /\ e /\ ~st0.bad => ~q.st.bad
        /\ q.sum \in Nat
        /\ ~q.st.bad => M + q.sum = Hi(M, Lo(cur + s * (i + 1), old))
        /\ \A c \in Children : c >= i + 1 => Fits(e, q.st.ind, q.data[c], l - 1, cur + s * c, old)
        /\ ~q.st.bad =>
             \A c \in Children : c < i + 1 => Fits(e, q.st.ind, q.data[c], l - 1, cur + s * c, new)
  BY DEF ShrinkInv
<1>O. \A c \in Children : (c >= i + 1 => c >= i /\ c # i) /\ (c < i + 1 => c < i \/ c = i)
  BY <1>C, <1>L
<1>3. CASE ~in
  <2>1. q = r
    BY <1>3 DEF ShrinkOne
  <2>2. reach = Hi(M, Lo(cur + s * (i + 1), old))
    BY <1>2, <1>3, <1>0
  <2>3. Fits(e, r.st.ind, r.data[i], l - 1, at, new)
    <3>1. Fits(e, r.st.ind, r.data[i], l - 1, at, old)
      BY <1>1, <1>L
    <3>2. \/ old <= at /\ new <= at
          \/ old >= at + s /\ new >= at + s
          \/ old = new
      <4>1. cur < old /\ new < cur + indirect_count(l)
        <5>1. indirect_count(l) \in Nat
          BY Counts, l \in 0 .. 3
        <5> QED BY <5>1 DEF Hi, Lo
      <4>2. ~(at < old /\ new < at + s)
        BY <4>1, <1>3, ChildRange
      <4>3. new < old
        BY Counts, l \in 0 .. 3 DEF Hi, Lo
      <4> HIDE DEF at, s
      <4> QED BY <4>2, <4>3, <1>0
    <3> DEFINE k == at
    <3>3. k \in Int /\ old \in Int /\ new \in Int
      BY <1>0
    <3>4. \/ old <= k /\ new <= k
          \/ old >= k + indirect_count(l - 1) /\ new >= k + indirect_count(l - 1)
          \/ old = new
      BY <3>2
    <3>5. Fits(e, r.st.ind, r.data[i], l - 1, k, old)
      BY <3>1
    <3> HIDE DEF k
    <3>6. Fits(e, r.st.ind, r.data[i], l - 1, k, new)
      BY <3>3, <3>4, <3>5, <1>L, FitsSame
    <3> QED BY <3>6 DEF k
  <2>4. ~r.st.bad =>
          \A c \in Children : c < i + 1 => Fits(e, r.st.ind, r.data[c], l - 1, cur + s * c, new)
    BY <1>1, <1>O, <2>3
  <2>5. \A c \in Children : c >= i + 1 => Fits(e, r.st.ind, r.data[c], l - 1, cur + s * c, old)
    BY <1>1, <1>O
  <2> HIDE DEF q
  <2> QED BY <1>1, <1>S, <2>1, <2>2, <2>4, <2>5
<1>4. CASE in
  <2> DEFINE g == inode_indirect_shrink(r.st, r.data[i], at, l - 1, old, new)
             d == [r.data EXCEPT ![i] = g.dest]
  <2>1. q = WithoutChild(r, i, g)
    BY <1>4 DEF ShrinkOne
  <2>2. q.st = g.st /\ q.data = d /\ q.sum = r.sum + g.freed
    BY <2>1 DEF WithoutChild
  <2>3. /\ IsStore(r.st) /\ r.data \in [Children -> Node]
        /\ Forest(Children, r.data, Below(l), r.st.ind, r.st.free)
    BY <1>1 DEF Kept
  <2>4. Proper(r.st.ind, r.data[i], l - 1) /\ Tree(r.st.ind, r.data[i], l - 1) \cap r.st.free = {}
    BY <2>3, BelowIs DEF Forest
  <2>5. reach = Hi(at, new) /\ Hi(at, new) < Lo(at + s, old)
    BY <1>2, <1>4
  <2>6. Fits(e, r.st.ind, r.data[i], l - 1, at, old)
    BY <1>1, <1>L
  <2>7. ShrinkPre(r.st, r.data[i], at, l - 1, old, new, e)
    BY <2>3, <2>4, <2>5, <2>6 DEF ShrinkPre
  <2>8. ShrinkPost(r.st, r.data[i], at, l - 1, old, new, e, g)
    BY <2>7, <1>0 DEF ShrinksRight
  <2> HIDE DEF q, g
  <2>9. /\ Moved(Whole, r.st, r.data[i], g.st, g.dest, l - 1)
        /\ g.st.hyper = r.st.hyper
        /\ r.st.bad => g.st.bad
        /\ e /\ ~r.st.bad => ~g.st.bad
        /\ g.freed \in Nat
        /\ ~g.st.bad => reach + g.freed = Lo(at + s, old)
        /\ ~g.st.bad => Fits(e, g.st.ind, g.dest, l - 1, at, new)
    BY <2>8, <2>5 DEF ShrinkPost
  <2>10. /\ Kept(Whole, st0, data0, g.st, d, l)
         /\ \A j \in Children : j # i => Same(r.st.ind, g.st.ind, r.data[j], l - 1)
    BY <1>1, <2>9, KeptStep, WholeIs
  <2>11. d[i] = g.dest /\ \A c \in Children : c # i => d[c] = r.data[c]
    BY <2>3
  <2>12. ASSUME NEW c \in Children, c # i, NEW n \in Int,
                Fits(e, r.st.ind, r.data[c], l - 1, cur + s * c, n)
         PROVE  Fits(e, g.st.ind, d[c], l - 1, cur + s * c, n)
    <3> DEFINE k == cur + s * c
    <3>1. k \in Int
      <4>1. c \in Nat
        BY <1>C
      <4>2. s * c \in Nat
        BY <4>1, <1>0
      <4> QED BY <4>2
    <3>2. Fits(e, r.st.ind, r.data[c], l - 1, k, n)
      BY <2>12
    <3> HIDE DEF k
    <3>3. Same(r.st.ind, g.st.ind, r.data[c], l - 1)
      BY <2>10, <2>12
    <3>4. \A f \in BOOLEAN, at0 \in Int, m \in Int :
            Fits(f, g.st.ind, r.data[c], l - 1, at0, m) <=> Fits(f, r.st.ind, r.data[c], l - 1, at0, m)
      BY <3>3, <1>L, SameIs
    <3>5. Fits(e, g.st.ind, r.data[c], l - 1, k, n)
      BY <3>1, <3>2, <3>4
    <3> QED BY <3>5, <2>11, <2>12 DEF k
  <2>13. ~g.st.bad => M + q.sum = Hi(M, Lo(cur + s * (i + 1), old))
    <3> SUFFICES ASSUME ~g.st.bad PROVE M + q.sum = Hi(M, Lo(cur + s * (i + 1), old))
      OBVIOUS
    <3>1. M + r.sum = reach /\ reach + g.freed = Lo(at + s, old)
      BY <1>1, <2>9
    <3>2. Lo(at + s, old) = Hi(M, Lo(at + s, old))
      BY <1>2, <1>4
    <3>3. M + q.sum = reach + g.freed
      <4> HIDE DEF M, reach
      <4> QED BY <3>1, <2>2, <2>9, <1>0, <1>1
    <3> QED BY <3>1, <3>2, <3>3, <1>0
  <2>14. \A c \in Children : c >= i + 1 => Fits(e, q.st.ind, q.data[c], l - 1, cur + s * c, old)
    <3> SUFFICES ASSUME NEW c \in Children, c >= i + 1
                 PROVE  Fits(e, q.st.ind, q.data[c], l - 1, cur + s * c, old)
      OBVIOUS
    <3>1. Fits(e, r.st.ind, r.data[c], l - 1, cur + s * c, old) /\ c # i /\ old \in Int
      BY <1>1, <1>O
    <3>2. Fits(e, g.st.ind, d[c], l - 1, cur + s * c, old)
      BY <3>1, <2>12
    <3> QED BY <3>2, <2>2
  <2>15. ~q.st.bad =>
           \A c \in Children : c < i + 1 => Fits(e, q.st.ind, q.data[c], l - 1, cur + s * c, new)
    <3> SUFFICES ASSUME ~q.st.bad, NEW c \in Children, c < i + 1
                 PROVE  Fits(e, q.st.ind, q.data[c], l - 1, cur + s * c, new)
      OBVIOUS
    <3>0. ~g.st.bad /\ ~r.st.bad
      BY <2>2, <2>9
    <3>1. CASE c = i
      BY <3>0, <3>1, <2>2, <2>9, <2>11
    <3>2. CASE c # i
      <4>1. Fits(e, r.st.ind, r.data[c], l - 1, cur + s * c, new) /\ new \in Int
        BY <1>1, <1>O, <3>0, <3>2
      <4>2. Fits(e, g.st.ind, d[c], l - 1, cur + s * c, new)
        BY <4>1, <3>2, <2>12
      <4> QED BY <4>2, <2>2
    <3> QED BY <3>1, <3>2
  <2>16. q.sum \in Nat /\ q.st.hyper = st0.hyper /\ (st0.bad => q.st.bad)
         /\ (e /\ ~st0.bad => ~q.st.bad)
         /\ Kept(Whole, st0, data0, q.st, q.data, l)
    BY <1>1, <2>2, <2>9, <2>10
  <2> HIDE DEF s, M, at, reach, d
  <2> QED BY <1>S, <2>2, <2>13, <2>14, <2>15, <2>16
<1> QED BY <1>3, <1>4

(* The end of the loop. *)
LEMMA ShrinkEnds ==
  ASSUME NEW l \in 1 .. 3, NEW st, NEW b, NEW cur \in Nat, NEW old \in Nat, NEW new \in Nat,
         NEW e \in BOOLEAN, ShrinkPre(st, b, cur, l, old, new, e), b # EOF,
         NEW r, ShrinkInv(st, st.ind[b], cur, l, old, new, e, W, r)
  PROVE  ShrinkPost(st, b, cur, l, old, new, e, ShrunkUnder(r, b))
<1> DEFINE s == indirect_count(l - 1)
           M == Hi(cur, new)
           E == cur + indirect_count(l)
           data0 == st.ind[b]
           g == ShrunkUnder(r, b)
<1> SUFFICES ShrinkPost(st, b, cur, l, old, new, e, g)
  OBVIOUS
<1>L. l - 1 \in 0 .. 3 /\ l \in 0 .. 3 /\ cur \in Int /\ new \in Int /\ W \in Nat /\ W > 0
  BY Constants
<1>0. /\ IsStore(st) /\ b \in Blocks
      /\ Proper(st.ind, b, l) /\ Tree(st.ind, b, l) \cap st.free = {}
      /\ M < Lo(E, old)
  BY DEF ShrinkPre, Node
<1>1. s \in Nat /\ s > 0 /\ M \in Nat /\ E = cur + s * W /\ E \in Nat
  <2>1. s \in Nat /\ s > 0 /\ indirect_count(l) = W * s
    BY <1>L, Counts
  <2> HIDE DEF s
  <2>2. s * W = W * s /\ W * s \in Nat
    BY <2>1, <1>L
  <2> QED BY <2>1, <2>2 DEF Hi
<1>2. /\ data0 \in [Children -> Node]
      /\ b \notin Wood(Children, data0, Below(l), st.ind) /\ b \notin st.free
      /\ Tree(st.ind, b, l) = {b} \cup Wood(Children, data0, Below(l), st.ind)
  BY <1>0, Open
<1>3. /\ Kept(Whole, st, data0, r.st, r.data, l)
      /\ r.st.hyper = st.hyper
      /\ st.bad => r.st.bad
      /\ e /\ ~st.bad => ~r.st.bad
      /\ r.sum \in Nat
      /\ ~r.st.bad => M + r.sum = Hi(M, Lo(E, old))
      /\ ~r.st.bad => \A c \in Children : Fits(e, r.st.ind, r.data[c], l - 1, cur + s * c, new)
  <2>1. \A c \in Children : c < W
    BY Constants DEF Children
  <2> QED BY <1>1, <2>1 DEF ShrinkInv
<1>4. ~r.st.bad => M + r.sum = Lo(E, old)
  <2> HIDE DEF M, E
  <2> QED BY <1>0, <1>1, <1>3 DEF Hi
<1>5. /\ IsStore(r.st) /\ r.data \in [Children -> Node]
      /\ Forest(Children, r.data, Below(l), r.st.ind, r.st.free)
      /\ Stock(r.st, r.data, l) \subseteq Stock(st, data0, l)
      /\ Whole /\ ~r.st.hyper => Stock(r.st, r.data, l) = Stock(st, data0, l)
      /\ \A x \in Blocks : x \notin Stock(st, data0, l) => r.st.ind[x] = st.ind[x]
  BY <1>3 DEF Kept
<1>6. /\ b \notin Stock(st, data0, l)
      /\ {b} \cup Stock(st, data0, l) = Tree(st.ind, b, l) \cup st.free
  BY <1>2 DEF Stock
<1>7. b \notin Wood(Children, r.data, Below(l), r.st.ind) /\ b \notin r.st.free
  BY <1>5, <1>6 DEF Stock
<1>8. \A c \in Children : cur + s * c \in Int /\ cur <= cur + s * c
  BY ChildSpan
<1>9. ~r.st.bad => \A c \in Children : /\ r.data[c] # EOF => cur + s * c < new
                                       /\ e /\ cur + s * c < new => r.data[c] # EOF
  <2> SUFFICES ASSUME ~r.st.bad, NEW c \in Children
               PROVE  /\ r.data[c] # EOF => cur + s * c < new
                      /\ e /\ cur + s * c < new => r.data[c] # EOF
    OBVIOUS
  <2> DEFINE k == cur + s * c
             v == l - 1
             q == r.data[c]
  <2>1. Fits(e, r.st.ind, q, v, k, new) /\ k \in Int /\ v \in 0 .. 3
    BY <1>3, <1>8, <1>L
  <2> HIDE DEF k, v, q
  <2>2. (q # EOF => k < new) /\ (e /\ k < new => q # EOF)
    BY <2>1, <1>L, FitsRoot
  <2> QED BY <2>2 DEF k, q
<1>P. ShrinkPost(st, b, cur, l, old, new, e, g) <=>
        /\ Moved(Whole, st, b, g.st, g.dest, l)
        /\ g.st.hyper = st.hyper
        /\ st.bad => g.st.bad
        /\ e /\ ~st.bad => ~g.st.bad
        /\ g.freed \in Nat
        /\ ~g.st.bad => M + g.freed = Lo(E, old)
        /\ ~g.st.bad => Fits(e, g.st.ind, g.dest, l, cur, new)
  BY DEF ShrinkPost
<1>10. CASE r.data = NoChildren
  <2> DEFINE u == block_free(r.st, b)
  <2>1. g.st = u /\ g.dest = EOF /\ g.freed = r.sum
    BY <1>10 DEF ShrunkUnder
  <2>2. /\ IsStore(u) /\ u.free = r.st.free \cup {b}
        /\ \A x \in Blocks : x # b => u.ind[x] = r.st.ind[x]
        /\ u.bad = r.st.bad /\ u.hyper = r.st.hyper
    BY <1>0, <1>5, FreedIs
  <2> HIDE DEF g, u
  <2>3. /\ IsStore(g.st) /\ g.st.free = r.st.free \cup {b}
        /\ \A x \in Blocks : x # b => g.st.ind[x] = r.st.ind[x]
        /\ g.st.bad = r.st.bad /\ g.st.hyper = r.st.hyper
    BY <2>1, <2>2
  <2>4. \A c \in Children : r.data[c] = EOF
    BY <1>10, NoChildrenIs
  <2>5. Stock(r.st, r.data, l) = r.st.free
    <3> DEFINE wood == Wood(Children, r.data, Below(l), r.st.ind)
    <3>1. \A c \in Children : Tree(r.st.ind, r.data[c], l - 1) = {}
      BY <2>4, <1>L, TreeNone
    <3>2. \A x : x \in wood <=> \E c \in Children : x \in Tree(r.st.ind, r.data[c], l - 1)
      BY WoodBelow
    <3>3. Stock(r.st, r.data, l) = wood \cup r.st.free
      BY DEF Stock
    <3> HIDE DEF wood
    <3>4. wood = {}
      BY <3>1, <3>2
    <3> QED BY <3>3, <3>4
  <2>6. Tree(g.st.ind, EOF, l) = {} /\ Proper(g.st.ind, EOF, l) /\ EOF \in Node
    BY <1>L, TreeNone DEF Node
  <2>7. Moved(Whole, st, b, g.st, g.dest, l)
    <3>1. Tree(g.st.ind, g.dest, l) \cup g.st.free = {b} \cup Stock(r.st, r.data, l)
      BY <2>1, <2>3, <2>5, <2>6
    <3>2. /\ {b} \cup Stock(r.st, r.data, l) \subseteq Tree(st.ind, b, l) \cup st.free
          /\ Whole /\ ~g.st.hyper => {b} \cup Stock(r.st, r.data, l) = Tree(st.ind, b, l) \cup st.free
      BY <1>5, <1>6, <2>3
    <3>3. ASSUME NEW x \in Blocks, x \notin Tree(st.ind, b, l) \cup st.free
          PROVE  g.st.ind[x] = st.ind[x]
      <4>1. x # b /\ x \notin Stock(st, data0, l)
        BY <3>3, <1>6
      <4> QED BY <4>1, <2>3, <1>5
    <3>4. st.hyper => g.st.hyper
      BY <1>3, <2>3
    <3>5. Tree(g.st.ind, g.dest, l) = {} /\ Proper(g.st.ind, g.dest, l) /\ g.dest \in Node
      BY <2>1, <2>6
    <3> QED BY <3>1, <3>2, <3>3, <3>4, <3>5, <2>3 DEF Moved
  <2>8. ~g.st.bad => Fits(e, g.st.ind, g.dest, l, cur, new)
    <3> SUFFICES ASSUME ~g.st.bad PROVE Fits(e, g.st.ind, g.dest, l, cur, new)
      OBVIOUS
    <3>1. 0 \in Children /\ cur + s * 0 = cur
      BY Constants, <1>1
    <3>2. e => new <= cur
      BY <3>1, <2>3, <2>4, <1>9
    <3>3. Fits(e, g.st.ind, EOF, l, cur, new)
      BY <3>2, <1>L, FitsNone
    <3> QED BY <3>3, <2>1
  <2>9. /\ g.st.hyper = st.hyper /\ (st.bad => g.st.bad) /\ g.freed \in Nat
        /\ (e /\ ~st.bad => ~g.st.bad)
        /\ ~g.st.bad => M + g.freed = Lo(E, old)
    BY <2>1, <2>3, <1>3, <1>4
  <2> HIDE DEF M, E
  <2> QED BY <2>7, <2>8, <2>9, <1>P
<1>11. CASE r.data # NoChildren
  <2>1. g.st = [r.st EXCEPT !.ind[b] = r.data] /\ g.dest = b /\ g.freed = r.sum
    BY <1>11 DEF ShrunkUnder
  <2> HIDE DEF g
  <2>2. /\ IsStore(g.st) /\ g.st.free = r.st.free /\ g.st.ind[b] = r.data
        /\ \A x \in Blocks : x # b => g.st.ind[x] = r.st.ind[x]
        /\ g.st.bad = r.st.bad /\ g.st.hyper = r.st.hyper
    BY <2>1, <1>0, <1>5, PointedIs
  <2>3. /\ Proper(g.st.ind, b, l)
        /\ Tree(g.st.ind, b, l) = {b} \cup Wood(Children, r.data, Below(l), r.st.ind)
        /\ Tree(g.st.ind, b, l) \cap g.st.free = {}
        /\ \A c \in Children : Same(r.st.ind, g.st.ind, r.data[c], l - 1)
    BY <1>0, <1>5, <1>7, <2>2, Close
  <2>4. Tree(g.st.ind, b, l) \cup g.st.free = {b} \cup Stock(r.st, r.data, l)
    BY <2>2, <2>3 DEF Stock
  <2>5. Moved(Whole, st, b, g.st, g.dest, l)
    <3>1. Tree(g.st.ind, g.dest, l) \cup g.st.free \subseteq Tree(st.ind, b, l) \cup st.free
      BY <2>1, <2>4, <1>5, <1>6
    <3>2. Whole /\ ~g.st.hyper =>
            Tree(g.st.ind, g.dest, l) \cup g.st.free = Tree(st.ind, b, l) \cup st.free
      BY <2>1, <2>2, <2>4, <1>5, <1>6
    <3>3. ASSUME NEW x \in Blocks, x \notin Tree(st.ind, b, l) \cup st.free
          PROVE  g.st.ind[x] = st.ind[x]
      <4>1. x # b /\ x \notin Stock(st, data0, l)
        BY <3>3, <1>6
      <4> QED BY <4>1, <2>2, <1>5
    <3>4. st.hyper => g.st.hyper
      BY <2>2, <1>3
    <3>5. g.dest \in Node
      BY <2>1, <1>0 DEF Node
    <3> QED BY <3>1, <3>2, <3>3, <3>4, <3>5, <2>1, <2>2, <2>3 DEF Moved
  <2>6. ~g.st.bad => cur < new
    <3> SUFFICES ASSUME ~g.st.bad PROVE cur < new
      OBVIOUS
    <3>1. PICK c \in Children : r.data[c] # EOF
      BY <1>5, <1>11 DEF NoChildren
    <3>2. cur + s * c < new
      BY <3>1, <2>2, <1>9
    <3>3. cur + s * c \in Int /\ cur <= cur + s * c
      BY <1>8
    <3> HIDE DEF s
    <3> QED BY <3>2, <3>3, <1>L
  <2>7. ~g.st.bad => Fits(e, g.st.ind, b, l, cur, new)
    <3> SUFFICES ASSUME ~g.st.bad PROVE Fits(e, g.st.ind, b, l, cur, new)
      OBVIOUS
    <3>1. ASSUME NEW c \in Children
          PROVE  Fits(e, g.st.ind, g.st.ind[b][c], l - 1, cur + s * c, new)
      <4> DEFINE k == cur + s * c
      <4>1. Fits(e, r.st.ind, r.data[c], l - 1, k, new) /\ k \in Int
        BY <1>3, <1>8, <2>2
      <4>2. Same(r.st.ind, g.st.ind, r.data[c], l - 1)
        BY <2>3
      <4> HIDE DEF k
      <4>3. Fits(e, g.st.ind, r.data[c], l - 1, k, new)
        BY <4>1, <4>2, <1>L, SameIs
      <4> QED BY <4>3, <2>2 DEF k
    <3> QED BY <2>6, <3>1, <1>L, FitsStep
  <2>8. ~g.st.bad => Fits(e, g.st.ind, g.dest, l, cur, new)
    BY <2>1, <2>7
  <2>9. /\ g.st.hyper = st.hyper /\ (st.bad => g.st.bad) /\ g.freed \in Nat
        /\ (e /\ ~st.bad => ~g.st.bad)
        /\ ~g.st.bad => M + g.freed = Lo(E, old)
    BY <2>1, <2>2, <1>3, <1>4
  <2> HIDE DEF M, E
  <2> QED BY <2>5, <2>8, <2>9, <1>P
<1> QED BY <1>10, <1>11

(* The start of the loop. *)
LEMMA ShrinkBegins ==
  ASSUME NEW l \in 1 .. 3, NEW st, NEW b, NEW cur \in Nat, NEW old \in Nat, NEW new \in Nat,
         NEW e \in BOOLEAN, ShrinkPre(st, b, cur, l, old, new, e), b # EOF
  PROVE  ShrinkInv(st, st.ind[b], cur, l, old, new, e, 0, StartShrink(st, b))
<1> DEFINE s == indirect_count(l - 1)
           M == Hi(cur, new)
           r == StartShrink(st, b)
           data0 == st.ind[b]
<1>L. l - 1 \in 0 .. 3 /\ cur \in Int /\ old \in Int
  OBVIOUS
<1>0. /\ IsStore(st) /\ b \in Blocks
      /\ Proper(st.ind, b, l) /\ Tree(st.ind, b, l) \cap st.free = {}
      /\ Fits(e, st.ind, b, l, cur, old)
  BY DEF ShrinkPre, Node
<1>1. r.st = st /\ r.data = data0 /\ r.sum = 0
  BY DEF StartShrink
<1>2. data0 \in [Children -> Node] /\ Forest(Children, data0, Below(l), st.ind, st.free)
  BY <1>0, Open
<1>3. Kept(Whole, st, data0, st, data0, l)
  BY <1>0, <1>2, KeptStart, WholeIs
<1>4. \A c \in Children : Fits(e, st.ind, data0[c], l - 1, cur + s * c, old)
  BY <1>0, <1>L, FitsStep
<1>5. s \in Nat /\ M \in Nat /\ cur <= M
  BY <1>L, Counts DEF Hi
<1>6. M + 0 = Hi(M, Lo(cur + s * 0, old)) /\ M + 0 = M
  <2> HIDE DEF M, s
  <2>1. cur + s * 0 = cur
    BY <1>5
  <2> QED BY <2>1, <1>5 DEF Hi, Lo
<1>7. \A c \in Children : ~(c < 0)
  BY Constants
<1>8. ShrinkInv(st, data0, cur, l, old, new, e, 0, r) <=>
        /\ Kept(Whole, st, data0, r.st, r.data, l)
        /\ r.st.hyper = st.hyper
        /\ st.bad => r.st.bad
        /\ e /\ ~st.bad => ~r.st.bad
        /\ r.sum \in Nat
        /\ ~r.st.bad => M + r.sum = Hi(M, Lo(cur + s * 0, old))
        /\ \A c \in Children : c >= 0 => Fits(e, r.st.ind, r.data[c], l - 1, cur + s * c, old)
        /\ ~r.st.bad =>
             \A c \in Children : c < 0 => Fits(e, r.st.ind, r.data[c], l - 1, cur + s * c, new)
  BY DEF ShrinkInv
<1> HIDE DEF r, M, s, data0
<1>9. ShrinkInv(st, data0, cur, l, old, new, e, 0, r)
  BY <1>1, <1>3, <1>4, <1>6, <1>7, <1>8
<1> QED BY <1>9 DEF r, data0

(* One level up. *)
LEMMA ShrinkLevel ==
  ASSUME NEW l \in 1 .. 3, ShrinksRight(l - 1)
  PROVE  ShrinksRight(l)
<1> SUFFICES ASSUME NEW st, NEW dest, NEW cur \in Nat, NEW old \in Nat, NEW new \in Nat,
                    NEW e \in BOOLEAN, ShrinkPre(st, dest, cur, l, old, new, e)
             PROVE  ShrinkPost(st, dest, cur, l, old, new, e,
                               inode_indirect_shrink(st, dest, cur, l, old, new))
  BY DEF ShrinksRight
<1>1. CASE dest = EOF
  <2>1. inode_indirect_shrink(st, dest, cur, l, old, new) = NothingThere(st)
    BY <1>1, ShrinkIs
  <2> QED BY <1>1, <2>1, ShrinkNothing, l \in 0 .. 3
<1>2. CASE dest # EOF
  <2> DEFINE start == StartShrink(st, dest)
             data0 == st.ind[dest]
             F == ShrinkRun(start, l, cur, old, new)
             S == {i \in 0 .. W : ~ShrinkInv(st, data0, cur, l, old, new, e, i, F[i])}
  <2>1. inode_indirect_shrink(st, dest, cur, l, old, new) = ShrunkUnder(F[W], dest)
    <3>1. inode_indirect_shrink(st, dest, cur, l, old, new) =
            IF dest = EOF THEN NothingThere(st)
            ELSE ShrunkUnder(ShrinkLoop(st, dest, cur, l, old, new)[W], dest)
      BY ShrinkIs
    <3>2. ShrinkLoop(st, dest, cur, l, old, new) = F
      BY DEF ShrinkLoop
    <3> QED BY <1>2, <3>1, <3>2
  <2>2. ShrinkInv(st, data0, cur, l, old, new, e, 0, start)
    BY <1>2, ShrinkBegins
  <2>4. Hi(cur, new) < Lo(cur + indirect_count(l), old)
    BY DEF ShrinkPre
  <2> HIDE DEF start
  <2>5. F[0] = start /\ \A i \in 1 .. W : F[i] = ShrinkOne(F[i - 1], i - 1, l, cur, old, new)
    BY ShrinkRunIs
  <2> HIDE DEF F, data0
  <2>6. W \in Nat
    BY Constants
  <2>7. S = {}
    <3> SUFFICES ASSUME S # {} PROVE FALSE
      OBVIOUS
    <3>1. S \in SUBSET Nat
      OBVIOUS
    <3>2. PICK m \in S : \A k \in S : m <= k
      BY <3>1, Least
    <3>3. m \in 1 .. W
      BY <3>2, <2>2, <2>5
    <3>4. m - 1 \in 0 .. W /\ m - 1 \notin S /\ m - 1 \in Children /\ (m - 1) + 1 = m
      BY <3>2, <3>3, <2>6 DEF Children
    <3>5. ShrinkInv(st, data0, cur, l, old, new, e, m - 1, F[m - 1])
      BY <3>4
    <3> DEFINE c == m - 1
               r == F[c]
    <3>6. ShrinkInv(st, data0, cur, l, old, new, e, c, r) /\ c \in Children
      BY <3>4, <3>5
    <3>7. F[m] = ShrinkOne(r, c, l, cur, old, new)
      BY <3>3, <2>5
    <3>8. c + 1 = m
      BY <3>4
    <3> HIDE DEF c, r
    <3>9. ShrinkInv(st, data0, cur, l, old, new, e, c + 1, ShrinkOne(r, c, l, cur, old, new))
      BY <3>6, <2>4, ShrinkStep
    <3> QED BY <3>2, <3>7, <3>8, <3>9
  <2> DEFINE r == F[W]
  <2>8. ShrinkInv(st, data0, cur, l, old, new, e, W, r)
    BY <2>6, <2>7
  <2> HIDE DEF r
  <2>9. ShrinkInv(st, st.ind[dest], cur, l, old, new, e, W, r)
    BY <2>8 DEF data0
  <2>10. ShrinkPost(st, dest, cur, l, old, new, e, ShrunkUnder(r, dest))
    BY <1>2, <2>9, ShrinkEnds
  <2> QED BY <2>1, <2>10 DEF r
<1> QED BY <1>1, <1>2

(* What inode_indirect_shrink promises, at every level. *)
LEMMA Shrinks ==
  ASSUME NEW l \in 0 .. 3
  PROVE  ShrinksRight(l)
<1>0. ShrinksRight(0)
  <2>1. \A st, dest, cur, old, new :
          inode_indirect_shrink(st, dest, cur, 0, old, new) = ShrinkData(st, dest, cur, old, new)
    BY DEF inode_indirect_shrink
  <2> QED BY <2>1, ShrinkZero DEF ShrinksRight
<1>1. ShrinksRight(1)
  BY <1>0, ShrinkLevel, 1 - 1 = 0, 1 \in 1 .. 3
<1>2. ShrinksRight(2)
  BY <1>1, ShrinkLevel, 2 - 1 = 1, 2 \in 1 .. 3
<1>3. ShrinksRight(3)
  BY <1>2, ShrinkLevel, 3 - 1 = 2, 3 \in 1 .. 3
<1>4. l = 0 \/ l = 1 \/ l = 2 \/ l = 3
  OBVIOUS
<1> QED BY <1>0, <1>1, <1>2, <1>3, <1>4

-----------------------------------------------------------------------------
(* Slots, levels and the indexes of data blocks.                           *)
Top == FirstBlockOfLevel(4)
SlotEnd(s) == blockslot2firstblockidx(s) + indirect_count(SlotLevel(s))

(* Where the data blocks of each level begin. *)
LEMMA Levels ==
  /\ FirstBlockOfLevel(0) = 0 /\ FirstBlockOfLevel(1) = D
  /\ \A l \in 0 .. 4 : FirstBlockOfLevel(l) \in Nat
  /\ \A l \in 1 .. 3 : FirstBlockOfLevel(l + 1) = FirstBlockOfLevel(l) + indirect_count(l)
  /\ \A l \in 0 .. 3 : FirstBlockOfLevel(l) < FirstBlockOfLevel(l + 1)
<1> DEFINE a == W * W
           b == W * W * W
<1>0. D \in Nat /\ D > 0 /\ W \in Nat /\ W > 0
  BY Constants
<1>1. a \in Nat /\ b \in Nat
  <2>1. a \in Nat
    BY <1>0
  <2>2. b = a * W
    OBVIOUS
  <2> HIDE DEF a
  <2> QED BY <2>1, <2>2, <1>0
<1>2. a > 0 /\ b > 0
  <2>1. indirect_count(2) = a /\ indirect_count(3) = b
    BY DEF indirect_count
  <2>2. indirect_count(2) > 0 /\ indirect_count(3) > 0
    BY Counts, 2 \in 0 .. 3, 3 \in 0 .. 3
  <2> QED BY <2>1, <2>2
<1>3. /\ FirstBlockOfLevel(0) = 0 /\ FirstBlockOfLevel(1) = D
      /\ FirstBlockOfLevel(2) = D + W /\ FirstBlockOfLevel(3) = (D + W) + a
      /\ FirstBlockOfLevel(4) = ((D + W) + a) + b
  BY DEF FirstBlockOfLevel
<1>4. indirect_count(1) = W /\ indirect_count(2) = a /\ indirect_count(3) = b
  BY DEF indirect_count
<1> HIDE DEF a, b
<1>5. \A l \in 0 .. 4 : FirstBlockOfLevel(l) \in Nat
  <2> TAKE l \in 0 .. 4
  <2>1. l = 0 \/ l = 1 \/ l = 2 \/ l = 3 \/ l = 4
    OBVIOUS
  <2> QED BY <2>1, <1>0, <1>1, <1>3
<1>6. \A l \in 1 .. 3 : FirstBlockOfLevel(l + 1) = FirstBlockOfLevel(l) + indirect_count(l)
  <2> TAKE l \in 1 .. 3
  <2>1. (l = 1 /\ l + 1 = 2) \/ (l = 2 /\ l + 1 = 3) \/ (l = 3 /\ l + 1 = 4)
    OBVIOUS
  <2> QED BY <2>1, <1>3, <1>4
<1>7. \A l \in 0 .. 3 : FirstBlockOfLevel(l) < FirstBlockOfLevel(l + 1)
  <2> TAKE l \in 0 .. 3
  <2>1. (l = 0 /\ l + 1 = 1) \/ (l = 1 /\ l + 1 = 2) \/ (l = 2 /\ l + 1 = 3) \/ (l = 3 /\ l + 1 = 4)
    OBVIOUS
  <2> QED BY <2>1, <1>0, <1>1, <1>2, <1>3
<1> QED BY <1>3, <1>5, <1>6, <1>7

(* The range of data blocks of a slot, which ends where the next slot's    *)
(* begins.                                                                 *)
LEMMA SlotIs ==
  ASSUME NEW s \in Slots
  PROVE  /\ s \in Nat /\ SlotLevel(s) \in 0 .. 3 /\ Top \in Nat
         /\ blockslot2firstblockidx(s) \in Nat /\ SlotEnd(s) \in Nat
         /\ indirect_count(SlotLevel(s)) \in Nat
         /\ blockslot2firstblockidx(s) < SlotEnd(s)
         /\ s = D + 2 => SlotEnd(s) = Top
         /\ s # D + 2 => s + 1 \in Slots /\ blockslot2firstblockidx(s + 1) = SlotEnd(s)
<1>0. D \in Nat /\ D > 0 /\ s \in Nat /\ s <= D + 2 /\ Top \in Nat
  BY Constants, Levels, 4 \in 0 .. 4 DEF Slots, Top
<1>1. SlotLevel(s) \in 0 .. 3
  BY <1>0 DEF SlotLevel
<1>2. indirect_count(SlotLevel(s)) \in Nat /\ indirect_count(SlotLevel(s)) > 0
  BY <1>1, Counts
<1>3. CASE s < D
  <2>1. /\ blockslot2firstblockidx(s) = s /\ SlotLevel(s) = 0 /\ indirect_count(0) = 1
        /\ s # D + 2 /\ s + 1 \in Slots
    BY <1>0, <1>3, Counts DEF blockslot2firstblockidx, SlotLevel, Slots
  <2>2. SlotEnd(s) = s + 1
    BY <2>1 DEF SlotEnd
  <2>3. blockslot2firstblockidx(s + 1) = s + 1
    <3>1. CASE s + 1 < D
      BY <3>1 DEF blockslot2firstblockidx
    <3>2. CASE s + 1 = D
      <4>1. blockslot2firstblockidx(D) = FirstBlockOfLevel(D - D + 1) /\ D - D + 1 = 1
        BY <1>0 DEF blockslot2firstblockidx
      <4> QED BY <3>2, <4>1, Levels
    <3> QED BY <3>1, <3>2, <1>0, <1>3
  <2> QED BY <1>0, <1>1, <1>2, <2>1, <2>2, <2>3
<1>4. CASE s >= D
  <2> DEFINE l == SlotLevel(s)
  <2>1. l = s - D + 1 /\ l \in 1 .. 3 /\ l + 1 \in 0 .. 4 /\ l \in 0 .. 4 /\ blockslot2firstblockidx(s) = FirstBlockOfLevel(l)
    BY <1>0, <1>4 DEF SlotLevel, blockslot2firstblockidx
  <2>2. SlotEnd(s) = FirstBlockOfLevel(l + 1)
    BY <2>1, Levels DEF SlotEnd
  <2>3. FirstBlockOfLevel(l) \in Nat /\ FirstBlockOfLevel(l + 1) \in Nat
    BY <2>1, Levels
  <2>4. FirstBlockOfLevel(l) < FirstBlockOfLevel(l + 1)
    BY <2>1, Levels, l \in 0 .. 3
  <2>5. s = D + 2 => SlotEnd(s) = Top
    <3>1. s = D + 2 => l + 1 = 4
      BY <2>1, <1>0
    <3> QED BY <2>2, <3>1 DEF Top
  <2>6. s # D + 2 => s + 1 \in Slots /\ blockslot2firstblockidx(s + 1) = SlotEnd(s)
    <3> SUFFICES ASSUME s # D + 2
                 PROVE  s + 1 \in Slots /\ blockslot2firstblockidx(s + 1) = SlotEnd(s)
      OBVIOUS
    <3>1. s + 1 \in Slots /\ ~(s + 1 < D)
      BY <1>0, <1>4 DEF Slots
    <3>2. (s + 1) - D + 1 = l + 1
      BY <1>0, <2>1
    <3>3. blockslot2firstblockidx(s + 1) = FirstBlockOfLevel(l + 1)
      BY <3>1, <3>2 DEF blockslot2firstblockidx
    <3> QED BY <3>1, <3>3, <2>2
  <2> HIDE DEF l
  <2> QED BY <1>0, <1>1, <1>2, <2>1, <2>2, <2>3, <2>4, <2>5, <2>6
<1> QED BY <1>0, <1>3, <1>4

(* Slots do not overlap. *)
LEMMA SlotGap ==
  ASSUME NEW t \in Slots, NEW u \in Slots, t < u
  PROVE  SlotEnd(t) <= blockslot2firstblockidx(u)
<1> DEFINE S == {m \in Slots : t < m /\ ~(SlotEnd(t) <= blockslot2firstblockidx(m))}
<1>1. S = {}
  <2> SUFFICES ASSUME S # {} PROVE FALSE
    OBVIOUS
  <2>1. S \in SUBSET Nat
    BY Constants DEF Slots
  <2>2. PICK m \in S : \A k \in S : m <= k
    BY <2>1, Least
  <2>3. /\ m \in Slots /\ t < m /\ ~(SlotEnd(t) <= blockslot2firstblockidx(m))
        /\ m \in Nat /\ t \in Nat /\ m <= D + 2 /\ D \in Nat
    BY <2>2, Constants DEF Slots
  <2> DEFINE p == m - 1
  <2>4. p \in Slots /\ p # D + 2 /\ t <= p /\ p < m /\ p \in Nat /\ p + 1 = m
    BY <2>3 DEF Slots
  <2>5. p \notin S
    BY <2>2, <2>3, <2>4
  <2> HIDE DEF p
  <2>6. SlotEnd(p) = blockslot2firstblockidx(m)
    BY <2>4, SlotIs
  <2>7. SlotEnd(t) <= SlotEnd(p)
    <3>1. CASE t = p
      <4>1. SlotEnd(t) \in Nat
        BY SlotIs
      <4> QED BY <3>1, <4>1
    <3>2. CASE t # p
      <4>1. SlotEnd(t) <= blockslot2firstblockidx(p)
        BY <3>2, <2>3, <2>4, <2>5
      <4>2. SlotEnd(t) \in Nat /\ SlotEnd(p) \in Nat /\ blockslot2firstblockidx(p) \in Nat
            /\ blockslot2firstblockidx(p) < SlotEnd(p)
        BY <2>4, SlotIs
      <4> QED BY <4>1, <4>2
    <3> QED BY <3>1, <3>2
  <2> QED BY <2>3, <2>6, <2>7
<1>2. u \notin S
  BY <1>1
<1> QED BY <1>2

(* The slot that holds a data block. *)
LEMMA SlotOf ==
  ASSUME NEW k \in Nat, k < Top
  PROVE  LET s == blockidx2blockslot(k)
         IN  /\ s \in Slots /\ indirection_level(k) = SlotLevel(s)
             /\ blockslot2firstblockidx(s) <= k /\ k < SlotEnd(s)
<1> DEFINE l == indirection_level(k)
           s == blockidx2blockslot(k)
<1>0. D \in Nat /\ D > 0
  BY Constants
<1>1. \E m \in 0 .. 3 : FirstBlockOfLevel(m) <= k /\ k < FirstBlockOfLevel(m + 1)
  <2>1. /\ FirstBlockOfLevel(0) = 0 /\ FirstBlockOfLevel(1) \in Nat /\ FirstBlockOfLevel(2) \in Nat
        /\ FirstBlockOfLevel(3) \in Nat /\ FirstBlockOfLevel(4) \in Nat
    BY Levels, 1 \in 0 .. 4, 2 \in 0 .. 4, 3 \in 0 .. 4, 4 \in 0 .. 4
  <2>2. k < FirstBlockOfLevel(4)
    BY DEF Top
  <2>3. /\ 0 + 1 = 1 /\ 1 + 1 = 2 /\ 2 + 1 = 3 /\ 3 + 1 = 4
        /\ 0 \in 0 .. 3 /\ 1 \in 0 .. 3 /\ 2 \in 0 .. 3 /\ 3 \in 0 .. 3
    OBVIOUS
  <2>4. CASE k < FirstBlockOfLevel(1)
    BY <2>1, <2>3, <2>4
  <2>5. CASE FirstBlockOfLevel(1) <= k /\ k < FirstBlockOfLevel(2)
    BY <2>3, <2>5
  <2>6. CASE FirstBlockOfLevel(2) <= k /\ k < FirstBlockOfLevel(3)
    BY <2>3, <2>6
  <2>7. CASE FirstBlockOfLevel(3) <= k
    BY <2>2, <2>3, <2>7
  <2> QED BY <2>1, <2>4, <2>5, <2>6, <2>7
<1>2. l \in 0 .. 3 /\ FirstBlockOfLevel(l) <= k /\ k < FirstBlockOfLevel(l + 1)
  BY <1>1 DEF indirection_level
<1>3. s = IF l = 0 THEN k ELSE D + l - 1
  BY DEF blockidx2blockslot
<1> HIDE DEF l, s
<1>4. CASE l = 0
  <2>1. s = k /\ k < D
    <3>1. l + 1 = 1
      BY <1>4
    <3> QED BY <1>2, <1>3, <1>4, <3>1, Levels
  <2>2. s \in Slots /\ SlotLevel(s) = 0 /\ blockslot2firstblockidx(s) = k
    BY <2>1, <1>0 DEF Slots, SlotLevel, blockslot2firstblockidx
  <2>3. SlotEnd(s) = k + 1
    BY <2>2, Counts DEF SlotEnd
  <2> QED BY <1>4, <2>2, <2>3 DEF l, s
<1>5. CASE l # 0
  <2>1. l \in 1 .. 3
    BY <1>2, <1>5
  <2>2. s \in Slots /\ ~(s < D) /\ s - D + 1 = l
    BY <1>0, <1>3, <1>5, <2>1 DEF Slots
  <2>3. SlotLevel(s) = l /\ blockslot2firstblockidx(s) = FirstBlockOfLevel(l)
    BY <2>2 DEF SlotLevel, blockslot2firstblockidx
  <2>4. SlotEnd(s) = FirstBlockOfLevel(l + 1)
    BY <2>1, <2>3, Levels DEF SlotEnd
  <2> QED BY <1>2, <2>2, <2>3, <2>4 DEF l, s
<1> QED BY <1>4, <1>5

-----------------------------------------------------------------------------
(* The slots of an inode: as Stock and Kept are for an indirect block.     *)
SL == [s \in Slots |-> SlotLevel(s)]
SlotStock(st, R) == Wood(Slots, R, SL, st.ind) \cup st.free

SlotsKept(e, st0, R0, st, R) ==
  /\ IsStore(st) /\ R \in [Slots -> Node]
  /\ Forest(Slots, R, SL, st.ind, st.free)
  /\ SlotStock(st, R) \subseteq SlotStock(st0, R0)
  /\ e /\ ~st.hyper => SlotStock(st, R) = SlotStock(st0, R0)
  /\ \A x \in Blocks : x \notin SlotStock(st0, R0) => st.ind[x] = st0.ind[x]
  /\ st0.hyper => st.hyper

(* The levels of the slots. *)
LEMMA SLIs == SL \in [Slots -> 0 .. 3] /\ \A s \in Slots : SL[s] = SlotLevel(s)
BY SlotIs DEF SL

(* One slot moves, the other slots stay. *)
LEMMA SlotsKeptStep ==
  ASSUME NEW e \in BOOLEAN, NEW st0, NEW R0, NEW st, NEW R, SlotsKept(e, st0, R0, st, R),
         NEW s \in Slots, NEW more, NEW b, Moved(e, st, R[s], more, b, SlotLevel(s))
  PROVE  /\ SlotsKept(e, st0, R0, more, [R EXCEPT ![s] = b])
         /\ \A t \in Slots : t # s => Same(st.ind, more.ind, R[t], SlotLevel(t))
<1> DEFINE Q == [R EXCEPT ![s] = b]
           L == SL
<1>1. L \in [Slots -> 0 .. 3] /\ \A t \in Slots : L[t] = SlotLevel(t)
  BY SLIs
<1>2. /\ IsStore(st) /\ R \in [Slots -> Node]
      /\ Forest(Slots, R, L, st.ind, st.free)
  BY DEF SlotsKept
<1>3. Moved(e, st, R[s], more, b, L[s])
  BY <1>1
<1>M. IsStore(more) /\ st.hyper => more.hyper
  BY DEF Moved
<1>N. IsStore(more)
  BY DEF Moved
<1> HIDE DEF L
<1>4. /\ Q \in [Slots -> Node]
      /\ \A t \in Slots : t # s => Same(st.ind, more.ind, R[t], L[t])
      /\ Forest(Slots, Q, L, more.ind, more.free)
      /\ Wood(Slots, Q, L, more.ind) \cup more.free
           \subseteq Wood(Slots, R, L, st.ind) \cup st.free
      /\ e /\ ~more.hyper => Wood(Slots, Q, L, more.ind) \cup more.free
                          = Wood(Slots, R, L, st.ind) \cup st.free
      /\ \A x \in Blocks :
           x \notin Wood(Slots, R, L, st.ind) \cup st.free => more.ind[x] = st.ind[x]
  BY <1>1, <1>2, <1>3, ForestStep
<1> HIDE DEF Q
<1>5. /\ SlotStock(more, Q) = Wood(Slots, Q, L, more.ind) \cup more.free
      /\ SlotStock(st, R) = Wood(Slots, R, L, st.ind) \cup st.free
  BY DEF SlotStock, L
<1>6. Forest(Slots, Q, SL, more.ind, more.free)
  BY <1>4 DEF L
<1>7. SlotsKept(e, st0, R0, more, Q)
  BY <1>M, <1>N, <1>4, <1>5, <1>6 DEF SlotsKept
<1>8. \A t \in Slots : t # s => Same(st.ind, more.ind, R[t], SlotLevel(t))
  BY <1>1, <1>4
<1> QED BY <1>7, <1>8 DEF Q

(* A changed flag is all that WithSlot does to the store.                  *)
LEMMA SlotsKeptFlag ==
  ASSUME NEW e \in BOOLEAN, NEW st0, NEW R0, NEW st, NEW R, SlotsKept(e, st0, R0, st, R),
         NEW more, IsStore(more), more.free = st.free, more.ind = st.ind, more.hyper = st.hyper
  PROVE  SlotsKept(e, st0, R0, more, R)
<1>1. SlotStock(more, R) = SlotStock(st, R)
  BY DEF SlotStock
<1> QED BY <1>1 DEF SlotsKept

(* The tree of a whole file: n data blocks, in their slots. *)
FitsAll(e, ptrs, R, n) ==
  \A s \in Slots : Fits(e, ptrs, R[s], SlotLevel(s), blockslot2firstblockidx(s), n)

(* When the slot of data blocks from n on has been filled, or emptied, the *)
(* others are as right for the new number as for the old one.              *)
LEMMA SlotsFit ==
  ASSUME NEW e \in BOOLEAN, NEW f \in BOOLEAN, f => e,
         NEW st, NEW more, NEW R \in [Slots -> Node], NEW s \in Slots, NEW b,
         NEW n \in Nat, NEW m \in Nat, FitsAll(e, st.ind, R, n),
         \A t \in Slots : t # s => Same(st.ind, more.ind, R[t], SlotLevel(t)),
         blockslot2firstblockidx(s) <= n, n <= SlotEnd(s),
         blockslot2firstblockidx(s) <= m, m <= SlotEnd(s),
         Fits(f, more.ind, b, SlotLevel(s), blockslot2firstblockidx(s), m)
  PROVE  FitsAll(f, more.ind, [R EXCEPT ![s] = b], m)
<1> DEFINE Q == [R EXCEPT ![s] = b]
<1> SUFFICES ASSUME NEW t \in Slots
             PROVE  Fits(f, more.ind, Q[t], SlotLevel(t), blockslot2firstblockidx(t), m)
  BY DEF FitsAll
<1>1. CASE t = s
  BY <1>1
<1>2. CASE t # s
  <2> DEFINE k == blockslot2firstblockidx(t)
             l == SlotLevel(t)
  <2>1. Q[t] = R[t] /\ Same(st.ind, more.ind, R[t], l)
    BY <1>2
  <2>2. Fits(e, st.ind, R[t], l, k, n)
    BY DEF FitsAll
  <2>3. k \in Int /\ l \in 0 .. 3 /\ SlotEnd(t) = k + indirect_count(l) /\ SlotEnd(t) \in Nat
    BY SlotIs DEF SlotEnd
  <2>4. \/ n <= k /\ m <= k
        \/ n >= k + indirect_count(l) /\ m >= k + indirect_count(l)
    <3>0. s \in Nat /\ t \in Nat /\ SlotEnd(s) \in Nat /\ blockslot2firstblockidx(s) \in Nat
      BY SlotIs
    <3>1. CASE t < s
      <4>1. SlotEnd(t) <= blockslot2firstblockidx(s)
        BY <3>1, SlotGap
      <4> HIDE DEF k, l
      <4> QED BY <4>1, <3>0, <2>3
    <3>2. CASE s < t
      <4>1. SlotEnd(s) <= k
        BY <3>2, SlotGap
      <4> HIDE DEF k, l
      <4> QED BY <4>1, <3>0, <2>3
    <3> QED BY <3>0, <3>1, <3>2, <1>2
  <2> HIDE DEF k, l, Q
  <2>5. Fits(f, st.ind, R[t], l, k, n)
    BY <2>2, FitsWeaker
  <2>6. n \in Int /\ m \in Int
    OBVIOUS
  <2>7. Fits(f, st.ind, R[t], l, k, m)
    BY <2>3, <2>4, <2>5, <2>6, FitsSame
  <2>8. Fits(f, more.ind, R[t], l, k, m)
    BY <2>1, <2>3, <2>6, <2>7, SameIs
  <2> QED BY <2>1, <2>8 DEF k, l
<1> QED BY <1>1, <1>2

(* Too few blocks for the next data block. *)
Short(F, k) == IsFiniteSet(F) /\ Cardinality(F) < BlocksForNext(k)

(* Too few blocks for the tree of a slot are too few for the next data     *)
(* block of the file.                                                      *)
LEMMA FewIsShort ==
  ASSUME NEW k \in Nat, k < Top, NEW F,
         LET s == blockidx2blockslot(k)
         IN  Few(F, SlotLevel(s), k - blockslot2firstblockidx(s))
  PROVE  Short(F, k)
<1> DEFINE s == blockidx2blockslot(k)
           l == indirection_level(k)
           below == k - FirstBlockOfLevel(l)
<1>1. /\ s \in Slots /\ l = SlotLevel(s) /\ l \in 0 .. 3
      /\ blockslot2firstblockidx(s) <= k /\ k < SlotEnd(s)
  BY SlotOf, SlotIs
<1>2. Few(F, SlotLevel(s), k - blockslot2firstblockidx(s))
  OBVIOUS
<1>3. BlocksForNext(k) = 1 + Cardinality(Full(l, below))
  BY DEF BlocksForNext, Full
<1> HIDE DEF s, l
<1>4. CASE s < D
  <2>1. l = 0
    BY <1>1, <1>4 DEF SlotLevel
  <2>2. \A x : Full(0, x) = {}
    BY DEF Full
  <2> QED BY <1>1, <1>2, <1>3, <2>1, <2>2 DEF Few, Short
<1>5. CASE ~(s < D)
  <2>1. blockslot2firstblockidx(s) = FirstBlockOfLevel(s - D + 1) /\ l = s - D + 1
    BY <1>1, <1>5 DEF blockslot2firstblockidx, SlotLevel
  <2>2. k - blockslot2firstblockidx(s) = below
    BY <2>1
  <2> HIDE DEF below
  <2> QED BY <1>1, <1>2, <1>3, <2>2 DEF Few, Short
<1> QED BY <1>4, <1>5

-----------------------------------------------------------------------------
(* The rounds of the loop that grows, n of them done, on the way from old  *)
(* to new data blocks.                                                     *)
GrowsInv(st0, R0, old, new, e, n, r) ==
  LET s == blockidx2blockslot(r.count)
      whole == e /\ ~r.st.hyper
  IN  /\ SlotsKept(e, st0, R0, r.st, r.blocks)
      /\ ~r.st.bad
      /\ r.ok \in BOOLEAN
      /\ r.count \in Nat /\ old <= r.count /\ r.count <= new
      /\ r.last \in Slots \cup {-1}
      /\ FitsAll(whole, r.st.ind, r.blocks, r.count)
      /\ r.ok /\ r.count < new =>
           n <= s /\ r.last \in {-1, s - 1} /\ r.count = Hi(blockslot2firstblockidx(s), old)
      /\ ~r.ok => r.count < new
      /\ ~r.ok /\ whole => Short(r.st.free, r.count)

(* One round of the loop over the slots that grows, which keeps its        *)
(* invariant: no assertion on the order of the slots fails.                *)
LEMMA GrowsStep ==
  ASSUME NEW st0, NEW R0, NEW old \in Nat, NEW new \in Nat, new <= Top,
         NEW e \in BOOLEAN, NEW n \in Nat, NEW r, GrowsInv(st0, R0, old, new, e, n, r)
  PROVE  GrowsInv(st0, R0, old, new, e, n + 1, GrowRound(r, old, new))
<1> DEFINE k == r.count
           s == blockidx2blockslot(k)
           whole == e /\ ~r.st.hyper
           A == blockslot2firstblockidx(s)
           B == SlotEnd(s)
           l == SlotLevel(s)
           q == GrowRound(r, old, new)
<1> SUFFICES GrowsInv(st0, R0, old, new, e, n + 1, q)
  OBVIOUS
<1>1. /\ SlotsKept(e, st0, R0, r.st, r.blocks)
      /\ ~r.st.bad
      /\ r.ok \in BOOLEAN
      /\ k \in Nat /\ old <= k /\ k <= new
      /\ r.last \in Slots \cup {-1}
      /\ FitsAll(whole, r.st.ind, r.blocks, k)
      /\ r.ok /\ k < new => n <= s /\ r.last \in {-1, s - 1} /\ k = Hi(A, old)
      /\ ~r.ok => k < new
      /\ ~r.ok /\ whole => Short(r.st.free, k)
  BY DEF GrowsInv
<1>2. CASE ~(k < new /\ r.ok)
  <2>1. q = r
    BY <1>2 DEF GrowRound
  <2> HIDE DEF q
  <2> QED BY <1>1, <1>2, <2>1 DEF GrowsInv
<1>3. CASE k < new /\ r.ok
  <2> DEFINE g == inode_indirect_grow(r.st, r.blocks[s], A, l, old, new)
             d == [r.blocks EXCEPT ![s] = g.dest]
             off == r.last \notin {-1, s - 1}
             u == [g.st EXCEPT !.bad = @ \/ off]
             next == k + g.allocated
             more == e /\ ~g.st.hyper
  <2>1. k \in Nat /\ k < Top /\ Top \in Nat
    <3>1. Top \in Nat
      BY Levels, 4 \in 0 .. 4 DEF Top
    <3> QED BY <3>1, <1>1, <1>3
  <2>2. s \in Slots /\ indirection_level(k) = l /\ A <= k /\ k < B
    BY <2>1, SlotOf
  <2>3. /\ s \in Nat /\ l \in 0 .. 3 /\ A \in Nat /\ B \in Nat
        /\ indirect_count(l) \in Nat /\ B = A + indirect_count(l)
        /\ s = D + 2 => B = Top
        /\ s # D + 2 => s + 1 \in Slots /\ blockslot2firstblockidx(s + 1) = B
    BY <2>2, SlotIs DEF SlotEnd
  <2>4. q = GrownSlot(r, s, g)
    BY <1>1, <1>3, <2>2 DEF GrowRound
  <2>5. q.st = u /\ q.blocks = d /\ q.count = next /\ q.ok = g.ok /\ q.last = s
    BY <2>4 DEF GrownSlot, WithSlot
  <2>6. /\ IsStore(r.st) /\ r.blocks \in [Slots -> Node]
        /\ Forest(Slots, r.blocks, SL, r.st.ind, r.st.free)
    BY <1>1 DEF SlotsKept
  <2>7. Proper(r.st.ind, r.blocks[s], l) /\ Tree(r.st.ind, r.blocks[s], l) \cap r.st.free = {}
    BY <2>2, <2>6, SLIs DEF Forest
  <2>8. k = Hi(A, old) /\ n <= s /\ ~off
    BY <1>1, <1>3
  <2>9. whole \in BOOLEAN
    OBVIOUS
  <2>10. GrowPre(r.st, r.blocks[s], A, l, old, new, whole)
    <3>1. Fits(whole, r.st.ind, r.blocks[s], l, A, k)
      BY <1>1, <2>2 DEF FitsAll
    <3>2. Hi(A, old) < Lo(A + indirect_count(l), new)
      <4> HIDE DEF A, B, l, k, s
      <4> QED BY <1>3, <2>2, <2>3, <2>8 DEF Lo
    <3> QED BY <2>2, <2>6, <2>7, <2>8, <3>1, <3>2 DEF GrowPre
  <2>11. GrowPost(r.st, r.blocks[s], A, l, old, new, whole, g)
    <3>1. GrowsRight(l)
      BY <2>3, Grows
    <3> QED BY <3>1, <2>3, <2>9, <2>10 DEF GrowsRight
  <2> HIDE DEF q, g, off
  <2>12. /\ Moved(whole, r.st, r.blocks[s], g.st, g.dest, l)
         /\ g.allocated \in Nat /\ g.ok \in BOOLEAN
         /\ g.ok => next = Lo(B, new)
         /\ ~g.ok => next < Lo(B, new)
         /\ Fits(whole /\ ~g.st.hyper, g.st.ind, g.dest, l, A, next)
         /\ g.st.bad = r.st.bad
         /\ ~g.ok /\ (whole /\ ~g.st.hyper) => Few(g.st.free, l, next - A)
    BY <2>11, <2>8, <2>3 DEF GrowPost
  <2>13. (whole /\ ~g.st.hyper) = more /\ more \in BOOLEAN /\ (more => whole)
    <3>1. r.st.hyper => g.st.hyper
      BY <2>12 DEF Moved
    <3> QED BY <3>1
  <2>14. Moved(e, r.st, r.blocks[s], g.st, g.dest, l) /\ IsStore(g.st)
    BY <2>12 DEF Moved
  <2>15. /\ SlotsKept(e, st0, R0, g.st, d)
         /\ \A t \in Slots : t # s => Same(r.st.ind, g.st.ind, r.blocks[t], SlotLevel(t))
    <3>1. s \in Slots /\ SlotsKept(e, st0, R0, r.st, r.blocks)
      BY <1>1, <2>2
    <3>2. Moved(e, r.st, r.blocks[s], g.st, g.dest, SlotLevel(s))
      BY <2>14
    <3> HIDE DEF s
    <3> QED BY <3>1, <3>2, SlotsKeptStep
  <2>16. off \in BOOLEAN /\ ~off
    BY <2>8 DEF off
  <2>17. /\ IsStore(u) /\ u.free = g.st.free /\ u.ind = g.st.ind
         /\ u.bad = (g.st.bad \/ off) /\ u.hyper = g.st.hyper
    BY <2>14, <2>16, FlaggedIs
  <2> HIDE DEF u
  <2>18. SlotsKept(e, st0, R0, u, d)
    BY <2>15, <2>17, SlotsKeptFlag
  <2>19. next \in Nat /\ k <= next
    <3> HIDE DEF k
    <3> QED BY <2>12, <1>1
  <2>20. next <= B /\ next <= new /\ (~g.ok => next < new /\ next < B)
    <3> HIDE DEF next, A, B
    <3> QED BY <2>3, <2>12, <2>19 DEF Lo
  <2>21. FitsAll(more, g.st.ind, d, next)
    <3>1. Fits(more, g.st.ind, g.dest, l, A, next)
      BY <2>12, <2>13
    <3>2. FitsAll(whole, r.st.ind, r.blocks, k)
      BY <1>1
    <3>3. A <= next /\ k <= B
      <4> HIDE DEF A, B, k, next
      <4> QED BY <2>2, <2>3, <2>19, <1>1
    <3>4. ASSUME NEW w \in BOOLEAN, NEW m \in BOOLEAN, m => w,
                 FitsAll(w, r.st.ind, r.blocks, k), Fits(m, g.st.ind, g.dest, l, A, next)
          PROVE  FitsAll(m, g.st.ind, d, next)
      BY <3>3, <3>4, <2>2, <2>6, <2>1, <2>15, <2>19, <2>20, SlotsFit
    <3> HIDE DEF more, whole, next, d, A, l, k
    <3> QED BY <3>1, <3>2, <3>4, <2>9, <2>13
  <2>22. g.ok /\ next < new =>
           LET t == blockidx2blockslot(next)
           IN  n + 1 <= t /\ s \in {-1, t - 1} /\ next = Hi(blockslot2firstblockidx(t), old)
    <3> SUFFICES ASSUME g.ok, next < new
                 PROVE  LET t == blockidx2blockslot(next)
                        IN  n + 1 <= t /\ s \in {-1, t - 1} /\ next = Hi(blockslot2firstblockidx(t), old)
      OBVIOUS
    <3> DEFINE t == blockidx2blockslot(next)
    <3>1. next = B
      <4> HIDE DEF next, B
      <4> QED BY <2>12, <2>3, <2>19 DEF Lo
    <3>2. s # D + 2
      <4> HIDE DEF next, B, s
      <4> QED BY <2>1, <2>3, <3>1
    <3>3. s + 1 \in Slots /\ blockslot2firstblockidx(s + 1) = B
      BY <2>3, <3>2
    <3>4. next < Top
      <4> HIDE DEF next
      <4> QED BY <2>1, <2>19
    <3>5. t \in Slots /\ blockslot2firstblockidx(t) <= next /\ next < SlotEnd(t)
      BY <2>19, <3>4, SlotOf
    <3>6. t = s + 1
      <4> HIDE DEF t, s, next, B
      <4>0. /\ t \in Nat /\ s + 1 \in Nat /\ SlotEnd(t) \in Nat /\ SlotEnd(s + 1) \in Nat
            /\ blockslot2firstblockidx(t) \in Nat
            /\ blockslot2firstblockidx(s + 1) < SlotEnd(s + 1)
        BY <3>3, <3>5, SlotIs
      <4>1. CASE t < s + 1
        <5>1. SlotEnd(t) <= blockslot2firstblockidx(s + 1)
          BY <3>3, <3>5, <4>1, SlotGap
        <5> QED BY <5>1, <4>0, <3>1, <3>3, <3>5, <2>19
      <4>2. CASE s + 1 < t
        <5>1. SlotEnd(s + 1) <= blockslot2firstblockidx(t)
          BY <3>3, <3>5, <4>2, SlotGap
        <5> QED BY <5>1, <4>0, <3>1, <3>3, <3>5, <2>3
      <4> QED BY <4>0, <4>1, <4>2
    <3>7. next = Hi(blockslot2firstblockidx(t), old)
      <4>1. blockslot2firstblockidx(t) = next
        BY <3>1, <3>3, <3>6
      <4>2. old <= next
        <5> HIDE DEF next, k
        <5> QED BY <1>1, <2>19
      <4> HIDE DEF next, t
      <4> QED BY <4>1, <4>2, <2>19 DEF Hi
    <3> HIDE DEF t, s
    <3>8. n + 1 <= t /\ s = t - 1
      BY <3>6, <2>3, <2>8
    <3> QED BY <3>7, <3>8 DEF t
  <2>23. ~g.ok /\ more => Short(g.st.free, next)
    <3> SUFFICES ASSUME ~g.ok, more PROVE Short(g.st.free, next)
      OBVIOUS
    <3> DEFINE t == blockidx2blockslot(next)
    <3>1. Few(g.st.free, l, next - A)
      BY <2>12, <2>13
    <3>2. next < B /\ A <= next /\ next < Top
      <4> HIDE DEF next, A, B, k
      <4> QED BY <2>1, <2>2, <2>3, <2>19, <2>20, <1>1
    <3>3. t \in Slots /\ blockslot2firstblockidx(t) <= next /\ next < SlotEnd(t)
      BY <2>19, <3>2, SlotOf
    <3>4. t = s
      <4> HIDE DEF t, s, next
      <4>0. /\ t \in Nat /\ s \in Nat /\ SlotEnd(t) \in Nat /\ SlotEnd(s) \in Nat
            /\ blockslot2firstblockidx(t) \in Nat /\ blockslot2firstblockidx(s) \in Nat
        BY <2>2, <3>3, SlotIs
      <4>1. CASE t < s
        <5>1. SlotEnd(t) <= A
          BY <2>2, <3>3, <4>1, SlotGap
        <5> QED BY <5>1, <4>0, <3>2, <3>3, <2>19
      <4>2. CASE s < t
        <5>1. B <= blockslot2firstblockidx(t)
          BY <2>2, <3>3, <4>2, SlotGap
        <5> QED BY <5>1, <4>0, <3>2, <3>3, <2>19
      <4> QED BY <4>0, <4>1, <4>2
    <3>5. Few(g.st.free, SlotLevel(t), next - blockslot2firstblockidx(t))
      BY <3>1, <3>4
    <3> HIDE DEF next
    <3> QED BY <3>2, <3>5, <2>19, FewIsShort
  <2>24. GrowsInv(st0, R0, old, new, e, n + 1, q) <=>
           /\ SlotsKept(e, st0, R0, q.st, q.blocks)
           /\ ~q.st.bad
           /\ q.ok \in BOOLEAN
           /\ q.count \in Nat /\ old <= q.count /\ q.count <= new
           /\ q.last \in Slots \cup {-1}
           /\ FitsAll(e /\ ~q.st.hyper, q.st.ind, q.blocks, q.count)
           /\ q.ok /\ q.count < new =>
                LET t == blockidx2blockslot(q.count)
                IN  n + 1 <= t /\ q.last \in {-1, t - 1} /\ q.count = Hi(blockslot2firstblockidx(t), old)
           /\ ~q.ok => q.count < new
           /\ ~q.ok /\ (e /\ ~q.st.hyper) => Short(q.st.free, q.count)
    BY DEF GrowsInv
  <2>25. old <= next
    <3> HIDE DEF next, k
    <3> QED BY <1>1, <2>19
  <2>26. (e /\ ~q.st.hyper) = more
    BY <2>5, <2>17
  <2>27. ~q.st.bad
    BY <2>5, <2>12, <2>16, <2>17, <1>1
  <2>28. FitsAll(e /\ ~q.st.hyper, q.st.ind, q.blocks, q.count)
    BY <2>5, <2>17, <2>21
  <2>29. SlotsKept(e, st0, R0, q.st, q.blocks) /\ q.ok \in BOOLEAN /\ q.last \in Slots \cup {-1}
    BY <2>2, <2>5, <2>12, <2>18
  <2>30. q.ok /\ q.count < new =>
                LET t == blockidx2blockslot(q.count)
                IN  n + 1 <= t /\ q.last \in {-1, t - 1} /\ q.count = Hi(blockslot2firstblockidx(t), old)
    BY <2>5, <2>22
  <2>31. /\ ~q.ok => q.count < new
         /\ ~q.ok /\ (e /\ ~q.st.hyper) => Short(q.st.free, q.count)
    BY <2>5, <2>17, <2>20, <2>23
  <2>32. q.count \in Nat /\ old <= q.count /\ q.count <= new
    BY <2>5, <2>19, <2>20, <2>25
  <2> QED BY <2>24, <2>27, <2>28, <2>29, <2>30, <2>31, <2>32
<1> QED BY <1>2, <1>3

-----------------------------------------------------------------------------
(* The rounds of the loop that shrinks.  On a damaged tree an assertion    *)
(* may fail.                                                               *)
ShrinksInv(st0, R0, old, new, e, n, r) ==
  LET s == blockidx2blockslot(r.count - 1)
  IN  /\ SlotsKept(Whole, st0, R0, r.st, r.blocks)
      /\ r.st.hyper = st0.hyper
      /\ e => ~r.st.bad
      /\ ~r.st.bad =>
           /\ r.count \in Nat /\ new <= r.count /\ r.count <= old
           /\ r.last \in Slots \cup {-1}
           /\ FitsAll(e, r.st.ind, r.blocks, r.count)
           /\ new < r.count =>
                s <= (D + 2) - n /\ r.last \in {-1, s + 1} /\ r.count = Lo(SlotEnd(s), old)

(* One round of the loop over the slots that shrinks, which keeps its      *)
(* invariant.                                                              *)
LEMMA ShrinksStep ==
  ASSUME NEW st0, NEW R0, NEW old \in Nat, NEW new \in Nat, old <= Top,
         NEW e \in BOOLEAN, NEW n \in Nat, NEW r, ShrinksInv(st0, R0, old, new, e, n, r)
  PROVE  ShrinksInv(st0, R0, old, new, e, n + 1, ShrinkRound(r, old, new))
<1> DEFINE k == r.count
           s == blockidx2blockslot(k - 1)
           A == blockslot2firstblockidx(s)
           B == SlotEnd(s)
           l == SlotLevel(s)
           q == ShrinkRound(r, old, new)
<1> SUFFICES ShrinksInv(st0, R0, old, new, e, n + 1, q)
  OBVIOUS
<1>1. /\ SlotsKept(Whole, st0, R0, r.st, r.blocks)
      /\ r.st.hyper = st0.hyper
      /\ e => ~r.st.bad
      /\ ~r.st.bad =>
           /\ k \in Nat /\ new <= k /\ k <= old
           /\ r.last \in Slots \cup {-1}
           /\ FitsAll(e, r.st.ind, r.blocks, k)
           /\ new < k => s <= (D + 2) - n /\ r.last \in {-1, s + 1} /\ k = Lo(B, old)
  BY DEF ShrinksInv
<1>2. CASE ~(k > new /\ ~r.st.bad)
  <2>1. q = r
    BY <1>2 DEF ShrinkRound
  <2>2. ~r.st.bad => ~(new < k)
    <3> HIDE DEF k
    <3> QED BY <1>1, <1>2
  <2> HIDE DEF q
  <2> QED BY <1>1, <2>1, <2>2 DEF ShrinksInv
<1>3. CASE k > new /\ ~r.st.bad
  <2> DEFINE g == inode_indirect_shrink(r.st, r.blocks[s], A, l, old, new)
             d == [r.blocks EXCEPT ![s] = g.dest]
             off == r.last \notin {-1, s + 1}
             u == [g.st EXCEPT !.bad = @ \/ off]
             next == k - g.freed
  <2>0. /\ k \in Nat /\ new < k /\ k <= old
        /\ r.last \in Slots \cup {-1}
        /\ FitsAll(e, r.st.ind, r.blocks, k)
        /\ s <= (D + 2) - n /\ r.last \in {-1, s + 1} /\ k = Lo(B, old)
    <3>1. k \in Nat
      BY <1>1, <1>3
    <3>2. new < k
      <4> HIDE DEF k
      <4> QED BY <3>1, <1>3
    <3> QED BY <3>1, <3>2, <1>1, <1>3
  <2>1. k - 1 \in Nat /\ k - 1 < Top /\ Top \in Nat
    <3>1. Top \in Nat
      BY Levels, 4 \in 0 .. 4 DEF Top
    <3> HIDE DEF k
    <3> QED BY <3>1, <2>0
  <2>2. s \in Slots /\ indirection_level(k - 1) = l /\ A <= k - 1 /\ k - 1 < B
    BY <2>1, SlotOf
  <2>3. /\ s \in Nat /\ l \in 0 .. 3 /\ A \in Nat /\ B \in Nat
        /\ indirect_count(l) \in Nat /\ B = A + indirect_count(l)
        /\ A < B
    BY <2>2, SlotIs DEF SlotEnd
  <2>4. q = ShrunkSlot(r, s, g)
    BY <1>3, <2>2 DEF ShrinkRound
  <2>5. q.st = u /\ q.blocks = d /\ q.count = next /\ q.last = s
    BY <2>4 DEF ShrunkSlot, WithSlot
  <2>6. /\ IsStore(r.st) /\ r.blocks \in [Slots -> Node]
        /\ Forest(Slots, r.blocks, SL, r.st.ind, r.st.free)
    BY <1>1 DEF SlotsKept
  <2>7. Proper(r.st.ind, r.blocks[s], l) /\ Tree(r.st.ind, r.blocks[s], l) \cap r.st.free = {}
    BY <2>2, <2>6, SLIs DEF Forest
  <2>8. A < k /\ k <= B /\ k \in Int
    <3> HIDE DEF A, B, k, s
    <3> QED BY <2>0, <2>2, <2>3
  <2>9. Hi(A, new) < Lo(A + indirect_count(l), old)
    <3> HIDE DEF A, B, l, k, s
    <3> QED BY <2>0, <2>3, <2>8 DEF Lo, Hi
  <2>10. Fits(e, r.st.ind, r.blocks[s], l, A, old)
    <3> DEFINE a == A
               m == k
               h == l
    <3>1. Fits(e, r.st.ind, r.blocks[s], h, a, m)
      BY <2>0, <2>2 DEF FitsAll
    <3>2. m = old \/ (m >= a + indirect_count(h) /\ old >= a + indirect_count(h))
      <4>1. k = old \/ (k = B /\ B <= old)
        <5> HIDE DEF B, k
        <5> QED BY <2>0, <2>3 DEF Lo
      <4> HIDE DEF A, B, l, k, s
      <4> QED BY <4>1, <2>3
    <3>3. m \in Int /\ a \in Int /\ h \in 0 .. 3 /\ old \in Int
      BY <2>3, <2>8
    <3> HIDE DEF a, m, h, s
    <3>4. Fits(e, r.st.ind, r.blocks[s], h, a, old)
      BY <3>1, <3>2, <3>3, FitsSame
    <3> QED BY <3>4 DEF a, h
  <2>11. ShrinkPre(r.st, r.blocks[s], A, l, old, new, e)
    BY <2>2, <2>6, <2>7, <2>9, <2>10 DEF ShrinkPre
  <2>12. ShrinkPost(r.st, r.blocks[s], A, l, old, new, e, g)
    <3>1. ShrinksRight(l)
      BY <2>3, Shrinks
    <3> QED BY <3>1, <2>3, <2>11 DEF ShrinksRight
  <2> HIDE DEF q, g, off
  <2>13. /\ Moved(Whole, r.st, r.blocks[s], g.st, g.dest, l)
         /\ g.st.hyper = r.st.hyper
         /\ e /\ ~r.st.bad => ~g.st.bad
         /\ g.freed \in Nat
         /\ ~g.st.bad => Hi(A, new) + g.freed = Lo(B, old)
         /\ ~g.st.bad => Fits(e, g.st.ind, g.dest, l, A, new)
    BY <2>12, <2>3 DEF ShrinkPost
  <2>14. IsStore(g.st)
    BY <2>13 DEF Moved
  <2>15. /\ SlotsKept(Whole, st0, R0, g.st, d)
         /\ \A t \in Slots : t # s => Same(r.st.ind, g.st.ind, r.blocks[t], SlotLevel(t))
    <3> DEFINE w == Whole
    <3>1. /\ w \in BOOLEAN /\ s \in Slots /\ SlotsKept(w, st0, R0, r.st, r.blocks)
          /\ Moved(w, r.st, r.blocks[s], g.st, g.dest, SlotLevel(s))
      BY <1>1, <2>2, <2>13, WholeIs
    <3> HIDE DEF w, s
    <3> QED BY <3>1, SlotsKeptStep DEF w
  <2>16. off \in BOOLEAN
    BY DEF off
  <2>17. /\ IsStore(u) /\ u.free = g.st.free /\ u.ind = g.st.ind
         /\ u.bad = (g.st.bad \/ off) /\ u.hyper = g.st.hyper
    BY <2>14, <2>16, FlaggedIs
  <2> HIDE DEF u
  <2>18. SlotsKept(Whole, st0, R0, u, d)
    BY <2>15, <2>17, SlotsKeptFlag, WholeIs
  <2>19. ~q.st.bad => ~g.st.bad
    BY <2>5, <2>17
  <2>20. ASSUME ~g.st.bad
         PROVE  /\ next = Hi(A, new) /\ next \in Nat /\ new <= next /\ next <= old
                /\ A <= next /\ next <= B /\ next < k
    <3>1. Hi(A, new) + g.freed = k
      BY <2>0, <2>13, <2>20
    <3>2. next = Hi(A, new)
      <4> HIDE DEF A, k
      <4> QED BY <3>1, <2>0, <2>3, <2>13 DEF Hi
    <3> HIDE DEF A, B, k, next
    <3> QED BY <3>2, <2>0, <2>3, <2>8 DEF Hi
  <2>21. ASSUME ~g.st.bad
         PROVE  FitsAll(e, g.st.ind, d, next)
    <3> DEFINE a == A
               m == next
               h == l
    <3>1. Fits(e, g.st.ind, g.dest, h, a, new)
      BY <2>13, <2>21
    <3>2. m = new \/ (m <= a /\ new <= a)
      <4> HIDE DEF A, k, s, next
      <4> QED BY <2>20, <2>21, <2>3 DEF Hi
    <3>3. m \in Int /\ a \in Int /\ h \in 0 .. 3 /\ new \in Int
      BY <2>3, <2>20, <2>21
    <3>4. Fits(e, g.st.ind, g.dest, h, a, m)
      <4> HIDE DEF a, m, h, s
      <4> QED BY <3>1, <3>2, <3>3, FitsSame
    <3>5. Fits(e, g.st.ind, g.dest, l, A, next)
      BY <3>4
    <3>6. A <= k /\ k <= B /\ k \in Nat
      <4> HIDE DEF A, B, k, s
      <4> QED BY <2>0, <2>3, <2>8
    <3> QED BY <3>5, <3>6, <2>0, <2>2, <2>6, <2>15, <2>20, <2>21, SlotsFit
  <2>22. ASSUME ~g.st.bad, new < next
         PROVE  LET t == blockidx2blockslot(next - 1)
                IN  t <= (D + 2) - (n + 1) /\ s \in {-1, t + 1} /\ next = Lo(SlotEnd(t), old)
    <3> DEFINE t == blockidx2blockslot(next - 1)
    <3>1. next = A /\ next \in Nat /\ next > 0
      <4> HIDE DEF A, next
      <4> QED BY <2>20, <2>22, <2>3 DEF Hi
    <3>2. next - 1 \in Nat /\ next - 1 < Top
      <4> HIDE DEF next, k, A, B
      <4> QED BY <3>1, <2>0, <2>1, <2>20, <2>22
    <3>3. t \in Slots /\ blockslot2firstblockidx(t) <= next - 1 /\ next - 1 < SlotEnd(t)
      BY <3>2, SlotOf
    <3>4. t < s
      <4> HIDE DEF t, s, next
      <4>0. t \in Nat /\ s \in Nat /\ blockslot2firstblockidx(t) \in Nat
        BY <2>2, <3>3, SlotIs
      <4>1. CASE t = s
        BY <4>1, <4>0, <3>1, <3>3
      <4>2. CASE s < t
        <5>1. B <= blockslot2firstblockidx(t)
          BY <2>2, <3>3, <4>2, SlotGap
        <5> QED BY <5>1, <4>0, <3>1, <3>3, <2>3
      <4> QED BY <4>0, <4>1, <4>2
    <3>5. t # D + 2 /\ t \in Nat
      <4> HIDE DEF t, s
      <4>1. s <= D + 2 /\ D \in Nat
        BY <2>2, Constants DEF Slots
      <4>2. t \in Nat
        BY <3>3, SlotIs
      <4> QED BY <3>4, <4>1, <4>2, <2>3
    <3>6. /\ t + 1 \in Slots /\ blockslot2firstblockidx(t + 1) = SlotEnd(t)
          /\ SlotEnd(t) \in Nat /\ SlotEnd(t + 1) \in Nat
          /\ blockslot2firstblockidx(t + 1) < SlotEnd(t + 1)
      <4> HIDE DEF t
      <4> QED BY <3>3, <3>5, SlotIs
    <3>7. s = t + 1
      <4> HIDE DEF t, s, next
      <4>1. CASE t + 1 < s
        <5>1. SlotEnd(t + 1) <= A
          BY <2>2, <3>6, <4>1, SlotGap
        <5> HIDE DEF A
        <5>2. next <= SlotEnd(t)
          BY <3>1, <3>3, <3>6
        <5> QED BY <5>1, <5>2, <3>1, <3>6
      <4> QED BY <4>1, <3>4, <3>5, <2>3
    <3>8. next = Lo(SlotEnd(t), old)
      <4>1. SlotEnd(t) = next
        BY <3>1, <3>6, <3>7
      <4>2. next <= old
        BY <2>20, <2>22
      <4> HIDE DEF next, t
      <4> QED BY <4>1, <4>2, <3>1 DEF Lo
    <3>9. t <= (D + 2) - (n + 1)
      <4>1. s <= (D + 2) - n /\ D \in Nat
        BY <2>0, Constants
      <4> HIDE DEF t, s
      <4> QED BY <3>5, <3>7, <4>1
    <3> HIDE DEF t, s, next
    <3> QED BY <3>7, <3>8, <3>9 DEF t
  <2>23. ShrinksInv(st0, R0, old, new, e, n + 1, q) <=>
           /\ SlotsKept(Whole, st0, R0, q.st, q.blocks)
           /\ q.st.hyper = st0.hyper
           /\ e => ~q.st.bad
           /\ ~q.st.bad =>
                /\ q.count \in Nat /\ new <= q.count /\ q.count <= old
                /\ q.last \in Slots \cup {-1}
                /\ FitsAll(e, q.st.ind, q.blocks, q.count)
                /\ new < q.count =>
                     LET t == blockidx2blockslot(q.count - 1)
                     IN  t <= (D + 2) - (n + 1) /\ q.last \in {-1, t + 1} /\ q.count = Lo(SlotEnd(t), old)
    BY DEF ShrinksInv
  <2>24. SlotsKept(Whole, st0, R0, q.st, q.blocks) /\ q.st.hyper = st0.hyper
    BY <1>1, <2>5, <2>13, <2>17, <2>18
  <2>25. ASSUME ~q.st.bad
         PROVE  /\ q.count \in Nat /\ new <= q.count /\ q.count <= old
                /\ q.last \in Slots \cup {-1}
                /\ FitsAll(e, q.st.ind, q.blocks, q.count)
    BY <2>2, <2>5, <2>17, <2>19, <2>20, <2>21, <2>25
  <2>26. ASSUME ~q.st.bad, new < q.count
         PROVE  LET t == blockidx2blockslot(q.count - 1)
                IN  t <= (D + 2) - (n + 1) /\ q.last \in {-1, t + 1} /\ q.count = Lo(SlotEnd(t), old)
    BY <2>5, <2>19, <2>22, <2>26
  <2>27. e => ~q.st.bad
    <3>1. ~off
      BY <2>0 DEF off
    <3> QED BY <3>1, <1>3, <2>5, <2>13, <2>17
  <2> QED BY <2>23, <2>24, <2>25, <2>26, <2>27
<1> QED BY <1>2, <1>3

-----------------------------------------------------------------------------
(* Sizes and numbers of data blocks.                                       *)
(* The smaller of two numbers. *)
LEMMA MinTwo ==
  ASSUME NEW a \in Nat, NEW b \in Nat
  PROVE  Min({a, b}) = IF a <= b THEN a ELSE b
<1>1. \E x \in {a, b} : \A y \in {a, b} : x <= y
  OBVIOUS
<1>2. Min({a, b}) \in {a, b} /\ \A y \in {a, b} : Min({a, b}) <= y
  BY <1>1 DEF Min
<1> QED BY <1>2

(* The largest file fills all of its trees. *)
LEMMA MAXIs == MAX_FILESIZE \in Nat /\ MAX_FILESIZE = BS * Top /\ Top \in Nat
<1>1. Top \in Nat /\ BS \in Nat
  BY Levels, Constants, 4 \in 0 .. 4 DEF Top
<1>2. MAX_FILESIZE = Top * BS
  BY DEF MAX_FILESIZE, Top
<1> HIDE DEF MAX_FILESIZE, Top
<1> QED BY <1>1, <1>2

(* A file that is not too long does not have too many data blocks. *)
LEMMA BlockCountIs ==
  ASSUME NEW size \in 0 .. MAX_FILESIZE
  PROVE  BlockCount(size) \in Nat /\ BlockCount(size) <= Top
<1> DEFINE q == size \div BS
           p == size % BS
<1>0. BS \in Nat \ {0} /\ size \in Nat /\ size <= BS * Top /\ Top \in Nat
  BY Constants, MAXIs
<1>1. q \in Nat /\ p \in 0 .. BS - 1 /\ size = BS * q + p
  BY <1>0, DivMod
<1>2. BlockCount(size) = q + (IF p # 0 THEN 1 ELSE 0)
  BY DEF BlockCount, offset2blockidx
<1> HIDE DEF q, p
<1>3. BlockCount(size) \in Nat
  BY <1>1, <1>2
<1>4. BS * q \in Nat /\ BS * Top \in Nat
  BY <1>0, <1>1
<1>5. ~(Top < q)
  <2> SUFFICES ASSUME Top < q PROVE FALSE
    OBVIOUS
  <2>1. BS * Top + BS <= BS * q
    BY <1>0, <1>1, MultipleGap
  <2> QED BY <2>1, <1>0, <1>1, <1>4
<1>6. p # 0 => q # Top
  BY <1>0, <1>1, <1>4
<1> QED BY <1>0, <1>1, <1>2, <1>3, <1>5, <1>6

(* The size after a growth that stopped is that of the data blocks         *)
(* reached.                                                                *)
LEMMA SizeReachedIs ==
  ASSUME NEW k \in Nat, k <= Top
  PROVE  SizeReached(k) \in 0 .. MAX_FILESIZE /\ BlockCount(SizeReached(k)) = k
<1> DEFINE size == BS * k
           q == size \div BS
           p == size % BS
<1>0. BS \in Nat \ {0} /\ Top \in Nat /\ MAX_FILESIZE = BS * Top
  BY Constants, MAXIs
<1>1. size \in Nat /\ SizeReached(k) = size
  BY <1>0 DEF SizeReached
<1>2. size <= BS * Top
  <2>1. CASE k = Top
    BY <2>1, <1>0, <1>1
  <2>2. CASE k < Top
    <3>1. BS * k + BS <= BS * Top /\ BS * Top \in Nat
      BY <2>2, <1>0, MultipleGap
    <3> HIDE DEF size
    <3>2. size + BS <= BS * Top
      BY <3>1 DEF size
    <3> QED BY <3>1, <3>2, <1>0, <1>1
  <2> QED BY <2>1, <2>2, <1>0
<1>3. q \in Nat /\ p \in 0 .. BS - 1 /\ size = BS * q + p
  BY <1>0, <1>1, DivMod
<1>4. BlockCount(SizeReached(k)) = q + (IF p # 0 THEN 1 ELSE 0)
  BY <1>1 DEF BlockCount, offset2blockidx
<1>5. BS * k + 0 = BS * q + p /\ 0 \in 0 .. BS - 1
  BY <1>0, <1>1, <1>3
<1> HIDE DEF q, p
<1>6. k = q /\ 0 = p
  BY <1>0, <1>3, <1>5, DivisionUnique
<1>7. SizeReached(k) \in 0 .. MAX_FILESIZE
  <2> HIDE DEF size
  <2> QED BY <1>0, <1>1, <1>2
<1> QED BY <1>3, <1>4, <1>6, <1>7

(* k data blocks are enough for a file that is not longer than they are.   *)
LEMMA CountReaches ==
  ASSUME NEW z \in Nat, NEW k \in Nat
  PROVE  /\ BlockCount(z) \in Nat /\ SizeReached(k) \in Nat
         /\ BlockCount(z) <= k <=> z <= SizeReached(k)
<1> DEFINE q == z \div BS
           p == z % BS
           size == BS * k
<1>0. BS \in Nat \ {0}
  BY Constants
<1>1. q \in Nat /\ p \in 0 .. BS - 1 /\ z = BS * q + p
  BY <1>0, DivMod
<1>2. BlockCount(z) = q + (IF p # 0 THEN 1 ELSE 0)
  BY DEF BlockCount, offset2blockidx
<1>3. size \in Nat /\ SizeReached(k) = size
  BY <1>0 DEF SizeReached
<1> HIDE DEF q, p
<1>4. BS * q \in Nat
  BY <1>0, <1>1
<1>5. CASE q < k
  <2>1. BS * q + BS <= BS * k
    BY <1>0, <1>1, <1>5, MultipleGap
  <2>2. BS * q + BS <= size
    BY <2>1
  <2> HIDE DEF size
  <2> QED BY <2>2, <1>0, <1>1, <1>2, <1>3, <1>4, <1>5
<1>6. CASE q = k
  <2>1. BS * q = size
    BY <1>6
  <2> HIDE DEF size
  <2> QED BY <2>1, <1>0, <1>1, <1>2, <1>3, <1>4, <1>6
<1>7. CASE k < q
  <2>1. BS * k + BS <= BS * q
    BY <1>0, <1>1, <1>7, MultipleGap
  <2>2. size + BS <= BS * q
    BY <2>1
  <2> HIDE DEF size
  <2> QED BY <2>2, <1>0, <1>1, <1>2, <1>3, <1>4, <1>7
<1> QED BY <1>1, <1>5, <1>6, <1>7

-----------------------------------------------------------------------------
(* What the loops over the slots promise.                                  *)
IsIno(ino) ==
  /\ ino = [nlinks |-> ino.nlinks, size |-> ino.size, blocks |-> ino.blocks]
  /\ ino.size \in 0 .. MAX_FILESIZE
  /\ ino.blocks \in [Slots -> Node]

SizedPre(e, st, ino) ==
  /\ IsStore(st) /\ ~st.bad /\ IsIno(ino)
  /\ Forest(Slots, ino.blocks, SL, st.ind, st.free)
  /\ FitsAll(e, st.ind, ino.blocks, BlockCount(ino.size))

StartSize(st, ino) ==
  [st |-> st, blocks |-> ino.blocks, count |-> BlockCount(ino.size), ok |-> TRUE, last |-> -1]

(* Before the first round nothing has moved. *)
LEMMA SlotsKeptStart ==
  ASSUME NEW e, NEW st, NEW ino, SizedPre(e, st, ino), NEW w
  PROVE  SlotsKept(w, st, ino.blocks, st, ino.blocks)
BY DEF SizedPre, IsIno, SlotsKept

(* The loop of inode_setsize that grows: it reaches the number of blocks   *)
(* asked for, or stops for want of blocks.                                 *)
LEMMA GrowSlotsRight ==
  ASSUME NEW e \in BOOLEAN, NEW st, NEW ino, SizedPre(e, st, ino),
         NEW new \in Nat, new <= Top, BlockCount(ino.size) < new
  PROVE  LET r == GrowSlots(StartSize(st, ino), BlockCount(ino.size), new)
         IN  /\ SlotsKept(e, st, ino.blocks, r.st, r.blocks)
             /\ ~r.st.bad
             /\ r.count \in Nat /\ BlockCount(ino.size) <= r.count /\ r.count <= new
             /\ FitsAll(e /\ ~r.st.hyper, r.st.ind, r.blocks, r.count)
             /\ r.count < new /\ e /\ ~r.st.hyper => Short(r.st.free, r.count)
<1> DEFINE old == BlockCount(ino.size)
           start == StartSize(st, ino)
           F == GrowRounds(start, old, new)
           S == {n \in 0 .. D + 3 : ~GrowsInv(st, ino.blocks, old, new, e, n, F[n])}
           s == blockidx2blockslot(old)
           r == F[D + 3]
<1>0. /\ IsStore(st) /\ ~st.bad
      /\ FitsAll(e, st.ind, ino.blocks, old)
      /\ old \in Nat /\ old <= Top /\ D \in Nat /\ Top \in Nat
      /\ old < new
  BY BlockCountIs, Constants, MAXIs DEF SizedPre, IsIno
<1>1. start.st = st /\ start.blocks = ino.blocks /\ start.count = old /\ start.ok = TRUE /\ start.last = -1
  BY DEF StartSize
<1>2. GrowsInv(st, ino.blocks, old, new, e, 0, start)
  <2>1. s \in Slots /\ blockslot2firstblockidx(s) <= old /\ s \in Nat /\ blockslot2firstblockidx(s) \in Nat
    <3>1. old < Top
      <4> HIDE DEF old
      <4> QED BY <1>0
    <3>2. s \in Slots /\ blockslot2firstblockidx(s) <= old
      BY <3>1, <1>0, SlotOf
    <3> QED BY <3>2, SlotIs
  <2>2. 0 <= s /\ old = Hi(blockslot2firstblockidx(s), old)
    <3> HIDE DEF old, s
    <3> QED BY <2>1, <1>0 DEF Hi
  <2>3. FitsAll(e /\ ~st.hyper, st.ind, ino.blocks, old)
    <3> DEFINE w == e /\ ~st.hyper
    <3>1. w \in BOOLEAN /\ (w => e)
      OBVIOUS
    <3> HIDE DEF w
    <3>2. FitsAll(w, st.ind, ino.blocks, old)
      BY <1>0, <3>1, FitsWeaker DEF FitsAll
    <3> QED BY <3>2 DEF w
  <2>4. SlotsKept(e, st, ino.blocks, st, ino.blocks)
    BY SlotsKeptStart
  <2>5. GrowsInv(st, ino.blocks, old, new, e, 0, start) <=>
          /\ SlotsKept(e, st, ino.blocks, start.st, start.blocks)
          /\ ~start.st.bad
          /\ start.ok \in BOOLEAN
          /\ start.count \in Nat /\ old <= start.count /\ start.count <= new
          /\ start.last \in Slots \cup {-1}
          /\ FitsAll(e /\ ~start.st.hyper, start.st.ind, start.blocks, start.count)
          /\ start.ok /\ start.count < new =>
               LET t == blockidx2blockslot(start.count)
               IN  0 <= t /\ start.last \in {-1, t - 1} /\ start.count = Hi(blockslot2firstblockidx(t), old)
          /\ ~start.ok => start.count < new
          /\ ~start.ok /\ (e /\ ~start.st.hyper) => Short(start.st.free, start.count)
    BY DEF GrowsInv
  <2> HIDE DEF start
  <2>6. start.count \in Nat /\ old <= start.count /\ start.count <= new
    <3> HIDE DEF old
    <3> QED BY <1>0, <1>1
  <2>7. start.ok /\ start.ok \in BOOLEAN /\ start.last = -1
    BY <1>1
  <2>8. LET t == blockidx2blockslot(start.count)
        IN  0 <= t /\ start.last \in {-1, t - 1} /\ start.count = Hi(blockslot2firstblockidx(t), old)
    BY <1>1, <2>2
  <2>9. FitsAll(e /\ ~start.st.hyper, start.st.ind, start.blocks, start.count)
    BY <1>1, <2>3
  <2>10. SlotsKept(e, st, ino.blocks, start.st, start.blocks) /\ ~start.st.bad
    BY <1>0, <1>1, <2>4
  <2> HIDE DEF old
  <2> QED BY <2>5, <2>6, <2>7, <2>8, <2>9, <2>10
<1>3. GrowSlots(start, old, new) = r
  BY GrowSlotsIs
<1>4. F[0] = start /\ \A i \in 1 .. D + 3 : F[i] = GrowRound(F[i - 1], old, new)
  BY GrowRoundsIs
<1> HIDE DEF start, F
<1>5. S = {}
  <2> SUFFICES ASSUME S # {} PROVE FALSE
    OBVIOUS
  <2>1. S \in SUBSET Nat
    BY <1>0
  <2>2. PICK m \in S : \A k \in S : m <= k
    BY <2>1, Least
  <2>3. m \in 1 .. D + 3
    BY <2>2, <1>2, <1>4
  <2> DEFINE c == m - 1
             x == F[c]
  <2>4. c \in 0 .. D + 3 /\ c \notin S /\ c \in Nat /\ c + 1 = m
    BY <2>2, <2>3, <1>0
  <2>5. GrowsInv(st, ino.blocks, old, new, e, c, x)
    BY <2>4
  <2>6. F[m] = GrowRound(x, old, new)
    BY <2>3, <1>4
  <2> HIDE DEF c, x, old
  <2>7. GrowsInv(st, ino.blocks, old, new, e, c + 1, GrowRound(x, old, new))
    BY <2>4, <2>5, <1>0, GrowsStep
  <2> QED BY <2>2, <2>4, <2>6, <2>7
<1>6. GrowsInv(st, ino.blocks, old, new, e, D + 3, r)
  BY <1>0, <1>5
<1> HIDE DEF r
<1>7. /\ SlotsKept(e, st, ino.blocks, r.st, r.blocks)
      /\ ~r.st.bad
      /\ r.ok \in BOOLEAN
      /\ r.count \in Nat /\ old <= r.count /\ r.count <= new
      /\ FitsAll(e /\ ~r.st.hyper, r.st.ind, r.blocks, r.count)
      /\ r.ok /\ r.count < new => D + 3 <= blockidx2blockslot(r.count)
      /\ ~r.ok /\ (e /\ ~r.st.hyper) => Short(r.st.free, r.count)
  BY <1>6 DEF GrowsInv
<1>8. ~(r.ok /\ r.count < new)
  <2> SUFFICES ASSUME r.ok, r.count < new PROVE FALSE
    OBVIOUS
  <2>1. r.count < Top
    BY <1>0, <1>7
  <2>2. blockidx2blockslot(r.count) \in Slots
    BY <1>7, <2>1, SlotOf
  <2> QED BY <2>2, <1>0, <1>7 DEF Slots
<1> QED BY <1>3, <1>7, <1>8 DEF start

(* The loop of inode_setsize that shrinks: it reaches the number of        *)
(* blocks asked for, or an assertion fails.                                *)
LEMMA ShrinkSlotsRight ==
  ASSUME NEW e \in BOOLEAN, NEW st, NEW ino, SizedPre(e, st, ino),
         NEW new \in Nat, new <= BlockCount(ino.size)
  PROVE  LET r == ShrinkSlots(StartSize(st, ino), BlockCount(ino.size), new)
         IN  /\ SlotsKept(Whole, st, ino.blocks, r.st, r.blocks)
             /\ r.st.hyper = st.hyper
             /\ e => ~r.st.bad
             /\ ~r.st.bad => r.count = new /\ FitsAll(e, r.st.ind, r.blocks, new)
<1> DEFINE old == BlockCount(ino.size)
           start == StartSize(st, ino)
           F == ShrinkRounds(start, old, new)
           S == {n \in 0 .. D + 3 : ~ShrinksInv(st, ino.blocks, old, new, e, n, F[n])}
           s == blockidx2blockslot(old - 1)
           r == F[D + 3]
<1>0. /\ IsStore(st) /\ ~st.bad
      /\ FitsAll(e, st.ind, ino.blocks, old)
      /\ old \in Nat /\ old <= Top /\ D \in Nat /\ Top \in Nat
      /\ new <= old
  BY BlockCountIs, Constants, MAXIs DEF SizedPre, IsIno
<1>1. start.st = st /\ start.blocks = ino.blocks /\ start.count = old /\ start.ok = TRUE /\ start.last = -1
  BY DEF StartSize
<1>2. ShrinksInv(st, ino.blocks, old, new, e, 0, start)
  <2>1. new < old => s <= (D + 2) - 0 /\ old = Lo(SlotEnd(s), old)
    <3> SUFFICES ASSUME new < old PROVE s <= (D + 2) - 0 /\ old = Lo(SlotEnd(s), old)
      OBVIOUS
    <3>1. old - 1 \in Nat /\ old - 1 < Top
      <4> HIDE DEF old
      <4> QED BY <1>0
    <3>2. s \in Slots /\ old - 1 < SlotEnd(s)
      BY <3>1, SlotOf
    <3>3. SlotEnd(s) \in Nat
      BY <3>2, SlotIs
    <3>4. s <= (D + 2) - 0
      BY <3>2, <1>0 DEF Slots
    <3> HIDE DEF old, s
    <3> QED BY <3>2, <3>3, <3>4, <1>0 DEF Lo
  <2>4. SlotsKept(Whole, st, ino.blocks, st, ino.blocks)
    BY SlotsKeptStart
  <2>5. ShrinksInv(st, ino.blocks, old, new, e, 0, start) <=>
          /\ SlotsKept(Whole, st, ino.blocks, start.st, start.blocks)
          /\ start.st.hyper = st.hyper
          /\ e => ~start.st.bad
          /\ ~start.st.bad =>
               /\ start.count \in Nat /\ new <= start.count /\ start.count <= old
               /\ start.last \in Slots \cup {-1}
               /\ FitsAll(e, start.st.ind, start.blocks, start.count)
               /\ new < start.count =>
                    LET t == blockidx2blockslot(start.count - 1)
                    IN  t <= (D + 2) - 0 /\ start.last \in {-1, t + 1} /\ start.count = Lo(SlotEnd(t), old)
    BY DEF ShrinksInv
  <2> HIDE DEF start
  <2>6. start.count \in Nat /\ new <= start.count /\ start.count <= old
    <3> HIDE DEF old
    <3> QED BY <1>0, <1>1
  <2>7. start.last = -1
    BY <1>1
  <2>8. new < start.count =>
          LET t == blockidx2blockslot(start.count - 1)
          IN  t <= (D + 2) - 0 /\ start.last \in {-1, t + 1} /\ start.count = Lo(SlotEnd(t), old)
    BY <1>1, <2>1
  <2>9. FitsAll(e, start.st.ind, start.blocks, start.count)
    BY <1>0, <1>1
  <2>10. SlotsKept(Whole, st, ino.blocks, start.st, start.blocks) /\ start.st.hyper = st.hyper
         /\ ~start.st.bad
    BY <1>0, <1>1, <2>4
  <2> HIDE DEF old
  <2> QED BY <2>5, <2>6, <2>7, <2>8, <2>9, <2>10
<1>3. ShrinkSlots(start, old, new) = r
  BY ShrinkSlotsIs
<1>4. F[0] = start /\ \A i \in 1 .. D + 3 : F[i] = ShrinkRound(F[i - 1], old, new)
  BY ShrinkRoundsIs
<1> HIDE DEF start, F
<1>5. S = {}
  <2> SUFFICES ASSUME S # {} PROVE FALSE
    OBVIOUS
  <2>1. S \in SUBSET Nat
    BY <1>0
  <2>2. PICK m \in S : \A k \in S : m <= k
    BY <2>1, Least
  <2>3. m \in 1 .. D + 3
    BY <2>2, <1>2, <1>4
  <2> DEFINE c == m - 1
             x == F[c]
  <2>4. c \in 0 .. D + 3 /\ c \notin S /\ c \in Nat /\ c + 1 = m
    BY <2>2, <2>3, <1>0
  <2>5. ShrinksInv(st, ino.blocks, old, new, e, c, x)
    BY <2>4
  <2>6. F[m] = ShrinkRound(x, old, new)
    BY <2>3, <1>4
  <2> HIDE DEF c, x, old
  <2>7. ShrinksInv(st, ino.blocks, old, new, e, c + 1, ShrinkRound(x, old, new))
    BY <2>4, <2>5, <1>0, ShrinksStep
  <2> QED BY <2>2, <2>4, <2>6, <2>7
<1>6. ShrinksInv(st, ino.blocks, old, new, e, D + 3, r)
  BY <1>0, <1>5
<1> HIDE DEF r
<1>7. /\ SlotsKept(Whole, st, ino.blocks, r.st, r.blocks)
      /\ r.st.hyper = st.hyper
      /\ e => ~r.st.bad
      /\ ~r.st.bad =>
           /\ r.count \in Nat /\ new <= r.count /\ r.count <= old
           /\ FitsAll(e, r.st.ind, r.blocks, r.count)
           /\ new < r.count => blockidx2blockslot(r.count - 1) <= (D + 2) - (D + 3)
  BY <1>6 DEF ShrinksInv
<1>8. ~r.st.bad => ~(new < r.count)
  <2> SUFFICES ASSUME ~r.st.bad, new < r.count PROVE FALSE
    OBVIOUS
  <2>1. r.count - 1 \in Nat /\ r.count - 1 < Top
    <3> HIDE DEF old
    <3> QED BY <1>0, <1>7
  <2>2. blockidx2blockslot(r.count - 1) \in Slots
    BY <2>1, SlotOf
  <2> QED BY <2>2, <1>0, <1>7 DEF Slots
<1>9. ~r.st.bad => r.count = new
  <2> HIDE DEF old
  <2> QED BY <1>7, <1>8
<1> QED BY <1>3, <1>7, <1>9 DEF start

(* inode_setsize leaves the file with the size asked for, or with all the  *)
(* blocks it got when there were too few for one more data block; no       *)
(* assertion fails if no block is missing.                                 *)
SizedPost(e, st, ino, g) ==
  /\ SlotsKept(e, st, ino.blocks, g.st, g.ino.blocks)
  /\ ~g.st.bad =>
       /\ IsIno(g.ino) /\ g.ino.nlinks = ino.nlinks
       /\ FitsAll(e /\ ~g.st.hyper, g.st.ind, g.ino.blocks, BlockCount(g.ino.size))

SetsSize(e, st, ino, size, g) ==
  /\ SizedPost(e, st, ino, g)
  /\ e => ~g.st.bad
  /\ ~g.st.bad => g.ino.size <= size
  /\ ~g.st.bad /\ ino.size <= size => ino.size <= g.ino.size
  /\ ~g.st.bad /\ g.ino.size < size /\ e /\ ~g.st.hyper =>
       Short(g.st.free, BlockCount(g.ino.size))
  /\ BlockCount(size) <= BlockCount(ino.size) =>
       /\ SlotsKept(Whole, st, ino.blocks, g.st, g.ino.blocks) /\ g.st.hyper = st.hyper
       /\ ~g.st.bad => g.ino.size = size

(* A size is cut off at MAX_FILESIZE. *)
LEMMA SizeIs ==
  ASSUME NEW n \in Nat
  PROVE  Min({n, MAX_FILESIZE}) \in 0 .. MAX_FILESIZE
<1>1. MAX_FILESIZE \in Nat
  BY MAXIs
<1>2. Min({n, MAX_FILESIZE}) = IF n <= MAX_FILESIZE THEN n ELSE MAX_FILESIZE
  BY <1>1, MinTwo
<1> HIDE DEF MAX_FILESIZE
<1> QED BY <1>1, <1>2

ResizedTo(r, ino, new, size, g) ==
  /\ g.st = r.st /\ g.ino.blocks = r.blocks /\ g.ino.nlinks = ino.nlinks
  /\ g.ino.size = IF r.count = new THEN size ELSE SizeReached(r.count)
  /\ g.ino = [nlinks |-> g.ino.nlinks, size |-> g.ino.size, blocks |-> g.ino.blocks]

(* The fields of what Resized returns. *)
LEMMA ResizedIs ==
  ASSUME NEW r, NEW ino, IsIno(ino), NEW new, NEW size
  PROVE  ResizedTo(r, ino, new, size, Resized(r, ino, new, size))
<1> DEFINE g == Resized(r, ino, new, size)
           z == IF r.count = new THEN size ELSE SizeReached(r.count)
           i1 == [ino EXCEPT !.blocks = r.blocks]
           i2 == [i1 EXCEPT !.size = z]
<1>1. g.st = r.st /\ g.ino = i2
  BY DEF Resized
<1>2. i1 = [nlinks |-> ino.nlinks, size |-> ino.size, blocks |-> r.blocks]
  BY DEF IsIno
<1> HIDE DEF i1, z, g
<1>3. i2 = [nlinks |-> ino.nlinks, size |-> z, blocks |-> r.blocks]
  BY <1>2
<1>4. ResizedTo(r, ino, new, size, g)
  BY <1>1, <1>3 DEF z, ResizedTo
<1> QED BY <1>4 DEF g

(* inode_setsize promises what SetsSize says. *)
LEMMA SetSizeRight ==
  ASSUME NEW e \in BOOLEAN, NEW st, NEW ino, SizedPre(e, st, ino), NEW n \in Nat
  PROVE  SetsSize(e, st, ino, Min({n, MAX_FILESIZE}), inode_setsize(st, ino, n))
<1> DEFINE size == Min({n, MAX_FILESIZE})
           new == BlockCount(size)
           old == BlockCount(ino.size)
           g == inode_setsize(st, ino, n)
<1>0. size \in 0 .. MAX_FILESIZE /\ ino.size \in 0 .. MAX_FILESIZE /\ IsIno(ino)
      /\ ino.blocks \in [Slots -> Node]
  BY SizeIs DEF SizedPre, IsIno
<1> HIDE DEF size
<1>1. new \in Nat /\ new <= Top /\ old \in Nat /\ old <= Top /\ Top \in Nat
  BY <1>0, BlockCountIs, MAXIs
<1> HIDE DEF new, old
<1>2. CASE old < new
  <2> DEFINE r == GrowSlots(StartSize(st, ino), old, new)
             w == e /\ ~r.st.hyper
  <2>1. g = Resized(r, ino, new, size)
    BY <1>2 DEF inode_setsize, StartSize, size, new, old
  <2>2. /\ SlotsKept(e, st, ino.blocks, r.st, r.blocks)
        /\ ~r.st.bad
        /\ r.count \in Nat /\ old <= r.count /\ r.count <= new
        /\ FitsAll(e /\ ~r.st.hyper, r.st.ind, r.blocks, r.count)
        /\ r.count < new /\ e /\ ~r.st.hyper => Short(r.st.free, r.count)
    BY <1>1, <1>2, GrowSlotsRight DEF old
  <2> HIDE DEF r, g
  <2>3. /\ g.st = r.st /\ g.ino.blocks = r.blocks /\ g.ino.nlinks = ino.nlinks
        /\ g.ino.size = IF r.count = new THEN size ELSE SizeReached(r.count)
        /\ g.ino = [nlinks |-> g.ino.nlinks, size |-> g.ino.size, blocks |-> g.ino.blocks]
    <3>1. ResizedTo(r, ino, new, size, g)
      BY <2>1, <1>0, ResizedIs
    <3> QED BY <3>1 DEF ResizedTo
  <2>4. g.ino.size \in 0 .. MAX_FILESIZE /\ BlockCount(g.ino.size) = r.count
    <3>1. CASE r.count = new
      BY <3>1, <2>3, <1>0 DEF new
    <3>2. CASE r.count # new
      <4>1. r.count <= Top
        BY <1>1, <2>2
      <4> QED BY <4>1, <3>2, <2>2, <2>3, SizeReachedIs
    <3> QED BY <3>1, <3>2
  <2>5. r.blocks \in [Slots -> Node]
    BY <2>2 DEF SlotsKept
  <2>6. IsIno(g.ino)
    BY <2>3, <2>4, <2>5 DEF IsIno
  <2>7. SizedPost(e, st, ino, g)
    BY <2>2, <2>3, <2>4, <2>6 DEF SizedPost
  <2>8. ASSUME g.ino.size < size, e, ~g.st.hyper PROVE Short(g.st.free, BlockCount(g.ino.size))
    <3>1. r.count # new
      BY <2>3, <2>8, <1>0
    <3>2. r.count < new
      BY <3>1, <2>2, <1>1
    <3> QED BY <3>2, <2>2, <2>3, <2>4, <2>8
  <2>9. ~(BlockCount(size) <= BlockCount(ino.size))
    <3>1. ~(new <= old)
      BY <1>1, <1>2
    <3> QED BY <3>1 DEF new, old
  <2>10. g.ino.size <= size /\ (ino.size <= size => ino.size <= g.ino.size)
    <3>0. size \in Nat /\ ino.size \in Nat
      BY <1>0, MAXIs
    <3>1. CASE r.count = new
      BY <3>0, <3>1, <2>3
    <3>2. CASE r.count # new
      <4> DEFINE at == r.count
                 reached == SizeReached(at)
      <4>1. at \in Nat /\ old <= at /\ ~(new <= at)
        BY <3>2, <2>2, <1>1
      <4> HIDE DEF at
      <4>2. reached \in Nat /\ (old <= at <=> ino.size <= reached) /\ (new <= at <=> size <= reached)
        BY <3>0, <4>1, CountReaches DEF old, new
      <4>3. g.ino.size = reached
        BY <3>2, <2>3 DEF at
      <4> HIDE DEF reached
      <4> QED BY <3>0, <4>1, <4>2, <4>3
    <3> QED BY <3>1, <3>2
  <2>11. SetsSize(e, st, ino, size, g)
    BY <2>2, <2>3, <2>7, <2>8, <2>9, <2>10 DEF SetsSize
  <2> QED BY <2>11 DEF size, g
<1>3. CASE ~(old < new)
  <2> DEFINE r == ShrinkSlots(StartSize(st, ino), old, new)
  <2>1. g = Resized(r, ino, new, size)
    BY <1>3 DEF inode_setsize, StartSize, size, new, old
  <2>2. /\ SlotsKept(Whole, st, ino.blocks, r.st, r.blocks)
        /\ r.st.hyper = st.hyper
        /\ e => ~r.st.bad
        /\ ~r.st.bad => r.count = new /\ FitsAll(e, r.st.ind, r.blocks, new)
    <3>1. new <= old
      BY <1>1, <1>3
    <3> QED BY <1>1, <3>1, ShrinkSlotsRight DEF old
  <2> HIDE DEF r, g
  <2>3. /\ g.st = r.st /\ g.ino.blocks = r.blocks /\ g.ino.nlinks = ino.nlinks
        /\ g.ino.size = IF r.count = new THEN size ELSE SizeReached(r.count)
        /\ g.ino = [nlinks |-> g.ino.nlinks, size |-> g.ino.size, blocks |-> g.ino.blocks]
    <3>1. ResizedTo(r, ino, new, size, g)
      BY <2>1, <1>0, ResizedIs
    <3> QED BY <3>1 DEF ResizedTo
  <2>5. r.blocks \in [Slots -> Node]
    BY <2>2 DEF SlotsKept
  <2>6. ASSUME ~g.st.bad
        PROVE  /\ IsIno(g.ino) /\ g.ino.size = size
               /\ FitsAll(e /\ ~g.st.hyper, g.st.ind, g.ino.blocks, BlockCount(g.ino.size))
    <3>1. r.count = new /\ FitsAll(e, r.st.ind, r.blocks, new)
      BY <2>2, <2>3, <2>6
    <3>2. g.ino.size = size
      BY <3>1, <2>3
    <3>3. IsIno(g.ino)
      BY <3>2, <2>3, <2>5, <1>0 DEF IsIno
    <3> DEFINE w == e /\ ~g.st.hyper
    <3>4. w \in BOOLEAN /\ (w => e)
      OBVIOUS
    <3> HIDE DEF w
    <3>5. FitsAll(w, r.st.ind, r.blocks, new)
      BY <3>1, <3>4, FitsWeaker DEF FitsAll
    <3> QED BY <3>2, <3>3, <3>5, <2>3 DEF w, new
  <2>7. SizedPost(e, st, ino, g)
    <3>1. SlotsKept(e, st, ino.blocks, r.st, r.blocks)
      BY <2>2 DEF SlotsKept, Whole
    <3> QED BY <3>1, <2>3, <2>6 DEF SizedPost
  <2>8. ~(~g.st.bad /\ g.ino.size < size)
    BY <2>6, <1>0
  <2>9. /\ e => ~g.st.bad
        /\ ~g.st.bad => g.ino.size <= size
        /\ ~g.st.bad /\ ino.size <= size => ino.size <= g.ino.size
    <3>1. size \in Nat
      BY <1>0, MAXIs
    <3> QED BY <3>1, <2>2, <2>3, <2>6
  <2>10. SetsSize(e, st, ino, size, g)
    BY <2>2, <2>3, <2>6, <2>7, <2>8, <2>9 DEF SetsSize
  <2> QED BY <2>10 DEF size, g
<1> QED BY <1>2, <1>3

-----------------------------------------------------------------------------
(* The data blocks a read or a write visits: the recursion and the loop    *)
(* over the slots, by their runs.                                          *)
VisitOne(r, i, level, st, b, cur, pos, endpos) ==
  LET sub == indirect_count(level - 1)
  IN  IF i \in FirstVisited(cur, sub, pos) .. LastVisited(cur, sub, endpos)
      THEN WithVisited(r, inode_indirect_readwrite(st, st.ind[b][i], cur + i * sub,
                                                   level - 1, pos, endpos))
      ELSE r

(* The states of the loop over the children that are visited. *)
VisitRun(st, b, level, cur, pos, endpos) ==
  CHOOSE f : f = [i \in 0 .. W |-> IF i = 0 THEN NothingVisited ELSE VisitOne(f[i - 1], i - 1, level, st, b, cur, pos, endpos)]

(* The run of the visiting loop exists: it is the recursive function of    *)
(* VisitIndirect.                                                          *)
LEMMA VisitRunIs ==
  ASSUME NEW st, NEW b, NEW level, NEW cur, NEW pos, NEW endpos
  PROVE  LET f == VisitRun(st, b, level, cur, pos, endpos)
         IN  /\ f = [i \in 0 .. W |-> f[i]] /\ f[0] = NothingVisited
             /\ \A i \in 1 .. W : f[i] = VisitOne(f[i - 1], i - 1, level, st, b, cur, pos, endpos)
<1> DEFINE P(f, m) == /\ f[0] = NothingVisited
                      /\ \A i \in 1 .. m : f[i] = VisitOne(f[i - 1], i - 1, level, st, b, cur, pos, endpos)
           S == {m \in Nat : ~\E f : P(f, m)}
<1>1. S = {}
  <2> SUFFICES ASSUME S # {} PROVE FALSE
    OBVIOUS
  <2>1. PICK m \in S : \A k \in S : m <= k
    BY Least
  <2>2. m # 0
    <3> DEFINE f == [i \in {0} |-> NothingVisited]
    <3>1. P(f, 0)
      OBVIOUS
    <3> QED BY <3>1
  <2>3. m - 1 \in Nat /\ m - 1 \notin S
    <3>1. m \in Nat
      OBVIOUS
    <3> HIDE DEF S
    <3> QED BY <2>1, <2>2, <3>1
  <2>4. PICK f : P(f, m - 1)
    BY <2>3
  <2> DEFINE g == [i \in 0 .. m |-> IF i = m THEN VisitOne(f[m - 1], m - 1, level, st, b, cur, pos, endpos) ELSE f[i]]
  <2>5. P(g, m)
    <3>1. /\ g[0] = f[0] /\ g[m] = VisitOne(f[m - 1], m - 1, level, st, b, cur, pos, endpos)
          /\ \A i \in 0 .. m - 1 : g[i] = f[i]
      BY <2>3
    <3> HIDE DEF g
    <3>2. ASSUME NEW i \in 1 .. m PROVE g[i] = VisitOne(g[i - 1], i - 1, level, st, b, cur, pos, endpos)
      <4>1. CASE i = m
        BY <4>1, <3>1, <2>3
      <4>2. CASE i # m
        <5>1. i \in 1 .. m - 1 /\ i - 1 \in 0 .. m - 1 /\ i \in 0 .. m - 1
          BY <4>2, <2>3
        <5> QED BY <5>1, <3>1, <2>4
      <4> QED BY <4>1, <4>2
    <3> QED BY <3>1, <3>2, <2>4
  <2> QED BY <2>1, <2>5
<1>2. W \in Nat
  BY InodeAssumption
<1>3. PICK h : P(h, W)
  BY <1>1, <1>2
<1> DEFINE Eq(f) == f = [i \in 0 .. W |-> IF i = 0 THEN NothingVisited ELSE VisitOne(f[i - 1], i - 1, level, st, b, cur, pos, endpos)]
           k == [i \in 0 .. W |-> h[i]]
           F == CHOOSE f : Eq(f)
<1>4. Eq(k)
  <2>1. k[0] = NothingVisited /\ \A i \in 1 .. W : k[i] = VisitOne(k[i - 1], i - 1, level, st, b, cur, pos, endpos)
    BY <1>2, <1>3
  <2>2. \A i \in 0 .. W : k[i] = IF i = 0 THEN NothingVisited ELSE VisitOne(k[i - 1], i - 1, level, st, b, cur, pos, endpos)
    <3> HIDE DEF k
    <3> TAKE i \in 0 .. W
    <3>1. i # 0 => i \in 1 .. W
      OBVIOUS
    <3> QED BY <2>1, <3>1
  <2>3. k = [i \in 0 .. W |-> k[i]]
    OBVIOUS
  <2> HIDE DEF k
  <2> QED BY <2>2, <2>3
<1>5. Eq(F)
  BY <1>4
<1> HIDE DEF F
<1>6. \A i \in 0 .. W : F[i] = IF i = 0 THEN NothingVisited ELSE VisitOne(F[i - 1], i - 1, level, st, b, cur, pos, endpos)
  BY <1>5
<1>7. F[0] = NothingVisited /\ \A i \in 1 .. W : F[i] = VisitOne(F[i - 1], i - 1, level, st, b, cur, pos, endpos)
  BY <1>2, <1>6
<1>8. F = [i \in 0 .. W |-> F[i]]
  BY <1>5
<1> QED BY <1>7, <1>8 DEF VisitRun, F

(* inode_indirect_readwrite of an indirect block is what its loop has      *)
(* visited.                                                                *)
LEMMA VisitIs ==
  ASSUME NEW st, NEW b, NEW cur, NEW level \in 1 .. 3, NEW pos, NEW endpos
  PROVE  inode_indirect_readwrite(st, b, cur, level, pos, endpos) =
           IF b = EOF THEN NothingToVisit ELSE VisitRun(st, b, level, cur, pos, endpos)[W]
<1> DEFINE R == VisitRun(st, b, level, cur, pos, endpos)
<1>0. W \in Nat
  BY InodeAssumption
<1>1. /\ R = [i \in 0 .. W |-> R[i]] /\ R[0] = NothingVisited
      /\ \A i \in 1 .. W : R[i] = VisitOne(R[i - 1], i - 1, level, st, b, cur, pos, endpos)
  BY VisitRunIs
<1> HIDE DEF R
<1>2. CASE level = 1
  <2> DEFINE Eq(f) == f = [i \in 0 .. W |-> IF i = 0 THEN NothingVisited
                                    ELSE VisitChild(VisitData, 1, f[i - 1], i - 1, st, b, cur, pos, endpos)]
             F == CHOOSE f : Eq(f)
  <2>1. \A r, i : VisitOne(r, i, level, st, b, cur, pos, endpos) = VisitChild(VisitData, 1, r, i, st, b, cur, pos, endpos)
    BY <1>2 DEF VisitOne, VisitChild, inode_indirect_readwrite, indirect_count
  <2>0. \A i \in 0 .. W : R[i] = IF i = 0 THEN NothingVisited
                                ELSE VisitChild(VisitData, 1, R[i - 1], i - 1, st, b, cur, pos, endpos)
    <3> SUFFICES ASSUME NEW i \in 0 .. W, i # 0
                 PROVE  R[i] = VisitChild(VisitData, 1, R[i - 1], i - 1, st, b, cur, pos, endpos)
      BY <1>1
    <3>1. i \in 1 .. W
      BY <1>0
    <3> QED BY <3>1, <1>1, <2>1
  <2>2. Eq(R)
    BY <1>1, <2>0
  <2>3. Eq(F)
    BY <2>2
  <2>4. VisitIndirect(VisitData, 1, st, b, cur, pos, endpos) = IF b = EOF THEN NothingToVisit ELSE F[W]
    BY DEF VisitIndirect
  <2> HIDE DEF F
  <2>5. \A i \in 0 .. W : F[i] = IF i = 0 THEN NothingVisited ELSE VisitChild(VisitData, 1, F[i - 1], i - 1, st, b, cur, pos, endpos)
    BY <2>3
  <2>6. F[0] = R[0] /\ \A i \in 1 .. W : F[i - 1] = R[i - 1] => F[i] = R[i]
    <3>1. 0 \in 0 .. W /\ \A i \in 1 .. W : i \in 0 .. W /\ i # 0
      BY <1>0
    <3> QED BY <2>5, <2>0, <3>1
  <2>7. F[W] = R[W]
    BY <2>6, <1>0, SameRun
  <2> QED BY <1>2, <2>4, <2>7 DEF inode_indirect_readwrite, VisitSingle, indirect_count, R
<1>3. CASE level = 2
  <2> DEFINE Eq(f) == f = [i \in 0 .. W |-> IF i = 0 THEN NothingVisited
                                    ELSE VisitChild(VisitSingle, W, f[i - 1], i - 1, st, b, cur, pos, endpos)]
             F == CHOOSE f : Eq(f)
  <2>1. \A r, i : VisitOne(r, i, level, st, b, cur, pos, endpos) = VisitChild(VisitSingle, W, r, i, st, b, cur, pos, endpos)
    BY <1>3 DEF VisitOne, VisitChild, inode_indirect_readwrite, indirect_count
  <2>0. \A i \in 0 .. W : R[i] = IF i = 0 THEN NothingVisited
                                ELSE VisitChild(VisitSingle, W, R[i - 1], i - 1, st, b, cur, pos, endpos)
    <3> SUFFICES ASSUME NEW i \in 0 .. W, i # 0
                 PROVE  R[i] = VisitChild(VisitSingle, W, R[i - 1], i - 1, st, b, cur, pos, endpos)
      BY <1>1
    <3>1. i \in 1 .. W
      BY <1>0
    <3> QED BY <3>1, <1>1, <2>1
  <2>2. Eq(R)
    BY <1>1, <2>0
  <2>3. Eq(F)
    BY <2>2
  <2>4. VisitIndirect(VisitSingle, W, st, b, cur, pos, endpos) = IF b = EOF THEN NothingToVisit ELSE F[W]
    BY DEF VisitIndirect
  <2> HIDE DEF F
  <2>5. \A i \in 0 .. W : F[i] = IF i = 0 THEN NothingVisited ELSE VisitChild(VisitSingle, W, F[i - 1], i - 1, st, b, cur, pos, endpos)
    BY <2>3
  <2>6. F[0] = R[0] /\ \A i \in 1 .. W : F[i - 1] = R[i - 1] => F[i] = R[i]
    <3>1. 0 \in 0 .. W /\ \A i \in 1 .. W : i \in 0 .. W /\ i # 0
      BY <1>0
    <3> QED BY <2>5, <2>0, <3>1
  <2>7. F[W] = R[W]
    BY <2>6, <1>0, SameRun
  <2> QED BY <1>3, <2>4, <2>7 DEF inode_indirect_readwrite, VisitDouble, indirect_count, R
<1>4. CASE level = 3
  <2> DEFINE Eq(f) == f = [i \in 0 .. W |-> IF i = 0 THEN NothingVisited
                                    ELSE VisitChild(VisitDouble, W * W, f[i - 1], i - 1, st, b, cur, pos, endpos)]
             F == CHOOSE f : Eq(f)
  <2>1. \A r, i : VisitOne(r, i, level, st, b, cur, pos, endpos) = VisitChild(VisitDouble, W * W, r, i, st, b, cur, pos, endpos)
    BY <1>4 DEF VisitOne, VisitChild, inode_indirect_readwrite, indirect_count
  <2>0. \A i \in 0 .. W : R[i] = IF i = 0 THEN NothingVisited
                                ELSE VisitChild(VisitDouble, W * W, R[i - 1], i - 1, st, b, cur, pos, endpos)
    <3> SUFFICES ASSUME NEW i \in 0 .. W, i # 0
                 PROVE  R[i] = VisitChild(VisitDouble, W * W, R[i - 1], i - 1, st, b, cur, pos, endpos)
      BY <1>1
    <3>1. i \in 1 .. W
      BY <1>0
    <3> QED BY <3>1, <1>1, <2>1
  <2>2. Eq(R)
    BY <1>1, <2>0
  <2>3. Eq(F)
    BY <2>2
  <2>4. VisitIndirect(VisitDouble, W * W, st, b, cur, pos, endpos) = IF b = EOF THEN NothingToVisit ELSE F[W]
    BY DEF VisitIndirect
  <2> HIDE DEF F
  <2>5. \A i \in 0 .. W : F[i] = IF i = 0 THEN NothingVisited ELSE VisitChild(VisitDouble, W * W, F[i - 1], i - 1, st, b, cur, pos, endpos)
    BY <2>3
  <2>6. F[0] = R[0] /\ \A i \in 1 .. W : F[i - 1] = R[i - 1] => F[i] = R[i]
    <3>1. 0 \in 0 .. W /\ \A i \in 1 .. W : i \in 0 .. W /\ i # 0
      BY <1>0
    <3> QED BY <2>5, <2>0, <3>1
  <2>7. F[W] = R[W]
    BY <2>6, <1>0, SameRun
  <2> QED BY <1>4, <2>4, <2>7 DEF inode_indirect_readwrite, VisitTriple, indirect_count, R
<1> QED BY <1>2, <1>3, <1>4

(* The states of the loop over the slots that visits. *)
VisitRounds(st, blocks, curpos, stop, pos, endpos) ==
  CHOOSE f : f = [i \in 0 .. D + 3 |-> IF i = 0 THEN NotVisited(curpos) ELSE VisitRound(st, blocks, f[i - 1], stop, pos, endpos)]

(* The run of the visiting loop over the slots exists. *)
LEMMA VisitRoundsIs ==
  ASSUME NEW st, NEW blocks, NEW curpos, NEW stop, NEW pos, NEW endpos
  PROVE  LET f == VisitRounds(st, blocks, curpos, stop, pos, endpos)
         IN  /\ f = [i \in 0 .. D + 3 |-> f[i]] /\ f[0] = NotVisited(curpos)
             /\ \A i \in 1 .. D + 3 : f[i] = VisitRound(st, blocks, f[i - 1], stop, pos, endpos)
<1> DEFINE P(f, m) == /\ f[0] = NotVisited(curpos)
                      /\ \A i \in 1 .. m : f[i] = VisitRound(st, blocks, f[i - 1], stop, pos, endpos)
           S == {m \in Nat : ~\E f : P(f, m)}
<1>1. S = {}
  <2> SUFFICES ASSUME S # {} PROVE FALSE
    OBVIOUS
  <2>1. PICK m \in S : \A k \in S : m <= k
    BY Least
  <2>2. m # 0
    <3> DEFINE f == [i \in {0} |-> NotVisited(curpos)]
    <3>1. P(f, 0)
      OBVIOUS
    <3> QED BY <3>1
  <2>3. m - 1 \in Nat /\ m - 1 \notin S
    <3>1. m \in Nat
      OBVIOUS
    <3> HIDE DEF S
    <3> QED BY <2>1, <2>2, <3>1
  <2>4. PICK f : P(f, m - 1)
    BY <2>3
  <2> DEFINE g == [i \in 0 .. m |-> IF i = m THEN VisitRound(st, blocks, f[m - 1], stop, pos, endpos) ELSE f[i]]
  <2>5. P(g, m)
    <3>1. /\ g[0] = f[0] /\ g[m] = VisitRound(st, blocks, f[m - 1], stop, pos, endpos)
          /\ \A i \in 0 .. m - 1 : g[i] = f[i]
      BY <2>3
    <3> HIDE DEF g
    <3>2. ASSUME NEW i \in 1 .. m PROVE g[i] = VisitRound(st, blocks, g[i - 1], stop, pos, endpos)
      <4>1. CASE i = m
        BY <4>1, <3>1, <2>3
      <4>2. CASE i # m
        <5>1. i \in 1 .. m - 1 /\ i - 1 \in 0 .. m - 1 /\ i \in 0 .. m - 1
          BY <4>2, <2>3
        <5> QED BY <5>1, <3>1, <2>4
      <4> QED BY <4>1, <4>2
    <3> QED BY <3>1, <3>2, <2>4
  <2> QED BY <2>1, <2>5
<1>2. D + 3 \in Nat
  BY InodeAssumption
<1>3. PICK h : P(h, D + 3)
  BY <1>1, <1>2
<1> DEFINE Eq(f) == f = [i \in 0 .. D + 3 |-> IF i = 0 THEN NotVisited(curpos) ELSE VisitRound(st, blocks, f[i - 1], stop, pos, endpos)]
           k == [i \in 0 .. D + 3 |-> h[i]]
           F == CHOOSE f : Eq(f)
<1>4. Eq(k)
  <2>1. k[0] = NotVisited(curpos) /\ \A i \in 1 .. D + 3 : k[i] = VisitRound(st, blocks, k[i - 1], stop, pos, endpos)
    BY <1>2, <1>3
  <2>2. \A i \in 0 .. D + 3 : k[i] = IF i = 0 THEN NotVisited(curpos) ELSE VisitRound(st, blocks, k[i - 1], stop, pos, endpos)
    <3> HIDE DEF k
    <3> TAKE i \in 0 .. D + 3
    <3>1. i # 0 => i \in 1 .. D + 3
      OBVIOUS
    <3> QED BY <2>1, <3>1
  <2>3. k = [i \in 0 .. D + 3 |-> k[i]]
    OBVIOUS
  <2> HIDE DEF k
  <2> QED BY <2>2, <2>3
<1>5. Eq(F)
  BY <1>4
<1> HIDE DEF F
<1>6. \A i \in 0 .. D + 3 : F[i] = IF i = 0 THEN NotVisited(curpos) ELSE VisitRound(st, blocks, F[i - 1], stop, pos, endpos)
  BY <1>5
<1>7. F[0] = NotVisited(curpos) /\ \A i \in 1 .. D + 3 : F[i] = VisitRound(st, blocks, F[i - 1], stop, pos, endpos)
  BY <1>2, <1>6
<1>8. F = [i \in 0 .. D + 3 |-> F[i]]
  BY <1>5
<1> QED BY <1>7, <1>8 DEF VisitRounds, F

(* The loop of inode_write and inode_read is the last of its rounds. *)
LEMMA VisitRoundsAre ==
  ASSUME NEW st, NEW blocks, NEW curpos, NEW stop, NEW pos, NEW endpos
  PROVE  Visit(st, blocks, curpos, stop, pos, endpos) = VisitRounds(st, blocks, curpos, stop, pos, endpos)[D + 3]
<1> DEFINE R == VisitRounds(st, blocks, curpos, stop, pos, endpos)
           Eq(f) == f = [n \in Rounds |-> IF n = 0 THEN NotVisited(curpos) ELSE VisitRound(st, blocks, f[n - 1], stop, pos, endpos)]
           F == CHOOSE f : Eq(f)
<1>0. D + 3 \in Nat /\ Rounds = 0 .. D + 3
  BY InodeAssumption DEF Rounds
<1>1. /\ R = [i \in 0 .. D + 3 |-> R[i]] /\ R[0] = NotVisited(curpos)
      /\ \A i \in 1 .. D + 3 : R[i] = VisitRound(st, blocks, R[i - 1], stop, pos, endpos)
  BY VisitRoundsIs
<1> HIDE DEF R
<1>2. \A i \in 0 .. D + 3 : R[i] = IF i = 0 THEN NotVisited(curpos) ELSE VisitRound(st, blocks, R[i - 1], stop, pos, endpos)
  <2> SUFFICES ASSUME NEW i \in 0 .. D + 3, i # 0
               PROVE  R[i] = VisitRound(st, blocks, R[i - 1], stop, pos, endpos)
    BY <1>1
  <2>1. i \in 1 .. D + 3
    BY <1>0
  <2> QED BY <2>1, <1>1
<1>3. Eq(R)
  BY <1>0, <1>1, <1>2
<1>4. Eq(F)
  BY <1>3
<1>5. Visit(st, blocks, curpos, stop, pos, endpos) = F[D + 3]
  BY DEF Visit
<1> HIDE DEF F
<1>6. \A i \in 0 .. D + 3 : F[i] = IF i = 0 THEN NotVisited(curpos) ELSE VisitRound(st, blocks, F[i - 1], stop, pos, endpos)
  BY <1>4, <1>0
<1>7. F[0] = R[0] /\ \A i \in 1 .. D + 3 : F[i - 1] = R[i - 1] => F[i] = R[i]
  <2>1. 0 \in 0 .. D + 3 /\ \A i \in 1 .. D + 3 : i \in 0 .. D + 3 /\ i # 0
    BY <1>0
  <2> QED BY <1>6, <1>2, <2>1
<1>8. F[D + 3] = R[D + 3]
  BY <1>7, <1>0, SameRun
<1> QED BY <1>5, <1>8 DEF R

-----------------------------------------------------------------------------
(* The data blocks of a tree that have an index from x up to y.            *)
DataPaths(l) == {p \in Paths(l) : Len(p) = l}

Leaf(ptrs, b, l, cur, p) == [block |-> NodeAt(ptrs, b, p), idx |-> IndexAt(cur, l, p)]

Leaves(ptrs, b, l, cur, x, y) ==
  {Leaf(ptrs, b, l, cur, p) :
     p \in {q \in DataPaths(l) : x <= IndexAt(cur, l, q) /\ IndexAt(cur, l, q) < y}}

(* A leaf is at the end of a path of full length.                          *)
LEMMA LeafIs ==
  ASSUME NEW ptrs, NEW b, NEW l, NEW cur, NEW x, NEW y, NEW leaf
  PROVE  leaf \in Leaves(ptrs, b, l, cur, x, y) <=>
           \E p \in DataPaths(l) : /\ x <= IndexAt(cur, l, p) /\ IndexAt(cur, l, p) < y
                                   /\ leaf = [block |-> NodeAt(ptrs, b, p), idx |-> IndexAt(cur, l, p)]
BY DEF Leaves, Leaf

(* A path to a data block goes to a child and on from there.               *)
LEMMA DataPathsAre ==
  /\ DataPaths(0) = {<<>>}
  /\ \A l \in 1 .. 3 :
       /\ \A c \in Children : \A rest \in DataPaths(l - 1) : <<c>> \o rest \in DataPaths(l)
       /\ \A path \in DataPaths(l) :
            \E c \in Children : \E rest \in DataPaths(l - 1) : path = <<c>> \o rest
<1>1. DataPaths(0) = {<<>>}
  <2>1. Len(<<>>) = 0
    OBVIOUS
  <2> QED BY <2>1, PathZero DEF DataPaths
<1>2. ASSUME NEW l \in 1 .. 3, NEW c \in Children, NEW rest \in Paths(l - 1)
      PROVE  Len(rest) \in Nat /\ Len(<<c>> \o rest) = Len(rest) + 1
  <2>1. rest \in Seq(Children)
    <3>1. l - 1 \in 0 .. 3
      OBVIOUS
    <3> QED BY <3>1, PathsAre
  <2> QED BY <2>1, ConsPositions
<1>3. ASSUME NEW l \in 1 .. 3, NEW c \in Children, NEW rest \in DataPaths(l - 1)
      PROVE  <<c>> \o rest \in DataPaths(l)
  <2>1. rest \in Paths(l - 1) /\ Len(rest) = l - 1
    BY DEF DataPaths
  <2>2. <<c>> \o rest \in Paths(l)
    BY <2>1, PathCons
  <2>3. Len(<<c>> \o rest) = l
    BY <2>1, <1>2
  <2> QED BY <2>2, <2>3 DEF DataPaths
<1>4. ASSUME NEW l \in 1 .. 3, NEW path \in DataPaths(l)
      PROVE  \E c \in Children : \E rest \in DataPaths(l - 1) : path = <<c>> \o rest
  <2>1. path \in Paths(l) /\ Len(path) = l
    BY DEF DataPaths
  <2>2. path # <<>>
    <3>1. Len(<<>>) = 0
      OBVIOUS
    <3> QED BY <3>1, <2>1
  <2>3. PICK c \in Children, rest \in Paths(l - 1) : path = <<c>> \o rest
    BY <2>1, <2>2, PathCons
  <2>4. Len(rest) = l - 1
    BY <2>1, <2>3, <1>2
  <2>5. rest \in DataPaths(l - 1)
    BY <2>4 DEF DataPaths
  <2> QED BY <2>3, <2>5
<1> QED BY <1>1, <1>3, <1>4

(* A data block has itself for a leaf.                                     *)
LEMMA LeavesZero ==
  ASSUME NEW ptrs, NEW b, NEW cur \in Int, NEW x, NEW y
  PROVE  Leaves(ptrs, b, 0, cur, x, y)
         = IF x <= cur /\ cur < y THEN {[block |-> b, idx |-> cur]} ELSE {}
<1>1. NodeAt(ptrs, b, <<>>) = b /\ IndexAt(cur, 0, <<>>) = cur
  BY EmptyPath
<1> QED BY <1>1, DataPathsAre, LeafIs

(* The leaves of a tree are those of its children.                         *)
LEMMA LeavesStep ==
  ASSUME NEW ptrs, NEW l \in 1 .. 3, NEW b, b # EOF, NEW cur \in Int, NEW x, NEW y
  PROVE  Leaves(ptrs, b, l, cur, x, y) =
           UNION {Leaves(ptrs, ptrs[b][c], l - 1, cur + indirect_count(l - 1) * c, x, y)
                  : c \in Children}
<1>1. ASSUME NEW c \in Children, NEW rest \in DataPaths(l - 1)
      PROVE  /\ NodeAt(ptrs, b, <<c>> \o rest) = NodeAt(ptrs, ptrs[b][c], rest)
             /\ IndexAt(cur, l, <<c>> \o rest) = IndexAt(cur + indirect_count(l - 1) * c, l - 1, rest)
             /\ <<c>> \o rest \in DataPaths(l)
  <2>1. rest \in Paths(l - 1)
    BY DEF DataPaths
  <2>2. NodeAt(ptrs, b, <<c>> \o rest) = NodeAt(ptrs, Child(ptrs, b, c), rest)
    BY <2>1, NodeCons
  <2>3. IndexAt(cur, l, <<c>> \o rest) = IndexAt(cur + indirect_count(l - 1) * c, l - 1, rest)
    BY <2>1, IndexCons
  <2>4. Child(ptrs, b, c) = ptrs[b][c]
    BY DEF Child
  <2> QED BY <2>2, <2>3, <2>4, DataPathsAre
<1>2. ASSUME NEW leaf \in Leaves(ptrs, b, l, cur, x, y)
      PROVE  \E c \in Children :
               leaf \in Leaves(ptrs, ptrs[b][c], l - 1, cur + indirect_count(l - 1) * c, x, y)
  <2>1. PICK p \in DataPaths(l) : /\ x <= IndexAt(cur, l, p) /\ IndexAt(cur, l, p) < y
                                  /\ leaf = [block |-> NodeAt(ptrs, b, p), idx |-> IndexAt(cur, l, p)]
    BY LeafIs
  <2>2. PICK c \in Children, rest \in DataPaths(l - 1) : p = <<c>> \o rest
    BY DataPathsAre
  <2> DEFINE k == cur + indirect_count(l - 1) * c
  <2>3. NodeAt(ptrs, b, p) = NodeAt(ptrs, ptrs[b][c], rest) /\ IndexAt(cur, l, p) = IndexAt(k, l - 1, rest)
    BY <2>2, <1>1
  <2> HIDE DEF k
  <2>4. leaf \in Leaves(ptrs, ptrs[b][c], l - 1, k, x, y)
    BY <2>1, <2>3, LeafIs
  <2> QED BY <2>4 DEF k
<1>3. ASSUME NEW c \in Children,
             NEW leaf \in Leaves(ptrs, ptrs[b][c], l - 1, cur + indirect_count(l - 1) * c, x, y)
      PROVE  leaf \in Leaves(ptrs, b, l, cur, x, y)
  <2> DEFINE k == cur + indirect_count(l - 1) * c
  <2>1. PICK rest \in DataPaths(l - 1) :
          /\ x <= IndexAt(k, l - 1, rest) /\ IndexAt(k, l - 1, rest) < y
          /\ leaf = [block |-> NodeAt(ptrs, ptrs[b][c], rest), idx |-> IndexAt(k, l - 1, rest)]
    <3> DEFINE a == ptrs[b][c]
               m == l - 1
    <3>1. leaf \in Leaves(ptrs, a, m, k, x, y)
      OBVIOUS
    <3> HIDE DEF a, m, k
    <3>2. \E rest \in DataPaths(m) :
            /\ x <= IndexAt(k, m, rest) /\ IndexAt(k, m, rest) < y
            /\ leaf = [block |-> NodeAt(ptrs, a, rest), idx |-> IndexAt(k, m, rest)]
      BY <3>1, LeafIs
    <3> QED BY <3>2 DEF a, m
  <2>2. /\ NodeAt(ptrs, b, <<c>> \o rest) = NodeAt(ptrs, ptrs[b][c], rest)
        /\ IndexAt(cur, l, <<c>> \o rest) = IndexAt(k, l - 1, rest)
        /\ <<c>> \o rest \in DataPaths(l)
    BY <1>1
  <2> HIDE DEF k
  <2> QED BY <2>1, <2>2, LeafIs
<1> QED BY <1>2, <1>3

(* No leaf of a tree has an index out of its range.                        *)
LEMMA NoLeaves ==
  ASSUME NEW ptrs, NEW b, NEW l \in 0 .. 3, NEW cur \in Int, NEW x \in Int, NEW y \in Int,
         y <= cur \/ cur + indirect_count(l) <= x
  PROVE  Leaves(ptrs, b, l, cur, x, y) = {}
<1> SUFFICES ASSUME NEW leaf \in Leaves(ptrs, b, l, cur, x, y) PROVE FALSE
  OBVIOUS
<1>1. PICK p \in DataPaths(l) : x <= IndexAt(cur, l, p) /\ IndexAt(cur, l, p) < y
  BY LeafIs
<1>2. p \in Paths(l)
  BY DEF DataPaths
<1>3. /\ IndexAt(cur, l, p) \in Int /\ IndexAt(cur, l, p) >= cur
      /\ IndexAt(cur, l, p) < cur + indirect_count(l)
  BY <1>2, IndexBeyond, IndexBelow
<1>4. indirect_count(l) \in Nat
  BY Counts
<1> QED BY <1>1, <1>3, <1>4

(* The elements of two sequences, one after the other.                     *)
LEMMA ConcatRange ==
  ASSUME NEW S, NEW s \in Seq(S), NEW t \in Seq(S)
  PROVE  s \o t \in Seq(S) /\ Range(s \o t) = Range(s) \cup Range(t)
<1> DEFINE u == s \o t
<1>1. /\ u \in Seq(S) /\ Len(u) = Len(s) + Len(t) /\ Len(s) \in Nat /\ Len(t) \in Nat
      /\ \A k \in 1 .. Len(s) + Len(t) : u[k] = IF k <= Len(s) THEN s[k] ELSE t[k - Len(s)]
  OBVIOUS
<1> HIDE DEF u
<1>2. /\ DOMAIN u = 1 .. Len(s) + Len(t) /\ DOMAIN s = 1 .. Len(s) /\ DOMAIN t = 1 .. Len(t)
  BY <1>1
<1>3. ASSUME NEW x \in Range(u) PROVE x \in Range(s) \cup Range(t)
  <2>1. PICK k \in 1 .. Len(s) + Len(t) : x = u[k]
    BY <1>2 DEF Range
  <2>2. CASE k <= Len(s)
    <3>1. k \in DOMAIN s /\ x = s[k]
      BY <2>1, <2>2, <1>1, <1>2
    <3> QED BY <3>1 DEF Range
  <2>3. CASE ~(k <= Len(s))
    <3>1. k - Len(s) \in DOMAIN t /\ x = t[k - Len(s)]
      BY <2>1, <2>3, <1>1, <1>2
    <3> QED BY <3>1 DEF Range
  <2> QED BY <2>2, <2>3
<1>4. ASSUME NEW x \in Range(s) PROVE x \in Range(u)
  <2>1. PICK k \in 1 .. Len(s) : x = s[k]
    BY <1>2 DEF Range
  <2>2. k \in DOMAIN u /\ x = u[k]
    BY <2>1, <1>1, <1>2
  <2> QED BY <2>2 DEF Range
<1>5. ASSUME NEW x \in Range(t) PROVE x \in Range(u)
  <2>1. PICK k \in 1 .. Len(t) : x = t[k]
    BY <1>2 DEF Range
  <2>2. k + Len(s) \in DOMAIN u /\ ~(k + Len(s) <= Len(s)) /\ (k + Len(s)) - Len(s) = k
    BY <2>1, <1>1, <1>2
  <2>3. x = u[k + Len(s)]
    BY <2>1, <2>2, <1>1, <1>2
  <2> QED BY <2>2, <2>3 DEF Range
<1> QED BY <1>1, <1>3, <1>4, <1>5 DEF u

-----------------------------------------------------------------------------
(* The bytes of a read or a write: the blocks they are in, and how far the *)
(* blocks before one reach into them.                                      *)
FirstBlock(pos) == pos \div BS
EndBlock(endpos) == (endpos - 1) \div BS + 1
Reached(k, pos, endpos) == Lo(Hi(BS * k, pos), endpos)

(* The larger of two numbers.                                              *)
LEMMA MaxTwo ==
  ASSUME NEW a \in Nat, NEW b \in Nat
  PROVE  Max({a, b}) = IF a <= b THEN b ELSE a
<1>1. \E x \in {a, b} : \A y \in {a, b} : x >= y
  OBVIOUS
<1>2. Max({a, b}) \in {a, b} /\ \A y \in {a, b} : Max({a, b}) >= y
  BY <1>1 DEF Max
<1> QED BY <1>2

(* The first byte is in the first block, the last in the last.             *)
LEMMA RangeIs ==
  ASSUME NEW pos \in Nat, NEW endpos \in Nat, pos < endpos
  PROVE  LET x == FirstBlock(pos)
             y == EndBlock(endpos)
         IN  /\ x \in Nat /\ y \in Nat /\ x < y
             /\ BS * x <= pos /\ pos < BS * x + BS
             /\ BS * y >= endpos /\ endpos > BS * y - BS
<1> DEFINE q == pos \div BS
           z == endpos - 1
           w == z \div BS
<1>0. BS \in Nat \ {0} /\ z \in Nat /\ pos <= z
  BY Constants
<1>1. q \in Nat /\ pos % BS \in 0 .. BS - 1 /\ pos = BS * q + (pos % BS)
  BY <1>0, DivMod
<1> HIDE DEF z
<1>2. w \in Nat /\ z % BS \in 0 .. BS - 1 /\ z = BS * w + (z % BS)
  BY <1>0, DivMod
<1>3. FirstBlock(pos) = q /\ EndBlock(endpos) = w + 1
  BY DEF FirstBlock, EndBlock, z
<1> HIDE DEF q, w
<1>4. BS * q \in Nat /\ BS * w \in Nat /\ BS * (w + 1) = BS * w + BS
  BY <1>0, <1>1, <1>2
<1>5. ~(w < q)
  <2> SUFFICES ASSUME w < q PROVE FALSE
    OBVIOUS
  <2>1. BS * w + BS <= BS * q
    BY <1>0, <1>1, <1>2, MultipleGap
  <2> QED BY <2>1, <1>0, <1>1, <1>2, <1>4
<1>6. endpos = z + 1
  BY DEF z
<1>7. q < w + 1 /\ w + 1 \in Nat
  BY <1>1, <1>2, <1>5
<1>8. BS * q <= pos /\ pos < BS * q + BS
  BY <1>0, <1>1, <1>4
<1>9. BS * (w + 1) >= endpos /\ endpos > BS * (w + 1) - BS
  BY <1>0, <1>2, <1>4, <1>6
<1> QED BY <1>1, <1>3, <1>7, <1>8, <1>9

(* The blocks before the first reach up to where the range begins, those   *)
(* before the end to where it ends.                                        *)
LEMMA ReachedIs ==
  ASSUME NEW pos \in Nat, NEW endpos \in Nat, pos < endpos, NEW k \in Nat
  PROVE  /\ Reached(k, pos, endpos) \in Nat
         /\ pos <= Reached(k, pos, endpos) /\ Reached(k, pos, endpos) <= endpos
         /\ k <= FirstBlock(pos) => Reached(k, pos, endpos) = pos
         /\ k >= EndBlock(endpos) => Reached(k, pos, endpos) = endpos
         /\ FirstBlock(pos) < k => BS * k > pos
         /\ k < EndBlock(endpos) => BS * k < endpos
<1> DEFINE x == FirstBlock(pos)
           y == EndBlock(endpos)
<1>1. /\ x \in Nat /\ y \in Nat /\ x < y
      /\ BS * x <= pos /\ pos < BS * x + BS
      /\ BS * y >= endpos /\ endpos > BS * y - BS
  BY RangeIs
<1>0. BS \in Nat /\ BS > 0
  BY Constants
<1> HIDE DEF x, y
<1>2. \A a, b \in Nat : a < b => BS * a + BS <= BS * b
  BY <1>0, MultipleGap
<1> DEFINE p == BS * k
           u == BS * x
           v == BS * y
<1>3. p \in Nat /\ u \in Nat /\ v \in Nat
  BY <1>0, <1>1
<1>4. /\ k < x => p + BS <= u
      /\ x < k => u + BS <= p
      /\ k < y => p + BS <= v
      /\ y < k => v + BS <= p
      /\ k = x => p = u
      /\ k = y => p = v
  BY <1>1, <1>2
<1>5. /\ u <= pos /\ pos < u + BS /\ v >= endpos /\ endpos > v - BS
      /\ Reached(k, pos, endpos) = Lo(Hi(p, pos), endpos)
  BY <1>1 DEF Reached
<1>6. /\ Lo(Hi(p, pos), endpos) \in Nat
      /\ pos <= Lo(Hi(p, pos), endpos) /\ Lo(Hi(p, pos), endpos) <= endpos
      /\ k <= x => Lo(Hi(p, pos), endpos) = pos
      /\ k >= y => Lo(Hi(p, pos), endpos) = endpos
      /\ x < k => p > pos
      /\ k < y => p < endpos
  <2> HIDE DEF p, u, v
  <2> QED BY <1>0, <1>1, <1>3, <1>4, <1>5 DEF Hi, Lo
<1> QED BY <1>5, <1>6 DEF x, y

(* The children visited are those a growth would visit.                    *)
LEMMA VisitedIs ==
  ASSUME NEW cur \in Nat, NEW sub \in Nat, NEW pos \in Nat, NEW endpos \in Nat, pos < endpos
  PROVE  /\ FirstVisited(cur, sub, pos) = FirstChild(cur, sub, FirstBlock(pos))
         /\ LastVisited(cur, sub, endpos) = LastChild(cur, sub, EndBlock(endpos))
<1>1. FirstVisited(cur, sub, pos) = FirstChild(cur, sub, FirstBlock(pos))
  BY DEF FirstVisited, FirstChild, FirstBlock
<1> DEFINE end == cur + W * sub
           y == EndBlock(endpos)
           w == (endpos - 1) \div BS
<1>2. end \in Nat /\ y \in Nat /\ y = w + 1
  <2>1. W * sub \in Nat
    BY Constants
  <2>2. y \in Nat
    BY RangeIs
  <2>3. end \in Nat
    BY <2>1
  <2> QED BY <2>2, <2>3 DEF EndBlock
<1>3. w \in Int
  <2>1. endpos - 1 \in Nat /\ BS \in Nat \ {0}
    BY Constants
  <2> QED BY <2>1
<1> DEFINE last == cur + W * sub - 1
<1>4. LastVisited(cur, sub, endpos) = IF last > w THEN W - 1 - (last - w) \div sub ELSE W - 1
  BY DEF LastVisited
<1>8. last = end - 1
  <2>1. W * sub \in Nat
    BY Constants
  <2> QED BY <2>1
<1>5. LastChild(cur, sub, y) = IF end > y THEN W - 1 - (end - y) \div sub ELSE W - 1
  BY DEF LastChild
<1> HIDE DEF end, w, y, last
<1>6. (last > w <=> end > y) /\ (last - w = end - y)
  BY <1>2, <1>3, <1>8
<1>7. LastVisited(cur, sub, endpos) = LastChild(cur, sub, y)
  BY <1>4, <1>5, <1>6
<1> QED BY <1>1, <1>7 DEF y

-----------------------------------------------------------------------------
(* What inode_indirect_readwrite promises of a tree that is whole: the     *)
(* assertion that a block is there does not fail, it visits the data       *)
(* blocks the range has in the tree, and copies all their bytes of it.     *)
LeafType == [block : Blocks, idx : Nat]

VisitPre(st, b, cur, l, pos, endpos) ==
  LET x == FirstBlock(pos)
      y == EndBlock(endpos)
  IN  /\ st.ind \in Ptrs /\ b \in Node
      /\ pos < endpos
      /\ Hi(cur, x) < Lo(cur + indirect_count(l), y)
      /\ \E n \in Nat : y <= n /\ Fits(Whole, st.ind, b, l, cur, n)

VisitPost(st, b, cur, l, pos, endpos, v) ==
  LET x == FirstBlock(pos)
      y == EndBlock(endpos)
  IN  /\ v.ok
      /\ v.size = Reached(Lo(cur + indirect_count(l), y), pos, endpos) - Reached(Hi(cur, x), pos, endpos)
      /\ v.leaves \in Seq(LeafType)
      /\ Range(v.leaves) = Leaves(st.ind, b, l, cur, x, y)

VisitsRight(l) ==
  \A st, b : \A cur, pos, endpos \in Nat :
    VisitPre(st, b, cur, l, pos, endpos) =>
      VisitPost(st, b, cur, l, pos, endpos, inode_indirect_readwrite(st, b, cur, l, pos, endpos))

(* A tree that is visited has a block at its root.                         *)
LEMMA VisitRoot ==
  ASSUME NEW l \in 0 .. 3, NEW st, NEW b, NEW cur \in Nat, NEW pos \in Nat, NEW endpos \in Nat,
         VisitPre(st, b, cur, l, pos, endpos)
  PROVE  b # EOF /\ b \in Blocks
<1> DEFINE y == EndBlock(endpos)
<1>1. PICK n \in Nat : y <= n /\ Fits(Whole, st.ind, b, l, cur, n)
  BY DEF VisitPre
<1>2. indirect_count(l) \in Nat /\ y \in Nat
  BY Counts, RangeIs DEF VisitPre
<1>3. Hi(cur, FirstBlock(pos)) < Lo(cur + indirect_count(l), y)
  BY DEF VisitPre
<1>4. cur < y
  <2>1. FirstBlock(pos) \in Nat
    BY RangeIs DEF VisitPre
  <2> HIDE DEF y
  <2> QED BY <2>1, <1>2, <1>3 DEF Hi, Lo
<1> HIDE DEF y
<1>5. cur < n /\ cur \in Int /\ n \in Int
  BY <1>1, <1>2, <1>4
<1>6. Whole /\ Whole \in BOOLEAN
  BY DEF Whole
<1>7. b # EOF
  BY <1>1, <1>5, <1>6, FitsRoot
<1> QED BY <1>7 DEF VisitPre, Node

(* VisitData keeps its promise.                                            *)
LEMMA VisitZero ==
  ASSUME NEW st, NEW b, NEW cur \in Nat, NEW pos \in Nat, NEW endpos \in Nat,
         VisitPre(st, b, cur, 0, pos, endpos)
  PROVE  VisitPost(st, b, cur, 0, pos, endpos, VisitData(st, b, cur, pos, endpos))
<1> DEFINE x == FirstBlock(pos)
           y == EndBlock(endpos)
           leaf == [block |-> b, idx |-> cur]
           v == VisitData(st, b, cur, pos, endpos)
           p == BS * cur
<1>0. b # EOF /\ b \in Blocks /\ pos < endpos
  BY VisitRoot, 0 \in 0 .. 3 DEF VisitPre
<1>1. x \in Nat /\ y \in Nat
  BY <1>0, RangeIs
<1>2. x <= cur /\ cur < y
  BY <1>1, Counts DEF VisitPre, Hi, Lo
<1>3. /\ v.ok /\ v.leaves = <<leaf>>
      /\ v.size = Min({cur * BS + BS, endpos}) - Max({cur * BS, pos})
  BY <1>0 DEF VisitData, lo, hi
<1>B. BS \in Nat /\ BS > 0 /\ p \in Nat /\ cur * BS = p /\ BS * (cur + 1) = p + BS
  BY Constants
<1>4. Hi(cur, x) = cur /\ Lo(cur + indirect_count(0), y) = cur + 1
  BY <1>1, <1>2, Counts DEF Hi, Lo
<1>5. BS * (cur + 1) > pos /\ p < endpos
  <2>1. cur + 1 \in Nat /\ x < cur + 1
    BY <1>1, <1>2
  <2> QED BY <2>1, <1>0, <1>2, ReachedIs
<1>6. v.size = Reached(cur + 1, pos, endpos) - Reached(cur, pos, endpos)
  <2>1. v.size = Min({p + BS, endpos}) - Max({p, pos})
    BY <1>3, <1>B
  <2>2. Reached(cur + 1, pos, endpos) = Lo(Hi(p + BS, pos), endpos)
    BY <1>B DEF Reached
  <2>3. Reached(cur, pos, endpos) = Lo(Hi(p, pos), endpos)
    BY DEF Reached
  <2>4. p + BS > pos
    BY <1>5, <1>B
  <2> HIDE DEF p, v
  <2>5. Min({p + BS, endpos}) = Lo(Hi(p + BS, pos), endpos)
    <3>1. p + BS \in Nat
      BY <1>B
    <3>2. Min({p + BS, endpos}) = IF p + BS <= endpos THEN p + BS ELSE endpos
      BY <3>1, MinTwo
    <3> QED BY <3>1, <3>2, <2>4 DEF Hi, Lo
  <2>6. Max({p, pos}) = Lo(Hi(p, pos), endpos)
    <3>2. Max({p, pos}) = IF p <= pos THEN pos ELSE p
      BY <1>B, MaxTwo
    <3> QED BY <3>2, <1>0, <1>5, <1>B DEF Hi, Lo
  <2> QED BY <2>1, <2>2, <2>3, <2>5, <2>6
<1>7. leaf \in LeafType
  BY <1>0 DEF LeafType
<1> HIDE DEF leaf
<1>8. <<leaf>> \in Seq(LeafType) /\ Range(<<leaf>>) = {leaf}
  <2>1. DOMAIN <<leaf>> = {1} /\ <<leaf>>[1] = leaf
    OBVIOUS
  <2> QED BY <2>1, <1>7 DEF Range
<1>9. Leaves(st.ind, b, 0, cur, x, y) = {leaf}
  BY <1>2, LeavesZero, cur \in Int DEF leaf
<1> HIDE DEF v, x, y
<1> QED BY <1>3, <1>4, <1>6, <1>8, <1>9 DEF VisitPost, x, y, v

(* The loop over the children, when those before i are done.               *)
VisitInv(st, b, cur, l, pos, endpos, i, r) ==
  LET s == indirect_count(l - 1)
      x == FirstBlock(pos)
      y == EndBlock(endpos)
  IN  /\ r.ok
      /\ r.size = Reached(Hi(Hi(cur, x), Lo(cur + s * i, y)), pos, endpos)
                  - Reached(Hi(cur, x), pos, endpos)
      /\ r.leaves \in Seq(LeafType)
      /\ \A leaf : leaf \in Range(r.leaves) <=>
           \E c \in 0 .. i - 1 : leaf \in Leaves(st.ind, st.ind[b][c], l - 1, cur + s * c, x, y)

(* One child: the invariant goes on from child i to child i + 1.           *)
LEMMA VisitStep ==
  ASSUME NEW l \in 1 .. 3, VisitsRight(l - 1),
         NEW st, NEW b, NEW cur \in Nat, NEW pos \in Nat, NEW endpos \in Nat,
         VisitPre(st, b, cur, l, pos, endpos), NEW i \in Children, NEW r,
         VisitInv(st, b, cur, l, pos, endpos, i, r)
  PROVE  VisitInv(st, b, cur, l, pos, endpos, i + 1, VisitOne(r, i, l, st, b, cur, pos, endpos))
<1> DEFINE s == indirect_count(l - 1)
           x == FirstBlock(pos)
           y == EndBlock(endpos)
           M == Hi(cur, x)
           at == cur + s * i
           in == i \in FirstChild(cur, s, x) .. LastChild(cur, s, y)
           q == VisitOne(r, i, l, st, b, cur, pos, endpos)
           F(c) == Leaves(st.ind, st.ind[b][c], l - 1, cur + s * c, x, y)
           reach == Hi(M, Lo(at, y))
           next == Hi(M, Lo(at + s, y))
<1> SUFFICES VisitInv(st, b, cur, l, pos, endpos, i + 1, q)
  OBVIOUS
<1>L. l - 1 \in 0 .. 3 /\ l \in 0 .. 3 /\ i \in Nat
  BY Constants
<1>P. /\ st.ind \in Ptrs /\ b \in Blocks /\ b # EOF /\ pos < endpos
      /\ M < Lo(cur + indirect_count(l), y)
  BY <1>L, VisitRoot DEF VisitPre
<1>X. x \in Nat /\ y \in Nat /\ x < y
  BY <1>P, RangeIs
<1>N. PICK n \in Nat : y <= n /\ Fits(Whole, st.ind, b, l, cur, n)
  BY DEF VisitPre
<1>0. /\ s \in Nat /\ s > 0 /\ M \in Nat /\ at \in Nat
      /\ cur + s * (i + 1) = at + s
  <2>1. s \in Nat /\ s > 0
    BY <1>L, Counts
  <2>2. s * i \in Nat /\ s * (i + 1) = s * i + s
    BY <2>1, <1>L
  <2>3. M \in Nat
    BY <1>X DEF Hi
  <2> QED BY <2>1, <2>2, <2>3
<1>1. /\ r.ok
      /\ r.size = Reached(reach, pos, endpos) - Reached(M, pos, endpos)
      /\ r.leaves \in Seq(LeafType)
      /\ \A leaf : leaf \in Range(r.leaves) <=> \E c \in 0 .. i - 1 : leaf \in F(c)
  BY DEF VisitInv
<1>R. reach \in Nat
  <2> HIDE DEF M, at, y
  <2> QED BY <1>0, <1>X DEF Hi, Lo
<1>2. /\ cur <= at /\ at + s <= cur + indirect_count(l)
      /\ in => reach = Hi(at, x) /\ Hi(at, x) < Lo(at + s, y)
      /\ in => Lo(at + s, y) = next
      /\ ~in => reach = next
      /\ in <=> at < y /\ x < at + s
  <2> DEFINE G(o, t) == LET u == indirect_count(l - 1)
                            v == cur + u * i
                            w == i \in FirstChild(cur, u, o) .. LastChild(cur, u, y)
                        IN  /\ v \in Nat /\ u \in Nat /\ u > 0 /\ cur <= v
                            /\ v + u <= cur + indirect_count(l)
                            /\ cur + u * (i + 1) = v + u
                            /\ w => t = Hi(v, o) /\ Hi(v, o) < Lo(v + u, y)
                            /\ w => Lo(v + u, y) = Hi(Hi(cur, o), Lo(v + u, y))
                            /\ ~w => t = Hi(Hi(cur, o), Lo(v + u, y))
  <2>1. G(x, reach)
    <3> HIDE DEF x, y
    <3> QED BY <1>P, <1>R, <1>X, GrowAt
  <2>2. cur < y /\ x < cur + indirect_count(l)
    <3>1. indirect_count(l) \in Nat
      BY <1>L, Counts
    <3> HIDE DEF x, y
    <3> QED BY <3>1, <1>P, <1>X DEF Hi, Lo
  <2>3. in <=> at < y /\ x < at + s
    <3> HIDE DEF x, y
    <3> QED BY <1>X, <2>2, ChildRange
  <2> QED BY <2>1, <2>3
<1>U. \A leaf : (\E c \in 0 .. (i + 1) - 1 : leaf \in F(c))
                <=> (\E c \in 0 .. i - 1 : leaf \in F(c)) \/ leaf \in F(i)
  <2>1. 0 .. (i + 1) - 1 = (0 .. i - 1) \cup {i}
    BY <1>L
  <2> HIDE DEF F
  <2> QED BY <2>1
<1>S. VisitInv(st, b, cur, l, pos, endpos, i + 1, q) <=>
        /\ q.ok
        /\ q.size = Reached(next, pos, endpos) - Reached(M, pos, endpos)
        /\ q.leaves \in Seq(LeafType)
        /\ \A leaf : leaf \in Range(q.leaves) <=> \E c \in 0 .. (i + 1) - 1 : leaf \in F(c)
  <2>1. Hi(M, Lo(cur + s * (i + 1), y)) = next
    BY <1>0
  <2> QED BY <2>1 DEF VisitInv
<1>V. q = IF in THEN WithVisited(r, inode_indirect_readwrite(st, st.ind[b][i], cur + i * s, l - 1, pos, endpos))
          ELSE r
  <2>1. /\ FirstVisited(cur, s, pos) = FirstChild(cur, s, x)
        /\ LastVisited(cur, s, endpos) = LastChild(cur, s, y)
    BY <1>0, <1>P, VisitedIs
  <2> QED BY <2>1 DEF VisitOne
<1>3. CASE ~in
  <2>1. q = r
    BY <1>3, <1>V
  <2>2. F(i) = {}
    <3>1. y <= at \/ at + s <= x
      <4> HIDE DEF in, at, x, y, s
      <4> QED BY <1>0, <1>2, <1>3, <1>X
    <3>2. at \in Int /\ x \in Int /\ y \in Int
      BY <1>0, <1>X
    <3> HIDE DEF x, y
    <3> QED BY <3>1, <3>2, <1>L, NoLeaves
  <2>3. reach = next
    BY <1>2, <1>3
  <2> HIDE DEF q, F, reach, next
  <2> QED BY <1>1, <1>S, <1>U, <2>1, <2>2, <2>3
<1>4. CASE in
  <2> DEFINE a == st.ind[b][i]
             v == inode_indirect_readwrite(st, a, at, l - 1, pos, endpos)
  <2>1. q = WithVisited(r, v)
    <3>1. cur + i * s = at
      BY <1>0, <1>L
    <3> QED BY <3>1, <1>4, <1>V
  <2>2. reach = Hi(at, x) /\ Hi(at, x) < Lo(at + s, y) /\ Lo(at + s, y) = next
    BY <1>2, <1>4
  <2>3. a \in Node
    BY <1>P DEF Ptrs
  <2>4. Fits(Whole, st.ind, a, l - 1, at, n)
    <3>1. cur \in Int /\ n \in Int
      OBVIOUS
    <3>2. \A c \in Children : Fits(Whole, st.ind, st.ind[b][c], l - 1, cur + indirect_count(l - 1) * c, n)
      BY <1>N, <1>P, <3>1, FitsStep, WholeIs
    <3> QED BY <3>2
  <2>5. VisitPre(st, a, at, l - 1, pos, endpos)
    BY <1>N, <1>P, <2>2, <2>3, <2>4 DEF VisitPre
  <2>6. VisitPost(st, a, at, l - 1, pos, endpos, v)
    <3> HIDE DEF a, at
    <3> QED BY <2>5, <1>0 DEF VisitsRight
  <2> HIDE DEF v, q
  <2>7. /\ v.ok
        /\ v.size = Reached(next, pos, endpos) - Reached(reach, pos, endpos)
        /\ v.leaves \in Seq(LeafType)
        /\ Range(v.leaves) = F(i)
    BY <2>2, <2>6 DEF VisitPost
  <2>8. q.leaves = r.leaves \o v.leaves /\ q.size = r.size + v.size /\ q.ok = (r.ok /\ v.ok)
    BY <2>1 DEF WithVisited
  <2>9. q.leaves \in Seq(LeafType) /\ Range(q.leaves) = Range(r.leaves) \cup Range(v.leaves)
    BY <1>1, <2>7, <2>8, ConcatRange
  <2>10. q.size = Reached(next, pos, endpos) - Reached(M, pos, endpos)
    <3>1. next \in Nat
      <4> HIDE DEF M, at, y, s
      <4> QED BY <1>0, <1>X DEF Hi, Lo
    <3> HIDE DEF M, next, reach
    <3>2. Reached(next, pos, endpos) \in Nat /\ Reached(reach, pos, endpos) \in Nat /\ Reached(M, pos, endpos) \in Nat
      BY <3>1, <1>0, <1>P, <1>R, ReachedIs
    <3> QED BY <3>2, <1>1, <2>7, <2>8
  <2>11. \A leaf : leaf \in Range(q.leaves) <=> \E c \in 0 .. (i + 1) - 1 : leaf \in F(c)
    <3> HIDE DEF F
    <3> QED BY <1>1, <1>U, <2>7, <2>9
  <2>12. q.ok
    BY <1>1, <2>7, <2>8
  <2> HIDE DEF F, reach, next, M
  <2> QED BY <1>S, <2>9, <2>10, <2>11, <2>12
<1> QED BY <1>3, <1>4

(* One level up.                                                           *)
LEMMA VisitLevel ==
  ASSUME NEW l \in 1 .. 3, VisitsRight(l - 1)
  PROVE  VisitsRight(l)
<1> SUFFICES ASSUME NEW st, NEW b, NEW cur \in Nat, NEW pos \in Nat, NEW endpos \in Nat,
                    VisitPre(st, b, cur, l, pos, endpos)
             PROVE  VisitPost(st, b, cur, l, pos, endpos,
                              inode_indirect_readwrite(st, b, cur, l, pos, endpos))
  BY DEF VisitsRight
<1> DEFINE s == indirect_count(l - 1)
           x == FirstBlock(pos)
           y == EndBlock(endpos)
           M == Hi(cur, x)
           E == cur + indirect_count(l)
           F == VisitRun(st, b, l, cur, pos, endpos)
           S == {i \in 0 .. W : ~VisitInv(st, b, cur, l, pos, endpos, i, F[i])}
           K(c) == Leaves(st.ind, st.ind[b][c], l - 1, cur + s * c, x, y)
<1>L. l - 1 \in 0 .. 3 /\ l \in 0 .. 3 /\ W \in Nat /\ W > 0 /\ cur \in Int
  BY Constants
<1>P. b # EOF /\ pos < endpos /\ M < Lo(E, y)
  BY <1>L, VisitRoot DEF VisitPre
<1>X. x \in Nat /\ y \in Nat /\ x < y
  BY <1>P, RangeIs
<1>0. s \in Nat /\ s > 0 /\ E = cur + s * W /\ E \in Nat /\ M \in Nat
  <2>1. s \in Nat /\ s > 0 /\ indirect_count(l) = W * s
    BY <1>L, Counts
  <2> HIDE DEF s
  <2>2. s * W = W * s /\ W * s \in Nat
    BY <2>1, <1>L
  <2> QED BY <2>1, <2>2, <1>X DEF Hi
<1>1. inode_indirect_readwrite(st, b, cur, l, pos, endpos) = F[W]
  BY <1>P, VisitIs
<1>2. F[0] = NothingVisited /\ \A i \in 1 .. W : F[i] = VisitOne(F[i - 1], i - 1, l, st, b, cur, pos, endpos)
  BY VisitRunIs
<1> HIDE DEF F
<1>3. VisitInv(st, b, cur, l, pos, endpos, 0, F[0])
  <2>1. F[0].ok /\ F[0].size = 0 /\ F[0].leaves = <<>>
    BY <1>2 DEF NothingVisited
  <2>2. <<>> \in Seq(LeafType) /\ Range(<<>>) = {}
    BY DEF Range
  <2>3. Hi(M, Lo(cur + s * 0, y)) = M
    <3>1. s * 0 = 0
      BY <1>0
    <3> QED BY <3>1, <1>0, <1>X DEF Hi, Lo
  <2>4. Reached(M, pos, endpos) \in Nat
    BY <1>0, <1>P, ReachedIs
  <2>5. 0 = Reached(Hi(M, Lo(cur + s * 0, y)), pos, endpos) - Reached(M, pos, endpos)
    BY <2>3, <2>4
  <2>6. \A leaf : leaf \in Range(F[0].leaves) <=> \E c \in 0 .. 0 - 1 : leaf \in K(c)
    BY <2>1, <2>2
  <2> QED BY <2>1, <2>2, <2>5, <2>6 DEF VisitInv
<1>4. S = {}
  <2> SUFFICES ASSUME S # {} PROVE FALSE
    OBVIOUS
  <2>1. S \in SUBSET Nat
    OBVIOUS
  <2>2. PICK m \in S : \A k \in S : m <= k
    BY <2>1, Least
  <2>3. m \in 1 .. W
    BY <2>2, <1>3
  <2>4. m - 1 \in 0 .. W /\ m - 1 \notin S /\ m - 1 \in Children /\ (m - 1) + 1 = m
    BY <2>2, <2>3, <1>L DEF Children
  <2>5. VisitInv(st, b, cur, l, pos, endpos, m - 1, F[m - 1])
    BY <2>4
  <2> DEFINE c == m - 1
             r == F[c]
  <2>6. VisitInv(st, b, cur, l, pos, endpos, c, r) /\ c \in Children
    BY <2>4, <2>5
  <2>7. F[m] = VisitOne(r, c, l, st, b, cur, pos, endpos)
    BY <2>3, <1>2
  <2>8. c + 1 = m
    BY <2>4
  <2> HIDE DEF c, r
  <2>9. VisitInv(st, b, cur, l, pos, endpos, c + 1, VisitOne(r, c, l, st, b, cur, pos, endpos))
    BY <2>6, VisitStep
  <2> QED BY <2>2, <2>7, <2>8, <2>9
<1> DEFINE v == F[W]
<1>5. VisitInv(st, b, cur, l, pos, endpos, W, v)
  BY <1>L, <1>4
<1> HIDE DEF v
<1>6. /\ v.ok
      /\ v.size = Reached(Hi(M, Lo(cur + s * W, y)), pos, endpos) - Reached(M, pos, endpos)
      /\ v.leaves \in Seq(LeafType)
      /\ \A leaf : leaf \in Range(v.leaves) <=> \E c \in 0 .. W - 1 : leaf \in K(c)
  BY <1>5 DEF VisitInv
<1>7. Hi(M, Lo(cur + s * W, y)) = Lo(E, y)
  <2>1. Hi(M, Lo(E, y)) = Lo(E, y)
    <3> HIDE DEF M, E
    <3> QED BY <1>0, <1>P, <1>X DEF Hi, Lo
  <2> QED BY <2>1, <1>0
<1>8. Range(v.leaves) = Leaves(st.ind, b, l, cur, x, y)
  <2>1. Leaves(st.ind, b, l, cur, x, y) = UNION {K(c) : c \in Children}
    BY <1>L, <1>P, LeavesStep
  <2>2. \A leaf : leaf \in Range(v.leaves) <=> \E c \in Children : leaf \in K(c)
    BY <1>6 DEF Children
  <2> QED BY <2>1, <2>2
<1>9. VisitPost(st, b, cur, l, pos, endpos, v)
  BY <1>6, <1>7, <1>8 DEF VisitPost
<1> QED BY <1>1, <1>9 DEF v

(* What inode_indirect_readwrite promises, at every level.                 *)
LEMMA Visits ==
  ASSUME NEW l \in 0 .. 3
  PROVE  VisitsRight(l)
<1>0. VisitsRight(0)
  <2>1. \A st, b, cur, pos, endpos :
          inode_indirect_readwrite(st, b, cur, 0, pos, endpos) = VisitData(st, b, cur, pos, endpos)
    BY DEF inode_indirect_readwrite
  <2> QED BY <2>1, VisitZero DEF VisitsRight
<1>1. VisitsRight(1)
  BY <1>0, VisitLevel, 1 - 1 = 0, 1 \in 1 .. 3
<1>2. VisitsRight(2)
  BY <1>1, VisitLevel, 2 - 1 = 1, 2 \in 1 .. 3
<1>3. VisitsRight(3)
  BY <1>2, VisitLevel, 3 - 1 = 2, 3 \in 1 .. 3
<1>4. l = 0 \/ l = 1 \/ l = 2 \/ l = 3
  OBVIOUS
<1> QED BY <1>0, <1>1, <1>2, <1>3, <1>4

-----------------------------------------------------------------------------
(* The slot of the data block after those of a slot is the next.           *)
LEMMA SlotAfter ==
  ASSUME NEW s \in Slots, SlotEnd(s) < Top
  PROVE  s + 1 \in Slots /\ blockidx2blockslot(SlotEnd(s)) = s + 1
         /\ blockslot2firstblockidx(s + 1) = SlotEnd(s)
<1> DEFINE k == SlotEnd(s)
           t == blockidx2blockslot(k)
<1>1. /\ s \in Nat /\ Top \in Nat /\ k \in Nat
      /\ s = D + 2 => k = Top
      /\ s # D + 2 => s + 1 \in Slots /\ blockslot2firstblockidx(s + 1) = k
  BY SlotIs
<1>2. s + 1 \in Slots /\ blockslot2firstblockidx(s + 1) = k
  <2> HIDE DEF k
  <2>1. k < Top
    BY DEF k
  <2> QED BY <1>1, <2>1
<1>3. t \in Slots /\ blockslot2firstblockidx(t) <= k /\ k < SlotEnd(t)
  BY <1>1, SlotOf
<1> HIDE DEF t, k
<1>4. t = s + 1
  <2>0. /\ t \in Nat /\ s + 1 \in Nat /\ SlotEnd(t) \in Nat /\ SlotEnd(s + 1) \in Nat
        /\ blockslot2firstblockidx(t) \in Nat
        /\ blockslot2firstblockidx(s + 1) < SlotEnd(s + 1)
    BY <1>2, <1>3, SlotIs
  <2>1. CASE t < s + 1
    <3>1. SlotEnd(t) <= blockslot2firstblockidx(s + 1)
      BY <1>2, <1>3, <2>1, SlotGap
    <3> QED BY <3>1, <2>0, <1>1, <1>2, <1>3
  <2>2. CASE s + 1 < t
    <3>1. SlotEnd(s + 1) <= blockslot2firstblockidx(t)
      BY <1>2, <1>3, <2>2, SlotGap
    <3> QED BY <3>1, <2>0, <1>1, <1>2, <1>3
  <2> QED BY <2>0, <2>1, <2>2
<1> QED BY <1>2, <1>4 DEF t, k

(* The block at the offset that the blocks before it reach.                *)
LEMMA BlockReached ==
  ASSUME NEW a \in Nat, NEW b \in Nat, a < b, NEW k \in Nat, FirstBlock(a) <= k
  PROVE  /\ Reached(k, a, b) \in Nat
         /\ k < EndBlock(b) => offset2blockidx(Reached(k, a, b)) = k /\ Reached(k, a, b) < b
         /\ k >= EndBlock(b) => Reached(k, a, b) = b
<1> DEFINE x == FirstBlock(a)
           p == Reached(k, a, b)
<1>1. /\ p \in Nat /\ a <= p /\ p <= b
      /\ k <= x => p = a
      /\ k >= EndBlock(b) => p = b
      /\ x < k => BS * k > a
      /\ k < EndBlock(b) => BS * k < b
  BY ReachedIs
<1>2. p = Lo(Hi(BS * k, a), b)
  BY DEF Reached
<1>3. BS \in Nat \ {0} /\ BS * k \in Nat
  BY Constants
<1>4. x \in Nat /\ x = a \div BS
  BY RangeIs DEF FirstBlock
<1>5. ASSUME k < EndBlock(b) PROVE p \div BS = k /\ p < b
  <2>1. CASE k = x
    BY <2>1, <1>1, <1>4
  <2>2. CASE x < k
    <3> DEFINE m == BS * k
    <3>1. m > a /\ m < b /\ m \in Nat
      BY <2>2, <1>1, <1>3, <1>5
    <3> HIDE DEF m
    <3>2. Lo(Hi(m, a), b) = m
      BY <3>1 DEF Hi, Lo
    <3>3. p = BS * k
      BY <3>2, <1>2 DEF m
    <3>4. p \div BS = k
      <4>0. p \in Nat
        BY <1>1
      <4> DEFINE q == p \div BS
                 z == p % BS
      <4>1. q \in Nat /\ z \in 0 .. BS - 1 /\ p = BS * q + z
        BY <1>3, <4>0, DivMod
      <4> HIDE DEF p
      <4>2. BS * k + 0 = BS * q + z /\ 0 \in 0 .. BS - 1
        BY <1>3, <3>3, <4>1
      <4> HIDE DEF q, z
      <4>3. k = q
        BY <1>3, <4>1, <4>2, DivisionUnique
      <4> QED BY <4>3 DEF q
    <3> QED BY <3>1, <3>3, <3>4 DEF m
  <2> QED BY <2>1, <2>2, <1>4
<1> HIDE DEF p
<1> QED BY <1>1, <1>5 DEF p, offset2blockidx

-----------------------------------------------------------------------------
(* The data blocks of a file with an index from x up to y.                 *)
FileLeaves(ptrs, R, x, y) ==
  UNION {Leaves(ptrs, R[s], SlotLevel(s), blockslot2firstblockidx(s), x, y) : s \in Slots}

(* A file that has all its data blocks up to the end of the range.         *)
HasRange(st, R, a, b) ==
  /\ st.ind \in Ptrs /\ R \in [Slots -> Node]
  /\ a < b
  /\ \E n \in Nat : EndBlock(b) <= n /\ n <= Top /\ FitsAll(Whole, st.ind, R, n)

(* The rounds of the loop over the slots that visits, n of them done: the  *)
(* data blocks before the one at index k, in the slots before slot u.      *)
VisitsInv(st, R, a, b, n, v, k, u) ==
  LET x == FirstBlock(a)
      y == EndBlock(b)
  IN  /\ v.ok
      /\ v.leaves \in Seq(LeafType)
      /\ k \in Nat /\ u \in Nat /\ x <= k /\ k <= y
      /\ v.curpos = Reached(k, a, b)
      /\ \A leaf : leaf \in Range(v.leaves) <=>
           \E t \in Slots : t < u /\ leaf \in Leaves(st.ind, R[t], SlotLevel(t),
                                                     blockslot2firstblockidx(t), x, y)
      /\ k < y => /\ u = blockidx2blockslot(k) /\ n <= u /\ v.last \in {-1, u - 1}
                  /\ k = Hi(blockslot2firstblockidx(u), x)
      /\ k = y => \A t \in Slots : t >= u => y <= blockslot2firstblockidx(t)

(* Before the first slot.                                                  *)
LEMMA VisitsBegin ==
  ASSUME NEW st, NEW R, NEW a \in Nat, NEW b \in Nat, HasRange(st, R, a, b)
  PROVE  VisitsInv(st, R, a, b, 0, NotVisited(a), FirstBlock(a), blockidx2blockslot(FirstBlock(a)))
<1> DEFINE x == FirstBlock(a)
           y == EndBlock(b)
           u == blockidx2blockslot(x)
           v == NotVisited(a)
<1>0. a < b
  BY DEF HasRange
<1>1. x \in Nat /\ y \in Nat /\ x < y
  BY <1>0, RangeIs
<1>2. v.ok /\ v.leaves = <<>> /\ v.curpos = a /\ v.last = -1
  BY DEF NotVisited
<1> HIDE DEF v
<1>3. Reached(x, a, b) = a
  BY <1>0, <1>1, ReachedIs
<1>4. x < Top
  <2>1. PICK n \in Nat : y <= n /\ n <= Top
    BY DEF HasRange
  <2>2. Top \in Nat
    BY MAXIs
  <2> HIDE DEF x, y
  <2> QED BY <1>1, <2>1, <2>2
<1>5. u \in Slots /\ blockslot2firstblockidx(u) <= x /\ x < SlotEnd(u)
  BY <1>1, <1>4, SlotOf
<1> HIDE DEF x, u, y
<1>6. u \in Nat /\ blockslot2firstblockidx(u) \in Nat
  BY <1>5, SlotIs
<1>7. ASSUME NEW t \in Slots, t < u
      PROVE  Leaves(st.ind, R[t], SlotLevel(t), blockslot2firstblockidx(t), x, y) = {}
  <2> DEFINE l == SlotLevel(t)
             c == blockslot2firstblockidx(t)
  <2>1. /\ l \in 0 .. 3 /\ c \in Int /\ SlotEnd(t) = c + indirect_count(l) /\ SlotEnd(t) \in Nat
        /\ SlotEnd(t) <= blockslot2firstblockidx(u)
    BY <1>5, <1>7, SlotIs, SlotGap DEF SlotEnd
  <2> HIDE DEF l, c
  <2>2. c + indirect_count(l) <= x /\ x \in Int /\ y \in Int
    BY <2>1, <1>1, <1>5, <1>6
  <2>3. Leaves(st.ind, R[t], l, c, x, y) = {}
    BY <2>1, <2>2, NoLeaves
  <2> QED BY <2>3 DEF l, c
<1>8. <<>> \in Seq(LeafType) /\ Range(<<>>) = {}
  BY DEF Range
<1>9. x = Hi(blockslot2firstblockidx(u), x)
  BY <1>1, <1>5, <1>6 DEF Hi
<1>10. \A leaf : leaf \in Range(v.leaves) <=>
         \E t \in Slots : t < u /\ leaf \in Leaves(st.ind, R[t], SlotLevel(t),
                                                   blockslot2firstblockidx(t), x, y)
  BY <1>2, <1>7, <1>8
<1>11. VisitsInv(st, R, a, b, 0, v, x, u) <=>
         /\ v.ok
         /\ v.leaves \in Seq(LeafType)
         /\ x \in Nat /\ u \in Nat /\ x <= x /\ x <= y
         /\ v.curpos = Reached(x, a, b)
         /\ \A leaf : leaf \in Range(v.leaves) <=>
              \E t \in Slots : t < u /\ leaf \in Leaves(st.ind, R[t], SlotLevel(t),
                                                        blockslot2firstblockidx(t), x, y)
         /\ x < y => /\ u = blockidx2blockslot(x) /\ 0 <= u /\ v.last \in {-1, u - 1}
                     /\ x = Hi(blockslot2firstblockidx(u), x)
         /\ x = y => \A t \in Slots : t >= u => y <= blockslot2firstblockidx(t)
  BY DEF VisitsInv, x, y
<1>12. u = blockidx2blockslot(x)
  BY DEF u
<1>13. VisitsInv(st, R, a, b, 0, v, x, u)
  BY <1>1, <1>2, <1>3, <1>6, <1>8, <1>9, <1>10, <1>11, <1>12
<1> QED BY <1>13 DEF v, x, u

(* One round: the order of the slots is right, and the invariant goes on.  *)
LEMMA VisitsStep ==
  ASSUME NEW st, NEW R, NEW a \in Nat, NEW b \in Nat, HasRange(st, R, a, b),
         NEW n \in Nat, NEW v, NEW k, NEW u, VisitsInv(st, R, a, b, n, v, k, u)
  PROVE  \E h, w : VisitsInv(st, R, a, b, n + 1, VisitRound(st, R, v, b, a, b), h, w)
<1> DEFINE x == FirstBlock(a)
           y == EndBlock(b)
           K(t) == Leaves(st.ind, R[t], SlotLevel(t), blockslot2firstblockidx(t), x, y)
           q == VisitRound(st, R, v, b, a, b)
<1>0. st.ind \in Ptrs /\ R \in [Slots -> Node] /\ a < b
  BY DEF HasRange
<1>N. PICK m \in Nat : y <= m /\ m <= Top /\ FitsAll(Whole, st.ind, R, m)
  BY DEF HasRange
<1>1. x \in Nat /\ y \in Nat /\ x < y
  BY <1>0, RangeIs
<1>2. /\ v.ok
      /\ v.leaves \in Seq(LeafType)
      /\ k \in Nat /\ u \in Nat /\ x <= k /\ k <= y
      /\ v.curpos = Reached(k, a, b)
      /\ \A leaf : leaf \in Range(v.leaves) <=> \E t \in Slots : t < u /\ leaf \in K(t)
      /\ k < y => /\ u = blockidx2blockslot(k) /\ n <= u /\ v.last \in {-1, u - 1}
                  /\ k = Hi(blockslot2firstblockidx(u), x)
      /\ k = y => \A t \in Slots : t >= u => y <= blockslot2firstblockidx(t)
  BY DEF VisitsInv
<1>3. /\ Reached(k, a, b) \in Nat
      /\ k < y => offset2blockidx(Reached(k, a, b)) = k /\ Reached(k, a, b) < b
      /\ k >= y => Reached(k, a, b) = b
  BY <1>0, <1>2, BlockReached
<1>4. CASE k = y
  <2>1. q = v
    BY <1>2, <1>3, <1>4 DEF VisitRound
  <2> HIDE DEF q
  <2>2. VisitsInv(st, R, a, b, n + 1, q, k, u)
    BY <1>1, <1>2, <1>4, <2>1 DEF VisitsInv
  <2> QED BY <2>2 DEF q
<1>5. CASE k < y
  <2> DEFINE l == SlotLevel(u)
             A == blockslot2firstblockidx(u)
             B == SlotEnd(u)
             r == inode_indirect_readwrite(st, R[u], A, l, a, b)
             next == Lo(B, y)
             w == u + 1
  <2>1. k < Top /\ Top \in Nat
    <3>2. Top \in Nat
      BY MAXIs
    <3>3. y <= m /\ m <= Top
      BY <1>N
    <3>4. k \in Nat
      BY <1>2
    <3> HIDE DEF x, y
    <3> QED BY <1>1, <1>5, <3>2, <3>3, <3>4
  <2>2. u \in Slots /\ indirection_level(k) = l /\ A <= k /\ k < B /\ u = blockidx2blockslot(k)
    BY <2>1, <1>2, <1>5, SlotOf
  <2>3. /\ l \in 0 .. 3 /\ A \in Nat /\ B \in Nat /\ B = A + indirect_count(l)
        /\ indirect_count(l) \in Nat
    BY <2>2, SlotIs DEF SlotEnd
  <2>4. k = Hi(A, x) /\ k < next /\ next \in Nat /\ next <= y
    <3> HIDE DEF A, B, y, x
    <3> QED BY <1>1, <1>2, <1>5, <2>2, <2>3 DEF Lo, A
  <2>5. VisitPre(st, R[u], A, l, a, b)
    <3>1. R[u] \in Node
      BY <1>0, <2>2
    <3>2. Fits(Whole, st.ind, R[u], l, A, m)
      BY <1>N, <2>2 DEF FitsAll
    <3>3. Hi(A, x) < Lo(A + indirect_count(l), y)
      BY <2>3, <2>4
    <3> HIDE DEF A, l
    <3> QED BY <1>0, <1>N, <3>1, <3>2, <3>3 DEF VisitPre
  <2>6. VisitPost(st, R[u], A, l, a, b, r)
    <3>1. VisitsRight(l)
      BY <2>3, Visits
    <3> HIDE DEF A, l
    <3>2. A \in Nat
      BY <2>3
    <3> QED BY <2>5, <3>1, <3>2 DEF VisitsRight
  <2>7. q = [leaves |-> v.leaves \o r.leaves, curpos |-> v.curpos + r.size,
             ok |-> r.ok /\ v.last \in {-1, u - 1}, last |-> u]
    <3>1. q = VisitSlot(st, R, v, a, b)
      BY <1>2, <1>3, <1>5 DEF VisitRound
    <3>2. offset2blockidx(v.curpos) = k
      BY <1>2, <1>3, <1>5
    <3> QED BY <3>1, <3>2, <2>2 DEF VisitSlot
  <2> HIDE DEF r, q
  <2>8. /\ r.ok
        /\ r.size = Reached(next, a, b) - Reached(k, a, b)
        /\ r.leaves \in Seq(LeafType)
        /\ Range(r.leaves) = K(u)
    <3>1. Lo(A + indirect_count(l), y) = next
      BY <2>3
    <3> QED BY <3>1, <2>4, <2>6 DEF VisitPost
  <2>9. /\ q.leaves = v.leaves \o r.leaves /\ q.curpos = v.curpos + r.size
        /\ q.ok = (r.ok /\ v.last \in {-1, u - 1}) /\ q.last = u
    BY <2>7
  <2>10. q.leaves \in Seq(LeafType) /\ Range(q.leaves) = Range(v.leaves) \cup Range(r.leaves)
    BY <1>2, <2>8, <2>9, ConcatRange
  <2>11. q.curpos = Reached(next, a, b)
    <3>1. Reached(next, a, b) \in Nat
      BY <1>0, <2>4, ReachedIs
    <3> QED BY <3>1, <1>2, <1>3, <2>8, <2>9
  <2>12. \A leaf : leaf \in Range(q.leaves) <=> \E t \in Slots : t < w /\ leaf \in K(t)
    <3>1. \A t \in Slots : t < w <=> t < u \/ t = u
      <4>1. \A t \in Slots : t \in Nat
        BY SlotIs
      <4> QED BY <4>1, <1>2
    <3> HIDE DEF K, w
    <3> QED BY <3>1, <1>2, <2>2, <2>8, <2>10
  <2>13. ASSUME next < y
         PROVE  /\ w = blockidx2blockslot(next) /\ n + 1 <= w /\ q.last \in {-1, w - 1}
                /\ next = Hi(blockslot2firstblockidx(w), x)
    <3>1. next = B
      <4> HIDE DEF B, y
      <4> QED BY <2>3, <2>13, <1>1 DEF Lo
    <3>2. B < Top
      <4> HIDE DEF B, y
      <4> QED BY <3>1, <2>1, <2>3, <2>13, <1>1, <1>N
    <3>3. blockidx2blockslot(B) = w /\ blockslot2firstblockidx(w) = B
      BY <2>2, <3>2, SlotAfter
    <3>4. x < B
      <4> HIDE DEF B, x
      <4> QED BY <1>1, <1>2, <2>2, <2>3
    <3>5. Hi(B, x) = B
      <4> HIDE DEF B, x
      <4> QED BY <3>4, <1>1, <2>3 DEF Hi
    <3> QED BY <3>1, <3>3, <3>5, <1>2, <1>5, <2>9
  <2>14. ASSUME next = y, NEW t \in Slots, t >= w
         PROVE  y <= blockslot2firstblockidx(t)
    <3>0. t \in Nat /\ blockslot2firstblockidx(t) \in Nat
      BY SlotIs
    <3>1. u < t
      BY <3>0, <1>2, <2>14
    <3>2. B <= blockslot2firstblockidx(t)
      BY <2>2, <3>1, SlotGap
    <3>3. y <= B
      <4> HIDE DEF B, y
      <4> QED BY <2>3, <2>14, <1>1 DEF Lo
    <3> HIDE DEF B, y
    <3> QED BY <3>0, <3>2, <3>3, <2>3, <1>1
  <2>15. x <= next /\ w \in Nat
    <3> HIDE DEF next, x
    <3> QED BY <1>1, <1>2, <2>4
  <2>16. q.ok
    BY <1>2, <1>5, <2>8, <2>9
  <2>17. VisitsInv(st, R, a, b, n + 1, q, next, w) <=>
           /\ q.ok
           /\ q.leaves \in Seq(LeafType)
           /\ next \in Nat /\ w \in Nat /\ x <= next /\ next <= y
           /\ q.curpos = Reached(next, a, b)
           /\ \A leaf : leaf \in Range(q.leaves) <=> \E t \in Slots : t < w /\ leaf \in K(t)
           /\ next < y => /\ w = blockidx2blockslot(next) /\ n + 1 <= w /\ q.last \in {-1, w - 1}
                          /\ next = Hi(blockslot2firstblockidx(w), x)
           /\ next = y => \A t \in Slots : t >= w => y <= blockslot2firstblockidx(t)
    BY DEF VisitsInv
  <2> HIDE DEF next, w, x, y, K
  <2>18. VisitsInv(st, R, a, b, n + 1, q, next, w)
    BY <2>4, <2>10, <2>11, <2>12, <2>13, <2>14, <2>15, <2>16, <2>17
  <2> QED BY <2>18 DEF q
<1> QED BY <1>1, <1>2, <1>4, <1>5


(* The invariant of the rounds holds after each.                           *)
LEMMA VisitsGo ==
  ASSUME NEW st, NEW R, NEW a \in Nat, NEW b \in Nat, HasRange(st, R, a, b), NEW n \in 0 .. D + 3
  PROVE  \E k, u : VisitsInv(st, R, a, b, n, VisitRounds(st, R, a, b, a, b)[n], k, u)
<1> DEFINE F == VisitRounds(st, R, a, b, a, b)
           Fine(i) == \E k, u : VisitsInv(st, R, a, b, i, F[i], k, u)
           S == {i \in 0 .. D + 3 : ~Fine(i)}
<1>0. D + 3 \in Nat
  BY InodeAssumption
<1>1. /\ F[0] = NotVisited(a)
      /\ \A i \in 1 .. D + 3 : F[i] = VisitRound(st, R, F[i - 1], b, a, b)
  BY VisitRoundsIs
<1> HIDE DEF F
<1>2. Fine(0)
  BY <1>1, VisitsBegin
<1>3. ASSUME NEW i \in 1 .. D + 3, Fine(i - 1) PROVE Fine(i)
  <2>1. i - 1 \in Nat /\ (i - 1) + 1 = i
    OBVIOUS
  <2>2. PICK k, u : VisitsInv(st, R, a, b, i - 1, F[i - 1], k, u)
    BY <1>3
  <2>3. F[i] = VisitRound(st, R, F[i - 1], b, a, b)
    BY <1>1, <1>3
  <2> DEFINE m == i - 1
             v == F[m]
  <2>4. m \in Nat /\ VisitsInv(st, R, a, b, m, v, k, u)
    BY <2>1, <2>2
  <2>5. m + 1 = i /\ F[i] = VisitRound(st, R, v, b, a, b)
    BY <2>1, <2>3
  <2> HIDE DEF m, v
  <2>6. \E h, w : VisitsInv(st, R, a, b, m + 1, VisitRound(st, R, v, b, a, b), h, w)
    BY <2>4, VisitsStep
  <2> QED BY <2>5, <2>6
<1>4. S = {}
  <2> SUFFICES ASSUME S # {} PROVE FALSE
    OBVIOUS
  <2>0. S \subseteq Nat
    BY <1>0
  <2>1. PICK i \in S : \A j \in S : i <= j
    BY <2>0, Least
  <2>2. i \in 0 .. D + 3 /\ ~Fine(i)
    BY <2>1
  <2> HIDE DEF Fine
  <2>3. i # 0
    BY <2>2, <1>2
  <2>4. i \in 1 .. D + 3 /\ i - 1 \in 0 .. D + 3 /\ ~(i <= i - 1)
    BY <2>2, <2>3, <1>0
  <2>5. ~Fine(i - 1)
    BY <2>2, <2>4, <1>3
  <2>6. i - 1 \in S
    BY <2>4, <2>5
  <2> QED BY <2>1, <2>4, <2>6
<1> QED BY <1>4 DEF F

(* All that a read or a write is to visit it visits, each slot before the  *)
(* next one, and no assertion fails.                                       *)
VisitedAll(st, R, a, b, v) ==
  /\ v.ok /\ v.curpos = b
  /\ v.leaves \in Seq(LeafType)
  /\ Range(v.leaves) = FileLeaves(st.ind, R, FirstBlock(a), EndBlock(b))

LEMMA VisitRight ==
  ASSUME NEW st, NEW R, NEW a \in Nat, NEW b \in Nat, HasRange(st, R, a, b)
  PROVE  VisitedAll(st, R, a, b, Visit(st, R, a, b, a, b))
<1> DEFINE v == Visit(st, R, a, b, a, b)
           N == D + 3
           x == FirstBlock(a)
           y == EndBlock(b)
           K(t) == Leaves(st.ind, R[t], SlotLevel(t), blockslot2firstblockidx(t), x, y)
<1>0. N \in Nat /\ N \in 0 .. N /\ a < b
  BY InodeAssumption DEF HasRange
<1>1. v = VisitRounds(st, R, a, b, a, b)[N]
  BY VisitRoundsAre
<1>2. PICK k, u : VisitsInv(st, R, a, b, N, v, k, u)
  BY <1>0, <1>1, VisitsGo
<1> HIDE DEF v
<1>3. /\ v.ok
      /\ v.leaves \in Seq(LeafType)
      /\ k \in Nat /\ u \in Nat /\ x <= k /\ k <= y
      /\ v.curpos = Reached(k, a, b)
      /\ \A leaf : leaf \in Range(v.leaves) <=> \E t \in Slots : t < u /\ leaf \in K(t)
      /\ k < y => /\ u = blockidx2blockslot(k) /\ N <= u
      /\ k = y => \A t \in Slots : t >= u => y <= blockslot2firstblockidx(t)
  BY <1>2 DEF VisitsInv
<1>4. x \in Nat /\ y \in Nat /\ x < y
  BY <1>0, RangeIs
<1>5. ~(k < y)
  <2> SUFFICES ASSUME k < y PROVE FALSE
    OBVIOUS
  <2>1. PICK m \in Nat : y <= m /\ m <= Top
    BY DEF HasRange
  <2>2. k \in Nat /\ k < Top
    <3>1. Top \in Nat
      BY MAXIs
    <3>2. k \in Nat
      BY <1>3
    <3> HIDE DEF y
    <3> QED BY <1>4, <2>1, <3>1, <3>2
  <2>3. blockidx2blockslot(k) \in Slots
    BY <2>2, SlotOf
  <2>4. u \in Slots /\ N <= u
    BY <2>3, <1>3
  <2> QED BY <2>4, InodeAssumption DEF Slots
<1>6. k = y
  <2>1. k \in Nat /\ k <= y
    BY <1>3
  <2> HIDE DEF y
  <2> QED BY <2>1, <1>4, <1>5
<1>7. v.curpos = b
  <2>1. y <= k /\ k \in Nat /\ x <= k
    BY <1>3, <1>4, <1>6
  <2>2. Reached(k, a, b) = b
    BY <2>1, <1>0, BlockReached
  <2> QED BY <2>2, <1>3
<1>8. ASSUME NEW t \in Slots, ~(t < u) PROVE K(t) = {}
  <2> DEFINE l == SlotLevel(t)
             c == blockslot2firstblockidx(t)
  <2>1. l \in 0 .. 3 /\ c \in Nat /\ t \in Nat
    BY SlotIs
  <2>2. y <= c
    BY <2>1, <1>3, <1>6, <1>8
  <2> HIDE DEF l, c
  <2>3. Leaves(st.ind, R[t], l, c, x, y) = {}
    BY <2>1, <2>2, <1>4, NoLeaves
  <2> QED BY <2>3 DEF l, c
<1>9. \A leaf : leaf \in FileLeaves(st.ind, R, x, y) <=> \E t \in Slots : leaf \in K(t)
  BY DEF FileLeaves
<1>10. \A leaf : leaf \in Range(v.leaves) <=> \E t \in Slots : t < u /\ leaf \in K(t)
  BY <1>3
<1> HIDE DEF K
<1>11. Range(v.leaves) = FileLeaves(st.ind, R, x, y)
  BY <1>8, <1>9, <1>10
<1> QED BY <1>3, <1>7, <1>11 DEF VisitedAll, v

(* A loop that is where it is to stop visits nothing.                      *)
LEMMA VisitNone ==
  ASSUME NEW st, NEW R, NEW a \in Nat, NEW pos, NEW endpos
  PROVE  Visit(st, R, a, a, pos, endpos) = NotVisited(a)
<1> DEFINE F == VisitRounds(st, R, a, a, pos, endpos)
           none == NotVisited(a)
           S == {i \in 0 .. D + 3 : F[i] # none}
<1>0. D + 3 \in Nat
  BY InodeAssumption
<1>1. /\ F[0] = none
      /\ \A i \in 1 .. D + 3 : F[i] = VisitRound(st, R, F[i - 1], a, pos, endpos)
  BY VisitRoundsIs
<1>2. VisitRound(st, R, none, a, pos, endpos) = none
  <2>1. none.curpos = a
    BY DEF NotVisited
  <2> QED BY <2>1 DEF VisitRound
<1>V. Visit(st, R, a, a, pos, endpos) = F[D + 3]
  BY VisitRoundsAre
<1> HIDE DEF F, none
<1>3. S = {}
  <2> SUFFICES ASSUME S # {} PROVE FALSE
    OBVIOUS
  <2>0. S \subseteq Nat
    BY <1>0
  <2>1. PICK i \in S : \A j \in S : i <= j
    BY <2>0, Least
  <2>2. i \in 0 .. D + 3 /\ F[i] # none
    BY <2>1
  <2>3. i # 0
    BY <2>2, <1>1
  <2>4. i \in 1 .. D + 3 /\ i - 1 \in 0 .. D + 3 /\ ~(i <= i - 1)
    BY <2>2, <2>3, <1>0
  <2>5. F[i - 1] # none
    BY <2>2, <2>4, <1>1, <1>2
  <2> QED BY <2>1, <2>4, <2>5
<1>4. D + 3 \in 0 .. D + 3
  BY <1>0
<1> QED BY <1>V, <1>3, <1>4 DEF none

(* A file whose blocks are right has those of every byte below its size.   *)
LEMMA RangeThere ==
  ASSUME NEW st, NEW ino, IsStore(st), IsIno(ino),
         FitsAll(Whole, st.ind, ino.blocks, BlockCount(ino.size)),
         NEW a \in Nat, NEW b \in Nat, a < b, b <= ino.size
  PROVE  HasRange(st, ino.blocks, a, b)
<1> DEFINE n == BlockCount(ino.size)
           size == ino.size
           y == EndBlock(b)
<1>1. size \in 0 .. MAX_FILESIZE /\ ino.blocks \in [Slots -> Node] /\ st.ind \in Ptrs
  BY DEF IsIno, IsStore
<1>2. n \in Nat /\ n <= Top
  BY <1>1, BlockCountIs
<1>3. y \in Nat /\ BS * y >= b /\ b > BS * y - BS
  BY RangeIs
<1>4. size <= BS * n /\ BS \in Nat \ {0}
  <2> DEFINE q == size \div BS
             p == size % BS
  <2>0. BS \in Nat \ {0} /\ size \in Nat
    BY <1>1, Constants, MAXIs
  <2>1. q \in Nat /\ p \in 0 .. BS - 1 /\ size = BS * q + p
    BY <2>0, DivMod
  <2>2. n = q + (IF p # 0 THEN 1 ELSE 0)
    BY DEF BlockCount, offset2blockidx
  <2> HIDE DEF q, p, n
  <2>3. BS * (q + 1) = BS * q + BS /\ BS * q \in Nat
    BY <2>0, <2>1
  <2>4. CASE p = 0
    <3>1. n = q
      BY <2>1, <2>2, <2>4
    <3> QED BY <3>1, <2>0, <2>1, <2>3, <2>4
  <2>5. CASE p # 0
    <3>1. n = q + 1
      BY <2>1, <2>2, <2>5
    <3>2. BS * n = BS * q + BS
      BY <3>1, <2>3
    <3> QED BY <3>2, <2>0, <2>1, <2>3
  <2> QED BY <2>4, <2>5
<1>5. y <= n
  <2> SUFFICES ASSUME n < y PROVE FALSE
    <3> HIDE DEF n, y
    <3> QED BY <1>2, <1>3
  <2> HIDE DEF n, y, size
  <2>1. BS * n + BS <= BS * y
    BY <1>2, <1>3, <1>4, MultipleGap
  <2>2. BS * n \in Nat /\ BS * y \in Nat /\ b <= size /\ size \in Nat
    BY <1>1, <1>2, <1>3, <1>4, MAXIs DEF size
  <2> QED BY <2>1, <2>2, <1>3, <1>4
<1> HIDE DEF y
<1> QED BY <1>1, <1>2, <1>5 DEF HasRange, y, n

-----------------------------------------------------------------------------
(* Copying changes the bytes and nothing else, or fails an assertion.      *)
OnlyBytes(st, more) ==
  /\ IsStore(more)
  /\ more.free = st.free /\ more.ind = st.ind /\ more.hyper = st.hyper
  /\ st.bad => more.bad

(* A failed assertion changes no block. *)
LEMMA BadIs ==
  ASSUME NEW st, IsStore(st)
  PROVE  OnlyBytes(st, [st EXCEPT !.bad = TRUE]) /\ [st EXCEPT !.bad = TRUE].bad
<1> DEFINE yes == TRUE
           u == [st EXCEPT !.bad = yes]
<1>1. yes /\ yes \in BOOLEAN
  OBVIOUS
<1> HIDE DEF yes
<1>2. u = [free |-> st.free, ind |-> st.ind, bytes |-> st.bytes, bad |-> yes, hyper |-> st.hyper]
  BY DEF IsStore
<1>3. IsStore(u) /\ u.free = st.free /\ u.ind = st.ind /\ u.bad /\ u.hyper = st.hyper
  BY <1>1, <1>2 DEF IsStore
<1>4. u = [st EXCEPT !.bad = TRUE]
  BY DEF yes
<1> HIDE DEF u
<1>5. OnlyBytes(st, u) /\ u.bad
  BY <1>3 DEF OnlyBytes
<1> QED BY <1>4, <1>5

(* Copying into data blocks changes bytes only. *)
LEMMA CopyInIs ==
  ASSUME NEW st, IsStore(st), NEW leaves, NEW pos, NEW endpos, NEW data
  PROVE  OnlyBytes(st, CopyIn(st, leaves, pos, endpos, data))
<1> DEFINE B == [b \in Blocks |->
                  IF \A k \in DOMAIN leaves : leaves[k].block # b THEN st.bytes[b]
                  ELSE LET leaf == leaves[CHOOSE k \in DOMAIN leaves : leaves[k].block = b]
                       IN  [i \in 0 .. BS - 1 |->
                              LET off == leaf.idx * BS + i
                              IN  IF off \notin lo(leaf, pos) .. hi(leaf, endpos) - 1 THEN st.bytes[b][i]
                                  ELSE IF data = NULL THEN 0 ELSE data[off - pos + 1]]]
           u == CopyIn(st, leaves, pos, endpos, data)
<1>1. u = [st EXCEPT !.bytes = B]
  BY DEF CopyIn
<1>2. \A b \in Blocks : DOMAIN B[b] = 0 .. BS - 1
  BY DEF IsStore, IsBytes
<1>3. B = [b \in Blocks |-> B[b]]
  OBVIOUS
<1> HIDE DEF B, u
<1>4. IsBytes(B)
  BY <1>2, <1>3 DEF IsBytes
<1>5. u = [free |-> st.free, ind |-> st.ind, bytes |-> B, bad |-> st.bad, hyper |-> st.hyper]
  BY <1>1 DEF IsStore
<1>6. IsStore(u) /\ u.free = st.free /\ u.ind = st.ind /\ u.bad = st.bad /\ u.hyper = st.hyper
  BY <1>4, <1>5 DEF IsStore
<1>7. OnlyBytes(st, u)
  BY <1>6 DEF OnlyBytes
<1> QED BY <1>7 DEF u

(* A loop that copies changes bytes only. *)
LEMMA CopyLoopIs ==
  ASSUME NEW st, IsStore(st), NEW ino, NEW curpos, NEW stop, NEW pos, NEW endpos, NEW data
  PROVE  OnlyBytes(st, CopyLoop(st, ino, curpos, stop, pos, endpos, data).st)
<1> DEFINE v == Visit(st, ino.blocks, curpos, stop, pos, endpos)
           z == CopyLoop(st, ino, curpos, stop, pos, endpos, data)
<1>1. z.st = IF v.ok THEN CopyIn(st, v.leaves, pos, endpos, data) ELSE st
  BY DEF CopyLoop, CopyVisited
<1> HIDE DEF v
<1>2. OnlyBytes(st, st)
  BY DEF OnlyBytes
<1>3. OnlyBytes(st, CopyIn(st, v.leaves, pos, endpos, data))
  BY CopyInIs
<1> QED BY <1>1, <1>2, <1>3

(* Two changes of bytes are a change of bytes. *)
LEMMA OnlyBytesTwice ==
  ASSUME NEW st, NEW u, NEW more, OnlyBytes(st, u), OnlyBytes(u, more)
  PROVE  OnlyBytes(st, more)
BY DEF OnlyBytes

(* A write within the file: all of it, or a failed assertion. *)
WritesRange(st, ino, n, g) ==
  /\ g = [st |-> g.st, ino |-> g.ino, n |-> g.n]
  /\ OnlyBytes(st, g.st) /\ g.ino = ino
  /\ ~g.st.bad => g.n = n

(* The end of a write: the data after the zeros, or a failed assertion. *)
LEMMA WrittenIs ==
  ASSUME NEW st, IsStore(st), NEW w, OnlyBytes(st, w.st), NEW ino, NEW zero_endpos, NEW endpos
  PROVE  WritesRange(st, ino, endpos - zero_endpos, Written(w, ino, zero_endpos, endpos))
<1> DEFINE g == Written(w, ino, zero_endpos, endpos)
           good == w.ok /\ w.curpos = endpos /\ endpos - zero_endpos >= 0
           u == [w.st EXCEPT !.bad = TRUE]
<1>0. IsStore(w.st)
  BY DEF OnlyBytes
<1>1. CASE good
  <2>1. /\ g.st = w.st /\ g.ino = ino /\ g.n = endpos - zero_endpos
        /\ g = [st |-> g.st, ino |-> g.ino, n |-> g.n]
    BY <1>1 DEF Written
  <2> HIDE DEF g
  <2>2. WritesRange(st, ino, endpos - zero_endpos, g)
    BY <2>1 DEF WritesRange
  <2> QED BY <2>2 DEF g
<1>2. CASE ~good
  <2>1. /\ g.st = u /\ g.ino = ino
        /\ g = [st |-> g.st, ino |-> g.ino, n |-> g.n]
    BY <1>2 DEF Written
  <2>2. OnlyBytes(w.st, u) /\ u.bad
    BY <1>0, BadIs
  <2> HIDE DEF g, u
  <2>3. OnlyBytes(st, u)
    BY <2>2, OnlyBytesTwice
  <2>4. WritesRange(st, ino, endpos - zero_endpos, g)
    BY <2>1, <2>2, <2>3 DEF WritesRange
  <2> QED BY <2>4 DEF g
<1> QED BY <1>1, <1>2

(* A write within the file moves no block. *)
LEMMA WriteRangeIs ==
  ASSUME NEW st, IsStore(st), NEW ino, NEW pos, NEW zero_endpos, NEW endpos, NEW data
  PROVE  WritesRange(st, ino, IF endpos <= pos THEN 0 ELSE endpos - zero_endpos,
                     WriteRange(st, ino, pos, zero_endpos, endpos, data))
<1>1. CASE endpos <= pos
  <2> DEFINE g == WriteRange(st, ino, pos, zero_endpos, endpos, data)
  <2>1. /\ g.st = st /\ g.ino = ino /\ g.n = 0
        /\ g = [st |-> g.st, ino |-> g.ino, n |-> g.n]
    BY <1>1 DEF WriteRange
  <2> HIDE DEF g
  <2>2. WritesRange(st, ino, 0, g)
    BY <2>1 DEF WritesRange, OnlyBytes
  <2> QED BY <1>1, <2>2 DEF g
<1>2. CASE ~(endpos <= pos)
  <2> DEFINE z == CopyLoop(st, ino, pos, Min({zero_endpos, endpos}), pos, zero_endpos, NULL)
             w == CopyLoop(z.st, ino, z.curpos, endpos, zero_endpos, endpos, data)
  <2>1. WriteRange(st, ino, pos, zero_endpos, endpos, data) =
          IF ~z.ok THEN Written(z, ino, zero_endpos, endpos) ELSE Written(w, ino, zero_endpos, endpos)
    BY <1>2 DEF WriteRange, WriteData
  <2>2. OnlyBytes(st, z.st)
    BY CopyLoopIs
  <2> HIDE DEF z
  <2>3. IsStore(z.st)
    BY <2>2 DEF OnlyBytes
  <2>4. OnlyBytes(z.st, w.st)
    BY <2>3, CopyLoopIs
  <2> HIDE DEF w
  <2>5. OnlyBytes(st, w.st)
    BY <2>2, <2>4, OnlyBytesTwice
  <2>6. /\ WritesRange(st, ino, endpos - zero_endpos, Written(z, ino, zero_endpos, endpos))
        /\ WritesRange(st, ino, endpos - zero_endpos, Written(w, ino, zero_endpos, endpos))
    BY <2>2, <2>5, WrittenIs
  <2> QED BY <1>2, <2>1, <2>6
<1> QED BY <1>1, <1>2

-----------------------------------------------------------------------------
(* The operations on a file: inode_write and inode_truncate.               *)
(* An operation that changes nothing keeps everything. *)
LEMMA KeptHere ==
  ASSUME NEW e \in BOOLEAN, NEW st, NEW ino, SizedPre(e, st, ino), NEW g, g.st = st, g.ino = ino
  PROVE  SizedPost(e, st, ino, g)
<1> DEFINE w == e /\ ~st.hyper
           n == BlockCount(ino.size)
<1>1. w \in BOOLEAN /\ (w => e)
  OBVIOUS
<1>2. FitsAll(e, st.ind, ino.blocks, n) /\ IsIno(ino)
  BY DEF SizedPre
<1>3. SlotsKept(e, st, ino.blocks, st, ino.blocks)
  BY SlotsKeptStart
<1> HIDE DEF w, n
<1>4. FitsAll(w, st.ind, ino.blocks, n)
  BY <1>1, <1>2, FitsWeaker DEF FitsAll
<1> QED BY <1>2, <1>3, <1>4 DEF SizedPost, w, n

(* Writing after the size was set keeps what setting the size promised. *)
LEMMA KeptByRange ==
  ASSUME NEW e \in BOOLEAN, NEW st, NEW ino, NEW s, SizedPost(e, st, ino, s),
         NEW n, NEW g, WritesRange(s.st, s.ino, n, g)
  PROVE  /\ SizedPost(e, st, ino, g)
         /\ g.ino = s.ino /\ g.st.free = s.st.free /\ g.st.hyper = s.st.hyper
         /\ s.st.bad => g.st.bad
<1> DEFINE u == s.st
           more == g.st
           R == s.ino.blocks
<1>1. /\ g.ino = s.ino /\ IsStore(more) /\ more.free = u.free /\ more.ind = u.ind
      /\ more.hyper = u.hyper /\ (u.bad => more.bad)
  BY DEF WritesRange, OnlyBytes
<1>2. SlotsKept(e, st, ino.blocks, u, R)
  BY DEF SizedPost
<1> HIDE DEF u, more, R
<1>3. SlotsKept(e, st, ino.blocks, more, R)
  BY <1>1, <1>2, SlotsKeptFlag
<1> QED BY <1>1, <1>3 DEF SizedPost, u, more, R

(* What an operation that was to write n bytes leaves. *)
Wrote(e, st, ino, n, g) ==
  /\ SizedPost(e, st, ino, g)
  /\ ~g.st.bad /\ g.n < n /\ g.ino.size < MAX_FILESIZE /\ e /\ ~g.st.hyper =>
       Short(g.st.free, BlockCount(g.ino.size))

(* A write within the file. *)
LEMMA WriteHere ==
  ASSUME NEW e \in BOOLEAN, NEW st, NEW ino, SizedPre(e, st, ino),
         NEW pos \in Nat, NEW size \in Nat, NEW data
  PROVE  Wrote(e, st, ino, size, WriteRange(st, ino, pos, pos, pos + size, data))
<1> DEFINE endpos == pos + size
           n == IF endpos <= pos THEN 0 ELSE endpos - pos
           g == WriteRange(st, ino, pos, pos, endpos, data)
           s == [st |-> st, ino |-> ino]
<1>1. IsStore(st)
  BY DEF SizedPre
<1>2. WritesRange(st, ino, n, g)
  BY <1>1, WriteRangeIs
<1>3. n = size
  OBVIOUS
<1>4. s.st = st /\ s.ino = ino
  OBVIOUS
<1> SUFFICES Wrote(e, st, ino, size, g)
  OBVIOUS
<1> HIDE DEF n, g, s, endpos
<1>5. SizedPost(e, st, ino, s)
  BY <1>4, KeptHere
<1>6. SizedPost(e, st, ino, g)
  BY <1>2, <1>4, <1>5, KeptByRange
<1>7. ~g.st.bad => ~(g.n < size)
  BY <1>2, <1>3 DEF WritesRange
<1> QED BY <1>6, <1>7 DEF Wrote

(* A write beyond the end of the file: it falls short only if the growth   *)
(* did.                                                                    *)
LEMMA WriteBeyond ==
  ASSUME NEW e \in BOOLEAN, NEW st, NEW ino, SizedPre(e, st, ino),
         NEW pos \in Nat, NEW size \in Nat, NEW data, pos + size > ino.size
  PROVE  Wrote(e, st, ino, size,
               WriteGrown(inode_setsize(st, ino, pos + size), Min({pos, ino.size}), pos,
                          pos + size, data))
<1> DEFINE endpos == pos + size
           s == inode_setsize(st, ino, endpos)
           want == Min({endpos, MAX_FILESIZE})
           at == Min({pos, ino.size})
           g == WriteGrown(s, at, pos, endpos, data)
<1>0. endpos \in Nat /\ MAX_FILESIZE \in Nat /\ ino.size \in Nat
  BY MAXIs DEF SizedPre, IsIno
<1>1. SetsSize(e, st, ino, want, s)
  BY <1>0, SetSizeRight
<1>2. want = IF endpos <= MAX_FILESIZE THEN endpos ELSE MAX_FILESIZE
  BY <1>0, MinTwo
<1>3. at = IF pos <= ino.size THEN pos ELSE ino.size
  BY <1>0, MinTwo
<1> SUFFICES Wrote(e, st, ino, size, g)
  OBVIOUS
<1>P. endpos > ino.size /\ endpos = pos + size
  OBVIOUS
<1>G. g = IF s.st.bad \/ endpos < s.ino.size
          THEN [st |-> [s.st EXCEPT !.bad = TRUE], ino |-> s.ino, n |-> 0]
          ELSE IF endpos > s.ino.size
          THEN WriteRange(s.st, s.ino, at, Max({pos, s.ino.size}), s.ino.size, data)
          ELSE WriteRange(s.st, s.ino, at, pos, endpos, data)
  BY DEF WriteGrown
<1> HIDE DEF endpos, s, want, at, g
<1>4. SizedPost(e, st, ino, s)
  BY <1>1 DEF SetsSize
<1>5. IsStore(s.st)
  BY <1>4 DEF SizedPost, SlotsKept
<1>6. CASE s.st.bad \/ endpos < s.ino.size
  <2> DEFINE u == [s.st EXCEPT !.bad = TRUE]
             none == 0
  <2>1. g.st = u /\ g.ino = s.ino /\ g = [st |-> g.st, ino |-> g.ino, n |-> g.n]
    BY <1>6, <1>G
  <2>2. OnlyBytes(s.st, u) /\ u.bad
    BY <1>5, BadIs
  <2> HIDE DEF u
  <2>3. WritesRange(s.st, s.ino, none, g)
    BY <2>1, <2>2 DEF WritesRange
  <2> HIDE DEF none
  <2>4. SizedPost(e, st, ino, g)
    BY <1>4, <2>3, KeptByRange
  <2> QED BY <2>1, <2>2, <2>4 DEF Wrote
<1>7. CASE ~(s.st.bad \/ endpos < s.ino.size) /\ endpos > s.ino.size
  <2> DEFINE reached == s.ino.size
             from == Max({pos, reached})
             n == IF reached <= at THEN 0 ELSE reached - from
             u == s.st
             i == s.ino
  <2>0. g = WriteRange(u, i, at, from, reached, data)
    BY <1>7, <1>G
  <2>1. IsStore(u)
    BY <1>5
  <2> HIDE DEF reached, from, u, i
  <2>2. WritesRange(u, i, n, g)
    BY <2>0, <2>1, WriteRangeIs
  <2> HIDE DEF n
  <2>3. /\ SizedPost(e, st, ino, g)
        /\ g.ino = s.ino /\ g.st.free = s.st.free /\ g.st.hyper = s.st.hyper
        /\ s.st.bad => g.st.bad
    BY <1>4, <2>2, KeptByRange DEF u, i
  <2>4. s.ino.size \in Nat
    BY <1>4, <1>7, MAXIs DEF SizedPost, IsIno
  <2>5. g.ino.size < MAX_FILESIZE => s.ino.size < want
    BY <1>0, <1>2, <1>7, <2>3, <2>4
  <2>6. ~s.st.bad /\ s.ino.size < want /\ e /\ ~s.st.hyper =>
          Short(s.st.free, BlockCount(s.ino.size))
    BY <1>1 DEF SetsSize
  <2> QED BY <2>3, <2>5, <2>6 DEF Wrote
<1>8. CASE ~(s.st.bad \/ endpos < s.ino.size) /\ ~(endpos > s.ino.size)
  <2> DEFINE n == IF endpos <= at THEN 0 ELSE endpos - pos
             u == s.st
             i == s.ino
  <2>0. g = WriteRange(u, i, at, pos, endpos, data)
    BY <1>8, <1>G
  <2>1. IsStore(u)
    BY <1>5
  <2> HIDE DEF u, i
  <2>2. WritesRange(u, i, n, g)
    BY <2>0, <2>1, WriteRangeIs
  <2>3. n = size
    BY <1>0, <1>3, <1>P
  <2> HIDE DEF n
  <2>4. SizedPost(e, st, ino, g)
    BY <1>4, <2>2, KeptByRange DEF u, i
  <2>5. ~g.st.bad => ~(g.n < size)
    BY <2>2, <2>3 DEF WritesRange
  <2> QED BY <2>4, <2>5 DEF Wrote
<1> QED BY <1>6, <1>7, <1>8

(* inode_write keeps the trees, and falls short only for want of blocks. *)
LEMMA WriteRight ==
  ASSUME NEW e \in BOOLEAN, NEW st, NEW ino, SizedPre(e, st, ino),
         NEW at \in Nat \cup {-1}, NEW size \in Nat, NEW data
  PROVE  Wrote(e, st, ino, size, Write(st, ino, at, data, size))
<1> DEFINE pos == IF at = -1 THEN ino.size ELSE at
<1>1. pos \in Nat
  BY MAXIs DEF SizedPre, IsIno
<1>2. Write(st, ino, at, data, size) =
        IF pos + size > ino.size
        THEN WriteGrown(inode_setsize(st, ino, pos + size), Min({pos, ino.size}), pos,
                        pos + size, data)
        ELSE WriteRange(st, ino, pos, pos, pos + size, data)
  BY DEF Write
<1> HIDE DEF pos
<1>3. CASE pos + size > ino.size
  BY <1>1, <1>2, <1>3, WriteBeyond
<1>4. CASE ~(pos + size > ino.size)
  BY <1>1, <1>2, <1>4, WriteHere
<1> QED BY <1>3, <1>4

(* inode_truncate to n bytes. *)
Truncated(e, st, ino, n, g) ==
  /\ SizedPost(e, st, ino, g)
  /\ ~g.st.bad /\ g.ino.size < Min({n, MAX_FILESIZE}) /\ e /\ ~g.st.hyper =>
       Short(g.st.free, BlockCount(g.ino.size))

(* inode_truncate keeps the trees, and falls short only for want of        *)
(* blocks.                                                                 *)
LEMMA TruncateRight ==
  ASSUME NEW e \in BOOLEAN, NEW st, NEW ino, SizedPre(e, st, ino), NEW n \in Nat
  PROVE  Truncated(e, st, ino, n, Truncate(st, ino, n))
<1> DEFINE s == inode_setsize(st, ino, n)
           want == Min({n, MAX_FILESIZE})
           old == ino.size
           g == Truncate(st, ino, n)
<1>1. SetsSize(e, st, ino, want, s)
  BY SetSizeRight
<1>G. g = ZeroGrown(s, old)
  BY DEF Truncate
<1>O. old \in Nat
  BY MAXIs DEF SizedPre, IsIno
<1> SUFFICES Truncated(e, st, ino, n, g)
  OBVIOUS
<1>W. want = Min({n, MAX_FILESIZE})
  OBVIOUS
<1> HIDE DEF s, want, g, old
<1>2. SizedPost(e, st, ino, s)
  BY <1>1 DEF SetsSize
<1>3. ~s.st.bad /\ s.ino.size < want /\ e /\ ~s.st.hyper =>
        Short(s.st.free, BlockCount(s.ino.size))
  BY <1>1 DEF SetsSize
<1>4. SizedPost(e, st, ino, g) /\ g.ino = s.ino /\ g.st.free = s.st.free
      /\ g.st.hyper = s.st.hyper /\ (s.st.bad => g.st.bad)
  <2>1. CASE s.st.bad \/ s.ino.size <= old
    <3>1. g.st = s.st /\ g.ino = s.ino
      BY <2>1, <1>G DEF ZeroGrown
    <3> QED BY <3>1, <1>2 DEF SizedPost
  <2>2. CASE ~(s.st.bad \/ s.ino.size <= old)
    <3> DEFINE u == s.st
               i == s.ino
               reached == s.ino.size
               w == WriteRange(u, i, old, old, reached, NULL)
               m == IF reached <= old THEN 0 ELSE reached - old
    <3>0. reached \in Nat
      BY <1>2, <2>2, MAXIs DEF SizedPost, IsIno
    <3>1. Write(u, i, old, NULL, reached - old) = w
      <4>1. old # -1 /\ old + (reached - old) = reached
        BY <3>0, <1>O
      <4>2. ~(reached > i.size)
        BY <3>0
      <4> HIDE DEF reached
      <4> QED BY <4>1, <4>2 DEF Write
    <3>2. g = [w EXCEPT !.n = reached]
      BY <1>G, <2>2, <3>1 DEF ZeroGrown
    <3>3. IsStore(u)
      BY <1>2 DEF SizedPost, SlotsKept
    <3> HIDE DEF u, i, reached
    <3>4. WritesRange(u, i, m, w)
      BY <3>3, WriteRangeIs
    <3> HIDE DEF w, m
    <3>5. g.st = w.st /\ g.ino = w.ino
      BY <3>2, <3>4 DEF WritesRange
    <3>6. /\ SizedPost(e, st, ino, w)
          /\ w.ino = s.ino /\ w.st.free = s.st.free /\ w.st.hyper = s.st.hyper
          /\ s.st.bad => w.st.bad
      BY <1>2, <3>4, KeptByRange DEF u, i
    <3> QED BY <3>5, <3>6 DEF SizedPost
  <2> QED BY <2>1, <2>2
<1> QED BY <1>3, <1>4, <1>W DEF Truncated

-----------------------------------------------------------------------------
(* The inodes of a disk: what each holds, and that no two hold the same.   *)
Wooded(st, ino) == Wood(Slots, ino.blocks, SL, st.ind)

Held(st, blockOf, inodes, f) == ({blockOf[f]} \ {EOF}) \cup Wooded(st, inodes[f])

Apart(st, blockOf, inodes, other) ==
  /\ st.free \cap other = {}
  /\ \A f \in Inodes : blockOf[f] \notin Wooded(st, inodes[f])
  /\ \A f \in Inodes : Held(st, blockOf, inodes, f) \cap (st.free \cup other) = {}
  /\ \A f, h \in Inodes :
       f # h => Held(st, blockOf, inodes, f) \cap Held(st, blockOf, inodes, h) = {}

Formed(st, inodes, damaged) ==
  \A f \in Inodes :
    /\ IsIno(inodes[f])
    /\ Forest(Slots, inodes[f].blocks, SL, st.ind, {})
    /\ FitsAll(f \notin damaged, st.ind, inodes[f].blocks, BlockCount(inodes[f].size))

Covers(st, blockOf, inodes, gone, other) ==
  /\ gone \subseteq Blocks /\ other \subseteq Blocks
  /\ \A x \in Blocks : \/ x \in st.free \cup gone \cup other
                       \/ \E f \in Inodes : x \in Held(st, blockOf, inodes, f)

Holds(st, blockOf, inodes, damaged, gone, other) ==
  /\ IsStore(st)
  /\ blockOf \in [Inodes -> Node]
  /\ inodes = [f \in Inodes |-> inodes[f]]
  /\ Formed(st, inodes, damaged)
  /\ Apart(st, blockOf, inodes, other)
  /\ Covers(st, blockOf, inodes, gone, other)

(* A forest apart from free blocks is a forest, and apart from them. *)
LEMMA ForestApart ==
  ASSUME NEW R, NEW ptrs, NEW F
  PROVE  Forest(Slots, R, SL, ptrs, F) <=>
           Forest(Slots, R, SL, ptrs, {}) /\ Wood(Slots, R, SL, ptrs) \cap F = {}
<1> DEFINE T(s) == Tree(ptrs, R[s], SL[s])
           wood == Wood(Slots, R, SL, ptrs)
<1>1. \A x : x \in wood <=> \E s \in Slots : x \in T(s)
  BY DEF Wood
<1>2. \A G : Forest(Slots, R, SL, ptrs, G) <=>
               /\ \A s \in Slots : Proper(ptrs, R[s], SL[s]) /\ T(s) \cap G = {}
               /\ \A s, t \in Slots : s # t => T(s) \cap T(t) = {}
  BY DEF Forest
<1>3. /\ Forest(Slots, R, SL, ptrs, F) <=>
           /\ \A s \in Slots : Proper(ptrs, R[s], SL[s]) /\ T(s) \cap F = {}
           /\ \A s, t \in Slots : s # t => T(s) \cap T(t) = {}
      /\ Forest(Slots, R, SL, ptrs, {}) <=>
           /\ \A s \in Slots : Proper(ptrs, R[s], SL[s]) /\ T(s) \cap {} = {}
           /\ \A s, t \in Slots : s # t => T(s) \cap T(t) = {}
  BY <1>2
<1>4. wood \cap F = {} <=> \A s \in Slots : T(s) \cap F = {}
  <2> HIDE DEF T, wood
  <2> QED BY <1>1
<1> HIDE DEF T, wood
<1> QED BY <1>3, <1>4 DEF wood

(* What hangs from the slots of an inode is blocks. *)
LEMMA WoodType ==
  ASSUME NEW ptrs \in Ptrs, NEW R \in [Slots -> Node]
  PROVE  Wood(Slots, R, SL, ptrs) \subseteq Blocks
<1>1. \A s \in Slots : R[s] \in Node /\ SL[s] \in 0 .. 3
  BY SLIs
<1>2. \A s \in Slots : Tree(ptrs, R[s], SL[s]) \subseteq Blocks
  BY <1>1, TreeType
<1> QED BY <1>2 DEF Wood

(* An inode none of whose indirect blocks is touched stays as it was.      *)
LEMMA Untouched ==
  ASSUME NEW ptrs \in Ptrs, NEW more, NEW R \in [Slots -> Node],
         \A x \in Blocks : x \in Wood(Slots, R, SL, ptrs) => more[x] = ptrs[x]
  PROVE  /\ Wood(Slots, R, SL, more) = Wood(Slots, R, SL, ptrs)
         /\ Forest(Slots, R, SL, ptrs, {}) => Forest(Slots, R, SL, more, {})
         /\ \A e \in BOOLEAN, n \in Nat : FitsAll(e, ptrs, R, n) => FitsAll(e, more, R, n)
<1>1. ASSUME NEW s \in Slots
      PROVE  /\ Tree(more, R[s], SL[s]) = Tree(ptrs, R[s], SL[s])
             /\ Proper(more, R[s], SL[s]) <=> Proper(ptrs, R[s], SL[s])
             /\ \A e \in BOOLEAN, cur \in Int, n \in Int :
                  Fits(e, more, R[s], SL[s], cur, n) <=> Fits(e, ptrs, R[s], SL[s], cur, n)
  <2> DEFINE b == R[s]
             l == SL[s]
  <2>1. b \in Node /\ l \in 0 .. 3
    BY SLIs
  <2>2. \A x \in Tree(ptrs, b, l) : x \in Wood(Slots, R, SL, ptrs)
    BY DEF Wood
  <2> HIDE DEF b, l
  <2>3. Tree(ptrs, b, l) \subseteq Blocks
    BY <2>1, TreeType
  <2>4. \A x \in Tree(ptrs, b, l) : more[x] = ptrs[x]
    BY <2>2, <2>3
  <2>5. Same(ptrs, more, b, l)
    BY <2>1, <2>4, Frame
  <2>6. /\ Tree(more, b, l) = Tree(ptrs, b, l)
        /\ Proper(more, b, l) <=> Proper(ptrs, b, l)
        /\ \A e \in BOOLEAN, cur \in Int, n \in Int :
             Fits(e, more, b, l, cur, n) <=> Fits(e, ptrs, b, l, cur, n)
    BY <2>1, <2>5, SameIs
  <2> QED BY <2>6 DEF b, l
<1>2. Wood(Slots, R, SL, more) = Wood(Slots, R, SL, ptrs)
  BY <1>1 DEF Wood
<1>3. Forest(Slots, R, SL, ptrs, {}) => Forest(Slots, R, SL, more, {})
  BY <1>1 DEF Forest
<1>4. ASSUME NEW e \in BOOLEAN, NEW n \in Nat, FitsAll(e, ptrs, R, n)
      PROVE  FitsAll(e, more, R, n)
  <2> SUFFICES ASSUME NEW s \in Slots
               PROVE  Fits(e, more, R[s], SlotLevel(s), blockslot2firstblockidx(s), n)
    BY DEF FitsAll
  <2>1. SL[s] = SlotLevel(s) /\ blockslot2firstblockidx(s) \in Int /\ n \in Int
    BY SLIs, SlotIs
  <2>2. Fits(e, ptrs, R[s], SlotLevel(s), blockslot2firstblockidx(s), n)
    BY <1>4 DEF FitsAll
  <2> QED BY <1>1, <2>1, <2>2
<1> QED BY <1>2, <1>3, <1>4

-----------------------------------------------------------------------------
(* An operation on f leaves all of it true: what it moves is f's or free.  *)
Stays(st, more, inodes, damaged, h) ==
  /\ Wooded(more, inodes[h]) = Wooded(st, inodes[h])
  /\ Forest(Slots, inodes[h].blocks, SL, more.ind, {})
  /\ FitsAll(h \notin damaged, more.ind, inodes[h].blocks, BlockCount(inodes[h].size))

(* An operation on one inode leaves the trees of every other inode as      *)
(* they were.                                                              *)
LEMMA OthersStay ==
  ASSUME NEW st, NEW blockOf, NEW inodes, NEW damaged, NEW other,
         IsStore(st), Formed(st, inodes, damaged), Apart(st, blockOf, inodes, other),
         NEW f \in Inodes, NEW more, NEW R, NEW e, SlotsKept(e, st, inodes[f].blocks, more, R),
         NEW h \in Inodes, h # f
  PROVE  Stays(st, more, inodes, damaged, h)
<1> DEFINE R0 == inodes[f].blocks
           Q == inodes[h].blocks
           n == BlockCount(inodes[h].size)
           w == h \notin damaged
           S == SlotStock(st, R0)
<1>0. /\ Q \in [Slots -> Node] /\ n \in Nat /\ st.ind \in Ptrs
      /\ Forest(Slots, Q, SL, st.ind, {}) /\ FitsAll(w, st.ind, Q, n)
      /\ w \in BOOLEAN
  BY BlockCountIs DEF Formed, IsIno, IsStore
<1>1. Wood(Slots, Q, SL, st.ind) \cap S = {}
  <2>1. S = Wooded(st, inodes[f]) \cup st.free /\ Wood(Slots, Q, SL, st.ind) = Wooded(st, inodes[h])
    BY DEF SlotStock, Wooded
  <2>2. /\ Wooded(st, inodes[f]) \subseteq Held(st, blockOf, inodes, f)
        /\ Wooded(st, inodes[h]) \subseteq Held(st, blockOf, inodes, h)
    BY DEF Held
  <2>3. /\ Held(st, blockOf, inodes, h) \cap Held(st, blockOf, inodes, f) = {}
        /\ Held(st, blockOf, inodes, h) \cap st.free = {}
    BY DEF Apart
  <2> HIDE DEF S
  <2> QED BY <2>1, <2>2, <2>3
<1>2. \A x \in Blocks : x \in Wood(Slots, Q, SL, st.ind) => more.ind[x] = st.ind[x]
  BY <1>1 DEF SlotsKept
<1>3. S = SlotStock(st, inodes[f].blocks)
  OBVIOUS
<1>4. Wooded(more, inodes[h]) = Wood(Slots, Q, SL, more.ind)
      /\ Wooded(st, inodes[h]) = Wood(Slots, Q, SL, st.ind)
  BY DEF Wooded
<1>W. w \in BOOLEAN /\ (w <=> h \notin damaged)
  OBVIOUS
<1> HIDE DEF Q, n, w, S
<1>5. /\ Wood(Slots, Q, SL, more.ind) = Wood(Slots, Q, SL, st.ind)
      /\ Forest(Slots, Q, SL, more.ind, {})
      /\ FitsAll(w, more.ind, Q, n)
  BY <1>0, <1>2, Untouched
<1> QED BY <1>4, <1>5 DEF Q, n, w, Stays

Shaped(e, st, ino, g) ==
  /\ SlotsKept(e, st, ino.blocks, g.st, g.ino.blocks)
  /\ IsIno(g.ino)
  /\ FitsAll(e /\ ~g.st.hyper, g.st.ind, g.ino.blocks, BlockCount(g.ino.size))

(* When an operation on f ends, the disk still holds together: the blocks  *)
(* f lost in a damaged tree are counted as gone, and no other inode has    *)
(* changed.                                                                *)
LEMMA Landed ==
  ASSUME NEW st, NEW blockOf, NEW inodes, NEW damaged, NEW gone, NEW other,
         Holds(st, blockOf, inodes, damaged, gone, other),
         NEW f \in Inodes,
         NEW g, Shaped(f \notin damaged, st, inodes[f], g),
         NEW dam, dam = IF g.st.hyper THEN damaged \cup {f} ELSE damaged,
         NEW gon, gon = IF f \in dam
                        THEN gone \cup ((st.free \cup Wooded(st, inodes[f])) \
                                          (Wooded(g.st, g.ino) \cup g.st.free))
                        ELSE gone
  PROVE  Holds(g.st, blockOf, [inodes EXCEPT ![f] = g.ino], dam, gon, other)
<1> DEFINE more == g.st
           new == [inodes EXCEPT ![f] = g.ino]
           e == f \notin damaged
           w == e /\ ~more.hyper
           H(h) == Held(st, blockOf, inodes, h)
           N(h) == Held(more, blockOf, new, h)
           A == Wooded(st, inodes[f])
           B == Wooded(more, g.ino)
<1>0. /\ IsStore(st) /\ blockOf \in [Inodes -> Node]
      /\ inodes = [h \in Inodes |-> inodes[h]]
      /\ Formed(st, inodes, damaged)
      /\ Apart(st, blockOf, inodes, other)
      /\ Covers(st, blockOf, inodes, gone, other)
  BY DEF Holds
<1>1. /\ SlotsKept(e, st, inodes[f].blocks, more, g.ino.blocks)
      /\ IsIno(g.ino)
      /\ FitsAll(w, more.ind, g.ino.blocks, BlockCount(g.ino.size))
  BY DEF Shaped
<1>2. new = [h \in Inodes |-> new[h]] /\ new[f] = g.ino
      /\ \A h \in Inodes : h # f => new[h] = inodes[h]
  BY <1>0
<1>3. SlotStock(st, inodes[f].blocks) = A \cup st.free
      /\ SlotStock(more, g.ino.blocks) = B \cup more.free
  BY DEF SlotStock, Wooded
<1>4. /\ IsStore(more)
      /\ Forest(Slots, g.ino.blocks, SL, more.ind, {}) /\ B \cap more.free = {}
      /\ B \cup more.free \subseteq A \cup st.free
      /\ w => B \cup more.free = A \cup st.free
  <2>1. /\ IsStore(more) /\ Forest(Slots, g.ino.blocks, SL, more.ind, more.free)
        /\ SlotStock(more, g.ino.blocks) \subseteq SlotStock(st, inodes[f].blocks)
        /\ e /\ ~more.hyper => SlotStock(more, g.ino.blocks) = SlotStock(st, inodes[f].blocks)
    BY <1>1 DEF SlotsKept
  <2>2. Forest(Slots, g.ino.blocks, SL, more.ind, {})
        /\ Wood(Slots, g.ino.blocks, SL, more.ind) \cap more.free = {}
    BY <2>1, ForestApart
  <2> QED BY <1>3, <2>1, <2>2 DEF Wooded
<1>5. ASSUME NEW h \in Inodes, h # f
      PROVE  /\ Wooded(more, new[h]) = Wooded(st, inodes[h])
             /\ Forest(Slots, new[h].blocks, SL, more.ind, {})
             /\ FitsAll(h \notin damaged, more.ind, new[h].blocks, BlockCount(new[h].size))
             /\ IsIno(new[h])
             /\ N(h) = H(h)
  <2>1. new[h] = inodes[h]
    BY <1>2, <1>5
  <2>2. /\ Wooded(more, inodes[h]) = Wooded(st, inodes[h])
        /\ Forest(Slots, inodes[h].blocks, SL, more.ind, {})
        /\ FitsAll(h \notin damaged, more.ind, inodes[h].blocks, BlockCount(inodes[h].size))
    <3>1. SlotsKept(e, st, inodes[f].blocks, more, g.ino.blocks)
      BY <1>1
    <3> HIDE DEF e, more, new
    <3>2. Stays(st, more, inodes, damaged, h)
      BY <1>0, <3>1, <1>5, OthersStay
    <3> QED BY <3>2 DEF Stays
  <2>3. IsIno(inodes[h])
    BY <1>0 DEF Formed
  <2>4. N(h) = H(h)
    BY <2>1, <2>2 DEF Held
  <2> QED BY <2>1, <2>2, <2>3, <2>4
<1>6. H(f) = ({blockOf[f]} \ {EOF}) \cup A /\ N(f) = ({blockOf[f]} \ {EOF}) \cup B
  BY <1>2 DEF Held
<1>7. /\ st.free \cap other = {}
      /\ \A h \in Inodes : blockOf[h] \notin Wooded(st, inodes[h])
      /\ \A h \in Inodes : H(h) \cap (st.free \cup other) = {}
      /\ \A h, k \in Inodes : h # k => H(h) \cap H(k) = {}
  BY <1>0 DEF Apart
<1>8. gone \subseteq Blocks /\ other \subseteq Blocks
      /\ \A x \in Blocks : x \in st.free \cup gone \cup other \/ \E h \in Inodes : x \in H(h)
  BY <1>0 DEF Covers
<1>9. /\ \A h \in Inodes : h # f => (h \notin dam <=> h \notin damaged)
      /\ f \notin dam <=> w
  OBVIOUS
<1>10. f \in dam => gon = gone \cup ((st.free \cup A) \ (B \cup more.free))
  OBVIOUS
<1>11. f \notin dam => gon = gone
  OBVIOUS
<1>12. A \subseteq Blocks /\ st.free \subseteq Blocks
  <2>1. st.ind \in Ptrs /\ inodes[f].blocks \in [Slots -> Node] /\ st.free \subseteq Blocks
    BY <1>0 DEF IsStore, Formed, IsIno
  <2> QED BY <2>1, WoodType DEF Wooded
<1>W. w \in BOOLEAN
  OBVIOUS
<1>13. Formed(more, new, dam)
  <2> SUFFICES ASSUME NEW h \in Inodes
               PROVE  /\ IsIno(new[h])
                      /\ Forest(Slots, new[h].blocks, SL, more.ind, {})
                      /\ FitsAll(h \notin dam, more.ind, new[h].blocks, BlockCount(new[h].size))
    BY DEF Formed
  <2>1. CASE h = f
    <3> DEFINE v == h \notin dam
    <3>1. v \in BOOLEAN /\ v = w
      BY <1>9, <2>1, <1>W
    <3> HIDE DEF v, w
    <3>2. FitsAll(v, more.ind, g.ino.blocks, BlockCount(g.ino.size))
      BY <3>1, <1>1
    <3> QED BY <3>2, <2>1, <1>1, <1>2, <1>4 DEF v
  <2>2. CASE h # f
    <3> DEFINE v == h \notin dam
               u == h \notin damaged
    <3>1. v \in BOOLEAN /\ u \in BOOLEAN /\ v = u
      BY <1>9, <2>2
    <3>2. FitsAll(u, more.ind, new[h].blocks, BlockCount(new[h].size))
      BY <1>5, <2>2
    <3> HIDE DEF v, u
    <3>3. FitsAll(v, more.ind, new[h].blocks, BlockCount(new[h].size))
      BY <3>1, <3>2
    <3> QED BY <3>3, <2>2, <1>5 DEF v
  <2> QED BY <2>1, <2>2
<1> HIDE DEF w, e
<1>14. Apart(more, blockOf, new, other)
  <2>1. more.free \cap other = {}
    BY <1>4, <1>6, <1>7
  <2>2. ASSUME NEW h \in Inodes PROVE blockOf[h] \notin Wooded(more, new[h])
    <3>1. CASE h = f
      <4>1. blockOf[f] \in A \cup st.free => blockOf[f] \in A \/ blockOf[f] \in H(f) \cap st.free
        <5>1. EOF \notin st.free /\ EOF \notin A
          BY <1>12, Constants
        <5> QED BY <5>1, <1>6
      <4>2. blockOf[f] \notin A \cup st.free
        BY <4>1, <1>7
      <4> QED BY <4>2, <3>1, <1>2, <1>4
    <3>2. CASE h # f
      BY <3>2, <1>5, <1>7
    <3> QED BY <3>1, <3>2
  <2>3. \A h \in Inodes : h # f => H(h) \cap (A \cup st.free) = {}
    BY <1>6, <1>7
  <2> HIDE DEF H, N, A, B
  <2>4. ASSUME NEW h \in Inodes PROVE N(h) \cap (more.free \cup other) = {}
    <3>1. CASE h = f
      <4>1. ({blockOf[f]} \ {EOF}) \cap (A \cup st.free \cup other) = {}
        <5>1. ({blockOf[f]} \ {EOF}) \cap A = {}
          BY <1>7 DEF A
        <5> QED BY <5>1, <1>6, <1>7
      <4>2. B \cap other = {}
        BY <1>4, <1>6, <1>7
      <4> QED BY <3>1, <4>1, <4>2, <1>4, <1>6
    <3>2. CASE h # f
      BY <3>2, <2>3, <1>4, <1>5, <1>7
    <3> QED BY <3>1, <3>2
  <2>5. \A h \in Inodes : h # f => N(h) \cap N(f) = {}
    BY <2>3, <1>4, <1>5, <1>6, <1>7
  <2>6. ASSUME NEW h \in Inodes, NEW k \in Inodes, h # k PROVE N(h) \cap N(k) = {}
    <3>1. CASE h # f /\ k # f
      BY <3>1, <2>6, <1>5, <1>7
    <3>2. CASE h = f
      <4>1. k # f
        BY <3>2, <2>6
      <4>2. N(k) \cap N(f) = {}
        BY <4>1, <2>5
      <4> QED BY <4>2, <3>2
    <3>3. CASE k = f
      <4>1. h # f
        BY <3>3, <2>6
      <4>2. N(h) \cap N(f) = {}
        BY <4>1, <2>5
      <4> QED BY <4>2, <3>3
    <3> QED BY <3>1, <3>2, <3>3
  <2> QED BY <2>1, <2>2, <2>4, <2>6 DEF Apart, N
<1>15. Covers(more, blockOf, new, gon, other)
  <2>1. gon \subseteq Blocks
    BY <1>8, <1>10, <1>11, <1>12
  <2>2. ASSUME NEW x \in Blocks
        PROVE  x \in more.free \cup gon \cup other \/ \E h \in Inodes : x \in N(h)
    <3> HIDE DEF H, N, A, B
    <3>1. x \in A \cup st.free => x \in B \/ x \in more.free \/ x \in gon
      BY <1>4, <1>9, <1>10
    <3>2. gone \subseteq gon
      BY <1>10, <1>11
    <3>3. CASE x \in st.free \cup gone \cup other
      BY <3>1, <3>2, <3>3, <1>6
    <3>4. CASE \E h \in Inodes : x \in H(h)
      <4>1. PICK h \in Inodes : x \in H(h)
        BY <3>4
      <4>2. CASE h = f
        BY <4>1, <4>2, <3>1, <1>6
      <4>3. CASE h # f
        BY <4>1, <4>3, <1>5
      <4> QED BY <4>2, <4>3
    <3> QED BY <3>3, <3>4, <1>8
  <2> QED BY <2>1, <2>2, <1>8 DEF Covers, N
<1> QED BY <1>0, <1>2, <1>4, <1>13, <1>14, <1>15 DEF Holds

-----------------------------------------------------------------------------
(* An inode that nothing hangs from. *)
LEMMA BlockCountZero == BlockCount(0) = 0 /\ 0 \in 0 .. MAX_FILESIZE
<1>1. BS \in Nat \ {0} /\ MAX_FILESIZE \in Nat
  BY Constants, MAXIs
<1>2. SizeReached(0) = 0
  BY <1>1 DEF SizeReached
<1>3. 0 \in Nat /\ 0 <= Top
  BY MAXIs
<1> QED BY <1>2, <1>3, SizeReachedIs

(* Slots without blocks hold nothing, which is right for an empty file. *)
LEMMA BareIs ==
  ASSUME NEW ptrs, NEW R \in [Slots -> Node], \A s \in Slots : R[s] = EOF
  PROVE  /\ Wood(Slots, R, SL, ptrs) = {}
         /\ Forest(Slots, R, SL, ptrs, {})
         /\ \A e \in BOOLEAN : FitsAll(e, ptrs, R, 0)
<1>1. ASSUME NEW s \in Slots
      PROVE  /\ Tree(ptrs, R[s], SL[s]) = {} /\ Proper(ptrs, R[s], SL[s])
             /\ \A e \in BOOLEAN :
                  Fits(e, ptrs, R[s], SlotLevel(s), blockslot2firstblockidx(s), 0)
  <2> DEFINE l == SlotLevel(s)
             k == blockslot2firstblockidx(s)
  <2>1. l \in 0 .. 3 /\ SL[s] = l /\ R[s] = EOF /\ k \in Nat /\ k \in Int /\ 0 \in Int
    BY SlotIs, SLIs
  <2> HIDE DEF l, k
  <2>2. Tree(ptrs, EOF, l) = {} /\ Proper(ptrs, EOF, l)
    BY <2>1, TreeNone
  <2>3. ASSUME NEW e \in BOOLEAN PROVE Fits(e, ptrs, EOF, l, k, 0)
    <3>1. e => 0 <= k
      BY <2>1
    <3> QED BY <3>1, <2>1, FitsNone
  <2> QED BY <2>1, <2>2, <2>3 DEF l, k
<1>2. Wood(Slots, R, SL, ptrs) = {}
  BY <1>1 DEF Wood
<1>3. Forest(Slots, R, SL, ptrs, {})
  BY <1>1 DEF Forest
<1>4. \A e \in BOOLEAN : FitsAll(e, ptrs, R, 0)
  BY <1>1 DEF FitsAll
<1> QED BY <1>2, <1>3, <1>4

(* A new inode has no link, no size and no block. *)
LEMMA NoInodeIs ==
  /\ IsIno(NoInode) /\ NoInode.nlinks = 0 /\ BlockCount(NoInode.size) = 0
  /\ NoInode.blocks \in [Slots -> Node] /\ \A s \in Slots : NoInode.blocks[s] = EOF
BY BlockCountZero DEF NoInode, IsIno, Node

(* What is left of a file of no blocks: nothing. *)
LEMMA NothingLeft ==
  ASSUME NEW e, NEW ptrs, NEW R \in [Slots -> Node], FitsAll(e, ptrs, R, 0)
  PROVE  \A s \in Slots : R[s] = EOF
<1> SUFFICES ASSUME NEW s \in Slots, R[s] # EOF PROVE FALSE
  OBVIOUS
<1> DEFINE l == SlotLevel(s)
           k == blockslot2firstblockidx(s)
<1>1. Fits(e, ptrs, R[s], l, k, 0) /\ l \in 0 .. 3 /\ k \in Nat
  BY SlotIs DEF FitsAll
<1> HIDE DEF l, k
<1>2. <<>> \in Paths(l) /\ NodeAt(ptrs, R[s], <<>>) = R[s] /\ IndexAt(k, l, <<>>) = k
  <2>1. <<>> \in Seq(Children) /\ Len(<<>>) = 0
    OBVIOUS
  <2>2. <<>> \in Paths(l)
    <3>1. l \in 0 .. 3 /\ 0 <= l
      BY <1>1
    <3>2. Paths(l) = {s1 \in Seq(Children) : Len(s1) <= l}
      BY <3>1, PathsAre
    <3> HIDE DEF l
    <3> QED BY <2>1, <3>1, <3>2
  <2> DEFINE b == R[s]
  <2>3. k \in Int
    BY <1>1
  <2> HIDE DEF b
  <2>4. NodeAt(ptrs, b, <<>>) = b /\ IndexAt(k, l, <<>>) = k
    BY <2>3, EmptyPath
  <2> QED BY <2>2, <2>4 DEF b
<1>3. k < 0
  BY <1>1, <1>2 DEF Fits
<1> QED BY <1>1, <1>3

-----------------------------------------------------------------------------
(* Damaging one more inode, taking a block for an inode, freeing it again. *)
LEMMA HoldsWeaker ==
  ASSUME NEW st, NEW blockOf, NEW inodes, NEW damaged, NEW gone, NEW other,
         Holds(st, blockOf, inodes, damaged, gone, other), NEW dam, damaged \subseteq dam
  PROVE  Holds(st, blockOf, inodes, dam, gone, other)
<1>1. Formed(st, inodes, damaged)
  BY DEF Holds
<1>2. ASSUME NEW f \in Inodes
      PROVE  FitsAll(f \notin dam, st.ind, inodes[f].blocks, BlockCount(inodes[f].size))
  <2> DEFINE e == f \notin damaged
             w == f \notin dam
             n == BlockCount(inodes[f].size)
             R == inodes[f].blocks
  <2>1. e \in BOOLEAN /\ w \in BOOLEAN /\ (w => e)
    OBVIOUS
  <2>2. FitsAll(e, st.ind, R, n)
    BY <1>1 DEF Formed
  <2> HIDE DEF e, w, n, R
  <2>3. FitsAll(w, st.ind, R, n)
    BY <2>1, <2>2, FitsWeaker DEF FitsAll
  <2> QED BY <2>3 DEF w, n, R
<1>3. Formed(st, inodes, dam)
  BY <1>1, <1>2 DEF Formed
<1> QED BY <1>3 DEF Holds

(* Allocating an inode: a free block becomes the inode's. *)
LEMMA HoldsTaken ==
  ASSUME NEW st, NEW blockOf, NEW inodes, NEW damaged, NEW gone, NEW other,
         Holds(st, blockOf, inodes, damaged, gone, other),
         NEW f \in Inodes, blockOf[f] = EOF, inodes[f] = NoInode, NEW b \in st.free
  PROVE  Holds(Taken(st, b), [blockOf EXCEPT ![f] = b], [inodes EXCEPT ![f] = NoInode],
               damaged, gone, other)
<1> DEFINE more == Taken(st, b)
           B == [blockOf EXCEPT ![f] = b]
           new == [inodes EXCEPT ![f] = NoInode]
           H(h) == Held(st, blockOf, inodes, h)
           N(h) == Held(more, B, inodes, h)
           T(h) == Wooded(st, inodes[h])
<1>0. /\ IsStore(st) /\ blockOf \in [Inodes -> Node]
      /\ inodes = [h \in Inodes |-> inodes[h]]
      /\ Formed(st, inodes, damaged)
      /\ Apart(st, blockOf, inodes, other)
      /\ Covers(st, blockOf, inodes, gone, other)
  BY DEF Holds
<1>1. IsStore(more) /\ more.free = st.free \ {b} /\ more.ind = st.ind
  BY <1>0, TakenIs
<1>2. new = inodes
  BY <1>0
<1>3. B \in [Inodes -> Node] /\ B[f] = b /\ \A h \in Inodes : h # f => B[h] = blockOf[h]
  BY <1>0 DEF IsStore, Node
<1>4. b \in Blocks /\ b # EOF
  BY <1>0, Constants DEF IsStore
<1> HIDE DEF more, new, B
<1>5. \A h \in Inodes : Wooded(more, inodes[h]) = T(h)
  BY <1>1 DEF Wooded
<1>6. T(f) = {}
  BY BareIs, NoInodeIs DEF Wooded
<1>7. H(f) = {} /\ N(f) = {b} /\ \A h \in Inodes : h # f => N(h) = H(h)
  BY <1>3, <1>4, <1>5, <1>6 DEF Held
<1>8. \A h \in Inodes : T(h) \subseteq H(h)
  BY DEF Held
<1>9. /\ st.free \cap other = {}
      /\ \A h \in Inodes : blockOf[h] \notin T(h)
      /\ \A h \in Inodes : H(h) \cap (st.free \cup other) = {}
      /\ \A h, k \in Inodes : h # k => H(h) \cap H(k) = {}
  BY <1>0 DEF Apart
<1>10. Formed(more, inodes, damaged)
  BY <1>0, <1>1 DEF Formed
<1> HIDE DEF H, N, T
<1>11. Apart(more, B, inodes, other)
  <2>1. more.free \cap other = {}
    BY <1>1, <1>9
  <2>2. \A h \in Inodes : B[h] \notin T(h)
    BY <1>3, <1>6, <1>9
  <2>3. ASSUME NEW h \in Inodes PROVE N(h) \cap (more.free \cup other) = {}
    <3>1. CASE h = f
      BY <3>1, <1>1, <1>7, <1>9
    <3>2. CASE h # f
      BY <3>2, <1>1, <1>7, <1>9
    <3> QED BY <3>1, <3>2
  <2>4. \A h \in Inodes : h # f => N(h) \cap N(f) = {}
    BY <1>7, <1>9
  <2>5. \A h, k \in Inodes : h # k => N(h) \cap N(k) = {}
    BY <2>4, <1>7, <1>9
  <2> QED BY <1>5, <2>1, <2>2, <2>3, <2>5 DEF Apart, N
<1>12. Covers(more, B, inodes, gone, other)
  <2>1. gone \subseteq Blocks /\ other \subseteq Blocks
        /\ \A x \in Blocks : x \in st.free \cup gone \cup other \/ \E h \in Inodes : x \in H(h)
    BY <1>0 DEF Covers, H
  <2>2. ASSUME NEW x \in Blocks
        PROVE  x \in more.free \cup gone \cup other \/ \E h \in Inodes : x \in N(h)
    <3>1. CASE x = b
      BY <3>1, <1>7
    <3>2. CASE x # b /\ x \in st.free \cup gone \cup other
      BY <3>2, <1>1
    <3>3. CASE \E h \in Inodes : x \in H(h)
      BY <3>3, <1>7
    <3> QED BY <3>1, <3>2, <3>3, <2>1
  <2> QED BY <2>1, <2>2 DEF Covers, N
<1>13. Holds(more, B, new, damaged, gone, other)
  BY <1>0, <1>1, <1>2, <1>3, <1>10, <1>11, <1>12 DEF Holds
<1> QED BY <1>13 DEF more, B, new

(* Deleting an inode: its block becomes free, when nothing hangs from it   *)
(* any more.                                                               *)
LEMMA HoldsFreed ==
  ASSUME NEW st, NEW blockOf, NEW inodes, NEW damaged, NEW gone, NEW other,
         Holds(st, blockOf, inodes, damaged, gone, other),
         NEW f \in Inodes, blockOf[f] # EOF, Wooded(st, inodes[f]) = {}
  PROVE  Holds(block_free(st, blockOf[f]), [blockOf EXCEPT ![f] = EOF],
               [inodes EXCEPT ![f] = NoInode], damaged \ {f}, gone, other)
<1> DEFINE b == blockOf[f]
           more == block_free(st, b)
           B == [blockOf EXCEPT ![f] = EOF]
           new == [inodes EXCEPT ![f] = NoInode]
           dam == damaged \ {f}
           H(h) == Held(st, blockOf, inodes, h)
           N(h) == Held(more, B, new, h)
           T(h) == Wooded(st, inodes[h])
<1>0. /\ IsStore(st) /\ blockOf \in [Inodes -> Node]
      /\ inodes = [h \in Inodes |-> inodes[h]]
      /\ Formed(st, inodes, damaged)
      /\ Apart(st, blockOf, inodes, other)
      /\ Covers(st, blockOf, inodes, gone, other)
  BY DEF Holds
<1>1. b \in Blocks /\ b # EOF
  BY <1>0 DEF Node
<1>2. /\ IsStore(more) /\ more.free = st.free \cup {b}
      /\ \A x \in Blocks : x # b => more.ind[x] = st.ind[x]
  BY <1>0, <1>1, FreedIs
<1>3. new = [h \in Inodes |-> new[h]] /\ new[f] = NoInode
      /\ \A h \in Inodes : h # f => new[h] = inodes[h]
  BY <1>0
<1>4. B \in [Inodes -> Node] /\ B[f] = EOF /\ \A h \in Inodes : h # f => B[h] = blockOf[h]
  BY <1>0 DEF Node
<1>D. \A h \in Inodes : h # f => (h \notin dam <=> h \notin damaged)
  OBVIOUS
<1>B. b = blockOf[f] /\ more = block_free(st, b) /\ T(f) = {}
  OBVIOUS
<1> HIDE DEF b, more, new, B, dam
<1>5. H(f) = {b}
  BY <1>1, <1>B DEF Held
<1>6. \A h \in Inodes : T(h) \subseteq H(h)
  BY DEF Held
<1>7. /\ st.free \cap other = {}
      /\ \A h \in Inodes : blockOf[h] \notin T(h)
      /\ \A h \in Inodes : H(h) \cap (st.free \cup other) = {}
      /\ \A h, k \in Inodes : h # k => H(h) \cap H(k) = {}
  BY <1>0 DEF Apart
<1> HIDE DEF H, N, T
<1>8. ASSUME NEW h \in Inodes, h # f
      PROVE  /\ Wooded(more, new[h]) = T(h)
             /\ Forest(Slots, new[h].blocks, SL, more.ind, {})
             /\ FitsAll(h \notin dam, more.ind, new[h].blocks, BlockCount(new[h].size))
             /\ IsIno(new[h])
             /\ N(h) = H(h)
  <2> DEFINE R == inodes[h].blocks
             n == BlockCount(inodes[h].size)
             e == h \notin damaged
             w == h \notin dam
  <2>0. /\ R \in [Slots -> Node] /\ n \in Nat /\ st.ind \in Ptrs /\ IsIno(inodes[h])
        /\ Forest(Slots, R, SL, st.ind, {}) /\ FitsAll(e, st.ind, R, n)
    BY <1>0, BlockCountIs DEF Formed, IsIno, IsStore
  <2>1. e \in BOOLEAN /\ w \in BOOLEAN /\ w = e
    BY <1>D, <1>8
  <2>2. b \notin T(h)
    BY <1>5, <1>6, <1>7, <1>8
  <2>3. T(h) = Wood(Slots, R, SL, st.ind)
    BY DEF T, Wooded
  <2> HIDE DEF R, n, e, w
  <2>4. \A x \in Blocks : x \in Wood(Slots, R, SL, st.ind) => more.ind[x] = st.ind[x]
    BY <2>2, <2>3, <1>2
  <2>5. /\ Wood(Slots, R, SL, more.ind) = Wood(Slots, R, SL, st.ind)
        /\ Forest(Slots, R, SL, more.ind, {})
        /\ FitsAll(e, more.ind, R, n)
    BY <2>0, <2>1, <2>4, Untouched
  <2>6. new[h] = inodes[h] /\ B[h] = blockOf[h]
    BY <1>3, <1>4, <1>8
  <2>7. Wooded(more, new[h]) = T(h)
    BY <2>3, <2>5, <2>6 DEF Wooded, R
  <2>8. N(h) = H(h)
    BY <2>6, <2>7 DEF N, H, T, Held
  <2>9. FitsAll(w, more.ind, R, n)
    BY <2>1, <2>5
  <2> QED BY <2>0, <2>5, <2>6, <2>7, <2>8, <2>9 DEF R, n, w
<1>9. /\ Wooded(more, new[f]) = {}
      /\ Forest(Slots, new[f].blocks, SL, more.ind, {})
      /\ FitsAll(f \notin dam, more.ind, new[f].blocks, BlockCount(new[f].size))
      /\ IsIno(new[f])
  <2> DEFINE w == f \notin dam
             R == NoInode.blocks
  <2>1. w \in BOOLEAN
    OBVIOUS
  <2>2. R \in [Slots -> Node] /\ \A s \in Slots : R[s] = EOF
    BY NoInodeIs
  <2> HIDE DEF w, R
  <2>3. Wood(Slots, R, SL, more.ind) = {} /\ Forest(Slots, R, SL, more.ind, {})
        /\ FitsAll(w, more.ind, R, 0)
    BY <2>1, <2>2, BareIs
  <2> QED BY <2>3, <1>3, NoInodeIs DEF Wooded, R, w
<1>10. N(f) = {}
  BY <1>4, <1>9 DEF N, Held
<1>11. Formed(more, new, dam)
  <2>1. ASSUME NEW h \in Inodes
        PROVE  /\ IsIno(new[h])
               /\ Forest(Slots, new[h].blocks, SL, more.ind, {})
               /\ FitsAll(h \notin dam, more.ind, new[h].blocks, BlockCount(new[h].size))
    <3>1. CASE h = f
      BY <3>1, <1>9
    <3>2. CASE h # f
      BY <3>2, <1>8
    <3> QED BY <3>1, <3>2
  <2> QED BY <2>1 DEF Formed
<1>12. Apart(more, B, new, other)
  <2>1. more.free \cap other = {}
    BY <1>2, <1>5, <1>7
  <2>2. ASSUME NEW h \in Inodes PROVE B[h] \notin Wooded(more, new[h])
    BY <1>4, <1>7, <1>8, <1>9
  <2>3. ASSUME NEW h \in Inodes PROVE N(h) \cap (more.free \cup other) = {}
    <3>1. CASE h = f
      BY <3>1, <1>10
    <3>2. CASE h # f
      <4>1. H(h) \cap {b} = {}
        BY <3>2, <1>5, <1>7
      <4> QED BY <3>2, <4>1, <1>2, <1>7, <1>8
    <3> QED BY <3>1, <3>2
  <2>4. ASSUME NEW h \in Inodes, NEW k \in Inodes, h # k PROVE N(h) \cap N(k) = {}
    <3>1. CASE h = f \/ k = f
      BY <3>1, <1>10
    <3>2. CASE h # f /\ k # f
      BY <3>2, <2>4, <1>7, <1>8
    <3> QED BY <3>1, <3>2
  <2> QED BY <2>1, <2>2, <2>3, <2>4 DEF Apart, N
<1>13. Covers(more, B, new, gone, other)
  <2>1. gone \subseteq Blocks /\ other \subseteq Blocks
        /\ \A x \in Blocks : x \in st.free \cup gone \cup other \/ \E h \in Inodes : x \in H(h)
    BY <1>0 DEF Covers, H
  <2>2. ASSUME NEW x \in Blocks
        PROVE  x \in more.free \cup gone \cup other \/ \E h \in Inodes : x \in N(h)
    <3>1. CASE x \in st.free \cup gone \cup other
      BY <3>1, <1>2
    <3>2. CASE \E h \in Inodes : x \in H(h)
      <4>1. PICK h \in Inodes : x \in H(h)
        BY <3>2
      <4>2. CASE h = f
        BY <4>1, <4>2, <1>2, <1>5
      <4>3. CASE h # f
        BY <4>1, <4>3, <1>8
      <4> QED BY <4>2, <4>3
    <3> QED BY <3>1, <3>2, <2>1
  <2> QED BY <2>1, <2>2 DEF Covers, N
<1>14. Holds(more, B, new, dam, gone, other)
  BY <1>2, <1>3, <1>4, <1>11, <1>12, <1>13 DEF Holds
<1> QED BY <1>14, <1>B DEF B, new, dam

-----------------------------------------------------------------------------
(* The inductive invariant. *)
Sound ==
  /\ use \in Uses
  /\ Holds(Store, ilist, inode, lost, orphans, others)
  /\ \A f \in Inodes : inode[f].nlinks \in 0 .. use.links
  /\ \A f \in Inodes : ilist[f] = EOF => inode[f] = NoInode
  /\ aborted \in BOOLEAN
  /\ lost \subseteq Live

Valid == Sound /\ ShortOnlyWhenFull

(* The fields of a store with no flag raised. *)
LEMMA StoreIs ==
  ASSUME NEW F, NEW P, NEW b
  PROVE  LET st == [free |-> F, ind |-> P, bytes |-> b, bad |-> FALSE, hyper |-> FALSE]
         IN  /\ st.free = F /\ st.ind = P /\ st.bytes = b /\ ~st.bad /\ ~st.hyper
             /\ IsStore(st) <=> F \subseteq Blocks /\ P \in Ptrs /\ IsBytes(b)
BY DEF IsStore

(* The disk holds together whatever the bytes of its data blocks. *)
LEMMA HoldsStore ==
  ASSUME NEW st, NEW blockOf, NEW inodes, NEW damaged, NEW gone, NEW other,
         Holds(st, blockOf, inodes, damaged, gone, other),
         NEW more, IsStore(more), more.free = st.free, more.ind = st.ind
  PROVE  Holds(more, blockOf, inodes, damaged, gone, other)
<1>1. \A h : Wooded(more, inodes[h]) = Wooded(st, inodes[h])
  BY DEF Wooded
<1>2. \A h : Held(more, blockOf, inodes, h) = Held(st, blockOf, inodes, h)
  BY <1>1 DEF Held
<1>3. Formed(more, inodes, damaged)
  BY DEF Holds, Formed
<1>4. Apart(more, blockOf, inodes, other)
  BY <1>1, <1>2 DEF Holds, Apart
<1>5. Covers(more, blockOf, inodes, gone, other)
  BY <1>2 DEF Holds, Covers
<1> QED BY <1>3, <1>4, <1>5 DEF Holds

(* The blocks of an inode, as the model writes it and as the proofs do. *)
LEMMA TreeBlocksAre ==
  ASSUME NEW st, NEW ino
  PROVE  TreeBlocks(st, ino) = Wooded(st, ino)
BY SLIs DEF TreeBlocks, Wooded, Wood

(* Every operation finds the disk as inode_setsize expects it. *)
LEMMA ReadyToSize ==
  ASSUME Sound, NEW f \in Inodes
  PROVE  SizedPre(f \notin lost, Store, inode[f])
<1> DEFINE st == Store
           ino == inode[f]
<1>1. IsStore(st) /\ Formed(st, inode, lost) /\ Apart(st, ilist, inode, others)
  BY DEF Sound, Holds
<1>2. ~st.bad
  BY DEF Store
<1> HIDE DEF st
<1>3. /\ IsIno(ino) /\ Forest(Slots, ino.blocks, SL, st.ind, {})
      /\ FitsAll(f \notin lost, st.ind, ino.blocks, BlockCount(ino.size))
  BY <1>1 DEF Formed
<1>4. Wooded(st, ino) \cap st.free = {}
  BY <1>1 DEF Apart, Held
<1>5. Forest(Slots, ino.blocks, SL, st.ind, st.free)
  BY <1>3, <1>4, ForestApart DEF Wooded
<1>6. SizedPre(f \notin lost, st, ino)
  BY <1>1, <1>2, <1>3, <1>5 DEF SizedPre
<1> QED BY <1>6 DEF st

(* An operation that ends, or stops at a failed assertion. *)
LEMMA CommitSound ==
  ASSUME Sound, NEW f \in Inodes, ilist[f] # EOF, UNCHANGED use,
         NEW r, SizedPost(f \notin lost, Store, inode[f], r),
         NEW op, NEW want, Commit(f, r, op, want)
  PROVE  Sound'
<1> DEFINE dam == IF r.st.hyper THEN lost \cup {f} ELSE lost
           ino1 == [inode EXCEPT ![f] = r.ino]
<1>1. Holds(Store, ilist, inode, lost, orphans, others)
  BY DEF Sound
<1>2. others' = others /\ use' = use /\ use' \in Uses
  BY DEF others, Sound
<1>3. lost' = dam /\ lost \subseteq dam /\ dam \subseteq Live
  BY DEF Commit, Sound, Live
<1>4. CASE r.st.bad
  <2>1. /\ free' = free /\ ind' = ind /\ bytes' = bytes /\ ilist' = ilist /\ inode' = inode
        /\ orphans' = orphans /\ aborted' = TRUE
    BY <1>4 DEF Commit, disk
  <2>2. Store' = Store
    BY <2>1 DEF Store
  <2>3. Live' = Live
    BY <2>1 DEF Live
  <2>4. Holds(Store, ilist, inode, dam, orphans, others)
    BY <1>1, <1>3, HoldsWeaker
  <2> HIDE DEF dam
  <2>5. Holds(Store, ilist, inode, lost, orphans, others)'
    BY <1>2, <1>3, <2>1, <2>2, <2>4
  <2> QED BY <1>2, <1>3, <2>1, <2>3, <2>5 DEF Sound
<1>5. CASE ~r.st.bad
  <2>1. /\ free' = r.st.free /\ ind' = r.st.ind /\ bytes' = r.st.bytes
        /\ inode' = ino1 /\ ilist' = ilist /\ aborted' = aborted
        /\ orphans' = IF f \in lost' THEN orphans \cup Orphaned(f, r) ELSE orphans
    BY <1>5 DEF Commit
  <2>2. /\ SlotsKept(f \notin lost, Store, inode[f].blocks, r.st, r.ino.blocks)
        /\ IsIno(r.ino) /\ r.ino.nlinks = inode[f].nlinks
        /\ FitsAll((f \notin lost) /\ ~r.st.hyper, r.st.ind, r.ino.blocks, BlockCount(r.ino.size))
    BY <1>5 DEF SizedPost
  <2>3. Shaped(f \notin lost, Store, inode[f], r)
    BY <2>2 DEF Shaped
  <2>4. Orphaned(f, r) = (Store.free \cup Wooded(Store, inode[f])) \
                           (Wooded(r.st, r.ino) \cup r.st.free)
    BY TreeBlocksAre DEF Orphaned, Store
  <2>5. orphans' = IF f \in dam
                   THEN orphans \cup ((Store.free \cup Wooded(Store, inode[f])) \
                                        (Wooded(r.st, r.ino) \cup r.st.free))
                   ELSE orphans
    BY <1>3, <2>1, <2>4
  <2>6. Holds(r.st, ilist, ino1, dam, orphans', others)
    BY <1>1, <2>3, <2>5, Landed
  <2>7. /\ IsStore(Store') /\ Store'.free = r.st.free /\ Store'.ind = r.st.ind
    <3>1. Store' = [free |-> r.st.free, ind |-> r.st.ind, bytes |-> r.st.bytes,
                    bad |-> FALSE, hyper |-> FALSE]
      BY <2>1 DEF Store
    <3>2. r.st.free \subseteq Blocks /\ r.st.ind \in Ptrs /\ IsBytes(r.st.bytes)
      BY <2>2 DEF SlotsKept, IsStore
    <3> QED BY <3>1, <3>2, StoreIs
  <2>8. Holds(Store', ilist, ino1, dam, orphans', others)
    BY <2>6, <2>7, HoldsStore
  <2>9. \A h \in Inodes : inode'[h].nlinks \in 0 .. use.links
    <3>1. inode = [h \in Inodes |-> inode[h]]
      BY <1>1 DEF Holds
    <3>2. \A h \in Inodes : inode'[h] = IF h = f THEN r.ino ELSE inode[h]
      BY <2>1, <3>1
    <3> QED BY <2>2, <3>2 DEF Sound
  <2>10. \A h \in Inodes : ilist'[h] = EOF => inode'[h] = NoInode
    <3>1. inode = [h \in Inodes |-> inode[h]]
      BY <1>1 DEF Holds
    <3>2. \A h \in Inodes : h # f => inode'[h] = inode[h]
      BY <2>1, <3>1
    <3> QED BY <2>1, <3>2 DEF Sound
  <2>11. Live' = Live
    BY <2>1 DEF Live
  <2>12. Holds(Store, ilist, inode, lost, orphans, others)'
    <3> HIDE DEF dam, ino1
    <3> QED BY <1>2, <1>3, <2>1, <2>8
  <2>13. aborted' \in BOOLEAN
    BY <2>1 DEF Sound
  <2> HIDE DEF dam
  <2> QED BY <1>2, <1>3, <2>9, <2>10, <2>11, <2>12, <2>13 DEF Sound
<1> QED BY <1>4, <1>5

-----------------------------------------------------------------------------
(* The initial states, and the operations one by one.                      *)
(* A new disk is sound: everything is free. *)
LEMMA InitValid == Init => Valid
<1> SUFFICES ASSUME Init PROVE Valid
  OBVIOUS
<1> DEFINE st == Store
<1>1. /\ use \in Uses /\ free = Blocks \ others /\ ind = [b \in Blocks |-> NoChildren]
      /\ bytes = [b \in Blocks |-> JunkBytes] /\ ilist = [f \in Inodes |-> EOF]
      /\ inode = [f \in Inodes |-> NoInode] /\ aborted = FALSE /\ lost = {} /\ orphans = {}
      /\ ret.op = "none"
  BY DEF Init
<1>2. others \subseteq Blocks /\ use.links \in Nat
  BY <1>1, InodeAssumption DEF others
<1>3. IsStore(st) /\ st.free = free /\ st.ind = ind
  <2>1. free \subseteq Blocks /\ ind \in Ptrs
    BY <1>1, NoChildrenIs DEF Ptrs
  <2>2. IsBytes(bytes)
    BY <1>1 DEF IsBytes, JunkBytes
  <2> QED BY <2>1, <2>2, StoreIs DEF Store
<1> HIDE DEF st
<1>4. \A f \in Inodes :
        /\ IsIno(inode[f]) /\ Wooded(st, inode[f]) = {}
        /\ Forest(Slots, inode[f].blocks, SL, st.ind, {})
        /\ FitsAll(f \notin lost, st.ind, inode[f].blocks, BlockCount(inode[f].size))
  <2> SUFFICES ASSUME NEW f \in Inodes
               PROVE  /\ IsIno(inode[f]) /\ Wooded(st, inode[f]) = {}
                      /\ Forest(Slots, inode[f].blocks, SL, st.ind, {})
                      /\ FitsAll(f \notin lost, st.ind, inode[f].blocks, BlockCount(inode[f].size))
    OBVIOUS
  <2> DEFINE R == NoInode.blocks
             w == f \notin lost
  <2>1. inode[f] = NoInode /\ w \in BOOLEAN
    BY <1>1
  <2>2. R \in [Slots -> Node] /\ \A s \in Slots : R[s] = EOF
    BY NoInodeIs
  <2> HIDE DEF R, w
  <2>3. Wood(Slots, R, SL, st.ind) = {} /\ Forest(Slots, R, SL, st.ind, {})
        /\ FitsAll(w, st.ind, R, 0)
    BY <2>1, <2>2, BareIs
  <2> QED BY <2>1, <2>3, NoInodeIs DEF Wooded, R, w
<1>5. \A f \in Inodes : Held(st, ilist, inode, f) = {} /\ ilist[f] = EOF
  BY <1>1, <1>4 DEF Held
<1>6. Formed(st, inode, lost)
  BY <1>4 DEF Formed
<1>7. Apart(st, ilist, inode, others)
  BY <1>1, <1>3, <1>4, <1>5 DEF Apart
<1>8. Covers(st, ilist, inode, orphans, others)
  BY <1>1, <1>2, <1>3 DEF Covers
<1>9. ilist \in [Inodes -> Node] /\ inode = [f \in Inodes |-> inode[f]]
  BY <1>1 DEF Node
<1>10. Holds(st, ilist, inode, lost, orphans, others)
  BY <1>3, <1>6, <1>7, <1>8, <1>9 DEF Holds
<1>11. Sound
  <2>1. \A f \in Inodes : inode[f].nlinks \in 0 .. use.links /\ inode[f] = NoInode
    BY <1>1, <1>2, NoInodeIs
  <2>2. Holds(Store, ilist, inode, lost, orphans, others)
    BY <1>10 DEF st
  <2>3. aborted \in BOOLEAN /\ lost \subseteq Live /\ use \in Uses
    BY <1>1
  <2> QED BY <2>1, <2>2, <2>3 DEF Sound
<1>12. ShortOnlyWhenFull
  BY <1>1 DEF ShortOnlyWhenFull, StoppedShort
<1> QED BY <1>11, <1>12 DEF Valid

(* Nothing but what is returned changes. *)
LEMMA OnlyRet ==
  ASSUME Sound, UNCHANGED use, UNCHANGED <<disk, aborted, lost, orphans, contents>>
  PROVE  Sound'
<1>1. /\ free' = free /\ ind' = ind /\ bytes' = bytes /\ ilist' = ilist /\ inode' = inode
      /\ orphans' = orphans /\ aborted' = aborted /\ lost' = lost /\ use' = use
  BY DEF disk
<1>2. Store' = Store /\ others' = others /\ Live' = Live
  BY <1>1 DEF Store, others, Live
<1> QED BY <1>1, <1>2 DEF Sound

(* An operation that neither wrote nor truncated did not stop short. *)
LEMMA NotShort ==
  ASSUME ret'.op \notin {"write", "truncate"}
  PROVE  ShortOnlyWhenFull'
BY DEF ShortOnlyWhenFull, StoppedShort

(* inode_allocate preserves the invariant. *)
LEMMA AllocateValid ==
  ASSUME Valid, inode_allocate, UNCHANGED use
  PROVE  Valid'
<1> DEFINE numbers == use.files \ Live
           f == Min(numbers)
           b == Min(free)
           st == Taken(Store, b)
<1>0. Sound
  BY DEF Valid
<1>1. CASE numbers = {} \/ free = {}
  <2>1. /\ UNCHANGED <<disk, aborted, lost, orphans, contents>>
        /\ ret' = [op |-> "none", ino |-> 0, want |-> 0, n |-> -1]
    BY <1>1 DEF inode_allocate
  <2>2. Sound'
    BY <1>0, <2>1, OnlyRet
  <2>3. ret'.op = "none"
    BY <2>1
  <2> QED BY <2>2, <2>3, NotShort DEF Valid
<1>2. CASE ~(numbers = {} \/ free = {})
  <2>1. /\ free' = st.free /\ ilist' = [ilist EXCEPT ![f] = b]
        /\ inode' = [inode EXCEPT ![f] = NoInode]
        /\ ret' = [op |-> "allocate", ino |-> f, want |-> 0, n |-> f]
        /\ ind' = ind /\ bytes' = bytes /\ aborted' = aborted /\ lost' = lost
        /\ orphans' = orphans
    BY <1>2 DEF inode_allocate
  <2>2. Holds(Store, ilist, inode, lost, orphans, others) /\ use \in Uses
    BY <1>0 DEF Sound
  <2>3. IsStore(Store) /\ Store.free = free /\ Store.ind = ind
    BY <2>2 DEF Holds, Store
  <2>4. f \in numbers
    <3>1. numbers \subseteq Nat /\ numbers # {}
      BY <1>2, <2>2, InodeAssumption
    <3> HIDE DEF numbers
    <3> QED BY <3>1, MinIn
  <2>5. f \in Inodes /\ ilist[f] = EOF /\ inode[f] = NoInode
    BY <2>2, <2>4, <1>0, InodeAssumption DEF Live, Sound
  <2>6. b \in Store.free /\ b \in Blocks
    <3>1. free \subseteq Nat /\ free # {} /\ free \subseteq Blocks
      BY <1>2, <2>3, Constants DEF IsStore
    <3> QED BY <3>1, <2>3, MinIn
  <2> HIDE DEF f, b, numbers
  <2>7. Holds(st, [ilist EXCEPT ![f] = b], [inode EXCEPT ![f] = NoInode], lost, orphans, others)
    BY <2>2, <2>5, <2>6, HoldsTaken
  <2>8. IsStore(Store') /\ Store'.free = st.free /\ Store'.ind = st.ind
    <3>1. IsStore(st) /\ st.ind = ind /\ st.bytes = bytes
      <4>1. IsStore(st) /\ st.ind = ind
        BY <2>3, TakenIs
      <4>2. st = [free |-> free \ {b}, ind |-> ind, bytes |-> bytes, bad |-> FALSE, hyper |-> FALSE]
        <5>1. Store = [free |-> free, ind |-> ind, bytes |-> bytes, bad |-> FALSE, hyper |-> FALSE]
          BY DEF Store
        <5> DEFINE z == Store
                   no == FALSE
        <5>2. z = [free |-> free, ind |-> ind, bytes |-> bytes, bad |-> no, hyper |-> no]
          BY <5>1
        <5> HIDE DEF z, no
        <5>3. Taken(z, b) = [free |-> free \ {b}, ind |-> ind, bytes |-> bytes, bad |-> no, hyper |-> no]
          BY <5>2 DEF Taken
        <5> QED BY <5>3 DEF z, no
      <4> QED BY <4>1, <4>2
    <3>2. Store' = [free |-> st.free, ind |-> st.ind, bytes |-> st.bytes,
                    bad |-> FALSE, hyper |-> FALSE]
      BY <2>1, <3>1 DEF Store
    <3>3. st.free \subseteq Blocks /\ st.ind \in Ptrs /\ IsBytes(st.bytes)
      BY <3>1 DEF IsStore
    <3> HIDE DEF st
    <3> QED BY <3>2, <3>3, StoreIs
  <2>9. others' = others
    BY DEF others
  <2> HIDE DEF st
  <2>10. Holds(Store', ilist', inode', lost', orphans', others')
    BY <2>1, <2>7, <2>8, <2>9, HoldsStore
  <2>11. /\ ilist \in [Inodes -> Node] /\ inode = [h \in Inodes |-> inode[h]]
    BY <2>2 DEF Holds
  <2>12. /\ ilist'[f] = b /\ b # EOF /\ inode'[f] = NoInode
         /\ \A h \in Inodes : h # f => ilist'[h] = ilist[h] /\ inode'[h] = inode[h]
    BY <2>1, <2>5, <2>6, <2>11, Constants
  <2>13. lost' \subseteq Live'
    BY <2>1, <2>12, <1>0 DEF Sound, Live
  <2>14. \A h \in Inodes : inode'[h].nlinks \in 0 .. use'.links
    <3>1. inode'[f].nlinks = 0 /\ use.links \in Nat
      BY <2>12, <2>2, NoInodeIs, InodeAssumption
    <3> QED BY <3>1, <2>12, <1>0 DEF Sound
  <2>15. \A h \in Inodes : ilist'[h] = EOF => inode'[h] = NoInode
    BY <2>12, <1>0 DEF Sound
  <2>16. use' \in Uses /\ aborted' \in BOOLEAN
    BY <2>1, <2>2, <1>0 DEF Sound
  <2>17. Sound'
    BY <2>10, <2>13, <2>14, <2>15, <2>16 DEF Sound
  <2>18. ret'.op = "allocate"
    BY <2>1
  <2> QED BY <2>17, <2>18, NotShort DEF Valid
<1> QED BY <1>1, <1>2

(* inode_link and inode_unlink preserve the invariant. *)
LEMMA RelinkValid ==
  ASSUME Valid, NEW f \in Inodes, NEW delta \in {1, -1}, Relink(f, delta), UNCHANGED use
  PROVE  Valid'
<1> DEFINE n == inode[f].nlinks + delta
           ino == [inode[f] EXCEPT !.nlinks = n]
           g == [st |-> Store, ino |-> ino]
           new == [inode EXCEPT ![f] = ino]
<1>0. Sound
  BY DEF Valid
<1>1. /\ ilist[f] # EOF /\ n \in 0 .. use.links
      /\ inode' = [inode EXCEPT ![f].nlinks = @ + delta]
      /\ ret'.op = "link"
      /\ free' = free /\ ind' = ind /\ bytes' = bytes /\ ilist' = ilist
      /\ aborted' = aborted /\ lost' = lost /\ orphans' = orphans
  BY DEF Relink
<1>2. inode' = new
  BY <1>1
<1>3. Holds(Store, ilist, inode, lost, orphans, others)
  BY <1>0 DEF Sound
<1>4. SizedPre(f \notin lost, Store, inode[f])
  BY <1>0, ReadyToSize
<1>5. IsIno(inode[f])
  BY <1>4 DEF SizedPre
<1>6. ino = [nlinks |-> n, size |-> inode[f].size, blocks |-> inode[f].blocks]
  BY <1>5 DEF IsIno
<1>7. ino.nlinks = n /\ ino.size = inode[f].size /\ ino.blocks = inode[f].blocks
  BY <1>6
<1>8. IsIno(ino)
  BY <1>5, <1>6 DEF IsIno
<1>9. ~Store.hyper
  BY DEF Store
<1>10. Shaped(f \notin lost, Store, inode[f], g)
  <2>1. g.st = Store /\ g.ino = ino
    OBVIOUS
  <2>2. SlotsKept(f \notin lost, Store, inode[f].blocks, Store, inode[f].blocks)
    BY <1>4, SlotsKeptStart
  <2> DEFINE e == f \notin lost
             w == e /\ ~Store.hyper
  <2>3. w = e
    BY <1>9
  <2>4. FitsAll(e, Store.ind, inode[f].blocks, BlockCount(inode[f].size))
    BY <1>4 DEF SizedPre
  <2> HIDE DEF e, w, g, ino
  <2>5. FitsAll(w, Store.ind, ino.blocks, BlockCount(ino.size))
    BY <2>3, <2>4, <1>7
  <2> QED BY <2>1, <2>2, <2>5, <1>7, <1>8 DEF Shaped, w, e
<1>11. g.st = Store /\ g.ino = ino
  OBVIOUS
<1> HIDE DEF g, ino, n
<1>12. Holds(g.st, ilist, [inode EXCEPT ![f] = g.ino], lost, orphans \cup
             IF f \in lost THEN (Store.free \cup Wooded(Store, inode[f])) \
                                  (Wooded(g.st, g.ino) \cup g.st.free) ELSE {}, others)
  <2> DEFINE gon == IF f \in lost
                    THEN orphans \cup ((Store.free \cup Wooded(Store, inode[f])) \
                                         (Wooded(g.st, g.ino) \cup g.st.free))
                    ELSE orphans
  <2>1. lost = IF g.st.hyper THEN lost \cup {f} ELSE lost
    BY <1>9, <1>11
  <2>2. Holds(g.st, ilist, [inode EXCEPT ![f] = g.ino], lost, gon, others)
    BY <1>3, <1>10, <2>1, Landed
  <2>3. gon = orphans \cup
             IF f \in lost THEN (Store.free \cup Wooded(Store, inode[f])) \
                                  (Wooded(g.st, g.ino) \cup g.st.free) ELSE {}
    OBVIOUS
  <2> QED BY <2>2, <2>3
<1>13. Wooded(g.st, g.ino) = Wooded(Store, inode[f])
  BY <1>7, <1>11 DEF Wooded
<1>14. Holds(Store, ilist, new, lost, orphans, others)
  <2>1. (orphans \cup IF f \in lost THEN (Store.free \cup Wooded(Store, inode[f])) \
                                  (Wooded(g.st, g.ino) \cup g.st.free) ELSE {}) = orphans
    BY <1>11, <1>13
  <2> QED BY <1>11, <1>12, <2>1
<1>15. Store' = Store /\ others' = others /\ Live' = Live
  BY <1>1 DEF Store, others, Live
<1>16. inode = [h \in Inodes |-> inode[h]]
  BY <1>3 DEF Holds
<1>17. \A h \in Inodes : inode'[h] = IF h = f THEN ino ELSE inode[h]
  BY <1>2, <1>16
<1>18. Sound'
  <2>1. \A h \in Inodes : inode'[h].nlinks \in 0 .. use.links
    BY <1>1, <1>7, <1>17, <1>0 DEF Sound
  <2>2. \A h \in Inodes : ilist'[h] = EOF => inode'[h] = NoInode
    BY <1>1, <1>17, <1>0 DEF Sound
  <2>3. Holds(Store, ilist, inode, lost, orphans, others)'
    BY <1>1, <1>2, <1>14, <1>15
  <2> QED BY <2>1, <2>2, <2>3, <1>0, <1>1, <1>15 DEF Sound
<1> QED BY <1>1, <1>18, NotShort DEF Valid

(* An operation that ends stopped short only for want of blocks. *)
LEMMA CommitShort ==
  ASSUME Valid, NEW f \in Inodes, UNCHANGED use, NEW r, NEW op, NEW want, Commit(f, r, op, want),
         /\ ~r.st.bad /\ f \notin lost /\ ~r.st.hyper
         /\ \/ op = "truncate" /\ r.ino.size < Min({want, MAX_FILESIZE})
            \/ op = "write" /\ r.n < want /\ r.ino.size < MAX_FILESIZE
         => Short(r.st.free, BlockCount(r.ino.size))
  PROVE  ShortOnlyWhenFull'
<1>0. inode = [h \in Inodes |-> inode[h]] /\ ShortOnlyWhenFull
  BY DEF Valid, Sound, Holds
<1>1. CASE r.st.bad
  <2>1. ret' = ret /\ free' = free /\ inode' = inode /\ lost \subseteq lost'
    BY <1>1 DEF Commit, disk
  <2> QED BY <1>0, <2>1 DEF ShortOnlyWhenFull, StoppedShort
<1>2. CASE ~r.st.bad
  <2>1. /\ free' = r.st.free /\ inode' = [inode EXCEPT ![f] = r.ino]
        /\ ret' = [op |-> op, ino |-> f, want |-> want, n |-> r.n]
        /\ lost' = IF r.st.hyper THEN lost \cup {f} ELSE lost
    BY <1>2 DEF Commit
  <2>2. ret'.op = op /\ ret'.ino = f /\ ret'.want = want /\ ret'.n = r.n
    BY <2>1
  <2>3. inode'[f] = r.ino
    BY <2>1, <1>0
  <2>4. f \notin lost' => f \notin lost /\ ~r.st.hyper
    BY <2>1
  <2> SUFFICES ASSUME StoppedShort', f \notin lost'
               PROVE  Cardinality(free') < BlocksForNext(BlockCount(inode'[f].size))
    BY <2>2 DEF ShortOnlyWhenFull
  <2>5. Short(r.st.free, BlockCount(r.ino.size))
    BY <1>2, <2>2, <2>3, <2>4 DEF StoppedShort
  <2> QED BY <2>1, <2>3, <2>5 DEF Short
<1> QED BY <1>1, <1>2

(* inode_write preserves the invariant. *)
LEMMA WriteValid ==
  ASSUME Valid, NEW f \in use.files, NEW data \in use.payloads, NEW pos \in use.offsets \cup {-1},
         inode_write(f, pos, data), UNCHANGED use
  PROVE  Valid'
<1> DEFINE e == f \notin lost
           n == Len(data)
           st == Store
           ino == inode[f]
           r == Write(st, ino, pos, data, n)
           op == "write"
<1>0. Sound /\ use \in Uses
  BY DEF Valid, Sound
<1>1. f \in Inodes /\ n \in Nat /\ pos \in Nat \cup {-1}
  <2>1. data \in Seq(Nat)
    BY <1>0, InodeAssumption
  <2> QED BY <2>1, <1>0, InodeAssumption
<1>2. ilist[f] # EOF /\ Commit(f, r, op, n)
  BY DEF inode_write
<1>3. SizedPre(e, st, ino) /\ e \in BOOLEAN
  BY <1>0, <1>1, ReadyToSize
<1> HIDE DEF e, n, st, ino
<1>4. Wrote(e, st, ino, n, r)
  BY <1>1, <1>3, WriteRight
<1> HIDE DEF r
<1>5. SizedPost(f \notin lost, Store, inode[f], r)
  BY <1>4 DEF Wrote, e, st, ino
<1> HIDE DEF op
<1>6. Sound'
  BY <1>0, <1>1, <1>2, <1>5, CommitSound
<1>7. /\ ~r.st.bad /\ f \notin lost /\ ~r.st.hyper
      /\ \/ op = "truncate" /\ r.ino.size < Min({n, MAX_FILESIZE})
         \/ op = "write" /\ r.n < n /\ r.ino.size < MAX_FILESIZE
      => Short(r.st.free, BlockCount(r.ino.size))
  BY <1>4 DEF Wrote, e, op
<1>8. ShortOnlyWhenFull'
  BY <1>1, <1>2, <1>7, CommitShort
<1> QED BY <1>6, <1>8 DEF Valid

(* inode_truncate preserves the invariant. *)
LEMMA TruncateValid ==
  ASSUME Valid, NEW f \in use.files, NEW n \in use.offsets,
         inode_truncate(f, n), UNCHANGED use
  PROVE  Valid'
<1> DEFINE e == f \notin lost
           st == Store
           ino == inode[f]
           r == Truncate(st, ino, n)
           op == "truncate"
<1>0. Sound /\ use \in Uses
  BY DEF Valid, Sound
<1>1. f \in Inodes /\ n \in Nat
  BY <1>0, InodeAssumption
<1>2. ilist[f] # EOF /\ Commit(f, r, op, n)
  BY DEF inode_truncate
<1>3. SizedPre(e, st, ino) /\ e \in BOOLEAN
  BY <1>0, <1>1, ReadyToSize
<1> HIDE DEF e, st, ino
<1>4. Truncated(e, st, ino, n, r)
  BY <1>1, <1>3, TruncateRight
<1> HIDE DEF r
<1>5. SizedPost(f \notin lost, Store, inode[f], r)
  BY <1>4 DEF Truncated, e, st, ino
<1> HIDE DEF op
<1>6. Sound'
  BY <1>0, <1>1, <1>2, <1>5, CommitSound
<1>7. /\ ~r.st.bad /\ f \notin lost /\ ~r.st.hyper
      /\ \/ op = "truncate" /\ r.ino.size < Min({n, MAX_FILESIZE})
         \/ op = "write" /\ r.n < n /\ r.ino.size < MAX_FILESIZE
      => Short(r.st.free, BlockCount(r.ino.size))
  BY <1>4 DEF Truncated, e, op
<1>8. ShortOnlyWhenFull'
  BY <1>1, <1>2, <1>7, CommitShort
<1> QED BY <1>6, <1>8 DEF Valid

(* inode_free preserves the invariant: the shrink to nothing leaves no     *)
(* tree behind, even of a damaged inode.                                   *)
LEMMA FreeValid ==
  ASSUME Valid, NEW f \in use.files, inode_free(f), UNCHANGED use
  PROVE  Valid'
<1> DEFINE s == inode_setsize(Store, inode[f], 0)
           b == ilist[f]
           st == block_free(s.st, b)
           e == f \notin lost
<1>0. Sound /\ use \in Uses /\ f \in Inodes
  BY InodeAssumption DEF Valid, Sound
<1>1. CASE inode[f].nlinks # 0
  <2>1. /\ UNCHANGED <<disk, aborted, lost, orphans, contents>>
        /\ ret' = [op |-> "none", ino |-> f, want |-> 0, n |-> -1]
    BY <1>1 DEF inode_free
  <2>2. Sound'
    BY <1>0, <2>1, OnlyRet
  <2>3. ret'.op = "none"
    BY <2>1
  <2> QED BY <2>2, <2>3, NotShort DEF Valid
<1>2. CASE inode[f].nlinks = 0
  <2>1. b # EOF /\ Deleted(f, st)
    BY <1>2 DEF inode_free
  <2>2. SizedPre(e, Store, inode[f]) /\ e \in BOOLEAN
    BY <1>0, ReadyToSize
  <2>3. Holds(Store, ilist, inode, lost, orphans, others)
    BY <1>0 DEF Sound
  <2>4. Min({0, MAX_FILESIZE}) = 0 /\ BlockCount(0) = 0 /\ 0 \in Nat
    BY MinTwo, MAXIs, BlockCountZero
  <2> HIDE DEF e
  <2>5. SetsSize(e, Store, inode[f], 0, s)
    BY <2>2, <2>4, SetSizeRight
  <2>6. /\ SlotsKept(Whole, Store, inode[f].blocks, s.st, s.ino.blocks)
        /\ s.st.hyper = Store.hyper
        /\ ~s.st.bad => s.ino.size = 0
        /\ SizedPost(e, Store, inode[f], s)
    <3>1. BlockCount(0) <= BlockCount(inode[f].size)
      BY <2>2, <2>4, BlockCountIs DEF SizedPre, IsIno
    <3> QED BY <2>5, <3>1 DEF SetsSize
  <2>7. b \in Blocks
    BY <2>1, <2>3, <1>0 DEF Holds, Node
  <2> HIDE DEF s
  <2>8. IsStore(s.st) /\ st.bad = s.st.bad /\ IsStore(st)
    <3>1. IsStore(s.st)
      BY <2>6 DEF SlotsKept
    <3> QED BY <3>1, <2>7, FreedIs
  <2>9. CASE st.bad
    <3>1. /\ free' = free /\ ind' = ind /\ bytes' = bytes /\ ilist' = ilist /\ inode' = inode
          /\ orphans' = orphans /\ aborted' = TRUE /\ lost' = lost /\ ret' = ret
      BY <2>1, <2>9 DEF Deleted, disk
    <3>2. Store' = Store /\ Live' = Live /\ others' = others
      BY <3>1 DEF Store, Live, others
    <3>3. Sound'
      BY <3>1, <3>2, <1>0 DEF Sound
    <3>4. ShortOnlyWhenFull'
      BY <3>1 DEF Valid, ShortOnlyWhenFull, StoppedShort
    <3> QED BY <3>3, <3>4 DEF Valid
  <2>10. CASE ~st.bad
    <3> DEFINE mid == [inode EXCEPT ![f] = s.ino]
               B == [ilist EXCEPT ![f] = EOF]
               dam == lost \ {f}
    <3>1. /\ free' = st.free /\ ind' = st.ind /\ bytes' = st.bytes
          /\ ilist' = B /\ inode' = [inode EXCEPT ![f] = NoInode]
          /\ ret'.op = "free" /\ lost' = dam /\ aborted' = aborted /\ orphans' = orphans
      BY <2>1, <2>10 DEF Deleted
    <3>2. ~Store.hyper
      BY DEF Store
    <3>3. /\ s.ino.size = 0 /\ IsIno(s.ino) /\ ~s.st.hyper
          /\ FitsAll(e /\ ~s.st.hyper, s.st.ind, s.ino.blocks, BlockCount(s.ino.size))
          /\ SlotsKept(e, Store, inode[f].blocks, s.st, s.ino.blocks)
      BY <2>6, <2>8, <2>10, <3>2 DEF SizedPost
    <3>4. SlotStock(s.st, s.ino.blocks) = SlotStock(Store, inode[f].blocks)
      BY <2>6, <3>3 DEF SlotsKept, Whole
    <3>5. (Store.free \cup Wooded(Store, inode[f])) \ (Wooded(s.st, s.ino) \cup s.st.free) = {}
      BY <3>4 DEF SlotStock, Wooded
    <3>6. Shaped(e, Store, inode[f], s)
      BY <3>3 DEF Shaped
    <3>7. Holds(s.st, ilist, mid, lost, orphans, others)
      <4> DEFINE gon == IF f \in lost
                        THEN orphans \cup ((Store.free \cup Wooded(Store, inode[f])) \
                                             (Wooded(s.st, s.ino) \cup s.st.free))
                        ELSE orphans
      <4>1. lost = IF s.st.hyper THEN lost \cup {f} ELSE lost
        BY <3>3
      <4>2. Shaped(f \notin lost, Store, inode[f], s)
        BY <3>6 DEF e
      <4>3. Holds(s.st, ilist, mid, lost, gon, others)
        BY <2>3, <4>1, <4>2, <1>0, Landed
      <4>4. gon = orphans
        BY <3>5
      <4> QED BY <4>3, <4>4
    <3>8. inode = [h \in Inodes |-> inode[h]] /\ ilist \in [Inodes -> Node]
      BY <2>3 DEF Holds
    <3>9. mid[f] = s.ino /\ [mid EXCEPT ![f] = NoInode] = [inode EXCEPT ![f] = NoInode]
      BY <3>8, <1>0
    <3>10. Wooded(s.st, mid[f]) = {}
      <4> DEFINE w == e /\ ~s.st.hyper
      <4>1. FitsAll(w, s.st.ind, s.ino.blocks, 0) /\ s.ino.blocks \in [Slots -> Node]
        BY <3>3, <2>4 DEF IsIno
      <4> HIDE DEF w
      <4>2. \A t \in Slots : s.ino.blocks[t] = EOF
        BY <4>1, NothingLeft
      <4>3. Wood(Slots, s.ino.blocks, SL, s.st.ind) = {}
        BY <4>1, <4>2, BareIs
      <4> QED BY <4>3, <3>9 DEF Wooded
    <3> HIDE DEF mid
    <3>11. Holds(st, B, [mid EXCEPT ![f] = NoInode], dam, orphans, others)
      BY <2>1, <3>7, <3>10, <1>0, HoldsFreed
    <3>12. Holds(st, ilist', inode', lost', orphans', others')
      BY <3>1, <3>9, <3>11 DEF others
    <3>13. IsStore(Store') /\ Store'.free = st.free /\ Store'.ind = st.ind
      <4>1. Store' = [free |-> st.free, ind |-> st.ind, bytes |-> st.bytes,
                      bad |-> FALSE, hyper |-> FALSE]
        BY <3>1 DEF Store
      <4>2. st.free \subseteq Blocks /\ st.ind \in Ptrs /\ IsBytes(st.bytes)
        BY <2>8 DEF IsStore
      <4> HIDE DEF st
      <4> QED BY <4>1, <4>2, StoreIs
    <3> HIDE DEF st
    <3>14. Holds(Store', ilist', inode', lost', orphans', others')
      BY <3>12, <3>13, HoldsStore
    <3>15. /\ ilist'[f] = EOF /\ inode'[f] = NoInode
           /\ \A h \in Inodes : h # f => ilist'[h] = ilist[h] /\ inode'[h] = inode[h]
      BY <3>1, <3>8, <1>0
    <3>16. lost' \subseteq Live'
      BY <3>1, <3>15, <1>0 DEF Sound, Live
    <3>17. \A h \in Inodes : inode'[h].nlinks \in 0 .. use'.links
      <4>1. inode'[f].nlinks = 0 /\ use.links \in Nat
        BY <3>15, <1>0, NoInodeIs, InodeAssumption
      <4> QED BY <4>1, <3>15, <1>0 DEF Sound
    <3>18. \A h \in Inodes : ilist'[h] = EOF => inode'[h] = NoInode
      BY <3>15, <1>0 DEF Sound
    <3>19. use' \in Uses /\ aborted' \in BOOLEAN
      BY <3>1, <1>0 DEF Sound
    <3>20. Sound'
      BY <3>14, <3>16, <3>17, <3>18, <3>19 DEF Sound
    <3> QED BY <3>1, <3>20, NotShort DEF Valid
  <2> QED BY <2>9, <2>10
<1> QED BY <1>1, <1>2

(* Every step preserves the invariant. *)
LEMMA NextValid ==
  ASSUME Valid, [Next]_vars
  PROVE  Valid'
<1>0. Sound /\ use \in Uses /\ use.files \subseteq Inodes
  BY InodeAssumption DEF Valid, Sound
<1>1. CASE UNCHANGED vars
  <2>1. UNCHANGED use /\ UNCHANGED <<disk, aborted, lost, orphans, contents>> /\ ret' = ret
    BY <1>1 DEF vars, disk
  <2>2. Sound'
    BY <1>0, <2>1, OnlyRet
  <2>3. ShortOnlyWhenFull'
    BY <2>1 DEF Valid, ShortOnlyWhenFull, StoppedShort, disk
  <2> QED BY <2>2, <2>3 DEF Valid
<1>2. CASE inode_allocate /\ UNCHANGED use
  BY <1>2, AllocateValid
<1>3. ASSUME NEW f \in use.files, NotAllocated(f), UNCHANGED use PROVE Valid'
  <2>1. /\ UNCHANGED <<disk, aborted, lost, orphans, contents>>
        /\ ret' = [op |-> "none", ino |-> f, want |-> 0, n |-> -1]
    BY <1>3 DEF NotAllocated
  <2>2. Sound'
    BY <1>0, <1>3, <2>1, OnlyRet
  <2>3. ret'.op = "none"
    BY <2>1
  <2> QED BY <2>2, <2>3, NotShort DEF Valid
<1>4. ASSUME NEW f \in use.files, inode_free(f), UNCHANGED use PROVE Valid'
  BY <1>4, FreeValid
<1>5. ASSUME NEW f \in use.files, inode_link(f) \/ inode_unlink(f), UNCHANGED use PROVE Valid'
  <2>1. f \in Inodes
    BY <1>0
  <2>2. CASE inode_link(f)
    BY <2>1, <2>2, <1>5, RelinkValid, 1 \in {1, -1} DEF inode_link
  <2>3. CASE inode_unlink(f)
    BY <2>1, <2>3, <1>5, RelinkValid, -1 \in {1, -1} DEF inode_unlink
  <2> QED BY <2>2, <2>3, <1>5
<1>6. ASSUME NEW f \in use.files, NEW n \in use.offsets, inode_truncate(f, n), UNCHANGED use
      PROVE  Valid'
  BY <1>6, TruncateValid
<1>7. ASSUME NEW f \in use.files, NEW data \in use.payloads, NEW pos \in use.offsets \cup {-1},
             inode_write(f, pos, data), UNCHANGED use
      PROVE  Valid'
  BY <1>7, WriteValid
<1>8. CASE Next
  <2>1. UNCHANGED use
    BY <1>8 DEF Next
  <2>2. \/ inode_allocate
        \/ \E f \in use.files :
             \/ NotAllocated(f)
             \/ inode_free(f)
             \/ inode_link(f)
             \/ inode_unlink(f)
             \/ \E n \in use.offsets : inode_truncate(f, n)
             \/ \E data \in use.payloads, pos \in use.offsets \cup {-1} : inode_write(f, pos, data)
    BY <1>8 DEF Next
  <2> QED BY <2>1, <2>2, <1>2, <1>3, <1>4, <1>5, <1>6, <1>7
<1> QED BY <1>1, <1>8

(* Valid holds in every reachable state. *)
THEOREM ValidInvariant == Spec => []Valid
<1>1. Valid /\ [Next]_vars => Valid'
  BY NextValid
<1> QED BY InitValid, <1>1, PTL DEF Spec

-----------------------------------------------------------------------------
(* What Valid says of the places.                                          *)
(* A place in use: the block of an inode, or one that hangs from a slot. *)
LEMMA UsedPlaceIs ==
  ASSUME NEW p \in UsedPlaces
  PROVE  /\ p[1] \in Live /\ BlockAt(p) # EOF
         /\ \/ p = <<p[1], -1, <<>> >> /\ BlockAt(p) = ilist[p[1]]
            \/ /\ p = <<p[1], p[2], p[3]>> /\ p[2] \in Slots /\ p[3] \in Paths(SlotLevel(p[2]))
               /\ BlockAt(p) = NodeAt(ind, inode[p[1]].blocks[p[2]], p[3])
<1>1. p \in Places /\ BlockAt(p) # EOF
  BY DEF UsedPlaces
<1>2. PICK f \in Live :
        p \in {<<f, -1, <<>> >>} \cup UNION {{<<f, s, path>> : path \in Paths(SlotLevel(s))} : s \in Slots}
  BY <1>1 DEF Places
<1>3. CASE p = <<f, -1, <<>> >>
  <2>1. p[1] = f /\ p[2] = -1 /\ p[3] = <<>>
    BY <1>3
  <2>2. BlockAt(p) = ilist[p[1]]
    BY <2>1 DEF BlockAt
  <2> QED BY <1>1, <1>3, <2>1, <2>2
<1>4. CASE \E s \in Slots : \E path \in Paths(SlotLevel(s)) : p = <<f, s, path>>
  <2>1. PICK s \in Slots : \E path \in Paths(SlotLevel(s)) : p = <<f, s, path>>
    BY <1>4
  <2>2. PICK path \in Paths(SlotLevel(s)) : p = <<f, s, path>>
    BY <2>1
  <2>3. p[1] = f /\ p[2] = s /\ p[3] = path /\ s # -1
    BY <2>2, SlotIs
  <2>4. BlockAt(p) = NodeAt(ind, inode[p[1]].blocks[p[2]], p[3])
    BY <2>3 DEF BlockAt
  <2> QED BY <1>1, <2>2, <2>3, <2>4
<1> QED BY <1>2, <1>3, <1>4

(* A place in use is one of the inode it belongs to. *)
LEMMA UsedPlaceHeld ==
  ASSUME NEW p \in UsedPlaces
  PROVE  /\ p[1] \in Inodes /\ BlockAt(p) \in Held(Store, ilist, inode, p[1])
         /\ p[2] # -1 => /\ p[2] \in Slots
                         /\ BlockAt(p) \in Tree(ind, inode[p[1]].blocks[p[2]], SL[p[2]])
                         /\ BlockAt(p) \in Wooded(Store, inode[p[1]])
<1>0. Store.ind = ind
  BY DEF Store
<1>1. p[1] \in Inodes /\ BlockAt(p) # EOF
  BY UsedPlaceIs DEF Live
<1>2. CASE p = <<p[1], -1, <<>> >> /\ BlockAt(p) = ilist[p[1]]
  <2>1. p[2] = -1
    BY <1>2
  <2> QED BY <1>1, <1>2, <2>1 DEF Held
<1>3. CASE /\ p[2] \in Slots /\ p[3] \in Paths(SlotLevel(p[2]))
           /\ BlockAt(p) = NodeAt(ind, inode[p[1]].blocks[p[2]], p[3])
  <2>1. SL[p[2]] = SlotLevel(p[2])
    BY <1>3, SLIs
  <2>2. BlockAt(p) \in Tree(ind, inode[p[1]].blocks[p[2]], SL[p[2]])
    BY <1>1, <1>3, <2>1 DEF Tree
  <2>3. BlockAt(p) \in Wooded(Store, inode[p[1]])
    BY <1>0, <1>3, <2>2 DEF Wooded, Wood
  <2> QED BY <1>1, <1>3, <2>2, <2>3 DEF Held
<1> QED BY <1>2, <1>3, UsedPlaceIs

(* What an inode holds is in use at one of its places. *)
LEMMA HeldIsUsed ==
  ASSUME Valid, NEW f \in Inodes, NEW x \in Held(Store, ilist, inode, f)
  PROVE  x \in AllInUse
<1>0. Store.ind = ind
  BY DEF Store
<1>1. ilist[f] # EOF
  <2> SUFFICES ASSUME ilist[f] = EOF PROVE FALSE
    OBVIOUS
  <2>1. inode[f] = NoInode
    BY DEF Valid, Sound
  <2>2. Wooded(Store, inode[f]) = {}
    BY <2>1, BareIs, NoInodeIs DEF Wooded
  <2> QED BY <2>2 DEF Held
<1>2. f \in Live
  BY <1>1 DEF Live
<1>3. CASE x = ilist[f]
  <2> DEFINE p == <<f, -1, <<>> >>
  <2>1. p \in Places
    BY <1>2 DEF Places
  <2>2. BlockAt(p) = x
    BY <1>3 DEF BlockAt
  <2> HIDE DEF p
  <2> QED BY <1>1, <1>3, <2>1, <2>2 DEF UsedPlaces, AllInUse
<1>4. CASE x \in Wooded(Store, inode[f])
  <2>1. PICK s \in Slots : x \in Tree(ind, inode[f].blocks[s], SlotLevel(s))
    BY <1>0, <1>4, SLIs DEF Wooded, Wood
  <2>2. PICK path \in Paths(SlotLevel(s)) : x = NodeAt(ind, inode[f].blocks[s], path) /\ x # EOF
    BY <2>1 DEF Tree
  <2> DEFINE p == <<f, s, path>>
  <2>3. p \in Places
    BY <1>2, <2>2 DEF Places
  <2>4. p[1] = f /\ p[2] = s /\ p[3] = path /\ s # -1
    BY SlotIs
  <2>5. BlockAt(p) = x
    BY <2>2, <2>4 DEF BlockAt
  <2> HIDE DEF p
  <2> QED BY <2>2, <2>3, <2>5 DEF UsedPlaces, AllInUse
<1> QED BY <1>3, <1>4 DEF Held

(* The parts of Valid that the properties are about. *)
LEMMA ValidIsApart ==
  ASSUME Valid
  PROVE  /\ IsStore(Store) /\ Store.free = free /\ Store.ind = ind /\ Store.bytes = bytes
         /\ Formed(Store, inode, lost)
         /\ Apart(Store, ilist, inode, others)
         /\ Covers(Store, ilist, inode, orphans, others)
         /\ ilist \in [Inodes -> Node]
BY DEF Valid, Sound, Holds, Store

(* Valid implies the type invariant. *)
LEMMA ValidTypes == Valid => TypeOK
<1> SUFFICES ASSUME Valid PROVE TypeOK
  OBVIOUS
<1>1. free \subseteq Blocks /\ ind \in Ptrs /\ IsBytes(bytes)
  BY ValidIsApart DEF IsStore
<1>2. free \cap others = {} /\ orphans \subseteq Blocks
  BY ValidIsApart DEF Apart, Covers
<1>3. \A f \in Inodes : inode[f].nlinks \in 0 .. use.links /\ IsIno(inode[f])
  BY ValidIsApart DEF Valid, Sound, Formed
<1> QED BY <1>1, <1>2, <1>3, ValidIsApart DEF TypeOK, Valid, Sound, Ptrs, Node, IsBytes, IsIno

(* Valid implies that no block is in two places. *)
LEMMA ValidNoBlockTwice == Valid => NoBlockTwice
<1> SUFFICES ASSUME Valid PROVE NoBlockTwice
  OBVIOUS
<1>1. ASSUME NEW p \in UsedPlaces, NEW q \in UsedPlaces, BlockAt(p) = BlockAt(q)
      PROVE  p = q
  <2> DEFINE f == p[1]
             R == inode[f].blocks
  <2>0. \A x, y : x \in Held(Store, ilist, inode, p[1]) /\ x \in Held(Store, ilist, inode, q[1])
                  => p[1] = q[1]
    BY UsedPlaceHeld, ValidIsApart DEF Apart
  <2>1. q[1] = f /\ f \in Inodes
    BY <1>1, <2>0, UsedPlaceHeld
  <2>2. ilist[f] \notin Wooded(Store, inode[f])
    BY <2>1, ValidIsApart DEF Apart
  <2>3. CASE p[2] = -1 /\ q[2] = -1
    <3>1. p = <<p[1], -1, <<>> >> /\ q = <<q[1], -1, <<>> >>
      BY <2>3, UsedPlaceIs, SlotIs
    <3> QED BY <3>1, <2>1
  <2>4. CASE p[2] = -1 /\ q[2] # -1
    <3>1. BlockAt(p) = ilist[f]
      BY <2>4, UsedPlaceIs, SlotIs
    <3>2. BlockAt(q) \in Wooded(Store, inode[f])
      BY <2>1, <2>4, UsedPlaceHeld
    <3> QED BY <3>1, <3>2, <2>2, <1>1
  <2>5. CASE p[2] # -1 /\ q[2] = -1
    <3>1. BlockAt(q) = ilist[f]
      BY <2>1, <2>5, UsedPlaceIs, SlotIs
    <3>2. BlockAt(p) \in Wooded(Store, inode[f])
      BY <2>5, UsedPlaceHeld
    <3> QED BY <3>1, <3>2, <2>2, <1>1
  <2>6. CASE p[2] # -1 /\ q[2] # -1
    <3>1. /\ p[2] \in Slots /\ q[2] \in Slots
          /\ BlockAt(p) \in Tree(ind, R[p[2]], SL[p[2]])
          /\ BlockAt(q) \in Tree(ind, R[q[2]], SL[q[2]])
      BY <2>1, <2>6, UsedPlaceHeld
    <3>2. Forest(Slots, R, SL, ind, {})
      BY <2>1, ValidIsApart DEF Formed
    <3>3. p[2] = q[2]
      BY <1>1, <3>1, <3>2 DEF Forest
    <3>4. /\ p = <<p[1], p[2], p[3]>> /\ p[3] \in Paths(SlotLevel(p[2]))
          /\ BlockAt(p) = NodeAt(ind, R[p[2]], p[3]) /\ BlockAt(p) # EOF
      BY <2>6, UsedPlaceIs
    <3>5. /\ q = <<q[1], q[2], q[3]>> /\ q[3] \in Paths(SlotLevel(p[2]))
          /\ BlockAt(q) = NodeAt(ind, R[p[2]], q[3])
      BY <2>1, <2>6, <3>3, UsedPlaceIs
    <3>6. Proper(ind, R[p[2]], SlotLevel(p[2]))
      BY <3>1, <3>2, SLIs DEF Forest
    <3>7. p[3] = q[3]
      BY <1>1, <3>4, <3>5, <3>6 DEF Proper
    <3> QED BY <2>1, <3>3, <3>4, <3>5, <3>7
  <2> QED BY <2>3, <2>4, <2>5, <2>6
<1>2. AllInUse \cap (free \cup others) = {}
  <2> SUFFICES ASSUME NEW p \in UsedPlaces PROVE BlockAt(p) \notin free \cup others
    BY DEF AllInUse
  <2> QED BY UsedPlaceHeld, ValidIsApart DEF Apart
<1> QED BY <1>1, <1>2 DEF NoBlockTwice

(* Valid implies that no block is lost. *)
LEMMA ValidNoLeak == Valid => NoLeak
<1> SUFFICES ASSUME Valid PROVE NoLeak
  OBVIOUS
<1>1. ASSUME NEW x \in AllInUse PROVE x \in Blocks
  <2>1. PICK p \in UsedPlaces : x = BlockAt(p)
    BY DEF AllInUse
  <2> DEFINE f == p[1]
  <2>2. f \in Inodes /\ x \in Held(Store, ilist, inode, f)
    BY <2>1, UsedPlaceHeld
  <2>3. ilist[f] \in Blocks \cup {EOF}
    BY <2>2, ValidIsApart DEF Node
  <2>4. Wooded(Store, inode[f]) \subseteq Blocks
    BY <2>2, ValidIsApart, WoodType DEF Wooded, Formed, IsIno, IsStore
  <2> QED BY <2>2, <2>3, <2>4 DEF Held
<1>2. free \subseteq Blocks /\ orphans \subseteq Blocks /\ others \subseteq Blocks
  BY ValidIsApart DEF IsStore, Covers
<1>3. ASSUME NEW x \in Blocks PROVE x \in AllInUse \cup free \cup orphans \cup others
  BY HeldIsUsed, ValidIsApart DEF Covers
<1> QED BY <1>1, <1>2, <1>3 DEF NoLeak

(* Valid implies that every tree matches its size. *)
LEMMA ValidTrees == Valid => TreeMatchesSize
<1> SUFFICES ASSUME Valid, NEW f \in Live
             PROVE  \A s \in Slots :
                      Fits(f \notin lost, ind, inode[f].blocks[s], SlotLevel(s),
                           blockslot2firstblockidx(s), BlockCount(inode[f].size))
  BY DEF TreeMatchesSize
<1>1. f \in Inodes
  BY DEF Live
<1>2. FitsAll(f \notin lost, ind, inode[f].blocks, BlockCount(inode[f].size))
  BY <1>1, ValidIsApart DEF Formed
<1> QED BY <1>2 DEF FitsAll

-----------------------------------------------------------------------------
(* The variables of the inode layer keep their types: blocks, sizes and    *)
(* link counts stay in range, and damaged inodes are allocated ones.       *)
THEOREM TypesInvariant == Spec => []TypeOK
BY ValidInvariant, ValidTypes, PTL

(* No block is ever in two places, of one file or of two, and no block in  *)
(* use is free, whatever is allocated, written, truncated and freed in     *)
(* whatever order, growths that run out of blocks and damaged trees        *)
(* included.                                                               *)
THEOREM NoBlockTwiceInvariant == Spec => []NoBlockTwice
BY ValidInvariant, ValidNoBlockTwice, PTL

(* Every block is free or reachable, but for those the edge case of        *)
(* inode_indirect_grow has taken from a file.                              *)
THEOREM NoLeakInvariant == Spec => []NoLeak
BY ValidInvariant, ValidNoLeak, PTL

(* After every inode_write, inode_truncate and inode_free, the tree of     *)
(* each inode is the one its size calls for.                               *)
THEOREM TreeMatchesSizeInvariant == Spec => []TreeMatchesSize
BY ValidInvariant, ValidTrees, PTL

(* inode_write and inode_truncate stop short only where the free blocks    *)
(* do not make one more data block.                                        *)
THEOREM ShortOnlyWhenFullInvariant == Spec => []ShortOnlyWhenFull
<1>1. Valid => ShortOnlyWhenFull
  BY DEF Valid
<1> QED BY <1>1, ValidInvariant, PTL

-----------------------------------------------------------------------------
(* No assertion fails in a file that is whole.                             *)
(* Copying fails no assertion of its own.                                  *)
LEMMA CopyInBad ==
  ASSUME NEW st, IsStore(st), NEW leaves, NEW pos, NEW endpos, NEW data
  PROVE  CopyIn(st, leaves, pos, endpos, data).bad = st.bad
<1> DEFINE B == [b \in Blocks |->
                  IF \A k \in DOMAIN leaves : leaves[k].block # b THEN st.bytes[b]
                  ELSE LET leaf == leaves[CHOOSE k \in DOMAIN leaves : leaves[k].block = b]
                       IN  [i \in 0 .. BS - 1 |->
                              LET off == leaf.idx * BS + i
                              IN  IF off \notin lo(leaf, pos) .. hi(leaf, endpos) - 1 THEN st.bytes[b][i]
                                  ELSE IF data = NULL THEN 0 ELSE data[off - pos + 1]]]
           u == CopyIn(st, leaves, pos, endpos, data)
<1>1. u = [st EXCEPT !.bytes = B]
  BY DEF CopyIn
<1> HIDE DEF B, u
<1>2. u.bad = st.bad
  BY <1>1 DEF IsStore
<1> QED BY <1>2 DEF u

(* A loop that copies over bytes the file has: it copies all of them.      *)
LEMMA CopyLoopGood ==
  ASSUME NEW st, IsStore(st), ~st.bad, NEW ino, NEW a \in Nat, NEW b \in Nat,
         HasRange(st, ino.blocks, a, b), NEW data
  PROVE  LET z == CopyLoop(st, ino, a, b, a, b, data)
         IN  z.ok /\ z.curpos = b /\ ~z.st.bad
<1> DEFINE v == Visit(st, ino.blocks, a, b, a, b)
           z == CopyLoop(st, ino, a, b, a, b, data)
<1>1. z.ok = v.ok /\ z.curpos = v.curpos
      /\ z.st = IF v.ok THEN CopyIn(st, v.leaves, a, b, data) ELSE st
  BY DEF CopyLoop, CopyVisited
<1>2. v.ok /\ v.curpos = b
  BY VisitRight DEF VisitedAll
<1> HIDE DEF v, z
<1>3. ~z.st.bad
  BY <1>1, CopyInBad
<1> QED BY <1>1, <1>2, <1>3 DEF z

(* A loop that is where it is to stop copies nothing.                      *)
LEMMA CopyLoopNone ==
  ASSUME NEW st, IsStore(st), ~st.bad, NEW ino, NEW a \in Nat, NEW pos, NEW endpos, NEW data
  PROVE  LET z == CopyLoop(st, ino, a, a, pos, endpos, data)
         IN  z.ok /\ z.curpos = a /\ ~z.st.bad
<1> DEFINE v == Visit(st, ino.blocks, a, a, pos, endpos)
           z == CopyLoop(st, ino, a, a, pos, endpos, data)
<1>1. z.ok = v.ok /\ z.curpos = v.curpos
      /\ z.st = IF v.ok THEN CopyIn(st, v.leaves, pos, endpos, data) ELSE st
  BY DEF CopyLoop, CopyVisited
<1>2. v.ok /\ v.curpos = a
  BY VisitNone DEF NotVisited
<1> HIDE DEF v, z
<1>3. ~z.st.bad
  BY <1>1, CopyInBad
<1> QED BY <1>1, <1>2, <1>3 DEF z

(* A file that is whole, with no assertion failed before.                  *)
WholeFile(st, ino) ==
  /\ IsStore(st) /\ ~st.bad /\ IsIno(ino)
  /\ FitsAll(Whole, st.ind, ino.blocks, BlockCount(ino.size))

(* A write within such a file, of data or of zeros, fails no assertion.    *)
LEMMA WriteRangeGood ==
  ASSUME NEW st, NEW ino, WholeFile(st, ino), NEW pos \in Nat, NEW endpos \in Nat,
         endpos <= ino.size, NEW from \in {pos, endpos}, NEW data
  PROVE  ~WriteRange(st, ino, pos, from, endpos, data).st.bad
<1>1. CASE endpos <= pos
  <2>1. WriteRange(st, ino, pos, from, endpos, data) = [st |-> st, ino |-> ino, n |-> 0]
    BY <1>1 DEF WriteRange
  <2> QED BY <2>1 DEF WholeFile
<1>2. CASE pos < endpos
  <2> DEFINE z == CopyLoop(st, ino, pos, from, pos, from, NULL)
             w == CopyLoop(z.st, ino, z.curpos, endpos, from, endpos, data)
  <2>1. from \in Nat /\ Min({from, endpos}) = from
    <3>1. from \in Nat /\ from <= endpos
      BY <1>2
    <3> QED BY <3>1, MinTwo
  <2>2. WriteRange(st, ino, pos, from, endpos, data) =
          IF ~z.ok THEN Written(z, ino, from, endpos) ELSE Written(w, ino, from, endpos)
    BY <1>2, <2>1 DEF WriteRange, WriteData
  <2>3. HasRange(st, ino.blocks, pos, endpos)
    BY <1>2, RangeThere DEF WholeFile
  <2>4. IsStore(st) /\ ~st.bad
    BY DEF WholeFile
  <2>5. z.ok /\ z.curpos = from /\ ~z.st.bad
    <3>1. CASE from = pos
      BY <2>4, <3>1, CopyLoopNone
    <3>2. CASE from = endpos
      BY <2>3, <2>4, <3>2, CopyLoopGood
    <3> QED BY <3>1, <3>2
  <2>6. OnlyBytes(st, z.st)
    BY <2>4, CopyLoopIs
  <2> HIDE DEF z
  <2> DEFINE u == z.st
  <2>7. IsStore(u) /\ u.ind = st.ind /\ ~u.bad
    BY <2>5, <2>6 DEF OnlyBytes
  <2>8. w = CopyLoop(u, ino, from, endpos, from, endpos, data)
    BY <2>5
  <2> HIDE DEF u, w
  <2>9. w.ok /\ w.curpos = endpos /\ ~w.st.bad
    <3>1. CASE from = pos
      <4>1. HasRange(u, ino.blocks, pos, endpos)
        BY <2>3, <2>7 DEF HasRange
      <4> QED BY <4>1, <2>7, <2>8, <3>1, CopyLoopGood
    <3>2. CASE from = endpos
      BY <2>7, <2>8, <3>2, CopyLoopNone
    <3> QED BY <3>1, <3>2
  <2>10. endpos - from >= 0
    BY <1>2
  <2>11. Written(w, ino, from, endpos) = [st |-> w.st, ino |-> ino, n |-> endpos - from]
    BY <2>9, <2>10 DEF Written
  <2> QED BY <2>2, <2>5, <2>9, <2>11
<1> QED BY <1>1, <1>2

(* The file that setting the size leaves is whole, unless the edge case    *)
(* damaged it.                                                             *)
LEMMA SizedWhole ==
  ASSUME NEW st, NEW ino, NEW size, NEW s, SetsSize(Whole, st, ino, size, s), ~s.st.hyper
  PROVE  WholeFile(s.st, s.ino)
<1> DEFINE e == Whole
           w == e /\ ~s.st.hyper
           n == BlockCount(s.ino.size)
<1>1. Whole
  BY DEF Whole
<1>2. ~s.st.bad /\ SizedPost(e, st, ino, s)
  BY <1>1 DEF SetsSize
<1>3. IsStore(s.st)
  BY <1>2 DEF SizedPost, SlotsKept
<1>4. IsIno(s.ino) /\ FitsAll(w, s.st.ind, s.ino.blocks, n)
  BY <1>2 DEF SizedPost
<1>5. w \in BOOLEAN /\ e \in BOOLEAN /\ (e => w)
  BY <1>1
<1> HIDE DEF e, w, n
<1>6. FitsAll(e, s.st.ind, s.ino.blocks, n)
  BY <1>4, <1>5, FitsWeaker DEF FitsAll
<1> QED BY <1>2, <1>3, <1>4, <1>6 DEF WholeFile, e, n

(* A write that begins in its file, or at its end, fails no assertion.     *)
LEMMA WriteGood ==
  ASSUME NEW st, NEW ino, SizedPre(Whole, st, ino), NEW at \in Nat \cup {-1}, at <= ino.size,
         NEW size \in Nat, NEW data, ~Write(st, ino, at, data, size).st.hyper
  PROVE  ~Write(st, ino, at, data, size).st.bad
<1> DEFINE pos == IF at = -1 THEN ino.size ELSE at
           g == Write(st, ino, at, data, size)
           endpos == pos + size
           s == inode_setsize(st, ino, endpos)
           want == Min({endpos, MAX_FILESIZE})
           file == ino.size
<1>1. pos \in Nat /\ pos <= file /\ file \in 0 .. MAX_FILESIZE /\ MAX_FILESIZE \in Nat
  BY MAXIs DEF SizedPre, IsIno
<1>2. endpos \in Nat /\ pos <= endpos
  BY <1>1
<1>3. g = IF endpos > file
          THEN WriteGrown(s, Min({pos, file}), pos, endpos, data)
          ELSE WriteRange(st, ino, pos, pos, endpos, data)
  BY DEF Write
<1>H. ~g.st.hyper
  OBVIOUS
<1> SUFFICES ~g.st.bad
  OBVIOUS
<1> HIDE DEF pos, g, endpos
<1>4. CASE ~(endpos > file)
  <2>1. WholeFile(st, ino)
    BY DEF SizedPre, WholeFile
  <2>2. endpos <= ino.size /\ pos \in {pos, endpos}
    BY <1>1, <1>2, <1>4
  <2>3. ~WriteRange(st, ino, pos, pos, endpos, data).st.bad
    BY <1>1, <1>2, <2>1, <2>2, WriteRangeGood
  <2> QED BY <2>3, <1>3, <1>4
<1>5. CASE endpos > file
  <2>1. SetsSize(Whole, st, ino, want, s)
    BY <1>2, WholeIs, SetSizeRight
  <2>2. Min({pos, file}) = pos
    BY <1>1, MinTwo
  <2>3. want = IF endpos <= MAX_FILESIZE THEN endpos ELSE MAX_FILESIZE
    BY <1>1, <1>2, MinTwo
  <2>4. /\ SizedPost(Whole, st, ino, s) /\ ~s.st.bad
        /\ s.ino.size <= want /\ (ino.size <= want => ino.size <= s.ino.size)
    BY <2>1 DEF SetsSize, Whole
  <2>5. s.ino.size \in 0 .. MAX_FILESIZE /\ IsStore(s.st)
    BY <2>4 DEF SizedPost, IsIno, SlotsKept
  <2> DEFINE reached == s.ino.size
  <2>6. reached \in Nat /\ reached <= endpos /\ pos <= reached /\ want \in Nat
    BY <1>1, <1>2, <1>5, <2>3, <2>4, <2>5
  <2>7. Max({pos, reached}) = reached
    BY <1>1, <2>6, MaxTwo
  <2> DEFINE from == IF endpos > reached THEN reached ELSE pos
  <2>8. g = WriteRange(s.st, s.ino, pos, from, reached, data)
    <3>1. ~(s.st.bad \/ endpos < s.ino.size)
      BY <1>2, <2>4, <2>6
    <3>2. CASE endpos > s.ino.size
      BY <3>1, <3>2, <1>3, <1>5, <2>2, <2>7 DEF WriteGrown
    <3>3. CASE ~(endpos > s.ino.size)
      <4>1. endpos = reached
        BY <3>3, <1>2, <2>6
      <4> QED BY <4>1, <3>1, <3>3, <1>3, <1>5, <2>2 DEF WriteGrown
    <3> QED BY <3>2, <3>3
  <2>9. from \in {pos, reached}
    OBVIOUS
  <2> DEFINE u == s.st
             i == s.ino
             n == IF reached <= pos THEN 0 ELSE reached - from
  <2>10. IsStore(u) /\ g = WriteRange(u, i, pos, from, reached, data) /\ reached <= i.size
    BY <2>5, <2>6, <2>8
  <2>N. WritesRange(u, i, n, g)
    <3> HIDE DEF u, i, reached, from
    <3> QED BY <2>10, WriteRangeIs
  <2>11. g.st.hyper = u.hyper
    BY <2>N DEF WritesRange, OnlyBytes
  <2>12. WholeFile(u, i)
    <3>1. ~s.st.hyper
      BY <1>H, <2>11
    <3> HIDE DEF s, want
    <3> QED BY <2>1, <3>1, SizedWhole
  <2> HIDE DEF u, i, reached, from
  <2> QED BY <1>1, <2>6, <2>9, <2>10, <2>12, WriteRangeGood
<1> QED BY <1>4, <1>5

(* Nor does one that truncates, or extends, a file.                        *)
LEMMA TruncateGood ==
  ASSUME NEW st, NEW ino, SizedPre(Whole, st, ino), NEW n \in Nat,
         ~Truncate(st, ino, n).st.hyper
  PROVE  ~Truncate(st, ino, n).st.bad
<1> DEFINE s == inode_setsize(st, ino, n)
           want == Min({n, MAX_FILESIZE})
           old == ino.size
           g == Truncate(st, ino, n)
<1>1. SetsSize(Whole, st, ino, want, s)
  BY WholeIs, SetSizeRight
<1>G. g = ZeroGrown(s, old)
  BY DEF Truncate
<1>O. old \in Nat
  BY MAXIs DEF SizedPre, IsIno
<1>H. ~g.st.hyper
  OBVIOUS
<1> SUFFICES ~g.st.bad
  OBVIOUS
<1> HIDE DEF s, want, g, old
<1>2. SizedPost(Whole, st, ino, s) /\ ~s.st.bad
  BY <1>1 DEF SetsSize, Whole
<1>3. CASE s.ino.size <= old
  <2>1. g.st = s.st
    BY <1>3, <1>G DEF ZeroGrown
  <2> QED BY <1>2, <2>1
<1>4. CASE ~(s.ino.size <= old)
  <2> DEFINE u == s.st
             i == s.ino
             reached == s.ino.size
             w == WriteRange(u, i, old, old, reached, NULL)
             m == IF reached <= old THEN 0 ELSE reached - old
  <2>0. reached \in Nat
    BY <1>2, MAXIs DEF SizedPost, IsIno
  <2>1. Write(u, i, old, NULL, reached - old) = w
    <3>1. old # -1 /\ old + (reached - old) = reached
      BY <2>0, <1>O
    <3>2. ~(reached > i.size)
      BY <2>0
    <3> HIDE DEF reached
    <3> QED BY <3>1, <3>2 DEF Write
  <2>2. g = [w EXCEPT !.n = reached]
    BY <1>2, <1>4, <1>G, <2>1 DEF ZeroGrown
  <2>3. IsStore(u) /\ reached <= i.size
    BY <1>2, <2>0 DEF SizedPost, SlotsKept
  <2>W. w = WriteRange(u, i, old, old, reached, NULL)
    OBVIOUS
  <2> HIDE DEF u, i, reached, w
  <2>4. WritesRange(u, i, m, w)
    BY <2>3, <2>W, WriteRangeIs
  <2> HIDE DEF m
  <2>5. g.st = w.st
    BY <2>2, <2>4 DEF WritesRange
  <2>6. ~s.st.hyper
    BY <1>H, <2>4, <2>5 DEF WritesRange, OnlyBytes, u
  <2>7. WholeFile(u, i)
    BY <1>1, <2>6, SizedWhole DEF u, i
  <2>8. ~w.st.bad
    BY <1>O, <2>0, <2>3, <2>7, <2>W, old \in {old, reached}, WriteRangeGood
  <2> QED BY <2>5, <2>8
<1> QED BY <1>3, <1>4

(* What is whole in the model and in the lemmas.                           *)
LEMMA ReadyWhole ==
  ASSUME Sound, NEW f \in Inodes, f \notin lost
  PROVE  SizedPre(Whole, Store, inode[f])
<1> DEFINE w == f \notin lost
           e == Whole
           st == Store
           ino == inode[f]
           n == BlockCount(ino.size)
<1>1. SizedPre(w, st, ino)
  BY ReadyToSize
<1>2. w \in BOOLEAN /\ e \in BOOLEAN /\ (e => w)
  BY WholeIs
<1> HIDE DEF w, e, st, ino
<1>3. FitsAll(w, st.ind, ino.blocks, n)
  BY <1>1 DEF SizedPre
<1> HIDE DEF n
<1>4. FitsAll(e, st.ind, ino.blocks, n)
  BY <1>2, <1>3, FitsWeaker DEF FitsAll
<1> QED BY <1>1, <1>4 DEF SizedPre, e, st, ino, n

(* A step that stops the program at an assertion, and is one of an         *)
(* operation on f: f is damaged, or it is a write that begins beyond its   *)
(* end.                                                                    *)
LEMMA OnlyWritesBeyond ==
  ASSUME Sound, Next, aborted', NEW f \in use.files, f \notin lost',
         FreedOrResized(f) \/ WrittenWithin(f)
  PROVE  FALSE
<1>0. use \in Uses /\ use.files \subseteq Inodes /\ aborted = FALSE
      /\ Holds(Store, ilist, inode, lost, orphans, others)
  BY InodeAssumption DEF Sound, Next
<1>S. ~Store.bad /\ ~Store.hyper
  BY DEF Store
<1>F. f \in Inodes
  BY <1>0
<1>1. ASSUME NEW r, NEW op, NEW want, Commit(f, r, op, want)
      PROVE  r.st.bad /\ ~r.st.hyper /\ f \notin lost
  BY <1>0, <1>1 DEF Commit
<1>2. ASSUME inode_free(f) PROVE FALSE
  <2> DEFINE s == inode_setsize(Store, inode[f], 0)
             b == ilist[f]
             st == block_free(s.st, b)
  <2>1. CASE inode[f].nlinks # 0
    BY <1>0, <1>2, <2>1 DEF inode_free
  <2>2. CASE inode[f].nlinks = 0
    <3>1. b # EOF /\ Deleted(f, st)
      BY <1>2, <2>2 DEF inode_free
    <3>2. st.bad /\ lost' = lost
      BY <3>1, <1>0 DEF Deleted
    <3>3. SizedPre(Whole, Store, inode[f])
      BY <3>2, <1>F, ReadyWhole
    <3>4. SetsSize(Whole, Store, inode[f], Min({0, MAX_FILESIZE}), s)
      BY <3>3, WholeIs, SetSizeRight
    <3> HIDE DEF s
    <3>5. ~s.st.bad /\ IsStore(s.st)
      BY <3>4 DEF SetsSize, Whole, SizedPost, SlotsKept
    <3>6. b \in Blocks
      BY <3>1, <1>F, <1>0 DEF Holds, Node
    <3>7. st.bad = s.st.bad
      BY <3>5, <3>6, FreedIs
    <3> QED BY <3>2, <3>5, <3>7
  <2> QED BY <2>1, <2>2
<1>3. ASSUME NEW n \in use.offsets, inode_truncate(f, n) PROVE FALSE
  <2> DEFINE r == Truncate(Store, inode[f], n)
             op == "truncate"
  <2>0. n \in Nat
    BY <1>0, InodeAssumption
  <2>1. Commit(f, r, op, n)
    BY <1>3 DEF inode_truncate
  <2> HIDE DEF op
  <2>2. r.st.bad /\ ~r.st.hyper /\ f \notin lost
    <3> HIDE DEF r
    <3> QED BY <1>1, <2>1
  <2>3. SizedPre(Whole, Store, inode[f])
    BY <1>F, <2>2, ReadyWhole
  <2> QED BY <2>0, <2>2, <2>3, TruncateGood
<1>4. ASSUME NEW data \in use.payloads, NEW pos \in use.offsets \cup {-1},
             pos <= inode[f].size, inode_write(f, pos, data)
      PROVE  FALSE
  <2> DEFINE n == Len(data)
             r == Write(Store, inode[f], pos, data, n)
             op == "write"
  <2>0. n \in Nat /\ pos \in Nat \cup {-1}
    <3>1. data \in Seq(Nat)
      BY <1>0, InodeAssumption
    <3> QED BY <3>1, <1>0, InodeAssumption
  <2>1. Commit(f, r, op, n)
    BY <1>4 DEF inode_write
  <2> HIDE DEF op, n
  <2>2. r.st.bad /\ ~r.st.hyper /\ f \notin lost
    <3> HIDE DEF r
    <3> QED BY <1>1, <2>1
  <2>3. SizedPre(Whole, Store, inode[f])
    BY <1>F, <2>2, ReadyWhole
  <2> QED BY <1>4, <2>0, <2>2, <2>3, WriteGood
<1>5. FreedOrResized(f) => FALSE
  BY <1>2, <1>3 DEF FreedOrResized
<1>6. WrittenWithin(f) => FALSE
  BY <1>4 DEF WrittenWithin
<1> QED BY <1>5, <1>6

(* No assertion of inode.c fails in an operation on a file that the edge   *)
(* case left alone, but in a write that begins beyond the end of it.       *)
THEOREM NoAssertFailsAlways == Spec => NoAssertFails
<1> DEFINE Fine == aborted' => \A f \in use.files :
                     FreedOrResized(f) \/ WrittenWithin(f) => f \in lost'
<1>1. Valid /\ [Next]_vars => [Fine]_vars
  BY OnlyWritesBeyond DEF Valid
<1> QED BY ValidInvariant, <1>1, PTL DEF Spec, NoAssertFails

====
