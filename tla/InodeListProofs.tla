--------------------------- MODULE InodeListProofs --------------------------
(***************************************************************************)
(* The inode list keeps its invariant, and implements the abstract pool,   *)
(* for every number of inodes and every set of data blocks.                *)
(***************************************************************************)
EXTENDS InodeList, ListLemmas

(* The facts about the constants, in the form the proofs use them. *)
LEMMA Constants ==
  /\ NInodes \in Nat \ {0}
  /\ EOF \in Int /\ EOF < 0
  /\ Inumbers \subseteq Nat
  /\ 0 \in Inumbers
  /\ EOF \notin Inumbers
  /\ \A i \in Inumbers : -i \in Int /\ -i # EOF /\ -(-i) = i
  /\ \A i \in Inumbers : i # 0 => -i < 0
  /\ \A b \in Blocks : b \in Nat /\ b # 0
  BY InodeListAssumption DEF Inumbers

(* The free inodes are finitely many. *)
LEMMA FreeFinite ==
  ASSUME InodeListTypeOK
  PROVE  IsFiniteSet(FreeNumbers) /\ FreeNumbers \subseteq Inumbers
<1>1. IsFiniteSet(Inumbers)
  BY FS_Interval, InodeListAssumption DEF Inumbers
<1>2. FreeNumbers \subseteq Inumbers
  BY InRange DEF InodeListTypeOK, FreeNumbers
<1> QED BY <1>1, <1>2, FS_Subset

(* mkfs_storage establishes the invariant. *)
LEMMA InitIInv == InodeListInit => InodeListInv
<1> SUFFICES ASSUME InodeListInit PROVE InodeListInv
  OBVIOUS
<1> USE Constants
<1>1. ino_chain \in Seq(Inumbers) /\ Len(ino_chain) = NInodes
  BY DEF InodeListInit, Inumbers
<1>2. held = {}
  BY DEF InodeListInit, held
<1>3. InodeListTypeOK
  BY <1>1, <1>2 DEF InodeListInit, InodeListTypeOK, held, Inumbers
<1>4. \A k \in 1 .. NInodes : ino_chain[k] = k - 1
  BY DEF InodeListInit
<1>5. IsInjective(ino_chain)
  BY <1>1, <1>4, InjectivePositions
<1>6. NumbersChainOK
  <2>1. ino_chain # <<>>
    BY <1>1, EmptySeq
  <2>2. ino_freelist_start = ino_chain[1]
    BY <1>4 DEF InodeListInit
  <2>3. ASSUME NEW k \in 1 .. Len(ino_chain)
        PROVE  ilist[ino_chain[k]] = IF k < Len(ino_chain) THEN -ino_chain[k + 1] ELSE EOF
    <3>1. ino_chain[k] = k - 1 /\ k - 1 \in Inumbers /\ k \in 1 .. NInodes
      BY <1>1, <1>4 DEF Inumbers
    <3>2. ilist[k - 1] = IF k = NInodes THEN EOF ELSE -k
      BY <3>1 DEF InodeListInit
    <3>3. k < NInodes => ino_chain[k + 1] = k
      BY <3>1, <1>4
    <3> QED BY <3>1, <3>2, <3>3, <1>1
  <2> QED BY <2>1, <2>2, <2>3, <1>5 DEF NumbersChainOK
<1>7. FreeNumbers = Inumbers
  <2>1. ASSUME NEW i \in Inumbers PROVE i \in Range(ino_chain)
    <3>1. i + 1 \in 1 .. NInodes /\ ino_chain[i + 1] = i
      BY <1>4 DEF Inumbers
    <3> QED BY <3>1, <1>1, InRange
  <2> QED BY <2>1, <1>1, InRange DEF FreeNumbers
<1>8. NumbersPartition /\ RootFirst
  BY <1>7, <1>2 DEF NumbersPartition, RootFirst, InodeListInit, Root
<1>9. SignTellsAllocated
  BY <1>2 DEF SignTellsAllocated, InodeListInit, Inumbers
<1>10. FreeInodesExact
  BY <1>7, FS_Interval DEF FreeInodesExact, InodeListInit, Inumbers
<1> QED BY <1>3, <1>6, <1>8, <1>9, <1>10 DEF InodeListInv

(* ino_allocate with the list not empty. *)
LEMMA AllocateFirstIInv ==
  ASSUME InodeListInv, AllocateFirst
  PROVE  /\ InodeListInv'
         /\ ino_freelist_start \in FreeNumbers
         /\ FreeNumbers' = FreeNumbers \ {ino_freelist_start}
<1> USE Constants
<1> DEFINE i == ino_freelist_start
<1>1. ino_chain \in Seq(Inumbers) /\ ino_chain # <<>> /\ i = ino_chain[1] /\ IsInjective(ino_chain)
  BY DEF InodeListInv, InodeListTypeOK, NumbersChainOK, AllocateFirst
<1>2. /\ Len(ino_chain) \in Nat \ {0}
      /\ Tail(ino_chain) \in Seq(Inumbers)
      /\ Len(Tail(ino_chain)) = Len(ino_chain) - 1
      /\ \A k \in 1 .. Len(ino_chain) - 1 : Tail(ino_chain)[k] = ino_chain[k + 1]
      /\ Tail(ino_chain) = <<>> <=> Len(ino_chain) = 1
  BY <1>1, TailPositions
<1>3. /\ IsInjective(Tail(ino_chain))
      /\ Range(Tail(ino_chain)) = Range(ino_chain) \ {ino_chain[1]}
      /\ ino_chain[1] \in Range(ino_chain)
  BY <1>1, TailElements
<1>4. ino_chain' = Tail(ino_chain) /\ UNCHANGED ilist
  BY DEF AllocateFirst
<1>5. i \in FreeNumbers /\ FreeNumbers' = FreeNumbers \ {i} /\ i \in Inumbers /\ i \notin held
  BY <1>1, <1>3, <1>4, InRange DEF FreeNumbers, InodeListInv, NumbersPartition
<1>6. \A k \in 1 .. Len(ino_chain) : ino_chain[k] \in Inumbers
  BY <1>1, InRange
<1>7. held' = held \cup {i}
  BY DEF held, AllocateFirst
<1>8. \A j \in held' : block'[j] = IF j \in held THEN block[j] ELSE NoBlock
  BY <1>7 DEF AllocateFirst
<1>9. ilist[i] = IF 1 < Len(ino_chain) THEN -ino_chain[2] ELSE EOF
  BY <1>1, <1>2 DEF InodeListInv, NumbersChainOK
<1>10. ino_freelist_start' = IF Len(ino_chain) = 1 THEN EOF ELSE ino_chain[2]
  <2>1. CASE Len(ino_chain) = 1
    BY <2>1, <1>9 DEF AllocateFirst, Neg
  <2>2. CASE Len(ino_chain) # 1
    <3>1. 2 \in 1 .. Len(ino_chain) /\ 1 < Len(ino_chain) /\ ino_chain[2] \in Inumbers
      BY <2>2, <1>2, <1>6
    <3>2. ilist[i] = -ino_chain[2] /\ -ino_chain[2] # EOF /\ -(-ino_chain[2]) = ino_chain[2]
      BY <3>1, <1>9
    <3>3. ino_freelist_start' = Neg(ilist[i])
      BY DEF AllocateFirst
    <3> QED BY <3>2, <3>3, <2>2 DEF Neg
  <2> QED BY <2>1, <2>2
<1>11. FreeInodesExact' /\ free_inodes' \in Nat
  <2>1. IsFiniteSet(FreeNumbers) /\ IsFiniteSet(FreeNumbers')
    BY <1>5, FreeFinite, FS_RemoveElement DEF InodeListInv
  <2>2. Cardinality(FreeNumbers') = Cardinality(FreeNumbers) - 1
    BY <2>1, <1>5, FS_RemoveElement
  <2>3. free_inodes' = free_inodes - 1 /\ free_inodes = Cardinality(FreeNumbers)
    BY DEF AllocateFirst, InodeListInv, FreeInodesExact
  <2> QED BY <2>1, <2>2, <2>3, FS_CardinalityType DEF FreeInodesExact
<1>12. InodeListTypeOK'
  <2>1. ino_freelist_start' \in Inumbers \cup {EOF}
    BY <1>10, <1>6, <1>2
  <2>2. ino_chain' \in Seq(Inumbers)
    BY <1>2, <1>4
  <2>3. ilist' \in [Inumbers -> Int] /\ got_number' \in Inumbers \cup {EOF}
    BY <1>5 DEF AllocateFirst, InodeListInv, InodeListTypeOK
  <2>4. free_inodes' \in Nat
    BY <1>11
  <2>5. held' \subseteq Inumbers
    BY <1>7, <1>5 DEF InodeListInv, InodeListTypeOK
  <2>6. block' \in [held' -> Blocks \cup {NoBlock}]
    BY <1>7 DEF InodeListInv, InodeListTypeOK, AllocateFirst
  <2> QED BY <2>1, <2>2, <2>3, <2>4, <2>5, <2>6 DEF InodeListTypeOK
<1>13. NumbersChainOK'
  <2>1. ASSUME NEW k \in 1 .. Len(ino_chain')
        PROVE  ilist'[ino_chain'[k]] = IF k < Len(ino_chain') THEN -ino_chain'[k + 1] ELSE EOF
    <3>1. k + 1 \in 1 .. Len(ino_chain) /\ ino_chain'[k] = ino_chain[k + 1]
      BY <1>2, <1>4
    <3>2. ilist[ino_chain[k + 1]] = IF k + 1 < Len(ino_chain) THEN -ino_chain[(k + 1) + 1] ELSE EOF
      BY <3>1 DEF InodeListInv, NumbersChainOK
    <3>3. k < Len(ino_chain') <=> k + 1 < Len(ino_chain)
      BY <1>2, <1>4
    <3>4. k < Len(ino_chain') => ino_chain'[k + 1] = ino_chain[(k + 1) + 1]
      BY <1>2, <1>4
    <3> QED BY <3>1, <3>2, <3>3, <3>4, <1>4
  <2>2. ino_freelist_start' = IF ino_chain' = <<>> THEN EOF ELSE ino_chain'[1]
    BY <1>10, <1>2, <1>4
  <2> QED BY <2>1, <2>2, <1>3, <1>4 DEF NumbersChainOK
<1>14. NumbersPartition'
  BY <1>5, <1>7 DEF InodeListInv, NumbersPartition
<1>15. RootFirst'
  BY <1>7 DEF InodeListInv, RootFirst
<1>16. SignTellsAllocated'
  <2>1. ASSUME NEW j \in Inumbers, j \in held', block'[j] # NoBlock
        PROVE  ilist'[j] = block'[j]
    BY <2>1, <1>8, <1>4 DEF InodeListInv, SignTellsAllocated
  <2>2. ASSUME NEW j \in Inumbers, ~(j \in held' /\ block'[j] # NoBlock)
        PROVE  ilist'[j] < 0
    BY <2>2, <1>4, <1>5, <1>7, <1>8 DEF InodeListInv, SignTellsAllocated
  <2> QED BY <2>1, <2>2 DEF SignTellsAllocated
<1> QED BY <1>5, <1>11, <1>12, <1>13, <1>14, <1>15, <1>16 DEF InodeListInv

(* ino_set gives a number in the callers' hands its block. *)
LEMMA SetIInv ==
  ASSUME InodeListInv, NEW i \in held, NEW b \in Blocks, ino_set(i, b)
  PROVE  InodeListInv' /\ UNCHANGED <<FreeNumbers, free_inodes, got_number>>
<1> USE Constants
<1>1. held' = held /\ UNCHANGED <<ino_freelist_start, free_inodes, ino_chain, got_number>>
  BY DEF ino_set, held, InodeListInv, InodeListTypeOK
<1>2. FreeNumbers' = FreeNumbers
  BY <1>1 DEF FreeNumbers
<1>3. i \in Inumbers /\ i \notin FreeNumbers
  BY DEF InodeListInv, InodeListTypeOK, NumbersPartition
<1>4. \A j \in Inumbers : ilist'[j] = IF j = i THEN b ELSE ilist[j]
  BY <1>3 DEF ino_set, InodeListInv, InodeListTypeOK
<1>5. \A j \in held : block'[j] = IF j = i THEN b ELSE block[j]
  BY DEF ino_set, InodeListInv, InodeListTypeOK
<1>6. InodeListTypeOK'
  <2>1. ilist' \in [Inumbers -> Int]
    BY DEF ino_set, InodeListInv, InodeListTypeOK
  <2>2. block' \in [held' -> Blocks \cup {NoBlock}]
    BY <1>1 DEF ino_set, InodeListInv, InodeListTypeOK
  <2> QED BY <2>1, <2>2, <1>1 DEF InodeListInv, InodeListTypeOK
<1>7. NumbersChainOK'
  <2>1. \A k \in 1 .. Len(ino_chain) : ino_chain[k] \in Inumbers /\ ino_chain[k] # i
    BY <1>3, InRange DEF InodeListInv, InodeListTypeOK, FreeNumbers
  <2>2. \A k \in 1 .. Len(ino_chain) : ilist'[ino_chain[k]] = ilist[ino_chain[k]]
    BY <2>1, <1>4
  <2> QED BY <2>2, <1>1 DEF InodeListInv, NumbersChainOK
<1>8. NumbersPartition' /\ RootFirst' /\ FreeInodesExact'
  BY <1>1, <1>2 DEF InodeListInv, NumbersPartition, RootFirst, FreeInodesExact
<1>9. SignTellsAllocated'
  <2>1. ASSUME NEW j \in Inumbers
        PROVE  IF j \in held' /\ block'[j] # NoBlock
               THEN ilist'[j] = block'[j]
               ELSE ilist'[j] < 0
    <3>1. CASE j = i
      BY <3>1, <1>1, <1>4, <1>5 DEF NoBlock
    <3>2. CASE j # i
      BY <3>2, <1>1, <1>4, <1>5 DEF InodeListInv, SignTellsAllocated
    <3> QED BY <3>1, <3>2
  <2> QED BY <2>1 DEF SignTellsAllocated
<1> QED BY <1>1, <1>2, <1>6, <1>7, <1>8, <1>9 DEF InodeListInv

(* ino_free puts a number in front of the list. *)
LEMMA FreeIInv ==
  ASSUME InodeListInv, NEW i \in held \ {Root}, ino_free(i)
  PROVE  /\ InodeListInv'
         /\ i \in Inumbers \ FreeNumbers
         /\ FreeNumbers' = FreeNumbers \cup {i}
<1> USE Constants
<1>1. i \in Inumbers /\ i \notin FreeNumbers /\ i # 0
  BY DEF InodeListInv, InodeListTypeOK, NumbersPartition, Root
<1>2. ino_chain \in Seq(Inumbers) /\ IsInjective(ino_chain) /\ i \notin Range(ino_chain)
  BY <1>1 DEF InodeListInv, InodeListTypeOK, NumbersChainOK, FreeNumbers
<1>3. /\ ino_chain' = <<i>> \o ino_chain
      /\ ino_chain' \in Seq(Inumbers)
      /\ Len(ino_chain') = Len(ino_chain) + 1
      /\ ino_chain'[1] = i
      /\ \A k \in 2 .. Len(ino_chain) + 1 : ino_chain'[k] = ino_chain[k - 1]
      /\ ino_chain' # <<>>
      /\ Len(ino_chain) \in Nat
  BY <1>1, <1>2, ConsPositions DEF ino_free
<1>4. IsInjective(ino_chain') /\ FreeNumbers' = FreeNumbers \cup {i}
  BY <1>1, <1>2, <1>3, ConsElements DEF FreeNumbers
<1>5. held' = held \ {i} /\ \A j \in held' : block'[j] = block[j]
  BY DEF ino_free, held, Restrict
<1>6. \A j \in Inumbers :
        ilist'[j] = IF j = i THEN Neg(ino_freelist_start) ELSE ilist[j]
  BY <1>1 DEF ino_free, InodeListInv, InodeListTypeOK
<1>7. ino_freelist_start \in (FreeNumbers \ {0}) \cup {EOF}
  (* The root is in use, so the list does not start with it. *)
  <2>1. 0 \notin FreeNumbers
    BY DEF InodeListInv, RootFirst, NumbersPartition, Root
  <2>2. ino_freelist_start = EOF \/ ino_freelist_start \in FreeNumbers
    <3>1. CASE ino_chain = <<>>
      BY <3>1 DEF InodeListInv, NumbersChainOK
    <3>2. CASE ino_chain # <<>>
      <4>1. 1 \in 1 .. Len(ino_chain)
        BY <3>2, <1>2, EmptySeq
      <4> QED BY <4>1, <3>2, <1>2, InRange DEF InodeListInv, NumbersChainOK, FreeNumbers
    <3> QED BY <3>1, <3>2
  <2> QED BY <2>1, <2>2
<1>8. Neg(ino_freelist_start) \in Int /\ Neg(ino_freelist_start) < 0
  <2>1. CASE ino_freelist_start = EOF
    BY <2>1 DEF Neg
  <2>2. CASE ino_freelist_start # EOF
    <3>1. ino_freelist_start \in Inumbers /\ ino_freelist_start # 0
      BY <2>2, <1>7, FreeFinite DEF InodeListInv
    <3> QED BY <3>1, <2>2 DEF Neg
  <2> QED BY <2>1, <2>2
<1>9. FreeInodesExact' /\ free_inodes' \in Nat
  <2>1. IsFiniteSet(FreeNumbers)
    BY FreeFinite DEF InodeListInv
  <2>2. IsFiniteSet(FreeNumbers') /\ Cardinality(FreeNumbers') = Cardinality(FreeNumbers) + 1
    BY <2>1, <1>1, <1>4, FS_AddElement
  <2>3. free_inodes' = free_inodes + 1 /\ free_inodes = Cardinality(FreeNumbers)
    BY DEF ino_free, InodeListInv, FreeInodesExact
  <2> QED BY <2>2, <2>3, FS_CardinalityType DEF FreeInodesExact
<1>10. InodeListTypeOK'
  <2>1. ino_freelist_start' \in Inumbers \cup {EOF} /\ got_number' \in Inumbers \cup {EOF}
    BY <1>1 DEF ino_free, InodeListInv, InodeListTypeOK
  <2>2. ilist' \in [Inumbers -> Int]
    BY <1>8 DEF ino_free, InodeListInv, InodeListTypeOK
  <2>3. held' \subseteq Inumbers
    BY <1>5 DEF InodeListInv, InodeListTypeOK
  <2>4. block' \in [held' -> Blocks \cup {NoBlock}]
    BY <1>5 DEF ino_free, Restrict, InodeListInv, InodeListTypeOK
  <2> QED BY <2>1, <2>2, <2>3, <2>4, <1>3, <1>9 DEF InodeListTypeOK
<1>11. NumbersChainOK'
  <2>1. ASSUME NEW k \in 1 .. Len(ino_chain')
        PROVE  ilist'[ino_chain'[k]] = IF k < Len(ino_chain') THEN -ino_chain'[k + 1] ELSE EOF
    <3>1. CASE k = 1
      <4>1. ilist'[ino_chain'[k]] = Neg(ino_freelist_start)
        BY <3>1, <1>3, <1>6, <1>1
      <4>2. CASE ino_chain = <<>>
        <5>1. Len(ino_chain) = 0 /\ ino_freelist_start = EOF
          BY <4>2 DEF InodeListInv, NumbersChainOK
        <5> QED BY <5>1, <4>1, <3>1, <1>3 DEF Neg
      <4>3. CASE ino_chain # <<>>
        <5>1. /\ ino_freelist_start = ino_chain[1]
              /\ 1 \in 1 .. Len(ino_chain)
          BY <4>3, <1>2, EmptySeq DEF InodeListInv, NumbersChainOK
        <5>2. ino_chain[1] \in Inumbers
          BY <5>1, <1>2, InRange
        <5>3. 2 \in 2 .. Len(ino_chain) + 1 /\ k < Len(ino_chain') /\ k + 1 = 2
          BY <5>1, <3>1, <1>3
        <5>4. ino_chain'[2] = ino_chain[1]
          BY <5>3, <1>3
        <5> QED BY <5>1, <5>2, <5>3, <5>4, <4>1 DEF Neg
      <4> QED BY <4>2, <4>3
    <3>2. CASE k # 1
      <4>1. k \in 2 .. Len(ino_chain) + 1 /\ k - 1 \in 1 .. Len(ino_chain)
        BY <3>2, <1>3
      <4>2. ino_chain'[k] = ino_chain[k - 1] /\ ino_chain[k - 1] \in Inumbers /\ ino_chain[k - 1] # i
        BY <4>1, <1>2, <1>3, InRange
      <4>3. ilist'[ino_chain'[k]] = ilist[ino_chain[k - 1]]
        BY <4>2, <1>6
      <4>4. ilist[ino_chain[k - 1]] =
              IF k - 1 < Len(ino_chain) THEN -ino_chain[(k - 1) + 1] ELSE EOF
        BY <4>1 DEF InodeListInv, NumbersChainOK
      <4>5. k - 1 < Len(ino_chain) <=> k < Len(ino_chain')
        BY <4>1, <1>3
      <4>6. k < Len(ino_chain') => ino_chain'[k + 1] = ino_chain[(k - 1) + 1]
        BY <4>1, <1>3
      <4> QED BY <4>3, <4>4, <4>5, <4>6
    <3> QED BY <3>1, <3>2
  <2>2. ino_freelist_start' = ino_chain'[1]
    BY <1>3 DEF ino_free
  <2> QED BY <2>1, <2>2, <1>3, <1>4 DEF NumbersChainOK
<1>12. NumbersPartition' /\ RootFirst'
  BY <1>1, <1>4, <1>5 DEF InodeListInv, NumbersPartition, RootFirst, Root
<1>13. SignTellsAllocated'
  BY <1>1, <1>5, <1>6, <1>8 DEF InodeListInv, SignTellsAllocated
<1> QED BY <1>1, <1>4, <1>9, <1>10, <1>11, <1>12, <1>13 DEF InodeListInv

(* No step breaks the invariant. *)
LEMMA NextIInv == InodeListInv /\ [InodeListNext]_inodeListVars => InodeListInv'
<1> SUFFICES ASSUME InodeListInv, [InodeListNext]_inodeListVars PROVE InodeListInv'
  OBVIOUS
<1>1. CASE AllocateNone
  BY <1>1 DEF AllocateNone, InodeListInv, InodeListTypeOK, NumbersChainOK,
       NumbersPartition, RootFirst, SignTellsAllocated, FreeInodesExact, FreeNumbers, held
<1>2. CASE AllocateFirst
  BY <1>2, AllocateFirstIInv
<1>3. CASE CallerSets
  BY <1>3, SetIInv DEF CallerSets
<1>4. CASE CallerFrees
  BY <1>4, FreeIInv DEF CallerFrees
<1>5. CASE UNCHANGED inodeListVars
  BY <1>5 DEF inodeListVars, InodeListInv, InodeListTypeOK, NumbersChainOK,
       NumbersPartition, RootFirst, SignTellsAllocated, FreeInodesExact, FreeNumbers, held
<1> QED BY <1>1, <1>2, <1>3, <1>4, <1>5 DEF InodeListNext, ino_allocate

(* The inductive invariant holds in every reachable state. *)
THEOREM InodeListInvariant == InodeListSpec => []InodeListInv
  BY InitIInv, NextIInv, PTL DEF InodeListSpec

(* InodeListTypeOK holds always: ino_freelist_start, which ino_allocate    *)
(* reads off a negated entry, is an inode number or EOF, and free_inodes   *)
(* is never counted down from 0.                                           *)
THEOREM InodeListTypes == InodeListSpec => []InodeListTypeOK
<1>1. InodeListInv => InodeListTypeOK
  BY DEF InodeListInv
<1> QED BY <1>1, InodeListInvariant, PTL

(* inode.c can tell a free inode number from an allocated one by the sign  *)
(* of its ilist entry, and no number is lost or handed out twice.          *)
THEOREM InodeListCorrect ==
  InodeListSpec => [](SignTellsAllocated /\ NumbersPartition /\ FreeInodesExact)
<1>1. InodeListInv => SignTellsAllocated /\ NumbersPartition /\ FreeInodesExact
  BY DEF InodeListInv
<1> QED BY <1>1, InodeListInvariant, PTL

(* The list behaves like the abstract pool of inode numbers. *)
THEOREM InodeListRefinesPool == InodeListSpec => ImplementsInodePool
<1>1. InodeListInit => InodePool!Init
  <2> SUFFICES ASSUME InodeListInit PROVE InodePool!Init
    OBVIOUS
  <2>1. FreeNumbers = Inumbers
    BY InitIInv DEF InodeListInv, NumbersPartition, InodeListInit, held
  <2>2. free_inodes = Cardinality(FreeNumbers)
    BY InitIInv DEF InodeListInv, FreeInodesExact
  <2> QED BY <2>1, <2>2 DEF InodePool!Init, InodeListInit, InodePool!Cardinality, Cardinality
<1>2. InodeListInv /\ [InodeListNext]_inodeListVars => [InodePool!Next]_(InodePool!pool)
  <2> SUFFICES ASSUME InodeListInv, [InodeListNext]_inodeListVars
               PROVE  [InodePool!Next]_(InodePool!pool)
    OBVIOUS
  <2>1. CASE AllocateNone
    <3>1. ino_chain = <<>>
      <4>1. ASSUME ino_chain # <<>> PROVE FALSE
        <5>1. ino_chain[1] \in Inumbers /\ ino_chain[1] = EOF
          BY <4>1, <2>1, EmptySeq, InRange
             DEF InodeListInv, InodeListTypeOK, NumbersChainOK, AllocateNone
        <5> QED BY <5>1, Constants
      <4> QED BY <4>1
    <3>2. FreeNumbers = {}
      BY <3>1 DEF FreeNumbers, Range
    <3> QED BY <3>2, <2>1 DEF AllocateNone, InodePool!Next, InodePool!TakeNone, FreeNumbers
  <2>2. CASE AllocateFirst
    BY <2>2, AllocateFirstIInv DEF AllocateFirst, InodePool!Next, InodePool!Take
  <2>3. CASE CallerSets
    BY <2>3, SetIInv DEF CallerSets, InodePool!pool
  <2>4. CASE CallerFrees
    <3>1. PICK i \in held \ {Root} : ino_free(i)
      BY <2>4 DEF CallerFrees
    <3>2. i \in Inumbers \ FreeNumbers /\ FreeNumbers' = FreeNumbers \cup {i}
      BY <3>1, FreeIInv
    <3>3. free_inodes' = free_inodes + 1 /\ got_number' = got_number
      BY <3>1 DEF ino_free
    <3> QED BY <3>2, <3>3 DEF InodePool!Next, InodePool!Give
  <2>5. CASE UNCHANGED inodeListVars
    BY <2>5 DEF inodeListVars, InodePool!pool, FreeNumbers
  <2> QED BY <2>1, <2>2, <2>3, <2>4, <2>5 DEF InodeListNext, ino_allocate
<1> QED
  BY <1>1, <1>2, InodeListInvariant, PTL
     DEF InodeListSpec, ImplementsInodePool, InodePool!Spec

=============================================================================
