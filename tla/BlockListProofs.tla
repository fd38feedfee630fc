--------------------------- MODULE BlockListProofs --------------------------
(***************************************************************************)
(* The free list of data blocks keeps its invariant, and implements the    *)
(* abstract pool, for every size of the disk, of the inode list and of a   *)
(* list node.                                                              *)
(***************************************************************************)
EXTENDS BlockList, ListLemmas

(* The facts about the constants, in the form the proofs use them. *)
LEMMA Constants ==
  /\ FirstData \in Nat /\ NBlocks \in Nat /\ FirstData < NBlocks
  /\ Stride \in Nat \ {0} /\ Stride = PerNode + 1 /\ PerNode \in Nat \ {0}
  /\ EOF \in Int /\ EOF \notin Data
  /\ Data \subseteq Nat
  /\ FirstData \in Data
  BY BlockListAssumption DEF FirstData, Stride, Data

(* What Free means, element by element. *)
LEMMA FreeElements ==
  \A x : x \in Free <=>
    \/ x \in Range(chain)
    \/ x # EOF /\ \E c \in Range(chain), i \in Slots : node[c].blocks[i] = x
  BY DEF Free, InSlots

(* The free blocks are finitely many data blocks. *)
LEMMA FreeFinite ==
  ASSUME BlockListTypeOK
  PROVE  IsFiniteSet(Free) /\ Free \subseteq Data
<1>1. IsFiniteSet(Data)
  BY FS_Interval, Constants DEF Data
<1>2. Range(chain) \subseteq Data
  BY InRange DEF BlockListTypeOK
<1>3. \A c \in Data, i \in Slots : node[c].blocks[i] \in Data \cup {EOF}
  BY DEF BlockListTypeOK, NodeType
<1>4. Free \subseteq Data
  BY <1>2, <1>3, FreeElements
<1> QED BY <1>1, <1>4, FS_Subset

(* Where the list is not empty its head is its first node, in the range. *)
LEMMA HeadOnChain ==
  ASSUME BlockListTypeOK, ChainOK, freelist_start # EOF
  PROVE  /\ chain # <<>>
         /\ freelist_start = chain[1]
         /\ freelist_start \in Range(chain)
         /\ freelist_start \in Data
<1>1. chain # <<>> /\ freelist_start = chain[1] /\ chain \in Seq(Data)
  BY DEF ChainOK, BlockListTypeOK
<1>2. 1 \in 1 .. Len(chain)
  BY <1>1, EmptySeq
<1> QED BY <1>1, <1>2, InRange

(* mkfs_storage writes its nodes PerNode + 1 blocks apart. *)
LEMMA MkfsBlocks ==
  ASSUME NEW b \in Data
  PROVE  LET q == (b - FirstData) \div Stride
             r == (b - FirstData) % Stride
         IN  /\ q \in 0 .. MkfsChainLength - 1
             /\ r \in 0 .. PerNode
             /\ b = FirstData + q * Stride + r
             /\ MkfsChainLength \in Nat \ {0}
<1> USE Constants
<1> DEFINE a == b - FirstData
           m == (NBlocks - 1) - FirstData
           q == a \div Stride
           r == a % Stride
           p == m \div Stride
           s == m % Stride
<1>1. a \in Nat /\ m \in Nat /\ a <= m
  BY DEF Data
<1>2. /\ q \in Nat /\ r \in 0 .. Stride - 1 /\ a = Stride * q + r
      /\ p \in Nat /\ s \in 0 .. Stride - 1 /\ m = Stride * p + s
  BY <1>1, DivMod
<1>3. MkfsChainLength = p + 1
  BY DEF MkfsChainLength
<1> HIDE DEF q, r, p, s
<1>4. q <= p
  <2>1. ASSUME p < q PROVE FALSE
    <3>1. Stride * p + Stride <= Stride * q
      BY <2>1, <1>2, MultipleGap
    <3> QED BY <3>1, <1>1, <1>2
  <2> QED BY <2>1, <1>2
<1>5. Stride * q = q * Stride
  BY <1>2
<1>6. /\ q \in 0 .. MkfsChainLength - 1
      /\ r \in 0 .. PerNode
      /\ b = FirstData + q * Stride + r
      /\ MkfsChainLength \in Nat \ {0}
  <2>1. b \in Int /\ b = FirstData + a
    BY DEF Data
  <2> HIDE DEF a, m
  <2>2. q * Stride \in Nat
    BY <1>2
  <2>3. b = FirstData + q * Stride + r
    BY <2>1, <2>2, <1>2, <1>5
  <2> QED BY <2>3, <1>2, <1>3, <1>4
<1> QED BY <1>6 DEF q, r

(* The node mkfs_storage writes k-th is a data block. *)
LEMMA MkfsNodes ==
  ASSUME NEW k \in 1 .. MkfsChainLength
  PROVE  /\ FirstData + (k - 1) * Stride \in Data
         /\ IsMkfsNode(FirstData + (k - 1) * Stride)
         /\ FirstData + (k - 1) * Stride + Stride < NBlocks <=> k < MkfsChainLength
         /\ MkfsChainLength \in Nat
<1> USE Constants
<1> DEFINE m == (NBlocks - 1) - FirstData
           p == m \div Stride
           s == m % Stride
           j == k - 1
<1>1. m \in Nat /\ p \in Nat /\ s \in 0 .. Stride - 1 /\ m = Stride * p + s
  <2>1. m \in Nat
    OBVIOUS
  <2> QED BY <2>1, DivMod
<1>2. MkfsChainLength = p + 1
  BY DEF MkfsChainLength
<1> HIDE DEF p, s
<1>3. j \in Nat /\ j <= p
  BY <1>1, <1>2
<1>4. Stride * j \in Nat /\ Stride * j <= Stride * p
  <2>1. CASE j = p
    BY <2>1, <1>3
  <2>2. CASE j < p
    BY <2>2, <1>1, <1>3, MultipleGap
  <2> QED BY <2>1, <2>2, <1>1, <1>3
<1>5. j < p => Stride * j + Stride <= Stride * p
  BY <1>1, <1>3, MultipleGap
<1>6. (Stride * j) % Stride = 0
  <2> DEFINE n == Stride * j
  <2>1. n \in Nat
    BY <1>4
  <2>2. /\ n \div Stride \in Nat /\ n % Stride \in 0 .. Stride - 1
        /\ n = Stride * (n \div Stride) + (n % Stride)
    BY <2>1, DivMod
  <2>3. Stride * j + 0 = Stride * (n \div Stride) + (n % Stride)
    BY <2>2, <1>4
  <2>4. 0 = n % Stride
    BY <2>2, <2>3, <1>3, 0 \in 0 .. Stride - 1, DivisionUnique
  <2> QED BY <2>4
<1>7. j * Stride = Stride * j
  BY <1>3
<1> HIDE DEF j
<1>8. FirstData + j * Stride \in Data
  BY <1>1, <1>4, <1>7 DEF Data, m
<1>9. IsMkfsNode(FirstData + j * Stride)
  <2>1. (FirstData + j * Stride) - FirstData = Stride * j
    BY <1>4, <1>7
  <2> QED BY <2>1, <1>6 DEF IsMkfsNode
<1>10. FirstData + j * Stride + Stride < NBlocks <=> k < MkfsChainLength
  <2>1. CASE j = p
    BY <2>1, <1>1, <1>2, <1>7 DEF m, j
  <2>2. CASE j < p
    BY <2>2, <1>1, <1>2, <1>3, <1>5, <1>7 DEF m, j
  <2> QED BY <2>1, <2>2, <1>1, <1>3
<1> QED BY <1>1, <1>2, <1>8, <1>9, <1>10 DEF j

(* mkfs_storage establishes the invariant. *)
LEMMA InitIInv == BlockListInit => BlockListInv
<1> SUFFICES ASSUME BlockListInit PROVE BlockListInv
  OBVIOUS
<1> USE Constants
<1> DEFINE Pos(k) == FirstData + (k - 1) * Stride
           L == MkfsChainLength
<1>1. L \in Nat \ {0}
  BY MkfsBlocks
<1>2. \A k \in 1 .. L : Pos(k) \in Data
  BY MkfsNodes
<1>3. chain = [k \in 1 .. L |-> Pos(k)]
  BY DEF BlockListInit
<1> HIDE DEF L
<1>4. chain \in Seq(Data) /\ Len(chain) = L /\ \A k \in 1 .. L : chain[k] = Pos(k)
  BY <1>1, <1>2, <1>3
<1>5. \A j, k \in 1 .. L : chain[j] = chain[k] => j = k
  <2>1. ASSUME NEW j \in 1 .. L, NEW k \in 1 .. L, Pos(j) = Pos(k)
        PROVE  j = k
    <3>1. j - 1 \in Nat /\ k - 1 \in Nat
      BY <1>1
    <3>2. Stride * (j - 1) + 0 = Stride * (k - 1) + 0
      BY <2>1, <3>1
    <3>3. j - 1 = k - 1
      BY <3>1, <3>2, 0 \in 0 .. Stride - 1, DivisionUnique
    <3> QED BY <3>3, <1>1
  <2> QED BY <2>1, <1>4
<1>6. IsInjective(chain)
  BY <1>4, <1>5, InjectivePositions
<1>7. \A c \in Range(chain) : \E k \in 1 .. L : c = Pos(k)
  BY <1>4, InRange
<1>8. \A k \in 1 .. L : Pos(k) \in Range(chain)
  BY <1>4, InRange
<1>9. \A k \in 1 .. L :
        /\ node[Pos(k)].next = IF Pos(k) + Stride < NBlocks THEN Pos(k) + Stride ELSE EOF
        /\ \A i \in Slots : node[Pos(k)].blocks[i] =
             IF Pos(k) + 1 + i < NBlocks THEN Pos(k) + 1 + i ELSE EOF
  <2>1. ASSUME NEW k \in 1 .. L
        PROVE  node[Pos(k)] = MkfsNode(Pos(k))
    BY <1>2, MkfsNodes DEF BlockListInit, L
  <2>2. \A b \in Data :
          /\ MkfsNode(b).next = IF b + Stride < NBlocks THEN b + Stride ELSE EOF
          /\ \A i \in Slots : MkfsNode(b).blocks[i] =
               IF b + 1 + i < NBlocks THEN b + 1 + i ELSE EOF
    BY DEF MkfsNode, OnDisk
  <2>3. ASSUME NEW k \in 1 .. L, NEW b \in Data, b = Pos(k)
        PROVE  /\ node[b].next = IF b + Stride < NBlocks THEN b + Stride ELSE EOF
               /\ \A i \in Slots : node[b].blocks[i] =
                    IF b + 1 + i < NBlocks THEN b + 1 + i ELSE EOF
    <3>1. node[b] = MkfsNode(b)
      BY <2>1, <2>3
    <3> QED BY <3>1, <2>2, Zenon
  <2> QED BY <2>3, <1>2
<1>10. BlockListTypeOK
  <2>1. \A b \in Data : MkfsNode(b) \in NodeType
    BY DEF MkfsNode, NodeType, OnDisk, Data, Slots
  <2>2. EmptySlots \in [Slots -> Data \cup {EOF}]
    BY DEF EmptySlots
  <2>3. node \in [Data -> NodeType]
    BY <2>1, <2>2 DEF BlockListInit, NodeType
  <2>4. used \in SUBSET Data /\ got \in Data \cup {EOF}
    BY DEF BlockListInit
  <2>5. freelist_start \in Data \cup {EOF} /\ free_blocks \in Nat
    BY DEF BlockListInit
  <2> QED BY <2>3, <2>4, <2>5, <1>4 DEF BlockListTypeOK
<1>11. ChainOK
  <2>1. freelist_start = chain[1] /\ chain # <<>>
    <3>1. 1 \in 1 .. L /\ Pos(1) = FirstData
      BY <1>1
    <3>2. chain[1] = FirstData /\ chain # <<>>
      BY <3>1, <1>1, <1>4, EmptySeq
    <3> QED BY <3>2 DEF BlockListInit
  <2>2. ASSUME NEW k \in 1 .. L
        PROVE  node[chain[k]].next = IF k < L THEN chain[k + 1] ELSE EOF
    <3>1. Pos(k) + Stride < NBlocks <=> k < L
      BY MkfsNodes DEF L
    <3>2. Pos(k) + Stride = Pos(k + 1)
      <4>1. k \in Nat
        BY <1>1
      <4> QED BY <4>1
    <3>3. k < L => k + 1 \in 1 .. L
      BY <1>1
    <3> QED BY <3>1, <3>2, <3>3, <1>4, <1>9
  <2> QED BY <2>1, <2>2, <1>4, <1>6 DEF ChainOK
(* A slot names a block between two nodes, at its own distance from one.   *)
<1>12. ASSUME NEW j \in 1 .. L, NEW i \in 0 .. PerNode,
              NEW k \in 1 .. L, NEW m \in 0 .. PerNode,
              Pos(j) + i = Pos(k) + m
       PROVE  j = k /\ i = m
  <2>1. j - 1 \in Nat /\ k - 1 \in Nat
    BY <1>1
  <2>2. Stride * (j - 1) + i = Stride * (k - 1) + m
    <3>1. Stride * (j - 1) = (j - 1) * Stride /\ Stride * (k - 1) = (k - 1) * Stride
      BY <2>1
    <3>2. Stride * (j - 1) \in Nat /\ Stride * (k - 1) \in Nat
      BY <2>1
    <3> QED BY <3>1, <3>2, <1>12
  <2>3. i \in 0 .. Stride - 1 /\ m \in 0 .. Stride - 1
    OBVIOUS
  <2>4. j - 1 = k - 1 /\ i = m
    BY ONLY <2>1, <2>2, <2>3, Constants, DivisionUnique
  <2> QED BY <2>4, <1>1
<1>13. NoDuplicates
  <2>1. ASSUME NEW c \in Range(chain), NEW i \in Slots
        PROVE  node[c].blocks[i] \notin Range(chain)
    <3>1. PICK k \in 1 .. L : c = Pos(k)
      BY <1>7
    <3>2. CASE Pos(k) + 1 + i < NBlocks
      <4>1. node[c].blocks[i] = Pos(k) + (i + 1) /\ i + 1 \in 0 .. PerNode
        BY <3>1, <3>2, <1>2, <1>9 DEF Slots
      <4>2. ASSUME NEW j \in 1 .. L PROVE Pos(j) # Pos(k) + (i + 1)
        <5>1. Pos(j) + 0 = Pos(j) /\ 0 \in 0 .. PerNode /\ i + 1 # 0
          BY <1>2 DEF Slots
        <5> QED BY <5>1, <4>1, <1>12
      <4> QED BY <4>1, <4>2, <1>7
    <3>3. CASE ~(Pos(k) + 1 + i < NBlocks)
      <4>1. node[c].blocks[i] = EOF
        BY <3>1, <3>3, <1>9
      <4> QED BY <4>1, <1>4, InRange
    <3> QED BY <3>2, <3>3
  <2>2. ASSUME NEW c \in Range(chain), NEW d \in Range(chain),
               NEW i \in Slots, NEW m \in Slots,
               node[c].blocks[i] # EOF, node[c].blocks[i] = node[d].blocks[m]
        PROVE  c = d /\ i = m
    <3>1. PICK k \in 1 .. L : c = Pos(k)
      BY <1>7
    <3>2. PICK j \in 1 .. L : d = Pos(j)
      BY <1>7
    <3>3. node[c].blocks[i] = Pos(k) + 1 + i /\ node[d].blocks[m] = Pos(j) + 1 + m
      BY <3>1, <3>2, <2>2, <1>9
    <3>4. Pos(k) + (i + 1) = Pos(j) + (m + 1) /\ i + 1 \in 0 .. PerNode /\ m + 1 \in 0 .. PerNode
      BY <3>3, <2>2, <1>2 DEF Slots
    <3>5. k = j /\ i + 1 = m + 1
      BY <3>4, <1>12
    <3> QED BY <3>1, <3>2, <3>5 DEF Slots
  <2> QED BY <2>1, <2>2 DEF NoDuplicates
<1>14. Free = Data
  <2>1. ASSUME NEW b \in Data PROVE b \in Free
    <3>1. PICK q \in 0 .. L - 1, r \in 0 .. PerNode : b = FirstData + q * Stride + r
      BY MkfsBlocks DEF L
    <3>2. q + 1 \in 1 .. L /\ (q + 1) - 1 = q
      BY <1>1
    <3>3. b = Pos(q + 1) + r
      BY <3>1, <3>2
    <3>4. CASE r = 0
      <4>1. Pos(q + 1) + r = Pos(q + 1)
        BY <3>4, <3>2, <1>2
      <4> QED BY <4>1, <3>2, <3>3, <1>8, FreeElements
    <3>5. CASE r # 0
      <4>1. r - 1 \in Slots /\ Pos(q + 1) + 1 + (r - 1) = b
        BY <3>5, <3>2, <3>3, <1>2 DEF Slots
      <4>2. b < NBlocks
        BY DEF Data
      <4>3. node[Pos(q + 1)].blocks[r - 1] = b
        BY <4>1, <4>2, <3>2, <1>9
      <4> QED BY <4>1, <4>3, <3>2, <1>8, FreeElements
    <3> QED BY <3>4, <3>5
  <2> QED BY <2>1, <1>10, FreeFinite
<1>15. Partition /\ FreeCountExact
  <2>1. Cardinality(Data) = NBlocks - FirstData
    BY FS_Interval DEF Data
  <2> QED BY <2>1, <1>14 DEF Partition, FreeCountExact, BlockListInit
<1> QED BY <1>10, <1>11, <1>13, <1>15 DEF BlockListInv

(* block_allocate out of a slot of the head. *)
LEMMA AllocateSlotIInv ==
  ASSUME BlockListInv, AllocateSlot
  PROVE  BlockListInv' /\ got' \in Free /\ Free' = Free \ {got'}
<1> USE Constants
<1> DEFINE h == freelist_start
<1>1. PICK i \in Slots :
        /\ node[h].blocks[i] # EOF
        /\ node' = [node EXCEPT ![h].blocks[i] = EOF]
        /\ got' = node[h].blocks[i]
        /\ used' = used \cup {node[h].blocks[i]}
  BY DEF AllocateSlot, Head_
<1>2. UNCHANGED <<freelist_start, chain>> /\ free_blocks' = free_blocks - 1
  BY DEF AllocateSlot
<1>3. h \in Range(chain) /\ h \in Data
  BY HeadOnChain DEF BlockListInv, AllocateSlot
<1>4. chain \in Seq(Data) /\ Range(chain) \subseteq Data
  BY InRange DEF BlockListInv, BlockListTypeOK
<1>5. node \in [Data -> NodeType]
  BY DEF BlockListInv, BlockListTypeOK
<1>6. \A c \in Data :
        /\ node'[c].next = node[c].next
        /\ \A j \in Slots : node'[c].blocks[j] =
             IF c = h /\ j = i THEN EOF ELSE node[c].blocks[j]
  BY <1>1, <1>3, <1>5 DEF NodeType
<1>7. got' \in Free /\ got' \in Data /\ got' \notin Range(chain)
  <2>1. got' \in Free
    BY <1>1, <1>3, FreeElements
  <2>2. got' \notin Range(chain)
    BY <1>1, <1>3 DEF BlockListInv, NoDuplicates
  <2> QED BY <2>1, <2>2, FreeFinite DEF BlockListInv
<1>8. ASSUME NEW x
      PROVE  x \in Free' <=> x \in Free /\ x # got'
  <2>1. x \in Free' <=>
          \/ x \in Range(chain)
          \/ x # EOF /\ \E c \in Range(chain), j \in Slots : node'[c].blocks[j] = x
    BY <1>2 DEF Free, InSlots
  <2>2. ASSUME NEW c \in Range(chain), NEW j \in Slots, x # EOF
        PROVE  node'[c].blocks[j] = x <=> node[c].blocks[j] = x /\ x # got'
    <3>1. CASE c = h /\ j = i
      BY <3>1, <2>2, <1>1, <1>3, <1>6
    <3>2. CASE ~(c = h /\ j = i)
      <4>1. node'[c].blocks[j] = node[c].blocks[j]
        BY <3>2, <1>4, <1>6
      <4>2. node[c].blocks[j] # got'
        BY <3>2, <1>1, <1>3 DEF BlockListInv, NoDuplicates
      <4> QED BY <4>1, <4>2
    <3> QED BY <3>1, <3>2
  <2> QED BY <2>1, <2>2, <1>7, FreeElements
<1>9. Free' = Free \ {got'}
  BY <1>8
<1>10. FreeCountExact' /\ free_blocks' \in Nat
  <2>1. IsFiniteSet(Free)
    BY FreeFinite DEF BlockListInv
  <2>2. IsFiniteSet(Free') /\ Cardinality(Free') = Cardinality(Free) - 1
    BY <2>1, <1>7, <1>9, FS_RemoveElement
  <2> QED BY <2>2, <1>2, FS_CardinalityType DEF FreeCountExact, BlockListInv
<1>11. BlockListTypeOK'
  <2>1. node' \in [Data -> NodeType]
    BY <1>1, <1>3, <1>5 DEF NodeType
  <2> QED BY <2>1, <1>1, <1>2, <1>7, <1>10 DEF BlockListInv, BlockListTypeOK
<1>12. ChainOK'
  <2>1. \A k \in 1 .. Len(chain) : chain[k] \in Data
    BY <1>4, InRange
  <2>2. \A k \in 1 .. Len(chain) : node'[chain[k]].next = node[chain[k]].next
    BY <2>1, <1>6
  <2> QED BY <2>2, <1>2 DEF BlockListInv, ChainOK
<1>13. NoDuplicates'
  <2>1. \A c \in Range(chain), j \in Slots :
          node'[c].blocks[j] = EOF \/ node'[c].blocks[j] = node[c].blocks[j]
    BY <1>4, <1>6
  <2>2. EOF \notin Range(chain)
    BY <1>4
  <2> QED BY <2>1, <2>2, <1>2 DEF BlockListInv, NoDuplicates
<1>14. Partition'
  BY <1>1, <1>7, <1>9 DEF BlockListInv, Partition
<1> QED BY <1>7, <1>9, <1>10, <1>11, <1>12, <1>13, <1>14 DEF BlockListInv

(* block_allocate of the head itself. *)
LEMMA AllocateHeadIInv ==
  ASSUME BlockListInv, AllocateHead
  PROVE  BlockListInv' /\ got' \in Free /\ Free' = Free \ {got'}
<1> USE Constants
<1> DEFINE h == freelist_start
<1>1. /\ \A j \in Slots : node[h].blocks[j] = EOF
      /\ freelist_start' = node[h].next
      /\ free_blocks' = free_blocks - 1
      /\ got' = h
      /\ used' = used \cup {h}
      /\ chain' = Tail(chain)
      /\ node' = node
  BY DEF AllocateHead, Head_
<1>2. /\ chain # <<>> /\ h = chain[1] /\ h \in Data
      /\ chain \in Seq(Data) /\ IsInjective(chain)
  BY HeadOnChain DEF BlockListInv, BlockListTypeOK, ChainOK, AllocateHead
<1>3. /\ Len(chain) \in Nat \ {0}
      /\ Tail(chain) \in Seq(Data)
      /\ Len(Tail(chain)) = Len(chain) - 1
      /\ \A k \in 1 .. Len(chain) - 1 : Tail(chain)[k] = chain[k + 1]
      /\ Tail(chain) = <<>> <=> Len(chain) = 1
  BY <1>2, TailPositions
<1>4. /\ IsInjective(Tail(chain))
      /\ Range(chain') = Range(chain) \ {h}
      /\ h \in Range(chain)
  BY <1>1, <1>2, TailElements
<1>5. got' \in Free
  BY <1>1, <1>4, FreeElements
<1>6. ASSUME NEW x
      PROVE  x \in Free' <=> x \in Free /\ x # h
  <2>1. x \in Free' <=>
          \/ x \in Range(chain')
          \/ x # EOF /\ \E c \in Range(chain'), j \in Slots : node[c].blocks[j] = x
    BY <1>1 DEF Free, InSlots
  <2>2. \A c \in Range(chain), j \in Slots : node[c].blocks[j] # h
    BY <1>4 DEF BlockListInv, NoDuplicates
  <2> QED BY <2>1, <2>2, <1>1, <1>4, FreeElements
<1>7. Free' = Free \ {got'}
  BY <1>1, <1>6
<1>8. FreeCountExact' /\ free_blocks' \in Nat
  <2>1. IsFiniteSet(Free)
    BY FreeFinite DEF BlockListInv
  <2>2. IsFiniteSet(Free') /\ Cardinality(Free') = Cardinality(Free) - 1
    BY <2>1, <1>5, <1>7, FS_RemoveElement
  <2> QED BY <2>2, <1>1, FS_CardinalityType DEF FreeCountExact, BlockListInv
<1>9. freelist_start' = IF Len(chain) = 1 THEN EOF ELSE chain[2]
  <2>1. 1 \in 1 .. Len(chain) /\ (1 < Len(chain) <=> Len(chain) # 1)
    BY <1>3
  <2>2. node[chain[1]].next = IF 1 < Len(chain) THEN chain[1 + 1] ELSE EOF
    BY <2>1 DEF BlockListInv, ChainOK
  <2> QED BY <2>1, <2>2, <1>1, <1>2
<1>10. BlockListTypeOK'
  <2>1. freelist_start' \in Data \cup {EOF}
    BY <1>1, <1>2 DEF BlockListInv, BlockListTypeOK, NodeType
  <2> QED BY <2>1, <1>1, <1>2, <1>3, <1>8 DEF BlockListInv, BlockListTypeOK
<1>11. ChainOK'
  <2>1. ASSUME NEW k \in 1 .. Len(chain')
        PROVE  node'[chain'[k]].next = IF k < Len(chain') THEN chain'[k + 1] ELSE EOF
    <3>1. k + 1 \in 1 .. Len(chain) /\ chain'[k] = chain[k + 1]
      BY <1>1, <1>3
    <3>2. node[chain[k + 1]].next = IF k + 1 < Len(chain) THEN chain[(k + 1) + 1] ELSE EOF
      BY <3>1 DEF BlockListInv, ChainOK
    <3>3. k < Len(chain') <=> k + 1 < Len(chain)
      BY <1>1, <1>3
    <3>4. k < Len(chain') => chain'[k + 1] = chain[(k + 1) + 1]
      BY <1>1, <1>3
    <3> QED BY <3>1, <3>2, <3>3, <3>4, <1>1
  <2>2. freelist_start' = IF chain' = <<>> THEN EOF ELSE chain'[1]
    <3>1. CASE Len(chain) = 1
      BY <3>1, <1>1, <1>3, <1>9
    <3>2. CASE Len(chain) # 1
      <4>1. 1 \in 1 .. Len(chain) - 1 /\ 1 + 1 = 2
        BY <3>2, <1>3
      <4> QED BY <4>1, <3>2, <1>1, <1>3, <1>9
    <3> QED BY <3>1, <3>2
  <2> QED BY <2>1, <2>2, <1>1, <1>4 DEF ChainOK
<1>12. NoDuplicates'
  BY <1>1, <1>4 DEF BlockListInv, NoDuplicates
<1>13. Partition'
  BY <1>1, <1>2, <1>5, <1>7 DEF BlockListInv, Partition
<1> QED BY <1>5, <1>7, <1>8, <1>10, <1>11, <1>12, <1>13 DEF BlockListInv

(* block_free into a slot of the head. *)
LEMMA FreeIntoSlotIInv ==
  ASSUME BlockListInv, NEW b \in used, FreeIntoSlot(b)
  PROVE  BlockListInv' /\ b \in Data \ Free /\ Free' = Free \cup {b}
<1> USE Constants
<1> DEFINE h == freelist_start
<1>1. PICK i \in Slots :
        /\ node[h].blocks[i] = EOF
        /\ node' = [node EXCEPT ![h].blocks[i] = b]
  BY DEF FreeIntoSlot, Head_
<1>2. /\ UNCHANGED <<freelist_start, chain, got>>
      /\ free_blocks' = free_blocks + 1
      /\ used' = used \ {b}
  BY DEF FreeIntoSlot
<1>3. h \in Range(chain) /\ h \in Data
  BY HeadOnChain DEF BlockListInv, FreeIntoSlot
<1>4. chain \in Seq(Data) /\ Range(chain) \subseteq Data
  BY InRange DEF BlockListInv, BlockListTypeOK
<1>5. node \in [Data -> NodeType] /\ b \in Data /\ b \notin Free /\ b # EOF
  BY DEF BlockListInv, BlockListTypeOK, Partition
<1>6. \A c \in Data :
        /\ node'[c].next = node[c].next
        /\ \A j \in Slots : node'[c].blocks[j] =
             IF c = h /\ j = i THEN b ELSE node[c].blocks[j]
  BY <1>1, <1>3, <1>5 DEF NodeType
<1>7. /\ b \notin Range(chain)
      /\ \A c \in Range(chain), j \in Slots : node[c].blocks[j] # b
  BY <1>5, FreeElements
<1>8. ASSUME NEW x
      PROVE  x \in Free' <=> x \in Free \/ x = b
  <2>1. x \in Free' <=>
          \/ x \in Range(chain)
          \/ x # EOF /\ \E c \in Range(chain), j \in Slots : node'[c].blocks[j] = x
    BY <1>2 DEF Free, InSlots
  <2>2. x # EOF =>
          ((\E c \in Range(chain), j \in Slots : node'[c].blocks[j] = x)
           <=> \/ x = b
               \/ \E c \in Range(chain), j \in Slots : node[c].blocks[j] = x)
    <3>1. node'[h].blocks[i] = b
      BY <1>3, <1>6
    <3>2. ASSUME NEW c \in Range(chain), NEW j \in Slots,
                 x # EOF, node[c].blocks[j] = x
          PROVE  node'[c].blocks[j] = x
      BY <3>2, <1>1, <1>4, <1>6
    <3>3. ASSUME NEW c \in Range(chain), NEW j \in Slots,
                 node'[c].blocks[j] = x, x # b
          PROVE  node[c].blocks[j] = x
      BY <3>3, <1>4, <1>6
    <3> QED BY <3>1, <3>2, <3>3, <1>3
  <2> QED BY <2>1, <2>2, <1>5, FreeElements
<1>9. Free' = Free \cup {b}
  BY <1>8
<1>10. FreeCountExact' /\ free_blocks' \in Nat
  <2>1. IsFiniteSet(Free)
    BY FreeFinite DEF BlockListInv
  <2>2. IsFiniteSet(Free') /\ Cardinality(Free') = Cardinality(Free) + 1
    BY <2>1, <1>5, <1>9, FS_AddElement
  <2> QED BY <2>2, <1>2, FS_CardinalityType DEF FreeCountExact, BlockListInv
<1>11. BlockListTypeOK'
  <2>1. node' \in [Data -> NodeType]
    BY <1>1, <1>3, <1>5 DEF NodeType
  <2> QED BY <2>1, <1>2, <1>10 DEF BlockListInv, BlockListTypeOK
<1>12. ChainOK'
  <2>1. \A k \in 1 .. Len(chain) : chain[k] \in Data
    BY <1>4, InRange
  <2>2. \A k \in 1 .. Len(chain) : node'[chain[k]].next = node[chain[k]].next
    BY <2>1, <1>6
  <2> QED BY <2>2, <1>2 DEF BlockListInv, ChainOK
<1>13. NoDuplicates'
  <2>1. ASSUME NEW c \in Range(chain), NEW j \in Slots
        PROVE  node'[c].blocks[j] \notin Range(chain)
    BY <1>4, <1>6, <1>7 DEF BlockListInv, NoDuplicates
  <2>2. ASSUME NEW c \in Range(chain), NEW d \in Range(chain),
               NEW j \in Slots, NEW k \in Slots,
               node'[c].blocks[j] # EOF, node'[c].blocks[j] = node'[d].blocks[k]
        PROVE  c = d /\ j = k
    <3> DEFINE New(e, m) == e = h /\ m = i
    <3>1. c \in Data /\ d \in Data
      BY <1>4
    <3>2. /\ node'[c].blocks[j] = IF New(c, j) THEN b ELSE node[c].blocks[j]
          /\ node'[d].blocks[k] = IF New(d, k) THEN b ELSE node[d].blocks[k]
      BY <3>1, <1>6
    <3>3. node[c].blocks[j] # b /\ node[d].blocks[k] # b
      BY <1>7
    <3>4. New(c, j) <=> New(d, k)
      BY <3>2, <3>3, <2>2
    <3>5. CASE ~New(c, j)
      <4>1. node[c].blocks[j] # EOF /\ node[c].blocks[j] = node[d].blocks[k]
        BY <3>2, <3>4, <3>5, <2>2
      <4> QED BY <4>1 DEF BlockListInv, NoDuplicates
    <3>6. CASE New(c, j)
      BY <3>4, <3>6
    <3> QED BY <3>5, <3>6
  <2> QED BY <2>1, <2>2, <1>2 DEF NoDuplicates
<1>14. Partition'
  BY <1>2, <1>5, <1>9 DEF BlockListInv, Partition
<1> QED BY <1>5, <1>9, <1>10, <1>11, <1>12, <1>13, <1>14 DEF BlockListInv

(* block_free of a block that becomes the head. *)
LEMMA FreeAsHeadIInv ==
  ASSUME BlockListInv, NEW b \in used, FreeAsHead(b)
  PROVE  BlockListInv' /\ b \in Data \ Free /\ Free' = Free \cup {b}
<1> USE Constants
<1>1. b \in Data /\ b \notin Free /\ b \notin Range(chain)
  BY FreeElements DEF BlockListInv, BlockListTypeOK, Partition
<1>2. chain \in Seq(Data) /\ IsInjective(chain) /\ Range(chain) \subseteq Data
  BY InRange DEF BlockListInv, BlockListTypeOK, ChainOK
<1>3. /\ chain' = <<b>> \o chain
      /\ chain' \in Seq(Data)
      /\ Len(chain') = Len(chain) + 1
      /\ chain'[1] = b
      /\ \A k \in 2 .. Len(chain) + 1 : chain'[k] = chain[k - 1]
      /\ chain' # <<>>
      /\ Len(chain) \in Nat
  BY <1>1, <1>2, ConsPositions DEF FreeAsHead
<1>4. IsInjective(chain') /\ Range(chain') = Range(chain) \cup {b}
  BY <1>1, <1>2, <1>3, ConsElements
<1>5. /\ freelist_start' = b /\ got' = got
      /\ free_blocks' = free_blocks + 1 /\ used' = used \ {b}
  BY DEF FreeAsHead
<1>6. /\ node'[b].next = freelist_start
      /\ \A j \in Slots : node'[b].blocks[j] = EOF
      /\ \A c \in Data \ {b} : node'[c] = node[c]
      /\ node' \in [Data -> NodeType]
  BY <1>1 DEF FreeAsHead, EmptySlots, BlockListInv, BlockListTypeOK, NodeType
<1>7. \A c \in Range(chain) : node'[c] = node[c]
  BY <1>1, <1>2, <1>6
<1>8. ASSUME NEW x
      PROVE  x \in Free' <=> x \in Free \/ x = b
  <2>1. x \in Free' <=>
          \/ x \in Range(chain')
          \/ x # EOF /\ \E c \in Range(chain'), j \in Slots : node'[c].blocks[j] = x
    BY DEF Free, InSlots
  <2> QED BY <2>1, <1>4, <1>6, <1>7, FreeElements
<1>9. Free' = Free \cup {b}
  BY <1>8
<1>10. FreeCountExact' /\ free_blocks' \in Nat
  <2>1. IsFiniteSet(Free)
    BY FreeFinite DEF BlockListInv
  <2>2. IsFiniteSet(Free') /\ Cardinality(Free') = Cardinality(Free) + 1
    BY <2>1, <1>1, <1>9, FS_AddElement
  <2> QED BY <2>2, <1>5, FS_CardinalityType DEF FreeCountExact, BlockListInv
<1>11. BlockListTypeOK'
  BY <1>1, <1>3, <1>5, <1>6, <1>10 DEF BlockListInv, BlockListTypeOK
<1>12. ChainOK'
  <2>1. ASSUME NEW k \in 1 .. Len(chain')
        PROVE  node'[chain'[k]].next = IF k < Len(chain') THEN chain'[k + 1] ELSE EOF
    <3>1. CASE k = 1
      <4>1. node'[chain'[k]].next = freelist_start
        BY <3>1, <1>3, <1>6
      <4>2. CASE chain = <<>>
        <5>1. Len(chain) = 0 /\ freelist_start = EOF
          BY <4>2 DEF BlockListInv, ChainOK
        <5> QED BY <5>1, <4>1, <3>1, <1>3
      <4>3. CASE chain # <<>>
        <5>1. freelist_start = chain[1] /\ 1 \in 1 .. Len(chain)
          BY <4>3, <1>2, EmptySeq DEF BlockListInv, ChainOK
        <5>2. 2 \in 2 .. Len(chain) + 1 /\ k < Len(chain') /\ k + 1 = 2
          BY <5>1, <3>1, <1>3
        <5>3. chain'[2] = chain[1]
          BY <5>2, <1>3
        <5> QED BY <5>1, <5>2, <5>3, <4>1
      <4> QED BY <4>2, <4>3
    <3>2. CASE k # 1
      <4>1. k \in 2 .. Len(chain) + 1 /\ k - 1 \in 1 .. Len(chain)
        BY <3>2, <1>3
      <4>2. chain'[k] = chain[k - 1] /\ chain[k - 1] \in Range(chain)
        BY <4>1, <1>2, <1>3, InRange
      <4>3. node'[chain'[k]] = node[chain[k - 1]]
        BY <4>2, <1>7
      <4>4. node[chain[k - 1]].next =
              IF k - 1 < Len(chain) THEN chain[(k - 1) + 1] ELSE EOF
        BY <4>1 DEF BlockListInv, ChainOK
      <4>5. k - 1 < Len(chain) <=> k < Len(chain')
        BY <4>1, <1>3
      <4>6. k < Len(chain') => chain'[k + 1] = chain[(k - 1) + 1]
        BY <4>1, <1>3
      <4> QED BY <4>3, <4>4, <4>5, <4>6
    <3> QED BY <3>1, <3>2
  <2> QED BY <2>1, <1>3, <1>4, <1>5 DEF ChainOK
<1>13. NoDuplicates'
  <2>1. \A c \in Range(chain), j \in Slots : node[c].blocks[j] # b
    BY <1>1, FreeElements
  <2>2. EOF \notin Range(chain')
    BY <1>1, <1>2, <1>4
  <2> QED BY <2>1, <2>2, <1>4, <1>6, <1>7 DEF BlockListInv, NoDuplicates
<1>14. Partition'
  BY <1>1, <1>5, <1>9 DEF BlockListInv, Partition
<1> QED BY <1>1, <1>9, <1>10, <1>11, <1>12, <1>13, <1>14 DEF BlockListInv

(* No step breaks the invariant. *)
LEMMA NextIInv == BlockListInv /\ [BlockListNext]_blockListVars => BlockListInv'
<1> SUFFICES ASSUME BlockListInv, [BlockListNext]_blockListVars PROVE BlockListInv'
  OBVIOUS
<1>1. CASE AllocateNothing
  BY <1>1 DEF AllocateNothing, BlockListInv, BlockListTypeOK, ChainOK, NoDuplicates, Partition,
       FreeCountExact, Free, InSlots
<1>2. CASE AllocateSlot
  BY <1>2, AllocateSlotIInv
<1>3. CASE AllocateHead
  BY <1>3, AllocateHeadIInv
<1>4. CASE block_free
  BY <1>4, FreeIntoSlotIInv, FreeAsHeadIInv DEF block_free
<1>5. CASE UNCHANGED blockListVars
  BY <1>5 DEF blockListVars, BlockListInv, BlockListTypeOK, ChainOK, NoDuplicates, Partition,
       FreeCountExact, Free, InSlots
<1> QED BY <1>1, <1>2, <1>3, <1>4, <1>5 DEF BlockListNext, block_allocate

(* The inductive invariant holds in every reachable state. *)
THEOREM BlockListInvariant == BlockListSpec => []BlockListInv
  BY InitIInv, NextIInv, PTL DEF BlockListSpec

(* BlockListTypeOK holds always: what block_allocate hands out is a data   *)
(* block or EOF, a list node on the disk stays one whatever is stored in   *)
(* it, and free_blocks is never counted down from 0, where it would wrap.  *)
THEOREM BlockListTypes == BlockListSpec => []BlockListTypeOK
<1>1. BlockListInv => BlockListTypeOK
  BY DEF BlockListInv
<1> QED BY <1>1, BlockListInvariant, PTL

(* No block is lost, none is free twice, none is both free and in use, and *)
(* statfs(2) reports the number of free blocks.                            *)
THEOREM BlockListCorrect ==
  BlockListSpec => [](NoDuplicates /\ Partition /\ FreeCountExact)
<1>1. BlockListInv => NoDuplicates /\ Partition /\ FreeCountExact
  BY DEF BlockListInv
<1> QED BY <1>1, BlockListInvariant, PTL

(* The list behaves like the abstract pool of data blocks: an allocation   *)
(* hands out a free block and fails only when there is none.               *)
THEOREM BlockListRefinesPool == BlockListSpec => ImplementsBlockPool
<1>1. BlockListInit => BlockPool!Init
  <2> SUFFICES ASSUME BlockListInit PROVE BlockPool!Init
    OBVIOUS
  <2>1. Free = Data
    BY InitIInv DEF BlockListInv, Partition, BlockListInit
  <2>2. free_blocks = Cardinality(Free)
    BY InitIInv DEF BlockListInv, FreeCountExact
  <2> QED BY <2>1, <2>2 DEF BlockPool!Init, BlockListInit, BlockPool!Cardinality, Cardinality
<1>2. BlockListInv /\ [BlockListNext]_blockListVars => [BlockPool!Next]_(BlockPool!pool)
  <2> SUFFICES ASSUME BlockListInv, [BlockListNext]_blockListVars
               PROVE  [BlockPool!Next]_(BlockPool!pool)
    OBVIOUS
  <2>1. CASE AllocateNothing
    <3>1. chain = <<>>
      <4>1. ASSUME chain # <<>> PROVE FALSE
        <5>1. chain[1] \in Data /\ chain[1] = EOF
          BY <4>1, <2>1, EmptySeq, InRange
             DEF BlockListInv, BlockListTypeOK, ChainOK, AllocateNothing
        <5> QED BY <5>1, Constants
      <4> QED BY <4>1
    <3>2. Free = {}
      BY <3>1 DEF Free, Range
    <3> QED BY <3>2, <2>1
        DEF AllocateNothing, BlockPool!Next, BlockPool!TakeNone, Free, InSlots
  <2>2. CASE AllocateSlot
    BY <2>2, AllocateSlotIInv DEF AllocateSlot, BlockPool!Next, BlockPool!Take
  <2>3. CASE AllocateHead
    BY <2>3, AllocateHeadIInv DEF AllocateHead, BlockPool!Next, BlockPool!Take
  <2>4. CASE block_free
    <3>1. PICK b \in used : FreeIntoSlot(b) \/ FreeAsHead(b)
      BY <2>4 DEF block_free
    <3>2. b \in Data \ Free /\ Free' = Free \cup {b}
      BY <3>1, FreeIntoSlotIInv, FreeAsHeadIInv
    <3>3. free_blocks' = free_blocks + 1 /\ got' = got
      BY <3>1 DEF FreeIntoSlot, FreeAsHead
    <3> QED BY <3>2, <3>3 DEF BlockPool!Next, BlockPool!Give
  <2>5. CASE UNCHANGED blockListVars
    BY <2>5 DEF blockListVars, BlockPool!pool, Free, InSlots
  <2> QED BY <2>1, <2>2, <2>3, <2>4, <2>5 DEF BlockListNext, block_allocate
<1> QED
  BY <1>1, <1>2, BlockListInvariant, PTL
     DEF BlockListSpec, ImplementsBlockPool, BlockPool!Spec

=============================================================================
