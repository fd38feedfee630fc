----------------------------- MODULE RefsProofs -----------------------------
(***************************************************************************)
(* The open file table keeps its invariant, for every set of inodes and    *)
(* every size of the hash map, and implements the table of OpenInodes.     *)
(*                                                                         *)
(* First come facts about sequences that gain, lose or change an element,  *)
(* then facts about the walk along a chain, then one lemma to each action  *)
(* of Refs (that it preserves IInv), and the refinement at the end.        *)
(***************************************************************************)
EXTENDS Refs, SequenceTheorems, TLAPS

(* The positions of two sequences put together. *)
LEMMA Concatenation ==
  ASSUME NEW S, NEW s \in Seq(S), NEW t \in Seq(S)
  PROVE  /\ s \o t \in Seq(S)
         /\ Len(s \o t) = Len(s) + Len(t)
         /\ \A j \in 1 .. Len(s) : (s \o t)[j] = s[j]
         /\ \A j \in 1 .. Len(t) : (s \o t)[j + Len(s)] = t[j]
         /\ Len(s) \in Nat /\ Len(t) \in Nat
<1>1. Len(s) \in Nat /\ Len(t) \in Nat
  BY LenProperties
<1>2. /\ s \o t \in Seq(S)
      /\ Len(s \o t) = Len(s) + Len(t)
      /\ \A i \in 1 .. Len(s) + Len(t) :
           (s \o t)[i] = IF i <= Len(s) THEN s[i] ELSE t[i - Len(s)]
  BY ConcatProperties
<1>3. ASSUME NEW j \in 1 .. Len(s) PROVE (s \o t)[j] = s[j]
  <2>1. j \in 1 .. Len(s) + Len(t) /\ j <= Len(s)
    BY <1>1
  <2> QED BY <2>1, <1>2
<1>4. ASSUME NEW j \in 1 .. Len(t) PROVE (s \o t)[j + Len(s)] = t[j]
  <2>1. /\ j + Len(s) \in 1 .. Len(s) + Len(t)
        /\ ~(j + Len(s) <= Len(s))
        /\ (j + Len(s)) - Len(s) = j
    BY <1>1
  <2> QED BY <2>1, <1>2
<1> QED BY <1>1, <1>2, <1>3, <1>4

(* The positions of a sequence with an element inserted. *)
LEMMA InsertPositions ==
  ASSUME NEW S, NEW s \in Seq(S), NEW k \in 1 .. Len(s) + 1, NEW e \in S
  PROVE  /\ InsertAt(s, k, e) \in Seq(S)
         /\ Len(InsertAt(s, k, e)) = Len(s) + 1
         /\ \A j \in 1 .. Len(s) + 1 :
              InsertAt(s, k, e)[j] = IF j < k THEN s[j] ELSE IF j = k THEN e ELSE s[j - 1]
<1> DEFINE r == InsertAt(s, k, e)
           front == SubSeq(s, 1, k - 1)
           back == SubSeq(s, k, Len(s))
           mid == front \o <<e>>
<1>0. Len(s) \in Nat
  BY LenProperties
<1>1. /\ front \in Seq(S) /\ Len(front) = k - 1
      /\ \A j \in 1 .. k - 1 : front[j] = s[j]
  BY <1>0
<1>2. /\ back \in Seq(S) /\ Len(back) = Len(s) - k + 1
      /\ \A j \in 1 .. Len(s) - k + 1 : back[j] = s[k + j - 1]
  BY <1>0
<1>3. r = mid \o back
  BY DEF InsertAt
<1> HIDE DEF front, back, r
<1>4. /\ mid \in Seq(S) /\ Len(mid) = k
      /\ \A j \in 1 .. k - 1 : mid[j] = s[j]
      /\ mid[k] = e
  <2>1. <<e>> \in Seq(S) /\ Len(<<e>>) = 1 /\ <<e>>[1] = e
    OBVIOUS
  <2> DEFINE one == <<e>>
  <2> HIDE DEF one
  <2>2. mid = front \o one
    BY DEF one
  <2>3. /\ mid \in Seq(S) /\ Len(mid) = Len(front) + Len(one)
        /\ \A j \in 1 .. Len(front) : mid[j] = front[j]
        /\ \A j \in 1 .. Len(one) : mid[j + Len(front)] = one[j]
    <3>1. one \in Seq(S)
      BY <2>1 DEF one
    <3>2. front \in Seq(S)
      BY <1>1
    <3>3. /\ front \o one \in Seq(S)
          /\ Len(front \o one) = Len(front) + Len(one)
          /\ \A j \in 1 .. Len(front) : (front \o one)[j] = front[j]
          /\ \A j \in 1 .. Len(one) : (front \o one)[j + Len(front)] = one[j]
      BY ONLY <3>1, <3>2, Concatenation
    <3> QED BY <3>3, <2>2
  <2>4. Len(one) = 1 /\ one[1] = e
    BY <2>1 DEF one
  <2> HIDE DEF mid
  <2>5. mid[1 + (k - 1)] = e /\ 1 + (k - 1) = k
    BY <2>3, <2>4, <1>1, <1>0
  <2> QED BY <2>3, <2>4, <2>5, <1>1, <1>0
<1> HIDE DEF mid
<1>5. /\ r \in Seq(S) /\ Len(r) = Len(mid) + Len(back)
      /\ \A j \in 1 .. Len(mid) : r[j] = mid[j]
      /\ \A j \in 1 .. Len(back) : r[j + Len(mid)] = back[j]
  <2>1. mid \in Seq(S) /\ back \in Seq(S)
    BY <1>2, <1>4
  <2>2. /\ mid \o back \in Seq(S)
        /\ Len(mid \o back) = Len(mid) + Len(back)
        /\ \A j \in 1 .. Len(mid) : (mid \o back)[j] = mid[j]
        /\ \A j \in 1 .. Len(back) : (mid \o back)[j + Len(mid)] = back[j]
    BY ONLY <2>1, Concatenation
  <2> QED BY <2>2, <1>3
<1>6. ASSUME NEW j \in 1 .. Len(s) + 1
      PROVE  r[j] = IF j < k THEN s[j] ELSE IF j = k THEN e ELSE s[j - 1]
  <2>1. ASSUME j < k PROVE r[j] = s[j]
    BY <1>0, <2>1, <1>4, <1>5
  <2>2. ASSUME j = k PROVE r[j] = e
    BY <1>0, <2>2, <1>4, <1>5
  <2>3. ASSUME j > k PROVE r[j] = s[j - 1]
    <3>1. j - k \in 1 .. Len(s) - k + 1 /\ k + (j - k) - 1 = j - 1
      BY <1>0, <2>3
    <3>2. back[j - k] = s[j - 1] /\ j - k \in 1 .. Len(back)
      BY <3>1, <1>2
    <3>3. (j - k) + Len(mid) = j
      BY <1>0, <1>4
    <3> QED BY <3>2, <3>3, <1>5
  <2> QED BY <1>0, <2>1, <2>2, <2>3
<1>7. Len(r) = Len(s) + 1
  BY <1>0, <1>2, <1>4, <1>5
<1> QED BY <1>5, <1>6, <1>7 DEF r

(* The positions of a sequence with an element removed. *)
LEMMA RemovePositions ==
  ASSUME NEW S, NEW s \in Seq(S), NEW k \in 1 .. Len(s)
  PROVE  /\ RemoveAt(s, k) \in Seq(S)
         /\ Len(RemoveAt(s, k)) = Len(s) - 1
         /\ \A j \in 1 .. Len(s) - 1 : RemoveAt(s, k)[j] = IF j < k THEN s[j] ELSE s[j + 1]
<1> DEFINE r == RemoveAt(s, k)
           front == SubSeq(s, 1, k - 1)
           back == SubSeq(s, k + 1, Len(s))
<1>0. Len(s) \in Nat
  BY LenProperties
<1>1. /\ front \in Seq(S) /\ Len(front) = k - 1
      /\ \A j \in 1 .. k - 1 : front[j] = s[j]
  BY <1>0
<1>2. /\ back \in Seq(S) /\ Len(back) = Len(s) - k
      /\ \A j \in 1 .. Len(s) - k : back[j] = s[k + j]
  BY <1>0
<1>3. r = front \o back
  BY DEF RemoveAt
<1> HIDE DEF front, back, r
<1>4. /\ r \in Seq(S) /\ Len(r) = Len(front) + Len(back)
      /\ \A j \in 1 .. Len(front) : r[j] = front[j]
      /\ \A j \in 1 .. Len(back) : r[j + Len(front)] = back[j]
  <2>1. front \in Seq(S) /\ back \in Seq(S)
    BY <1>1, <1>2
  <2>2. /\ front \o back \in Seq(S)
        /\ Len(front \o back) = Len(front) + Len(back)
        /\ \A j \in 1 .. Len(front) : (front \o back)[j] = front[j]
        /\ \A j \in 1 .. Len(back) : (front \o back)[j + Len(front)] = back[j]
    BY ONLY <2>1, Concatenation
  <2> QED BY <2>2, <1>3
<1>5. ASSUME NEW j \in 1 .. Len(s) - 1
      PROVE  r[j] = IF j < k THEN s[j] ELSE s[j + 1]
  <2>1. ASSUME j < k PROVE r[j] = s[j]
    BY <1>0, <2>1, <1>1, <1>4
  <2>2. ASSUME ~(j < k) PROVE r[j] = s[j + 1]
    <3>1. j - (k - 1) \in 1 .. Len(s) - k /\ k + (j - (k - 1)) = j + 1
      BY <1>0, <2>2
    <3>2. back[j - (k - 1)] = s[j + 1] /\ j - (k - 1) \in 1 .. Len(back)
      BY <3>1, <1>2
    <3>3. (j - (k - 1)) + Len(front) = j
      BY <1>0, <1>1
    <3> QED BY <3>2, <3>3, <1>4
  <2> QED BY <2>1, <2>2
<1>6. Len(r) = Len(s) - 1
  BY <1>0, <1>1, <1>2, <1>4
<1> QED BY <1>4, <1>5, <1>6 DEF r

(* A sequence with one element replaced. *)
LEMMA ReplacePositions ==
  ASSUME NEW S, NEW s \in Seq(S), NEW k \in 1 .. Len(s), NEW e \in S
  PROVE  /\ [s EXCEPT ![k] = e] \in Seq(S)
         /\ Len([s EXCEPT ![k] = e]) = Len(s)
         /\ [s EXCEPT ![k] = e][k] = e
         /\ \A j \in 1 .. Len(s) : j # k => [s EXCEPT ![k] = e][j] = s[j]
  OBVIOUS

-----------------------------------------------------------------------------
(* One chain of the table: where its nodes belong, and in which order. *)
ChainOK(h, c) ==
  /\ \A k \in 1 .. Len(c) : hash(c[k].inode) = h /\ c[k].refcount > 0
  /\ \A j, k \in 1 .. Len(c) : j < k => c[j].inode < c[k].inode

Members(c) == {c[k].inode : k \in 1 .. Len(c)}

Table == open_file_table \in [Buckets -> Seq(Node)] /\ ChainsSorted

(* The references that chain c counts for inode i. *)
RefsIn(c, i) ==
  IF \E k \in 1 .. Len(c) : c[k].inode = i
  THEN c[CHOOSE k \in 1 .. Len(c) : c[k].inode = i].refcount
  ELSE 0

(* c has the nodes that s has, but for the one of inode i. *)
KeepsOthers(s, c, i) ==
  /\ \A p \in 1 .. Len(s) : s[p].inode # i => \E q \in 1 .. Len(c) : c[q] = s[p]
  /\ \A q \in 1 .. Len(c) : c[q].inode # i => \E p \in 1 .. Len(s) : s[p] = c[q]

(* The node of an inode, if a chain has one, is the only one, and counts   *)
(* its references.                                                         *)
LEMMA RefsInNode ==
  ASSUME NEW h, NEW c \in Seq(Node), ChainOK(h, c),
         NEW k \in 1 .. Len(c), NEW i, c[k].inode = i
  PROVE  RefsIn(c, i) = c[k].refcount
<1>1. Len(c) \in Nat /\ \A j \in 1 .. Len(c) : c[j] \in Node
  BY LenProperties
<1>2. \A n \in Node : n.inode \in Nat
  BY RefsAssumption DEF Node
<1>3. ASSUME NEW j \in 1 .. Len(c), c[j].inode = i PROVE j = k
  <2>1. ~(j < k) /\ ~(k < j)
    BY <1>1, <1>2, <1>3 DEF ChainOK
  <2> QED BY <2>1, <1>1
<1>4. (CHOOSE j \in 1 .. Len(c) : c[j].inode = i) = k
  BY <1>3
<1> QED BY <1>4 DEF RefsIn

LEMMA RefsInOthers ==
  ASSUME NEW h, NEW s \in Seq(Node), NEW c \in Seq(Node),
         ChainOK(h, s), ChainOK(h, c), NEW i, KeepsOthers(s, c, i),
         NEW j, j # i
  PROVE  /\ RefsIn(c, j) = RefsIn(s, j)
         /\ j \in Members(c) <=> j \in Members(s)
<1>1. CASE \E p \in 1 .. Len(s) : s[p].inode = j
  <2>1. PICK p \in 1 .. Len(s) : s[p].inode = j
    BY <1>1
  <2>2. PICK q \in 1 .. Len(c) : c[q] = s[p]
    BY <2>1 DEF KeepsOthers
  <2>3. RefsIn(s, j) = s[p].refcount
    BY <2>1, RefsInNode
  <2>4. RefsIn(c, j) = c[q].refcount
    BY <2>1, <2>2, RefsInNode
  <2> QED BY <2>1, <2>2, <2>3, <2>4 DEF Members
<1>2. CASE ~ \E p \in 1 .. Len(s) : s[p].inode = j
  <2>1. ~ \E q \in 1 .. Len(c) : c[q].inode = j
    BY <1>2 DEF KeepsOthers
  <2> QED BY <1>2, <2>1 DEF RefsIn, Members
<1> QED BY <1>1, <1>2

LEMMA HashIsBucket ==
  ASSUME NEW i \in Inodes
  PROVE  hash(i) \in Buckets
  BY RefsAssumption DEF hash, Buckets

(* The nodes of the chain of an inode, by their places. *)
LEMMA ChainNodes ==
  ASSUME Table, NEW i \in Inodes
  PROVE  /\ chainOf(i) \in Seq(Node)
         /\ Len(chainOf(i)) \in Nat
         /\ \A k \in 1 .. Len(chainOf(i)) :
              chainOf(i)[k] \in Node /\ chainOf(i)[k].inode \in Inodes
         /\ ChainOK(hash(i), chainOf(i))
<1>1. hash(i) \in Buckets
  BY HashIsBucket
<1>2. chainOf(i) \in Seq(Node)
  BY <1>1 DEF Table, chainOf
<1>3. ChainOK(hash(i), chainOf(i))
  BY <1>1 DEF Table, ChainsSorted, chainOf, ChainOK
<1> QED
  <2> DEFINE c == chainOf(i)
  <2>1. c \in Seq(Node)
    BY <1>2
  <2> HIDE DEF c
  <2>2. Len(c) \in Nat /\ \A k \in 1 .. Len(c) : c[k] \in Node
    BY <2>1, LenProperties
  <2>3. \A n \in Node : n.inode \in Inodes
    BY DEF Node
  <2> QED BY <2>2, <2>3, <1>2, <1>3 DEF c

(* Where the walk finds the node of an inode, no other node is its own. *)
LEMMA Found ==
  ASSUME Table, NEW i \in Inodes, NEW k \in Places(i), NodeAt(i, k)
  PROVE  /\ k \in 1 .. Len(chainOf(i))
         /\ chainOf(i)[k].inode = i
         /\ \A j \in 1 .. Len(chainOf(i)) : chainOf(i)[j].inode = i => j = k
         /\ Open(i)
<1> DEFINE c == chainOf(i)
<1>1. Len(c) \in Nat /\ ChainOK(hash(i), c) /\ i \in Nat
      /\ \A j \in 1 .. Len(c) : c[j].inode \in Nat
  BY ChainNodes, RefsAssumption
<1>2. k \in 1 .. Len(c) + 1 /\ k <= Len(c) /\ c[k].inode = i
  BY DEF NodeAt, Places
<1>3. Open(i)
  BY <1>1, <1>2 DEF Open
<1> HIDE DEF c
<1>4. k \in 1 .. Len(c)
  BY <1>1, <1>2
<1>5. ASSUME NEW j \in 1 .. Len(c), c[j].inode = i PROVE j = k
  <2>1. ~(j < k) /\ ~(k < j)
    BY <1>1, <1>2, <1>4, <1>5 DEF ChainOK
  <2> QED BY <2>1, <1>1, <1>4
<1> QED BY <1>2, <1>3, <1>4, <1>5 DEF c

(* Where the walk finds none there is none in the table, and a node put    *)
(* there keeps the order.                                                  *)
LEMMA NotFound ==
  ASSUME Table, NEW i \in Inodes, NEW k \in Places(i), NoNodeAt(i, k)
  PROVE  /\ k \in 1 .. Len(chainOf(i)) + 1
         /\ \A j \in 1 .. Len(chainOf(i)) :
              IF j < k THEN chainOf(i)[j].inode < i ELSE chainOf(i)[j].inode > i
         /\ ~Open(i)
<1> DEFINE c == chainOf(i)
<1>1. Len(c) \in Nat /\ ChainOK(hash(i), c) /\ i \in Nat
      /\ \A j \in 1 .. Len(c) : c[j].inode \in Nat
  BY ChainNodes, RefsAssumption
<1>2. /\ k \in 1 .. Len(c) + 1
      /\ \A j \in 1 .. k - 1 : c[j].inode < i
      /\ k <= Len(c) => c[k].inode >= i /\ c[k].inode # i
  BY DEF NoNodeAt, find_node_loc, Places
<1>3. Open(i) <=> \E j \in 1 .. Len(c) : c[j].inode = i
  BY DEF Open
<1> HIDE DEF c
<1>4. ASSUME NEW j \in 1 .. Len(c)
      PROVE  IF j < k THEN c[j].inode < i ELSE c[j].inode > i
  <2>1. CASE j < k
    BY <2>1, <1>1, <1>2
  <2>2. CASE j = k
    BY <2>2, <1>1, <1>2
  <2>3. CASE j > k
    <3>1. k \in 1 .. Len(c)
      BY <2>3, <1>1, <1>2
    <3>2. c[k].inode < c[j].inode
      BY <3>1, <2>3, <1>1 DEF ChainOK
    <3> QED BY <3>1, <3>2, <2>3, <1>1, <1>2
  <2> QED BY <2>1, <2>2, <2>3, <1>1, <1>2
<1>5. ~Open(i)
  BY <1>1, <1>2, <1>3, <1>4
<1> QED BY <1>2, <1>4, <1>5 DEF c

-----------------------------------------------------------------------------
(* Replacing the chain of i by c, which is in order, keeps the table in    *)
(* order; the other inodes are open as before, when c has the same nodes   *)
(* for them.                                                               *)
LEMMA NewChain ==
  ASSUME Table, NEW i \in Inodes, NEW c \in Seq(Node), SetChain(i, c),
         ChainOK(hash(i), c),
         KeepsOthers(chainOf(i), c, i)
  PROVE  /\ Table'
         /\ \A h \in Buckets :
              open_file_table'[h] = IF h = hash(i) THEN c ELSE open_file_table[h]
         /\ \A j \in Inodes \ {i} : Open(j)' <=> Open(j)
         /\ Open(i)' <=> i \in Members(c)
         /\ \A j \in Inodes \ {i} : References(j)' = References(j)
         /\ References(i)' = RefsIn(c, i)
         /\ References(i) = RefsIn(chainOf(i), i)
<1>1. hash(i) \in Buckets /\ \A j \in Inodes : hash(j) \in Buckets
  BY HashIsBucket
<1>2. /\ open_file_table' \in [Buckets -> Seq(Node)]
      /\ \A h \in Buckets :
           open_file_table'[h] = IF h = hash(i) THEN c ELSE open_file_table[h]
  BY <1>1 DEF SetChain, Table
<1>3. ChainsSorted'
  BY <1>2 DEF ChainsSorted, ChainOK, Table
<1>4. ASSUME NEW j \in Inodes
      PROVE  /\ Open(j) <=> j \in Members(chainOf(j))
             /\ Open(j)' <=> j \in Members(IF hash(j) = hash(i) THEN c ELSE chainOf(j))
  <2>1. chainOf(j)' = IF hash(j) = hash(i) THEN c ELSE chainOf(j)
    BY <1>1, <1>2 DEF chainOf
  <2>2. \A d : (\E k \in 1 .. Len(d) : d[k].inode = j) <=> j \in Members(d)
    BY DEF Members
  <2> QED BY <2>1, <2>2 DEF Open
<1>5. ASSUME NEW j \in Inodes \ {i}
      PROVE  /\ Open(j)' <=> Open(j)
             /\ References(j)' = References(j)
  <2>1. chainOf(j)' = IF hash(j) = hash(i) THEN c ELSE chainOf(j)
    BY <1>1, <1>2 DEF chainOf
  <2>2. References(j) = RefsIn(chainOf(j), j) /\ References(j)' = RefsIn(chainOf(j)', j)
    BY DEF References, Open, RefsIn
  <2>3. CASE hash(j) = hash(i)
    <3>1. chainOf(j) = chainOf(i)
      BY <2>3 DEF chainOf
    <3>2. chainOf(i) \in Seq(Node) /\ ChainOK(hash(i), chainOf(i))
      BY ChainNodes
    <3>3. RefsIn(c, j) = RefsIn(chainOf(i), j) /\ (j \in Members(c) <=> j \in Members(chainOf(i)))
      BY <3>2, RefsInOthers
    <3> QED BY <3>1, <3>3, <2>1, <2>2, <2>3, <1>4
  <2>4. CASE hash(j) # hash(i)
    BY <2>1, <2>2, <2>4, <1>4
  <2> QED BY <2>3, <2>4
<1>6. Open(i)' <=> i \in Members(c)
  BY <1>4
<1>7. References(i)' = RefsIn(c, i) /\ References(i) = RefsIn(chainOf(i), i)
  <2>1. chainOf(i)' = c
    BY <1>1, <1>2 DEF chainOf
  <2> QED BY <2>1 DEF References, Open, RefsIn
<1> QED BY <1>2, <1>3, <1>5, <1>6, <1>7 DEF Table

(* A node is in the chain of its inode, so an inode with a node is open.   *)
LEMMA NodeIsOpen ==
  ASSUME Table, NEW h \in Buckets, NEW k \in 1 .. Len(open_file_table[h])
  PROVE  /\ open_file_table[h][k] \in Node
         /\ open_file_table[h][k].inode \in Inodes
         /\ hash(open_file_table[h][k].inode) = h
         /\ Open(open_file_table[h][k].inode)
<1> DEFINE c == open_file_table[h]
<1>1. c \in Seq(Node)
  BY DEF Table
<1>2. hash(c[k].inode) = h
  BY DEF Table, ChainsSorted
<1>3. chainOf(c[k].inode) = c
  BY <1>2 DEF chainOf
<1>4. Open(c[k].inode)
  BY <1>3 DEF Open
<1> HIDE DEF c
<1>5. c[k] \in Node
  BY <1>1, LenProperties DEF c
<1>6. \A n \in Node : n.inode \in Inodes
  BY DEF Node
<1> QED BY <1>2, <1>4, <1>5, <1>6 DEF c

(* The copies stay right when only inode i, and its chain, have changed.   *)
LEMMA NewChainCoherent ==
  ASSUME Table, CacheCoherent, NEW i \in Inodes, NEW c,
         \A h \in Buckets :
           open_file_table'[h] = IF h = hash(i) THEN c ELSE open_file_table[h],
         \A j \in Inodes \ {i} : j \in alloc => j \in alloc' /\ nlinks'[j] = nlinks[j],
         \A k \in 1 .. Len(c) :
           c[k].inode \in alloc' /\ c[k].nlinks = nlinks'[c[k].inode]
  PROVE  CacheCoherent'
<1> SUFFICES ASSUME NEW h \in Buckets, NEW k \in 1 .. Len(open_file_table'[h])
             PROVE  /\ open_file_table'[h][k].inode \in alloc'
                    /\ open_file_table'[h][k].nlinks =
                         nlinks'[open_file_table'[h][k].inode]
  BY DEF CacheCoherent
<1>1. CASE h = hash(i)
  BY <1>1
<1>2. CASE h # hash(i)
  <2>1. open_file_table'[h] = open_file_table[h]
    BY <1>2
  <2> DEFINE n == open_file_table[h][k]
  <2>2. n.inode \in Inodes /\ hash(n.inode) = h
    BY <2>1, NodeIsOpen
  <2>3. n.inode \in alloc /\ n.nlinks = nlinks[n.inode]
    BY <2>1 DEF CacheCoherent
  <2>4. n.inode # i
    BY <2>2, <1>2
  <2> QED BY <2>1, <2>2, <2>3, <2>4
<1> QED BY <1>1, <1>2

(* NoOrphans, inode by inode. *)
Orphan(i) == i \in alloc /\ nlinks[i] = 0 /\ ~Open(i) /\ i # fresh

LEMMA OrphansPointwise ==
  ASSUME alloc \subseteq Inodes, stranded \subseteq Inodes
  PROVE  NoOrphans <=> \A i \in Inodes : Orphan(i) <=> i \in stranded
  BY DEF NoOrphans, Orphan

LEMMA OrphansPointwisePrime ==
  ASSUME alloc' \subseteq Inodes, stranded' \subseteq Inodes
  PROVE  NoOrphans' <=> \A i \in Inodes : Orphan(i)' <=> i \in stranded'
  BY DEF NoOrphans, Orphan

LEMMA InitIInv == Init => IInv
<1> SUFFICES ASSUME Init PROVE IInv
  OBVIOUS
<1>1. \A h \in Buckets : open_file_table[h] = <<>> /\ Len(open_file_table[h]) = 0
  BY DEF Init
<1>2. TypeOK
  BY DEF Init, TypeOK, None
<1>3. ChainsSorted /\ CacheCoherent
  BY <1>1 DEF ChainsSorted, CacheCoherent
<1>4. FreshOK /\ NoOrphans /\ FreeNeverFails
  BY DEF Init, FreshOK, NoOrphans, FreeNeverFails, EIO
<1> QED BY <1>2, <1>3, <1>4 DEF IInv

(* The parts of the invariant, as the proofs of the actions use them. *)
LEMMA Parts ==
  ASSUME IInv
  PROVE  /\ Table /\ CacheCoherent
         /\ alloc \subseteq Inodes /\ stranded \subseteq Inodes
         /\ nlinks \in [Inodes -> Nat]
         /\ fresh \in Inodes \cup {None} /\ ret \in {0, -1, EIO}
         /\ fresh # None => fresh \in alloc /\ nlinks[fresh] = 0 /\ ~Open(fresh)
         /\ \A i \in Inodes : Orphan(i) <=> i \in stranded
         /\ \A i \in Inodes : Open(i) => i \in alloc
         /\ None \notin Inodes
<1>1. /\ Table /\ CacheCoherent
      /\ alloc \subseteq Inodes /\ stranded \subseteq Inodes
      /\ nlinks \in [Inodes -> Nat]
      /\ fresh \in Inodes \cup {None} /\ ret \in {0, -1, EIO}
  BY DEF IInv, TypeOK, Table
<1>2. fresh # None => fresh \in alloc /\ nlinks[fresh] = 0 /\ ~Open(fresh)
  BY DEF IInv, FreshOK, Freeable
<1>3. \A i \in Inodes : Orphan(i) <=> i \in stranded
  BY <1>1, OrphansPointwise DEF IInv
<1>4. ASSUME NEW i \in Inodes, Open(i) PROVE i \in alloc
  BY <1>1, <1>4, HashIsBucket DEF Open, chainOf, CacheCoherent
<1>5. None \notin Inodes
  BY RefsAssumption DEF None
<1> QED BY <1>1, <1>2, <1>3, <1>4, <1>5

(* Putting the parts together again after a step. *)
LEMMA Whole ==
  ASSUME Table', CacheCoherent',
         alloc' \subseteq Inodes, stranded' \subseteq Inodes,
         nlinks' \in [Inodes -> Nat],
         fresh' \in Inodes \cup {None}, ret' \in {0, -1},
         FreshOK',
         \A i \in Inodes : Orphan(i)' <=> i \in stranded'
  PROVE  IInv'
<1>1. TypeOK' /\ ChainsSorted'
  BY DEF TypeOK, Table
<1>2. NoOrphans'
  BY OrphansPointwisePrime
<1>3. FreeNeverFails'
  BY DEF FreeNeverFails, EIO
<1> QED BY <1>1, <1>2, <1>3 DEF IInv

-----------------------------------------------------------------------------
(* A node whose count of references or of links changes. *)
Replaced(i, k, n) == [chainOf(i) EXCEPT ![k] = n]

LEMMA NewNode ==
  ASSUME Table, NEW i \in Inodes, NEW k \in Places(i), NodeAt(i, k),
         NEW n \in Node, n.inode = i, n.refcount > 0,
         SetChain(i, Replaced(i, k, n))
  PROVE  /\ Table'
         /\ \A h \in Buckets :
              open_file_table'[h] = IF h = hash(i) THEN Replaced(i, k, n)
                                    ELSE open_file_table[h]
         /\ \A j \in Inodes : Open(j)' <=> Open(j)
         /\ \A j \in Inodes \ {i} : References(j)' = References(j)
         /\ References(i)' = n.refcount
         /\ References(i) = chainOf(i)[k].refcount
         /\ \A m \in 1 .. Len(Replaced(i, k, n)) :
              /\ m \in 1 .. Len(chainOf(i))
              /\ Replaced(i, k, n)[m] = IF m = k THEN n ELSE chainOf(i)[m]
<1> DEFINE c == Replaced(i, k, n)
<1>0. SetChain(i, c) /\ Table
  OBVIOUS
<1> DEFINE s == chainOf(i)
<1>1. /\ s \in Seq(Node) /\ Len(s) \in Nat /\ ChainOK(hash(i), s)
      /\ k \in 1 .. Len(s) /\ s[k].inode = i /\ Open(i)
      /\ \A j \in 1 .. Len(s) : s[j].inode \in Inodes
  BY ChainNodes, Found
<1>2. c = [s EXCEPT ![k] = n]
  BY DEF Replaced
<1> HIDE DEF c
<1>5. /\ c \in Seq(Node) /\ Len(c) = Len(s) /\ c[k] = n
      /\ \A j \in 1 .. Len(s) : j # k => c[j] = s[j]
  <2>1. s \in Seq(Node) /\ k \in 1 .. Len(s)
    BY <1>1
  <2> HIDE DEF s
  <2>2. /\ [s EXCEPT ![k] = n] \in Seq(Node)
        /\ Len([s EXCEPT ![k] = n]) = Len(s)
        /\ [s EXCEPT ![k] = n][k] = n
        /\ \A j \in 1 .. Len(s) : j # k => [s EXCEPT ![k] = n][j] = s[j]
    BY <2>1, ReplacePositions
  <2> QED BY <1>2, <2>2
<1>6. \A j \in 1 .. Len(s) : c[j].inode = s[j].inode
  BY <1>1, <1>5
<1>7. ChainOK(hash(i), c)
  <2>1. \A j \in 1 .. Len(c) : hash(c[j].inode) = hash(i) /\ c[j].refcount > 0
    <3>1. ASSUME NEW j \in 1 .. Len(c)
          PROVE  hash(c[j].inode) = hash(i) /\ c[j].refcount > 0
      <4>1. CASE j = k
        BY <4>1, <1>5
      <4>2. CASE j # k
        BY <4>2, <1>1, <1>5 DEF ChainOK
      <4> QED BY <4>1, <4>2
    <3> QED BY <3>1
  <2>2. \A j, m \in 1 .. Len(c) : j < m => c[j].inode < c[m].inode
    BY <1>1, <1>5, <1>6 DEF ChainOK
  <2> QED BY <2>1, <2>2 DEF ChainOK
<1>8. KeepsOthers(s, c, i)
  BY <1>1, <1>5, <1>6 DEF KeepsOthers
<1>9. i \in Members(c) /\ k \in 1 .. Len(c)
  BY <1>1, <1>5 DEF Members
<1>10. /\ Table'
       /\ \A h \in Buckets :
            open_file_table'[h] = IF h = hash(i) THEN c ELSE open_file_table[h]
       /\ \A j \in Inodes \ {i} : Open(j)' <=> Open(j)
       /\ Open(i)' <=> i \in Members(c)
       /\ \A j \in Inodes \ {i} : References(j)' = References(j)
       /\ References(i)' = RefsIn(c, i)
       /\ References(i) = RefsIn(s, i)
  BY <1>0, <1>5, <1>7, <1>8, NewChain
<1>11. \A j \in Inodes : Open(j)' <=> Open(j)
  BY <1>1, <1>9, <1>10
<1>12. \A m \in 1 .. Len(c) :
         m \in 1 .. Len(s) /\ c[m] = IF m = k THEN n ELSE s[m]
  BY <1>5
<1>13. RefsIn(c, i) = n.refcount /\ RefsIn(s, i) = s[k].refcount
  BY <1>1, <1>5, <1>7, <1>9, RefsInNode
<1> QED BY <1>10, <1>11, <1>12, <1>13 DEF c

(* refs_open of an inode that is open. *)
LEMMA OpenAgainIInv ==
  ASSUME IInv, NEW i \in Inodes, fresh \in {None, i}, OpenAgain(i)
  PROVE  /\ IInv'
         /\ \A j \in Inodes \ {i} : References(j)' = References(j)
         /\ References(i)' = References(i) + 1
<1>0. /\ Table /\ CacheCoherent
      /\ alloc \subseteq Inodes /\ stranded \subseteq Inodes
      /\ nlinks \in [Inodes -> Nat]
      /\ fresh # None => ~Open(fresh)
      /\ \A j \in Inodes : Orphan(j) <=> j \in stranded
  BY Parts
<1>1. PICK k \in Places(i) :
        /\ NodeAt(i, k)
        /\ SetChain(i, [chainOf(i) EXCEPT ![k].refcount = @ + 1])
  BY DEF OpenAgain
<1>2. /\ ret' = 0 /\ fresh' = None
      /\ UNCHANGED <<alloc, nlinks, stranded>>
  BY DEF OpenAgain
<1> DEFINE n == [chainOf(i)[k] EXCEPT !.refcount = @ + 1]
           c == Replaced(i, k, n)
<1>3. /\ k \in 1 .. Len(chainOf(i)) /\ chainOf(i)[k].inode = i /\ Open(i)
      /\ chainOf(i)[k] \in Node
  BY <1>0, <1>1, Found, ChainNodes
<1>4. /\ n \in Node /\ n.inode = i /\ n.nlinks = chainOf(i)[k].nlinks
      /\ n.refcount = chainOf(i)[k].refcount + 1 /\ n.refcount > 0
  BY <1>3 DEF Node
<1>5. SetChain(i, Replaced(i, k, n))
  BY <1>1 DEF Replaced
<1> HIDE DEF n
<1>6. /\ Table'
      /\ \A h \in Buckets :
           open_file_table'[h] = IF h = hash(i) THEN c ELSE open_file_table[h]
      /\ \A j \in Inodes : Open(j)' <=> Open(j)
      /\ \A j \in Inodes \ {i} : References(j)' = References(j)
      /\ References(i)' = n.refcount /\ References(i) = chainOf(i)[k].refcount
      /\ \A m \in 1 .. Len(c) :
           m \in 1 .. Len(chainOf(i)) /\ c[m] = IF m = k THEN n ELSE chainOf(i)[m]
  BY <1>0, <1>1, <1>4, <1>5, NewNode
<1> HIDE DEF c
<1>7. \A m \in 1 .. Len(c) :
        c[m].inode \in alloc' /\ c[m].nlinks = nlinks'[c[m].inode]
  BY <1>0, <1>2, <1>3, <1>4, <1>6, HashIsBucket DEF CacheCoherent, chainOf
<1>8. CacheCoherent'
  BY <1>0, <1>2, <1>6, <1>7, NewChainCoherent
<1>9. fresh = None
  BY <1>0, <1>3
<1>10. FreshOK' /\ fresh' \in Inodes \cup {None} /\ ret' \in {0, -1}
  BY <1>2 DEF FreshOK
<1>11. \A j \in Inodes : Orphan(j)' <=> j \in stranded'
  BY <1>0, <1>2, <1>6, <1>9 DEF Orphan
<1>20. IInv'
  BY <1>0, <1>2, <1>6, <1>8, <1>10, <1>11, Whole
<1> QED BY <1>1, <1>3, <1>4, <1>6, <1>20

(* refs_close when others hold the inode. *)
LEMMA CloseAgainIInv ==
  ASSUME IInv, NEW i \in Inodes, fresh = None, CloseAgain(i)
  PROVE  /\ IInv'
         /\ \A j \in Inodes \ {i} : References(j)' = References(j)
         /\ References(i) > 1 /\ References(i)' = References(i) - 1
<1>0. /\ Table /\ CacheCoherent
      /\ alloc \subseteq Inodes /\ stranded \subseteq Inodes
      /\ nlinks \in [Inodes -> Nat]
      /\ fresh # None => ~Open(fresh)
      /\ \A j \in Inodes : Orphan(j) <=> j \in stranded
  BY Parts
<1>1. PICK k \in Places(i) :
        /\ NodeAt(i, k)
        /\ chainOf(i)[k].refcount > 1
        /\ SetChain(i, [chainOf(i) EXCEPT ![k].refcount = @ - 1])
  BY DEF CloseAgain
<1>2. /\ ret' = 0 /\ fresh' = fresh
      /\ UNCHANGED <<alloc, nlinks, stranded>>
  BY DEF CloseAgain
<1> DEFINE n == [chainOf(i)[k] EXCEPT !.refcount = @ - 1]
           c == Replaced(i, k, n)
<1>3. /\ k \in 1 .. Len(chainOf(i)) /\ chainOf(i)[k].inode = i /\ Open(i)
      /\ chainOf(i)[k] \in Node
  BY <1>0, <1>1, Found, ChainNodes
<1>4. /\ n \in Node /\ n.inode = i /\ n.nlinks = chainOf(i)[k].nlinks
      /\ n.refcount = chainOf(i)[k].refcount - 1 /\ n.refcount > 0
  BY <1>1, <1>3 DEF Node
<1>5. SetChain(i, Replaced(i, k, n))
  BY <1>1 DEF Replaced
<1> HIDE DEF n
<1>6. /\ Table'
      /\ \A h \in Buckets :
           open_file_table'[h] = IF h = hash(i) THEN c ELSE open_file_table[h]
      /\ \A j \in Inodes : Open(j)' <=> Open(j)
      /\ \A j \in Inodes \ {i} : References(j)' = References(j)
      /\ References(i)' = n.refcount /\ References(i) = chainOf(i)[k].refcount
      /\ \A m \in 1 .. Len(c) :
           m \in 1 .. Len(chainOf(i)) /\ c[m] = IF m = k THEN n ELSE chainOf(i)[m]
  BY <1>0, <1>1, <1>4, <1>5, NewNode
<1> HIDE DEF c
<1>7. \A m \in 1 .. Len(c) :
        c[m].inode \in alloc' /\ c[m].nlinks = nlinks'[c[m].inode]
  BY <1>0, <1>2, <1>3, <1>4, <1>6, HashIsBucket DEF CacheCoherent, chainOf
<1>8. CacheCoherent'
  BY <1>0, <1>2, <1>6, <1>7, NewChainCoherent
<1>9. FreshOK' /\ fresh' \in Inodes \cup {None} /\ ret' \in {0, -1}
  BY <1>2 DEF FreshOK
<1>10. \A j \in Inodes : Orphan(j)' <=> j \in stranded'
  BY <1>0, <1>2, <1>6 DEF Orphan
<1>20. IInv'
  BY <1>0, <1>2, <1>6, <1>8, <1>9, <1>10, Whole
<1> QED BY <1>1, <1>3, <1>4, <1>6, <1>20

(* refs_link and refs_unlink. *)
LEMMA RelinkIInv ==
  ASSUME IInv, NEW i \in Inodes, NEW delta \in {1, -1}, fresh = None, Relink(i, delta)
  PROVE  /\ IInv'
         /\ \A j \in Inodes \ {i} : References(j)' = References(j)
         /\ i \in alloc /\ References(i) > 0 /\ References(i)' = References(i)
<1>0. /\ Table /\ CacheCoherent
      /\ alloc \subseteq Inodes /\ stranded \subseteq Inodes
      /\ nlinks \in [Inodes -> Nat]
      /\ fresh # None => ~Open(fresh)
      /\ \A j \in Inodes : Orphan(j) <=> j \in stranded
  BY Parts
<1>1. PICK k \in Places(i) :
        /\ NodeAt(i, k)
        /\ SetChain(i, [chainOf(i) EXCEPT
                      ![k].nlinks = IF i \in alloc THEN nlinks[i] + delta ELSE -1])
  BY DEF Relink
<1>2. /\ ret' = 0 /\ fresh' = fresh
      /\ UNCHANGED <<alloc, stranded>>
      /\ nlinks[i] + delta \in Nat
      /\ nlinks' = [nlinks EXCEPT ![i] = IF i \in alloc THEN @ + delta ELSE @]
  BY RefsAssumption DEF Relink
<1> DEFINE n == [chainOf(i)[k] EXCEPT !.nlinks = nlinks[i] + delta]
           c == Replaced(i, k, n)
<1>3. /\ k \in 1 .. Len(chainOf(i)) /\ chainOf(i)[k].inode = i /\ Open(i)
      /\ chainOf(i)[k] \in Node /\ i \in alloc /\ chainOf(i)[k].refcount > 0
  BY <1>0, <1>1, Found, ChainNodes, Parts DEF ChainOK
<1>4. /\ n \in Node /\ n.inode = i /\ n.nlinks = nlinks[i] + delta
      /\ n.refcount = chainOf(i)[k].refcount /\ n.refcount > 0
  BY <1>2, <1>3 DEF Node
<1>5. SetChain(i, Replaced(i, k, n))
  BY <1>1, <1>3 DEF Replaced
<1> HIDE DEF n
<1>6. /\ Table'
      /\ \A h \in Buckets :
           open_file_table'[h] = IF h = hash(i) THEN c ELSE open_file_table[h]
      /\ \A j \in Inodes : Open(j)' <=> Open(j)
      /\ \A j \in Inodes \ {i} : References(j)' = References(j)
      /\ References(i)' = n.refcount /\ References(i) = chainOf(i)[k].refcount
      /\ \A m \in 1 .. Len(c) :
           m \in 1 .. Len(chainOf(i)) /\ c[m] = IF m = k THEN n ELSE chainOf(i)[m]
  BY <1>0, <1>1, <1>4, <1>5, NewNode
<1> HIDE DEF c
<1>7. ASSUME NEW m \in 1 .. Len(c)
      PROVE  c[m].inode \in alloc' /\ c[m].nlinks = nlinks'[c[m].inode]
  <2>1. CASE m = k
    BY <2>1, <1>0, <1>2, <1>3, <1>4, <1>6
  <2>2. CASE m # k
    <3> DEFINE p == chainOf(i)[m]
    <3>1. c[m] = p /\ m \in 1 .. Len(chainOf(i))
      BY <2>2, <1>6
    <3>2. p.inode \in Inodes /\ p.inode # i
      BY <3>1, <2>2, <1>0, <1>1, Found, ChainNodes
    <3>3. p.inode \in alloc /\ p.nlinks = nlinks[p.inode]
      BY <3>1, <1>0, HashIsBucket DEF CacheCoherent, chainOf
    <3>4. nlinks'[p.inode] = nlinks[p.inode]
      BY <3>2, <1>0, <1>2
    <3> QED BY <3>1, <3>3, <3>4, <1>2
  <2> QED BY <2>1, <2>2
<1>8. CacheCoherent'
  BY <1>0, <1>2, <1>6, <1>7, NewChainCoherent
<1>9. FreshOK' /\ fresh' \in Inodes \cup {None} /\ ret' \in {0, -1}
  BY <1>2 DEF FreshOK
<1>10. ASSUME NEW j \in Inodes PROVE Orphan(j)' <=> j \in stranded'
  <2>1. CASE j = i
    BY <2>1, <1>0, <1>2, <1>3, <1>6 DEF Orphan
  <2>2. CASE j # i
    <3>1. nlinks'[j] = nlinks[j]
      BY <2>2, <1>0, <1>2
    <3> QED BY <3>1, <1>0, <1>2, <1>6 DEF Orphan
  <2> QED BY <2>1, <2>2
<1>11. nlinks' \in [Inodes -> Nat]
  BY <1>0, <1>2
<1>20. IInv'
  BY <1>0, <1>2, <1>6, <1>8, <1>9, <1>10, <1>11, Whole
<1> QED BY <1>1, <1>3, <1>4, <1>6, <1>20

(* refs_open of an inode that is not open: a new node, in order. *)
LEMMA OpenFirstIInv ==
  ASSUME IInv, NEW i \in Inodes, fresh \in {None, i}, OpenFirst(i)
  PROVE  /\ IInv' /\ i \in alloc
         /\ \A j \in Inodes \ {i} : References(j)' = References(j)
         /\ References(i) = 0 /\ References(i)' = 1
<1>0. /\ Table /\ CacheCoherent
      /\ alloc \subseteq Inodes /\ stranded \subseteq Inodes
      /\ nlinks \in [Inodes -> Nat]
      /\ \A j \in Inodes : Orphan(j) <=> j \in stranded
      /\ None \notin Inodes
  BY Parts
<1> DEFINE n == [inode |-> i, refcount |-> 1, nlinks |-> nlinks[i]]
           s == chainOf(i)
<1>1. PICK k \in Places(i) : NoNodeAt(i, k) /\ SetChain(i, InsertAt(s, k, n))
  BY DEF OpenFirst
<1>2. /\ ret' = 0 /\ fresh' = None /\ i \in alloc
      /\ stranded' = stranded \ {i}
      /\ UNCHANGED <<alloc, nlinks>>
  BY DEF OpenFirst
<1> DEFINE c == InsertAt(s, k, n)
<1>3. /\ k \in 1 .. Len(s) + 1 /\ ~Open(i)
      /\ \A j \in 1 .. Len(s) :
           IF j < k THEN s[j].inode < i ELSE s[j].inode > i
      /\ s \in Seq(Node) /\ Len(s) \in Nat /\ ChainOK(hash(i), s)
      /\ \A j \in 1 .. Len(s) : s[j].inode \in Inodes
  BY <1>0, <1>1, NotFound, ChainNodes
<1>4. n \in Node /\ n.inode = i /\ n.refcount > 0 /\ n.nlinks = nlinks[i]
  BY <1>0 DEF Node
<1>5. \A j \in 1 .. Len(s) : s[j].inode \in alloc /\ s[j].nlinks = nlinks[s[j].inode]
  BY <1>0, HashIsBucket DEF CacheCoherent, chainOf
<1>6. SetChain(i, c)
  BY <1>1
<1> HIDE DEF n
<1>7. /\ c \in Seq(Node) /\ Len(c) = Len(s) + 1
      /\ \A j \in 1 .. Len(s) + 1 :
           c[j] = IF j < k THEN s[j] ELSE IF j = k THEN n ELSE s[j - 1]
  <2>1. s \in Seq(Node) /\ k \in 1 .. Len(s) + 1 /\ n \in Node
    BY <1>3, <1>4
  <2> HIDE DEF s, c
  <2>2. /\ InsertAt(s, k, n) \in Seq(Node)
        /\ Len(InsertAt(s, k, n)) = Len(s) + 1
        /\ \A j \in 1 .. Len(s) + 1 :
             InsertAt(s, k, n)[j] =
               IF j < k THEN s[j] ELSE IF j = k THEN n ELSE s[j - 1]
    BY ONLY <2>1, InsertPositions
  <2> QED BY <2>2 DEF c
<1> HIDE DEF c
<1>8. ASSUME NEW j \in 1 .. Len(c)
      PROVE  \/ j < k /\ c[j] = s[j] /\ j \in 1 .. Len(s)
             \/ j = k /\ c[j] = n
             \/ j > k /\ c[j] = s[j - 1] /\ j - 1 \in 1 .. Len(s) /\ j - 1 >= k
  BY <1>3, <1>7
<1>9. ChainOK(hash(i), c)
  <2>1. ASSUME NEW j \in 1 .. Len(c)
        PROVE  hash(c[j].inode) = hash(i) /\ c[j].refcount > 0
    BY <1>3, <1>4, <1>8 DEF ChainOK
  <2>2. ASSUME NEW j \in 1 .. Len(c), NEW m \in 1 .. Len(c), j < m
        PROVE  c[j].inode < c[m].inode
    <3>1. CASE m = k
      <4>1. j < k /\ c[j] = s[j] /\ j \in 1 .. Len(s)
        BY <2>2, <3>1, <1>3, <1>8
      <4> QED BY <4>1, <3>1, <1>3, <1>4, <1>8
    <3>2. CASE j = k
      <4>1. m - 1 \in 1 .. Len(s) /\ m - 1 >= k /\ c[m] = s[m - 1]
        BY <2>2, <3>2, <1>3, <1>8
      <4>2. s[m - 1].inode > i
        BY <4>1, <1>3
      <4>3. i \in Nat /\ s[m - 1].inode \in Nat
        BY <4>1, <1>3, RefsAssumption
      <4> QED BY <4>1, <4>2, <4>3, <3>2, <1>4, <1>8, <1>3
    <3>3. CASE m < k
      <4>1. /\ c[j] = s[j] /\ j \in 1 .. Len(s)
            /\ c[m] = s[m] /\ m \in 1 .. Len(s)
        BY <2>2, <3>3, <1>3, <1>8
      <4> QED BY <4>1, <2>2, <1>3 DEF ChainOK
    <3>4. CASE j < k /\ m > k
      <4>1. /\ c[j] = s[j] /\ j \in 1 .. Len(s)
            /\ c[m] = s[m - 1] /\ m - 1 \in 1 .. Len(s) /\ j < m - 1
        BY <2>2, <3>4, <1>3, <1>8
      <4> QED BY <4>1, <1>3 DEF ChainOK
    <3>5. CASE j > k
      <4>1. /\ c[j] = s[j - 1] /\ j - 1 \in 1 .. Len(s)
            /\ c[m] = s[m - 1] /\ m - 1 \in 1 .. Len(s) /\ j - 1 < m - 1
        BY <2>2, <3>5, <1>3, <1>8
      <4> QED BY <4>1, <1>3 DEF ChainOK
    <3> QED BY <3>1, <3>2, <3>3, <3>4, <3>5, <1>3, <2>2
  <2> QED BY <2>1, <2>2 DEF ChainOK
<1>10. KeepsOthers(s, c, i)
  <2>1. ASSUME NEW m \in 1 .. Len(c), c[m].inode # i
        PROVE  \E p \in 1 .. Len(s) : s[p] = c[m]
    BY <2>1, <1>4, <1>8
  <2>2. ASSUME NEW m \in 1 .. Len(s)
        PROVE  \E q \in 1 .. Len(c) : c[q] = s[m]
    <3>1. CASE m < k
      <4>1. c[m] = s[m] /\ m \in 1 .. Len(c)
        BY <3>1, <1>3, <1>7
      <4> QED BY <4>1
    <3>2. CASE ~(m < k)
      <4>1. m + 1 \in 1 .. Len(c) /\ ~(m + 1 < k) /\ m + 1 # k /\ (m + 1) - 1 = m
        BY <3>2, <1>3, <1>7
      <4>2. c[m + 1] = s[m]
        BY <4>1, <1>7
      <4> QED BY <4>1, <4>2
    <3> QED BY <3>1, <3>2
  <2> QED BY <2>1, <2>2 DEF KeepsOthers
<1>11. i \in Members(c) /\ RefsIn(c, i) = 1
  <2>1. k \in 1 .. Len(c) /\ c[k] = n
    BY <1>3, <1>7
  <2>2. RefsIn(c, i) = c[k].refcount
    BY <2>1, <1>4, <1>7, <1>9, RefsInNode
  <2>3. n.refcount = 1
    BY DEF n
  <2> QED BY <2>1, <2>2, <2>3, <1>4 DEF Members
<1>12. /\ Table'
       /\ \A h \in Buckets :
            open_file_table'[h] = IF h = hash(i) THEN c ELSE open_file_table[h]
       /\ \A j \in Inodes \ {i} : Open(j)' <=> Open(j)
       /\ Open(i)' <=> i \in Members(c)
       /\ \A j \in Inodes \ {i} : References(j)' = References(j)
       /\ References(i)' = RefsIn(c, i)
  BY <1>0, <1>6, <1>7, <1>9, <1>10, NewChain
<1>13. \A m \in 1 .. Len(c) :
         c[m].inode \in alloc' /\ c[m].nlinks = nlinks'[c[m].inode]
  BY <1>2, <1>4, <1>5, <1>8
<1>14. CacheCoherent'
  BY <1>0, <1>2, <1>12, <1>13, NewChainCoherent
<1>15. FreshOK' /\ fresh' \in Inodes \cup {None} /\ ret' \in {0, -1}
  BY <1>2 DEF FreshOK
<1>16. ASSUME NEW j \in Inodes PROVE Orphan(j)' <=> j \in stranded'
  <2>1. CASE j = i
    BY <2>1, <1>2, <1>11, <1>12 DEF Orphan
  <2>2. CASE j # i
    <3>1. j # fresh /\ j # fresh'
      BY <2>2, <1>0, <1>2
    <3> QED BY <3>1, <2>2, <1>0, <1>2, <1>12 DEF Orphan
  <2> QED BY <2>1, <2>2
<1>17. IInv'
  BY <1>0, <1>2, <1>12, <1>14, <1>15, <1>16, Whole
<1>18. References(i) = 0
  BY <1>3 DEF References
<1> QED BY <1>2, <1>11, <1>12, <1>17, <1>18

(* refs_close of the last reference: the node goes, in order. *)
LEMMA CloseLastIInv ==
  ASSUME IInv, NEW i \in Inodes, fresh = None, CloseLast(i)
  PROVE  /\ IInv'
         /\ \A j \in Inodes \ {i} : References(j)' = References(j)
         /\ References(i) = 1 /\ References(i)' = 0
         /\ alloc' = IF nlinks[i] = 0 THEN alloc \ {i} ELSE alloc
<1>0. /\ Table /\ CacheCoherent
      /\ alloc \subseteq Inodes /\ stranded \subseteq Inodes
      /\ nlinks \in [Inodes -> Nat]
      /\ \A j \in Inodes : Orphan(j) <=> j \in stranded
  BY Parts
<1> DEFINE s == chainOf(i)
<1>1. PICK k \in Places(i) :
        /\ NodeAt(i, k) /\ SetChain(i, RemoveAt(s, k))
        /\ s[k].refcount <= 1
        /\ IF s[k].nlinks = 0 /\ Freeable(i)
           THEN alloc' = alloc \ {i} ELSE alloc' = alloc
        /\ ret' = IF s[k].nlinks = 0 /\ ~Freeable(i) THEN EIO ELSE 0
  BY DEF CloseLast
<1>2. UNCHANGED <<nlinks, fresh, stranded>>
  BY DEF CloseLast
<1> DEFINE c == RemoveAt(s, k)
<1>3. /\ k \in 1 .. Len(s) /\ s[k].inode = i /\ Open(i)
      /\ \A j \in 1 .. Len(s) : s[j].inode = i => j = k
      /\ s \in Seq(Node) /\ Len(s) \in Nat /\ ChainOK(hash(i), s)
      /\ \A j \in 1 .. Len(s) : s[j].inode \in Inodes
  BY <1>0, <1>1, Found, ChainNodes
<1>4. \A j \in 1 .. Len(s) : s[j].inode \in alloc /\ s[j].nlinks = nlinks[s[j].inode]
  BY <1>0, HashIsBucket DEF CacheCoherent, chainOf
(* The copy is right, so the inode is freed if and only if it has no links. *)
<1>5. /\ alloc' = IF nlinks[i] = 0 THEN alloc \ {i} ELSE alloc
      /\ ret' = 0 /\ i \in alloc
  BY <1>1, <1>3, <1>4 DEF Freeable
<1>6. SetChain(i, c)
  BY <1>1
<1> HIDE DEF c
<1>7. /\ c \in Seq(Node) /\ Len(c) = Len(s) - 1
      /\ \A j \in 1 .. Len(s) - 1 : c[j] = IF j < k THEN s[j] ELSE s[j + 1]
  <2>1. s \in Seq(Node) /\ k \in 1 .. Len(s)
    BY <1>3
  <2> HIDE DEF s
  <2>2. /\ RemoveAt(s, k) \in Seq(Node)
        /\ Len(RemoveAt(s, k)) = Len(s) - 1
        /\ \A j \in 1 .. Len(s) - 1 :
             RemoveAt(s, k)[j] = IF j < k THEN s[j] ELSE s[j + 1]
    BY ONLY <2>1, RemovePositions
  <2> QED BY <2>2 DEF c
<1> HIDE DEF s
<1>8. ASSUME NEW j \in 1 .. Len(c)
      PROVE  \/ j < k /\ c[j] = s[j] /\ j \in 1 .. Len(s)
             \/ j >= k /\ c[j] = s[j + 1] /\ j + 1 \in 1 .. Len(s) /\ j + 1 # k
  BY <1>3, <1>7
<1>9. ASSUME NEW j \in 1 .. Len(c)
      PROVE  \E p \in 1 .. Len(s) : p # k /\ c[j] = s[p]
  BY <1>3, <1>8
<1>10. ChainOK(hash(i), c)
  <2>1. ASSUME NEW j \in 1 .. Len(c)
        PROVE  hash(c[j].inode) = hash(i) /\ c[j].refcount > 0
    BY <1>3, <1>9 DEF ChainOK
  <2>2. ASSUME NEW j \in 1 .. Len(c), NEW m \in 1 .. Len(c), j < m
        PROVE  c[j].inode < c[m].inode
    <3>1. PICK p \in 1 .. Len(s), q \in 1 .. Len(s) :
            c[j] = s[p] /\ c[m] = s[q] /\ p < q
      <4>1. CASE m < k
        BY <4>1, <2>2, <1>3, <1>7, <1>8
      <4>2. CASE j < k /\ m >= k
        BY <4>2, <2>2, <1>3, <1>7, <1>8
      <4>3. CASE j >= k
        BY <4>3, <2>2, <1>3, <1>7, <1>8
      <4> QED BY <4>1, <4>2, <4>3, <1>3, <1>7
    <3> QED BY <3>1, <1>3 DEF ChainOK
  <2> QED BY <2>1, <2>2 DEF ChainOK
<1>11. i \notin Members(c)
  BY <1>3, <1>9 DEF Members
<1>12. KeepsOthers(s, c, i)
  <2>1. ASSUME NEW m \in 1 .. Len(c)
        PROVE  \E p \in 1 .. Len(s) : s[p] = c[m]
    BY <1>9
  <2>2. ASSUME NEW m \in 1 .. Len(s), s[m].inode # i
        PROVE  \E q \in 1 .. Len(c) : c[q] = s[m]
    <3>1. m # k
      BY <2>2, <1>3
    <3>2. CASE m < k
      <4>1. c[m] = s[m] /\ m \in 1 .. Len(c)
        BY <3>2, <1>3, <1>7
      <4> QED BY <4>1
    <3>3. CASE m > k
      <4>1. m - 1 \in 1 .. Len(c) /\ ~(m - 1 < k) /\ (m - 1) + 1 = m
        BY <3>3, <1>3, <1>7
      <4>2. c[m - 1] = s[m]
        BY <4>1, <1>7
      <4> QED BY <4>1, <4>2
    <3> QED BY <3>1, <3>2, <3>3, <1>3
  <2> QED BY <2>1, <2>2 DEF KeepsOthers
<1>13. /\ Table'
       /\ \A h \in Buckets :
            open_file_table'[h] = IF h = hash(i) THEN c ELSE open_file_table[h]
       /\ \A j \in Inodes \ {i} : Open(j)' <=> Open(j)
       /\ Open(i)' <=> i \in Members(c)
       /\ \A j \in Inodes \ {i} : References(j)' = References(j)
       /\ References(i)' = RefsIn(c, i)
       /\ References(i) = RefsIn(s, i)
  BY <1>0, <1>6, <1>7, <1>10, <1>12, NewChain DEF s
<1>14. \A m \in 1 .. Len(c) :
         c[m].inode \in alloc' /\ c[m].nlinks = nlinks'[c[m].inode]
  BY <1>2, <1>3, <1>4, <1>5, <1>9
<1>15. CacheCoherent'
  BY <1>0, <1>2, <1>5, <1>13, <1>14, NewChainCoherent
<1>16. FreshOK' /\ fresh' \in Inodes \cup {None} /\ ret' \in {0, -1}
  BY <1>2, <1>5 DEF FreshOK
<1>17. ASSUME NEW j \in Inodes PROVE Orphan(j)' <=> j \in stranded'
  <2>1. CASE j = i
    BY <2>1, <1>0, <1>2, <1>3, <1>5 DEF Orphan
  <2>2. CASE j # i
    BY <2>2, <1>0, <1>2, <1>5, <1>13 DEF Orphan
  <2> QED BY <2>1, <2>2
<1>18. alloc' \subseteq Inodes /\ stranded' \subseteq Inodes /\ nlinks' \in [Inodes -> Nat]
  BY <1>0, <1>2, <1>5
<1>19. IInv'
  BY <1>13, <1>15, <1>16, <1>17, <1>18, Whole
<1>20. RefsIn(c, i) = 0
  BY <1>11 DEF RefsIn, Members
<1>21. RefsIn(s, i) = 1
  <2>1. RefsIn(s, i) = s[k].refcount /\ s[k].refcount > 0 /\ s[k].refcount <= 1
    BY <1>1, <1>3, RefsInNode DEF s, ChainOK
  <2>2. s[k] \in Node
    BY <1>3, LenProperties
  <2>3. s[k].refcount \in Nat
    BY <2>2 DEF Node
  <2> QED BY <2>1, <2>3
<1> QED BY <1>5, <1>13, <1>19, <1>20, <1>21

(* The steps that leave the table alone. *)
LEMMA SameTable ==
  ASSUME IInv, UNCHANGED open_file_table
  PROVE  /\ Table'
         /\ \A j \in Inodes : Open(j)' <=> Open(j)
         /\ \A j \in Inodes : References(j)' = References(j)
  BY Parts DEF Table, ChainsSorted, Open, chainOf, References

LEMMA AllocateIInv ==
  ASSUME IInv, NEW i \in Inodes, fresh = None, inode_allocate(i)
  PROVE  IInv'
<1>0. /\ Table /\ CacheCoherent
      /\ alloc \subseteq Inodes /\ stranded \subseteq Inodes
      /\ nlinks \in [Inodes -> Nat]
      /\ \A j \in Inodes : Orphan(j) <=> j \in stranded
      /\ \A j \in Inodes : Open(j) => j \in alloc
      /\ None \notin Inodes
  BY Parts
<1>1. /\ i \notin alloc /\ alloc' = alloc \cup {i}
      /\ nlinks' = [nlinks EXCEPT ![i] = 0]
      /\ fresh' = i /\ ret' = 0
      /\ UNCHANGED <<open_file_table, stranded>>
  BY DEF inode_allocate
<1>2. Table' /\ \A j \in Inodes : Open(j)' <=> Open(j)
  BY <1>1, SameTable
<1>3. CacheCoherent'
  BY <1>0, <1>1, NodeIsOpen DEF CacheCoherent
<1>4. FreshOK' /\ fresh' \in Inodes \cup {None} /\ ret' \in {0, -1}
  <2>1. ~Open(i)'
    BY <1>0, <1>1, <1>2
  <2>2. fresh' = i /\ i \in alloc' /\ nlinks'[i] = 0
    BY <1>0, <1>1
  <2> QED BY <2>1, <1>1, <2>2 DEF FreshOK, Freeable, Open, chainOf
<1>5. ASSUME NEW j \in Inodes PROVE Orphan(j)' <=> j \in stranded'
  <2>1. CASE j = i
    BY <2>1, <1>0, <1>1 DEF Orphan
  <2>2. CASE j # i
    <3>1. j # fresh /\ j # fresh' /\ nlinks'[j] = nlinks[j]
      BY <2>2, <1>0, <1>1
    <3> QED BY <3>1, <2>2, <1>0, <1>1, <1>2 DEF Orphan
  <2> QED BY <2>1, <2>2
<1> QED BY <1>0, <1>1, <1>2, <1>3, <1>4, <1>5, Whole

LEMMA CreateFailsIInv ==
  ASSUME IInv, CreateFails
  PROVE  IInv'
<1>0. /\ Table /\ CacheCoherent
      /\ alloc \subseteq Inodes /\ stranded \subseteq Inodes
      /\ nlinks \in [Inodes -> Nat]
      /\ fresh \in Inodes /\ ~Open(fresh)
      /\ \A j \in Inodes : Orphan(j) <=> j \in stranded
      /\ None \notin Inodes
  BY Parts DEF CreateFails
<1>1. /\ alloc' = alloc \ {fresh} /\ fresh' = None /\ ret' = -1
      /\ UNCHANGED <<open_file_table, nlinks, stranded>>
  BY DEF CreateFails
<1>2. Table' /\ \A j \in Inodes : Open(j)' <=> Open(j)
  BY <1>1, SameTable
<1>3. CacheCoherent'
  <2> SUFFICES ASSUME NEW h \in Buckets, NEW k \in 1 .. Len(open_file_table[h])
               PROVE  /\ open_file_table[h][k].inode \in alloc'
                      /\ open_file_table[h][k].nlinks =
                           nlinks'[open_file_table[h][k].inode]
    BY <1>1 DEF CacheCoherent
  <2>1. open_file_table[h][k].inode # fresh
    BY <1>0, NodeIsOpen
  <2> QED BY <2>1, <1>0, <1>1 DEF CacheCoherent
<1>4. FreshOK' /\ fresh' \in Inodes \cup {None} /\ ret' \in {0, -1}
  BY <1>1 DEF FreshOK
<1>5. \A j \in Inodes : Orphan(j)' <=> j \in stranded'
  BY <1>0, <1>1, <1>2 DEF Orphan
<1> QED BY <1>0, <1>1, <1>2, <1>3, <1>4, <1>5, Whole

LEMMA CrashIInv ==
  ASSUME IInv, Crash
  PROVE  IInv'
<1>0. /\ alloc \subseteq Inodes /\ stranded \subseteq Inodes
      /\ nlinks \in [Inodes -> Nat]
      /\ None \notin Inodes
      /\ \A j \in Inodes : Orphan(j) <=> j \in stranded
  BY Parts
<1>1. /\ open_file_table' = [h \in Buckets |-> <<>>]
      /\ fresh' = None /\ ret' = 0
      /\ stranded' = stranded \cup {i \in alloc : nlinks[i] = 0 /\ (Open(i) \/ i = fresh)}
      /\ UNCHANGED <<alloc, nlinks>>
  BY DEF Crash
<1>2. \A h \in Buckets : open_file_table'[h] = <<>> /\ Len(open_file_table'[h]) = 0
  BY <1>1
<1>3. Table' /\ CacheCoherent'
  BY <1>1, <1>2 DEF Table, ChainsSorted, CacheCoherent
<1>4. \A j \in Inodes : ~Open(j)'
  BY <1>2, HashIsBucket DEF Open, chainOf
<1>5. FreshOK' /\ fresh' \in Inodes \cup {None} /\ ret' \in {0, -1}
  BY <1>1 DEF FreshOK
<1>6. \A j \in Inodes : Orphan(j)' <=> j \in stranded'
  BY <1>0, <1>1, <1>4 DEF Orphan
<1> QED BY <1>0, <1>1, <1>3, <1>5, <1>6, Whole

(* A step that changes what is returned, and nothing else. *)
LEMMA ErrorIInv ==
  ASSUME IInv, ret' \in {0, -1},
         UNCHANGED <<open_file_table, alloc, nlinks, fresh, stranded>>
  PROVE  IInv'
<1>1. Table' /\ \A j \in Inodes : Open(j)' <=> Open(j)
  BY SameTable
<1>2. CacheCoherent'
  BY Parts DEF CacheCoherent
<1>3. /\ alloc' \subseteq Inodes /\ stranded' \subseteq Inodes
      /\ nlinks' \in [Inodes -> Nat] /\ fresh' \in Inodes \cup {None}
  BY Parts
<1>4. FreshOK'
  <2>1. CASE fresh = None
    BY <2>1 DEF FreshOK
  <2>2. CASE fresh # None
    BY <2>2, <1>1, Parts DEF FreshOK, Freeable
  <2> QED BY <2>1, <2>2
<1>5. \A j \in Inodes : Orphan(j)' <=> j \in stranded'
  BY <1>1, Parts DEF Orphan
<1> QED BY <1>1, <1>2, <1>3, <1>4, <1>5, Whole

-----------------------------------------------------------------------------
(* The table keeps its order, its copies are the link counts on the disk,  *)
(* and nothing is freed too early or left behind (refs.c).                 *)
THEOREM RefsInvariant == Spec => []IInv
<1>1. Init => IInv
  BY InitIInv
<1>2. IInv /\ [Next]_vars => IInv'
  <2> SUFFICES ASSUME IInv, [Next]_vars PROVE IInv'
    OBVIOUS
  <2>1. ASSUME NEW i \in Inodes, fresh \in {None, i}, refs_open(i) PROVE IInv'
    <3>1. CASE OpenAgain(i)
      BY <2>1, <3>1, OpenAgainIInv
    <3>2. CASE OpenFirst(i)
      BY <2>1, <3>2, OpenFirstIInv
    <3>3. CASE OpenNothing(i)
      BY <3>3, ErrorIInv DEF OpenNothing
    <3> QED BY <2>1, <3>1, <3>2, <3>3 DEF refs_open
  <2>2. ASSUME NEW i \in Inodes, fresh = None, inode_allocate(i) PROVE IInv'
    BY <2>2, AllocateIInv
  <2>3. ASSUME NEW i \in Inodes, fresh = None, refs_close(i) PROVE IInv'
    BY <2>3, CloseAgainIInv, CloseLastIInv DEF refs_close
  <2>4. ASSUME NEW i \in Inodes, fresh = None, refs_link(i) \/ refs_unlink(i)
        PROVE  IInv'
    BY <2>4, RelinkIInv DEF refs_link, refs_unlink
  <2>5. ASSUME NEW i \in Inodes, UserError(i) PROVE IInv'
    BY <2>5, ErrorIInv DEF UserError
  <2>6. CASE CreateFails
    BY <2>6, CreateFailsIInv
  <2>7. CASE Crash
    BY <2>7, CrashIInv
  <2>8. CASE UNCHANGED vars
    BY <2>8 DEF vars, IInv, TypeOK, ChainsSorted, CacheCoherent, FreshOK, Freeable,
                NoOrphans, FreeNeverFails, Open, chainOf
  <2> QED BY <2>1, <2>2, <2>3, <2>4, <2>5, <2>6, <2>7, <2>8 DEF Next
<1> QED BY <1>1, <1>2, PTL DEF Spec

(* TypeOK holds always: the chains are made of whole nodes and the link    *)
(* counts on the disk, which refs_link and refs_unlink change, never fall  *)
(* below 0.                                                                *)
THEOREM RefsTypes == Spec => []TypeOK
<1>1. IInv => TypeOK
  BY DEF IInv
<1> QED BY <1>1, RefsInvariant, PTL

(* What a node remembers of its inode is what is on the disk. *)
THEOREM RefsCoherent == Spec => []CacheCoherent
<1>1. IInv => CacheCoherent
  BY DEF IInv
<1> QED BY <1>1, RefsInvariant, PTL

(* Without a crash no inode is leaked, and no close fails to free one. *)
THEOREM RefsNoOrphans == Spec => [](NoOrphans /\ ChainsSorted /\ FreeNeverFails)
<1>1. IInv => NoOrphans /\ ChainsSorted /\ FreeNeverFails
  BY DEF IInv
<1> QED BY <1>1, RefsInvariant, PTL

-----------------------------------------------------------------------------
(* The references, as the abstract table sees them. *)
AbstractRefs == [i \in Inodes |-> References(i)]

LEMMA InitRefines == Init => Abstract!Init
<1> SUFFICES ASSUME Init PROVE Abstract!Init
  OBVIOUS
<1>1. ASSUME NEW i \in Inodes PROVE References(i) = 0
  <2>1. chainOf(i) = <<>> /\ Len(chainOf(i)) = 0
    BY HashIsBucket DEF Init, chainOf
  <2> QED BY <2>1 DEF References, Open
<1>2. alloc = {} /\ nlinks \in [Inodes -> Nat]
  BY DEF Init
<1> QED BY <1>1, <1>2 DEF Abstract!Init

(* Where no reference to another inode changes, one entry does. *)
LEMMA OneReference ==
  ASSUME NEW i \in Inodes, \A j \in Inodes \ {i} : References(j)' = References(j)
  PROVE  AbstractRefs' = [AbstractRefs EXCEPT ![i] = References(i)']
  BY DEF AbstractRefs

LEMMA NoReference ==
  ASSUME \A j \in Inodes : References(j)' = References(j)
  PROVE  UNCHANGED AbstractRefs
  BY DEF AbstractRefs

LEMMA StepRefines ==
  ASSUME IInv, [Next]_vars
  PROVE  [Abstract!Next]_(Abstract!table)
<1> DEFINE R == AbstractRefs
<1>0. /\ \A i \in Inodes : R[i] = References(i)
      /\ nlinks \in [Inodes -> Nat] /\ alloc \subseteq Inodes /\ fresh \in Inodes \cup {None}
      /\ \A i \in Inodes : ~Open(i) => References(i) = 0
  BY Parts DEF AbstractRefs, References
<1>1. ASSUME NEW i \in Inodes, fresh \in {None, i}, OpenAgain(i) \/ OpenFirst(i)
      PROVE  Abstract!Open(i)
  <2>1. /\ \A j \in Inodes \ {i} : References(j)' = References(j)
        /\ References(i)' = References(i) + 1
    BY <1>1, OpenAgainIInv, OpenFirstIInv
  <2>2. i \in alloc
    <3>1. CASE OpenAgain(i)
      BY <3>1, Parts, Found DEF OpenAgain
    <3>2. CASE OpenFirst(i)
      BY <3>2 DEF OpenFirst
    <3> QED BY <1>1, <3>1, <3>2
  <2>3. UNCHANGED <<alloc, nlinks>>
    BY <1>1 DEF OpenAgain, OpenFirst
  <2>4. R' = [R EXCEPT ![i] = R[i] + 1]
    BY <2>1, <1>0, OneReference
  <2> QED BY <2>2, <2>3, <2>4 DEF Abstract!Open, AbstractRefs
<1>2. ASSUME NEW i \in Inodes, fresh = None, CloseAgain(i)
      PROVE  Abstract!Close(i)
  <2>1. /\ \A j \in Inodes \ {i} : References(j)' = References(j)
        /\ References(i) > 1 /\ References(i)' = References(i) - 1
    BY <1>2, CloseAgainIInv
  <2>2. UNCHANGED <<alloc, nlinks>>
    BY <1>2 DEF CloseAgain
  <2>3. R' = [R EXCEPT ![i] = R[i] - 1]
    BY <2>1, <1>0, OneReference
  <2>4. R[i] > 1
    BY <2>1, <1>0
  <2>5. R[i] # 1 /\ R[i] > 0
    <3>1. \E k \in 1 .. Len(chainOf(i)) : R[i] = chainOf(i)[k].refcount /\ chainOf(i)[k] \in Node
      <4>1. PICK k \in Places(i) : NodeAt(i, k)
        BY <1>2 DEF CloseAgain
      <4>2. k \in 1 .. Len(chainOf(i)) /\ chainOf(i)[k].inode = i
        BY <4>1, Parts, Found
      <4>3. chainOf(i) \in Seq(Node) /\ ChainOK(hash(i), chainOf(i)) /\ chainOf(i)[k] \in Node
        BY <4>2, Parts, ChainNodes
      <4>4. RefsIn(chainOf(i), i) = chainOf(i)[k].refcount
        BY <4>2, <4>3, RefsInNode
      <4>5. References(i) = RefsIn(chainOf(i), i)
        BY DEF References, RefsIn, Open
      <4> QED BY <4>2, <4>3, <4>4, <4>5, <1>0
    <3>2. R[i] \in Nat
      BY <3>1 DEF Node
    <3> QED BY <3>2, <2>4
  <2> QED BY <2>2, <2>3, <2>5 DEF Abstract!Close, AbstractRefs
<1>3. ASSUME NEW i \in Inodes, fresh = None, CloseLast(i)
      PROVE  Abstract!Close(i)
  <2>1. /\ \A j \in Inodes \ {i} : References(j)' = References(j)
        /\ References(i) = 1 /\ References(i)' = 0
        /\ alloc' = IF nlinks[i] = 0 THEN alloc \ {i} ELSE alloc
    BY <1>3, CloseLastIInv
  <2>2. UNCHANGED nlinks
    BY <1>3 DEF CloseLast
  <2>3. R[i] = 1 /\ R' = [R EXCEPT ![i] = R[i] - 1]
    BY <2>1, <1>0, OneReference
  <2> QED BY <2>1, <2>2, <2>3 DEF Abstract!Close, AbstractRefs
<1>4. ASSUME NEW i \in Inodes, fresh = None, NEW delta \in {1, -1}, Relink(i, delta)
      PROVE  Abstract!Relink(i)
  <2>1. /\ \A j \in Inodes \ {i} : References(j)' = References(j)
        /\ i \in alloc /\ References(i) > 0 /\ References(i)' = References(i)
    BY <1>4, RelinkIInv
  <2>2. UNCHANGED R /\ R[i] > 0
    BY <2>1, <1>0, NoReference
  <2>3. /\ nlinks[i] + delta \in Nat /\ UNCHANGED alloc
        /\ nlinks' = [nlinks EXCEPT ![i] = nlinks[i] + delta]
    BY <1>4, <2>1, RefsAssumption DEF Relink
  <2>4. nlinks[i] + delta \in {nlinks[i] - 1, nlinks[i] + 1} \cap Nat
    BY <2>3, <1>0
  <2> QED BY <2>1, <2>2, <2>3, <2>4 DEF Abstract!Relink, AbstractRefs
<1>5. ASSUME NEW i \in Inodes, fresh = None, inode_allocate(i)
      PROVE  Abstract!Create(i)
  <2>1. UNCHANGED R
    BY <1>5, SameTable, NoReference DEF inode_allocate
  <2> QED BY <2>1, <1>5 DEF inode_allocate, Abstract!Create, AbstractRefs
<1>6. ASSUME CreateFails
      PROVE  fresh \in Inodes /\ Abstract!Discard(fresh)
  <2>1. UNCHANGED R
    BY <1>6, SameTable, NoReference DEF CreateFails
  <2>2. fresh \in Inodes /\ R[fresh] = 0
    BY <1>0, <1>6, Parts DEF CreateFails
  <2> QED BY <2>1, <2>2, <1>6 DEF CreateFails, Freeable, Abstract!Discard, AbstractRefs
<1>7. ASSUME Crash
      PROVE  Abstract!Crash
  <2>1. \A i \in Inodes : References(i)' = 0
    <3> SUFFICES ASSUME NEW i \in Inodes PROVE References(i)' = 0
      OBVIOUS
    <3>1. open_file_table'[hash(i)] = <<>> /\ Len(open_file_table'[hash(i)]) = 0
      BY <1>7, HashIsBucket DEF Crash
    <3> QED BY <3>1 DEF References, Open, chainOf
  <2>2. R' = [i \in Inodes |-> 0]
    BY <2>1 DEF AbstractRefs
  <2> QED BY <2>2, <1>7 DEF Crash, Abstract!Crash, AbstractRefs
<1>8. ASSUME UNCHANGED <<open_file_table, alloc, nlinks>>
      PROVE  UNCHANGED Abstract!table
  <2>1. UNCHANGED R
    BY <1>8, SameTable, NoReference
  <2> QED BY <2>1, <1>8 DEF Abstract!table, AbstractRefs
<1> HIDE DEF R
<1> QED
  <2>1. CASE \E i \in Inodes : fresh \in {None, i} /\ refs_open(i)
    BY <2>1, <1>1, <1>8 DEF refs_open, OpenNothing, Abstract!Next
  <2>2. CASE \E i \in Inodes :
               fresh = None /\ (inode_allocate(i) \/ refs_close(i) \/ UserError(i))
    BY <2>2, <1>2, <1>3, <1>5, <1>8 DEF refs_close, UserError, Abstract!Next
  <2>3. CASE \E i \in Inodes : fresh = None /\ (refs_link(i) \/ refs_unlink(i))
    BY <2>3, <1>4 DEF refs_link, refs_unlink, Abstract!Next
  <2>4. CASE CreateFails
    BY <2>4, <1>6 DEF Abstract!Next
  <2>5. CASE Crash
    BY <2>5, <1>7 DEF Abstract!Next
  <2>6. CASE UNCHANGED vars
    BY <2>6, <1>8 DEF vars
  <2> QED BY <2>1, <2>2, <2>3, <2>4, <2>5, <2>6 DEF Next

(* The open file table implements the abstract one (OpenInodes): an inode  *)
(* lives as long as it has a link or a reference, and is freed by the      *)
(* close that gives the last reference back, once it has no link.          *)
THEOREM RefsRefinesOpenInodes == Spec => ImplementsOpenInodes
<1>1. IInv /\ [Next]_vars => [Abstract!Next]_(Abstract!table)
  BY StepRefines
<1> QED BY InitRefines, <1>1, RefsInvariant, PTL
        DEF Spec, ImplementsOpenInodes, Abstract!Spec

=============================================================================
