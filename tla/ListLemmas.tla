----------------------------- MODULE ListLemmas -----------------------------
(***************************************************************************)
(* Facts about lists without repetition, used as stacks: what taking the   *)
(* first element off, or putting a new one in front, does to the elements  *)
(* and to their positions.  Both free lists of block.c are such stacks.    *)
(***************************************************************************)
EXTENDS Integers, Sequences, FiniteSets, Functions, SequenceTheorems,
        FiniteSetTheorems, TLAPS

(* An element of the range stands at some position, and conversely. *)
LEMMA InRange ==
  ASSUME NEW S, NEW s \in Seq(S)
  PROVE  /\ \A k \in 1 .. Len(s) : s[k] \in Range(s) /\ s[k] \in S
         /\ \A x \in Range(s) : \E k \in 1 .. Len(s) : x = s[k]
         /\ DOMAIN s = 1 .. Len(s)
         /\ Len(s) \in Nat
         /\ Range(s) \subseteq S
  BY DEF Range

(* Injectivity, position by position. *)
LEMMA InjectivePositions ==
  ASSUME NEW S, NEW s \in Seq(S)
  PROVE  IsInjective(s) <=>
           \A j, k \in 1 .. Len(s) : s[j] = s[k] => j = k
  BY DEF IsInjective

(* The positions of a list without its first element. *)
LEMMA TailPositions ==
  ASSUME NEW S, NEW s \in Seq(S), s # <<>>
  PROVE  /\ Len(s) \in Nat \ {0}
         /\ Tail(s) \in Seq(S)
         /\ Len(Tail(s)) = Len(s) - 1
         /\ \A k \in 1 .. Len(s) - 1 : Tail(s)[k] = s[k + 1]
         /\ Tail(s) = <<>> <=> Len(s) = 1
<1>1. Len(s) \in Nat \ {0}
  BY EmptySeq, LenProperties
<1>2. /\ Tail(s) \in Seq(S)
      /\ Len(Tail(s)) = Len(s) - 1
      /\ \A k \in 1 .. Len(s) - 1 : Tail(s)[k] = s[k + 1]
  BY <1>1
<1>3. Tail(s) = <<>> <=> Len(Tail(s)) = 0
  BY <1>2, EmptySeq
<1> QED BY <1>1, <1>2, <1>3

(* Taking the first element off removes exactly it. *)
LEMMA TailElements ==
  ASSUME NEW S, NEW s \in Seq(S), s # <<>>, IsInjective(s)
  PROVE  /\ IsInjective(Tail(s))
         /\ Range(Tail(s)) = Range(s) \ {s[1]}
         /\ s[1] \in Range(s)
<1>1. /\ Len(s) \in Nat \ {0}
      /\ Tail(s) \in Seq(S)
      /\ Len(Tail(s)) = Len(s) - 1
      /\ \A k \in 1 .. Len(s) - 1 : Tail(s)[k] = s[k + 1]
  BY TailPositions
<1>2. \A j, k \in 1 .. Len(s) : s[j] = s[k] => j = k
  BY InjectivePositions
<1>3. IsInjective(Tail(s))
  <2>1. ASSUME NEW j \in 1 .. Len(Tail(s)), NEW k \in 1 .. Len(Tail(s)),
               Tail(s)[j] = Tail(s)[k]
        PROVE  j = k
    <3>1. s[j + 1] = s[k + 1] /\ j + 1 \in 1 .. Len(s) /\ k + 1 \in 1 .. Len(s)
      BY <1>1, <2>1
    <3>2. j + 1 = k + 1
      BY <1>2, <3>1
    <3> QED BY <3>2
  <2> QED BY <2>1, <1>1, InjectivePositions
<1>4. ASSUME NEW x \in Range(Tail(s))
      PROVE  x \in Range(s) \ {s[1]}
  <2>1. PICK k \in 1 .. Len(Tail(s)) : x = Tail(s)[k]
    <3> DEFINE t == Tail(s)
    <3>1. t \in Seq(S) /\ x \in Range(t)
      BY <1>1
    <3> HIDE DEF t
    <3>2. \E k \in 1 .. Len(t) : x = t[k]
      BY <3>1, InRange
    <3> QED BY <3>2 DEF t
  <2>2. x = s[k + 1] /\ k + 1 \in 1 .. Len(s) /\ 1 \in 1 .. Len(s) /\ k + 1 # 1
    BY <1>1, <2>1
  <2>3. x # s[1]
    BY <1>2, <2>2
  <2> QED BY <2>2, <2>3, InRange
<1>5. ASSUME NEW x \in Range(s), x # s[1]
      PROVE  x \in Range(Tail(s))
  <2>1. PICK k \in 1 .. Len(s) : x = s[k]
    BY InRange
  <2>2. k # 1 /\ k - 1 \in 1 .. Len(s) - 1 /\ (k - 1) + 1 = k
    BY <2>1, <1>1, <1>5
  <2>3. x = Tail(s)[k - 1] /\ k - 1 \in 1 .. Len(Tail(s))
    BY <2>1, <2>2, <1>1
  <2> QED BY <2>3, <1>1, InRange
<1>6. s[1] \in Range(s)
  BY <1>1, InRange
<1> QED BY <1>3, <1>4, <1>5, <1>6

(* The positions of a list with an element put in front. *)
LEMMA ConsPositions ==
  ASSUME NEW S, NEW s \in Seq(S), NEW e \in S
  PROVE  /\ (<<e>> \o s) \in Seq(S)
         /\ Len(<<e>> \o s) = Len(s) + 1
         /\ (<<e>> \o s)[1] = e
         /\ \A k \in 2 .. Len(s) + 1 : (<<e>> \o s)[k] = s[k - 1]
         /\ <<e>> \o s # <<>>
         /\ Len(s) \in Nat
  OBVIOUS

(* Putting a new element in front adds exactly it. *)
LEMMA ConsElements ==
  ASSUME NEW S, NEW s \in Seq(S), NEW e \in S, e \notin Range(s), IsInjective(s)
  PROVE  /\ IsInjective(<<e>> \o s)
         /\ Range(<<e>> \o s) = Range(s) \cup {e}
<1> DEFINE t == <<e>> \o s
<1>1. /\ t \in Seq(S)
      /\ Len(t) = Len(s) + 1
      /\ t[1] = e
      /\ \A k \in 2 .. Len(s) + 1 : t[k] = s[k - 1]
      /\ Len(s) \in Nat
  BY ConsPositions
<1>2. \A j, k \in 1 .. Len(s) : s[j] = s[k] => j = k
  BY InjectivePositions
<1> HIDE DEF t
<1>3. \A k \in 2 .. Len(t) : t[k] = s[k - 1] /\ k - 1 \in 1 .. Len(s) /\ t[k] # e
  BY <1>1, InRange
<1>4. ASSUME NEW j \in 1 .. Len(t), NEW k \in 1 .. Len(t), t[j] = t[k]
      PROVE  j = k
  <2>1. CASE j = 1
    BY <2>1, <1>4, <1>3, <1>1
  <2>2. CASE k = 1
    BY <2>2, <1>4, <1>3, <1>1
  <2>3. CASE j # 1 /\ k # 1
    <3>1. j \in 2 .. Len(t) /\ k \in 2 .. Len(t)
      BY <2>3, <1>1
    <3>2. j - 1 = k - 1
      BY <3>1, <1>3, <1>2, <1>4
    <3> QED BY <3>2
  <2> QED BY <2>1, <2>2, <2>3
<1>5. IsInjective(t)
  BY <1>1, <1>4, InjectivePositions
<1>6. ASSUME NEW x \in Range(t)
      PROVE  x \in Range(s) \cup {e}
  <2>1. PICK k \in 1 .. Len(t) : x = t[k]
    BY <1>1, InRange
  <2>2. CASE k = 1
    BY <2>1, <2>2, <1>1
  <2>3. CASE k # 1
    <3>1. k \in 2 .. Len(t)
      BY <2>3, <1>1
    <3> QED BY <3>1, <2>1, <1>3, InRange
  <2> QED BY <2>2, <2>3
<1>7. ASSUME NEW x \in Range(s)
      PROVE  x \in Range(t)
  <2>1. PICK k \in 1 .. Len(s) : x = s[k]
    BY InRange
  <2>2. x = t[k + 1] /\ k + 1 \in 1 .. Len(t)
    BY <2>1, <1>1
  <2> QED BY <2>2, <1>1, InRange
<1>8. e \in Range(t)
  <2>1. 1 \in 1 .. Len(t)
    BY <1>1
  <2> QED BY <2>1, <1>1, InRange
<1> QED BY <1>5, <1>6, <1>7, <1>8 DEF t

(* The quotient and the remainder of a division, and their uniqueness. *)
LEMMA DivMod ==
  ASSUME NEW a \in Nat, NEW s \in Nat \ {0}
  PROVE  /\ a \div s \in Nat
         /\ a % s \in 0 .. s - 1
         /\ a = s * (a \div s) + (a % s)
  OBVIOUS

LEMMA MultipleGap ==
  ASSUME NEW a \in Nat, NEW b \in Nat, NEW s \in Nat \ {0}, a < b
  PROVE  s * a + s <= s * b
  OBVIOUS

LEMMA DivisionUnique ==
  ASSUME NEW a \in Nat, NEW b \in Nat, NEW s \in Nat \ {0},
         NEW p \in 0 .. s - 1, NEW q \in 0 .. s - 1,
         s * a + p = s * b + q
  PROVE  a = b /\ p = q
<1>1. ~(a < b)
  BY MultipleGap
<1>2. ~(b < a)
  BY MultipleGap
<1> QED BY <1>1, <1>2

=============================================================================
