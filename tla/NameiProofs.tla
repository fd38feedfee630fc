----------------------------- MODULE NameiProofs -----------------------------
(***************************************************************************)
(* One resolution, for every tree, every path and every depth of the       *)
(* recursion (Namei).                                                      *)
(*                                                                         *)
(* The references it takes (IInv): all are given back but those that the   *)
(* return of ENOTDIR leaves, and the stack is bounded by the levels.       *)
(*                                                                         *)
(* What is held does not depend on the depth: the root, by namei; *curdir, *)
(* by whoever is at work; current, by the activation at the top between    *)
(* two components; and what was found (References).  An activation below   *)
(* the top has given its current to *curdir before it called.              *)
(*                                                                         *)
(* What it finds (SInv): the recursion goes the way of the reference,      *)
(* which puts a link into the path.  The rest of the reference's path is   *)
(* the rest of the paths of all activations, from the top down, and the    *)
(* reference is where the top is (Following); so it needs as many steps as *)
(* the code, and Steps counts them.  Where the code fails the reference    *)
(* has stopped, and what an activation returns says where (Wrong).         *)
(***************************************************************************)
EXTENDS Namei, SequenceTheorems, WellFoundedInduction, TLAPS

(* The values that are neither an inode nor INO_EOF. *)
Errors == {ENOENT, EACCES, ENOTDIR, ELOOP}
Frames == [todo : Seq(Strings) \ {<<>>}, current : Dirs \cup {INO_EOF},
           deref : BOOLEAN, level : 0 .. MaxLevel + 1]

(* TypeOK, and what it takes to be kept. *)
Types ==
  /\ target \in [Links -> Targets]
  /\ call \in [path : Paths \cup {<<>>}, deref : BOOLEAN, null : BOOLEAN]
  /\ refs \in [Inodes -> Nat] /\ leaked \in [Inodes -> Nat]
  /\ curdir \in Dirs \cup {INO_EOF}
  /\ at \in {"idle", "enter", "walk", "reload", "found", "end", "done", "over"}
  /\ value \in Inodes \cup {INO_EOF} \cup Errors
  /\ stack \in Seq(Frames)
  /\ aborted \in BOOLEAN

(* namei_rec increments level for each link, at every depth: no activation *)
(* has a higher one than those above it, and each adds one at least.  So   *)
(* one that is too deep is not the first, and namei does not return ELOOP  *)
(* with *curdir open.                                                      *)
InOrder ==
  /\ \A k \in 1 .. Len(stack) : k - 1 <= stack[k].level
  /\ \A j, k \in 1 .. Len(stack) : j <= k => stack[j].level <= stack[k].level
Levels ==
  /\ InOrder
  /\ at \in {"enter", "walk", "reload", "found"} => stack # <<>>
  /\ at = "enter" /\ Len(stack) = 1 => stack[1].level = 0
  /\ at = "walk" \/ (at \in {"reload", "found"} /\ value \in Inodes) =>
       stack[Len(stack)].level <= MaxLevel

(* Where *curdir is a directory, and where it has been given back.         *)
Curdir ==
  /\ at \in {"enter", "walk"} => curdir \in Dirs
  /\ at = "walk" => stack[Len(stack)].current \in Dirs
  /\ at \in {"reload", "found", "end"} /\ value \in Inodes => curdir \in Dirs
  /\ at = "end" /\ value \in Errors => curdir = INO_EOF
  /\ at = "done" /\ call.null => curdir = INO_EOF
  /\ at = "done" /\ ~call.null =>
       /\ value \in Inodes => curdir \in Dirs
       /\ value \in Errors => curdir = INO_EOF

(* The references that the program holds, wherever it is.                  *)
Is(b, i, j) == IF b /\ i = j THEN 1 ELSE 0
Resolving == at \in {"enter", "walk", "reload", "found", "end"}
Counted(i) ==
  leaked[i] + Is(Resolving, i, root) + Is(Resolving \/ at = "done", i, curdir)
    + Is(at = "walk", i, stack[Len(stack)].current)
    + Is(at \in {"reload", "found", "end", "done"}, i, value)
References == \A i \in Inodes : refs[i] = Counted(i)

(* After an assertion has failed nothing moves any more. *)
Aborting == aborted => at \in {"found", "end"} /\ curdir = INO_EOF /\ InOrder

(* The inductive invariant. *)
IInv ==
  /\ Types
  /\ Aborting
  /\ ~aborted => Levels /\ Curdir /\ References

-----------------------------------------------------------------------------
(* What the assumption says, as the proofs use it. *)
LEMMA Constants ==
  /\ Dirs \subseteq Inodes /\ root \in Inodes /\ root \in Dirs
  /\ INO_EOF \notin Inodes /\ INO_EOF \notin Dirs
  /\ \A e \in Errors : e \notin Inodes /\ e # INO_EOF
  /\ MaxLevel \in Nat
BY NameiAssumption DEF INO_EOF, Errors, ENOENT, EACCES, ENOTDIR, ELOOP

(* The last element of a sequence, and the ones before it. *)
LEMMA LastFront ==
  ASSUME NEW S, NEW s \in Seq(S), s # <<>>
  PROVE  /\ Len(s) \in Nat /\ Len(s) >= 1
         /\ Last(s) = s[Len(s)] /\ s[Len(s)] \in S
         /\ Front(s) \in Seq(S) /\ Len(Front(s)) = Len(s) - 1
         /\ \A k \in 1 .. Len(s) - 1 : Front(s)[k] = s[k] /\ s[k] \in S
<1>1. Len(s) \in Nat /\ Len(s) >= 1 /\ \A k \in 1 .. Len(s) : s[k] \in S
  BY EmptySeq, LenProperties, ElementOfSeq
<1>2. /\ SubSeq(s, 1, Len(s) - 1) \in Seq(S)
      /\ Len(SubSeq(s, 1, Len(s) - 1)) = Len(s) - 1
      /\ \A k \in 1 .. Len(s) - 1 : SubSeq(s, 1, Len(s) - 1)[k] = s[k]
  <2> DEFINE n == Len(s) - 1
  <2>1. n \in Nat /\ \A k \in 1 .. n : s[k] \in S
    BY <1>1
  <2> HIDE DEF n
  <2>2. /\ SubSeq(s, 1, n) \in Seq(S)
        /\ Len(SubSeq(s, 1, n)) = (IF 1 <= n THEN n - 1 + 1 ELSE 0)
        /\ \A k \in 1 .. n - 1 + 1 : SubSeq(s, 1, n)[k] = s[1 + k - 1]
    BY <2>1, SubSeqProperties
  <2>3. /\ Len(SubSeq(s, 1, n)) = n
        /\ \A k \in 1 .. n : SubSeq(s, 1, n)[k] = s[k]
    BY <2>1, <2>2
  <2> QED BY <2>2, <2>3 DEF n
<1> QED BY <1>1, <1>2 DEF Last, Front

(* Another last element. *)
LEMMA Exchanged ==
  ASSUME NEW S, NEW s \in Seq(S), s # <<>>, NEW f \in S
  PROVE  LET t == Append(Front(s), f)
         IN  /\ t \in Seq(S) /\ t # <<>> /\ Len(t) = Len(s) /\ t[Len(s)] = f
             /\ \A k \in 1 .. Len(s) - 1 : t[k] = s[k]
<1>1. /\ Len(s) \in Nat /\ Len(s) >= 1
      /\ Front(s) \in Seq(S) /\ Len(Front(s)) = Len(s) - 1
      /\ \A k \in 1 .. Len(s) - 1 : Front(s)[k] = s[k]
  BY LastFront
<1> QED BY <1>1, AppendProperties

(* Another last element, and one more after it. *)
LEMMA Pushed ==
  ASSUME NEW S, NEW s \in Seq(S), s # <<>>, NEW f \in S, NEW g \in S
  PROVE  LET t == Front(s) \o <<f, g>>
         IN  /\ t \in Seq(S) /\ t # <<>> /\ Len(t) = Len(s) + 1
             /\ t[Len(s)] = f /\ t[Len(s) + 1] = g
             /\ \A k \in 1 .. Len(s) - 1 : t[k] = s[k]
<1>1. /\ Len(s) \in Nat /\ Len(s) >= 1
      /\ Front(s) \in Seq(S) /\ Len(Front(s)) = Len(s) - 1
      /\ \A k \in 1 .. Len(s) - 1 : Front(s)[k] = s[k]
  BY LastFront
<1>2. <<f, g>> \in Seq(S) /\ Len(<<f, g>>) = 2 /\ <<f, g>>[1] = f /\ <<f, g>>[2] = g
  OBVIOUS
<1>3. /\ Front(s) \o <<f, g>> \in Seq(S)
      /\ Len(Front(s) \o <<f, g>>) = Len(s) + 1
      /\ \A k \in 1 .. Len(s) + 1 :
           (Front(s) \o <<f, g>>)[k] =
             IF k <= Len(s) - 1 THEN s[k] ELSE <<f, g>>[k - (Len(s) - 1)]
  BY <1>1, <1>2, ConcatProperties
<1>4. /\ (Front(s) \o <<f, g>>)[Len(s)] = f
      /\ (Front(s) \o <<f, g>>)[Len(s) + 1] = g
      /\ \A k \in 1 .. Len(s) - 1 : (Front(s) \o <<f, g>>)[k] = s[k]
  <2> DEFINE t == Front(s) \o <<f, g>>
             n == Len(s)
  <2>1. /\ n \in Nat /\ n >= 1
        /\ n - (n - 1) = 1 /\ (n + 1) - (n - 1) = 2
        /\ \A k \in 1 .. n - 1 : k \in 1 .. n + 1 /\ k <= n - 1
        /\ n \in 1 .. n + 1 /\ n + 1 \in 1 .. n + 1 /\ ~(n <= n - 1) /\ ~(n + 1 <= n - 1)
    BY <1>1
  <2>2. \A k \in 1 .. n + 1 : t[k] = IF k <= n - 1 THEN s[k] ELSE <<f, g>>[k - (n - 1)]
    BY <1>3
  <2> HIDE DEF t, n
  <2>3. t[n] = f /\ t[n + 1] = g /\ \A k \in 1 .. n - 1 : t[k] = s[k]
    BY <2>1, <2>2, <1>2
  <2> QED BY <2>3 DEF t, n
<1>5. Front(s) \o <<f, g>> # <<>>
  BY <1>1, <1>3
<1> QED BY <1>3, <1>4, <1>5

(* What perm_check and dir_lookup return. *)
LEMMA LookedIs ==
  ASSUME NEW d \in Dirs
  PROVE  Looked(d) \in Inodes \cup {ENOENT, EACCES}
<1>1. ASSUME Has(d, token) PROVE Child(d, token) \in Inodes
  <2>1. PICK f \in Entries : f.dir = d /\ f.name = token
    BY <1>1 DEF Has
  <2>2. (CHOOSE e \in Entries : e.dir = d /\ e.name = token) \in Entries
    BY <2>1
  <2> QED BY <2>2, NameiAssumption DEF Child
<1> QED BY <1>1 DEF Looked

(* A path that is not at its end goes on. *)
LEMMA Onward ==
  ASSUME NEW S, NEW s \in Seq(S), s # <<>>, Len(s) # 1
  PROVE  Tail(s) \in Seq(S) \ {<<>>}
<1>1. Len(s) \in Nat /\ Len(s) >= 1
  BY LastFront
<1>2. Tail(s) \in Seq(S) /\ Len(Tail(s)) = Len(s) - 1
  BY HeadTailProperties
<1>3. Len(Tail(s)) # 0
  BY <1>1, <1>2
<1>4. Tail(s) # <<>>
  BY <1>3, EmptySeq
<1> QED BY <1>2, <1>4

(* The first activation of namei_rec for a path. *)
LEMMA FrameType ==
  ASSUME NEW p \in Targets \cup Paths, NEW deref \in BOOLEAN,
         NEW level \in 0 .. MaxLevel + 1
  PROVE  Frame(p, deref, level) \in Frames
BY NameiAssumption DEF Frame, Frames

(* The activation at the top of the stack. *)
LEMMA TopIs ==
  ASSUME Types, stack # <<>>
  PROVE  /\ Len(stack) \in Nat /\ Len(stack) >= 1 /\ top = stack[Len(stack)]
         /\ top \in Frames
BY LastFront DEF Types, top

(* A return keeps the levels in order. *)
LEMMA Returning ==
  ASSUME Types, Levels, stack # <<>>, NEW v, Return(v),
         v \in Inodes => top.level <= MaxLevel
  PROVE  /\ stack' \in Seq(Frames) /\ Levels' /\ value' = v
         /\ at' \in {"end", "reload"} /\ (at' = "end" => Len(stack) = 1)
<1>1. /\ Len(stack) \in Nat /\ Len(stack) >= 1 /\ top = stack[Len(stack)]
      /\ \A k \in 1 .. Len(stack) : stack[k] \in Frames
      /\ stack' \in Seq(Frames) /\ Len(stack') = Len(stack) - 1
      /\ \A k \in 1 .. Len(stack) - 1 : stack'[k] = stack[k]
  <2>1. stack \in Seq(Frames) /\ stack' = Front(stack)
    BY DEF Types, Return
  <2> QED BY <2>1, LastFront DEF top
<1>2. at' = (IF Len(stack) = 1 THEN "end" ELSE "reload") /\ value' = v
  BY DEF Return
<1>3. ASSUME NEW k \in 1 .. Len(stack') PROVE k \in 1 .. Len(stack)
  BY <1>1
<1>4. at' = "reload" => stack' # <<>>
  BY <1>1, <1>2
<1>5. \A k \in 1 .. Len(stack') : k - 1 <= stack'[k].level
  BY <1>1, <1>3 DEF Levels, InOrder
<1>6. \A j, k \in 1 .. Len(stack') : j <= k => stack'[j].level <= stack'[k].level
  BY <1>1, <1>3 DEF Levels, InOrder
<1>7. at' = "reload" /\ v \in Inodes => stack'[Len(stack')].level <= MaxLevel
  <2> SUFFICES ASSUME at' = "reload", v \in Inodes
               PROVE  stack'[Len(stack')].level <= MaxLevel
    OBVIOUS
  <2>1. Len(stack') \in 1 .. Len(stack) - 1 /\ Len(stack) \in 1 .. Len(stack)
    BY <1>1, <1>2
  <2>2. stack[Len(stack')].level <= stack[Len(stack)].level
    BY <1>1, <2>1 DEF Levels, InOrder
  <2>3. stack[Len(stack')].level \in Int /\ stack[Len(stack)].level \in Int
    BY <1>1, <2>1 DEF Frames
  <2> QED BY <1>1, <2>1, <2>2, <2>3, Constants
<1> QED BY <1>1, <1>2, <1>4, <1>5, <1>6, <1>7 DEF Levels, InOrder


(* The next token of an activation, which changes no level. *)
LEMMA Moving ==
  ASSUME Types, Levels, stack # <<>>, NEW f \in Frames, f.level = top.level, SetTop(f)
  PROVE  /\ stack' \in Seq(Frames) /\ InOrder' /\ stack' # <<>>
         /\ stack'[Len(stack')] = f
<1>1. /\ Len(stack) \in Nat /\ Len(stack) >= 1 /\ top = stack[Len(stack)]
  BY TopIs
<1>2. /\ stack' \in Seq(Frames) /\ stack' # <<>> /\ Len(stack') = Len(stack)
      /\ stack'[Len(stack)] = f
      /\ \A k \in 1 .. Len(stack) - 1 : stack'[k] = stack[k]
  BY Exchanged DEF Types, SetTop
<1>3. \A k \in 1 .. Len(stack) : stack'[k].level = stack[k].level
  BY <1>1, <1>2
<1> QED BY <1>2, <1>3 DEF Levels, InOrder

(* The call for a link, one level deeper. *)
LEMMA Deeper ==
  ASSUME Types, Levels, stack # <<>>, top.level <= MaxLevel,
         NEW f \in Frames, f.level = top.level + 1,
         NEW g \in Frames, g.level = top.level + 1,
         stack' = Front(stack) \o <<f, g>>
  PROVE  /\ stack' \in Seq(Frames) /\ InOrder' /\ stack' # <<>> /\ Len(stack') # 1
<1>1. /\ Len(stack) \in Nat /\ Len(stack) >= 1 /\ top = stack[Len(stack)]
      /\ \A k \in 1 .. Len(stack) : stack[k] \in Frames
  BY TopIs, LastFront DEF Types
<1>2. /\ stack' \in Seq(Frames) /\ stack' # <<>> /\ Len(stack') = Len(stack) + 1
      /\ stack'[Len(stack)] = f /\ stack'[Len(stack) + 1] = g
      /\ \A k \in 1 .. Len(stack) - 1 : stack'[k] = stack[k]
  BY Pushed DEF Types
<1> DEFINE n == Len(stack)
<1>3. /\ n \in Nat /\ n >= 1 /\ top.level \in Int
      /\ \A k \in 1 .. n : stack[k].level \in Int /\ stack[k].level <= top.level
                           /\ k - 1 <= stack[k].level
  <2>1. /\ \A k \in 1 .. n : stack[k].level \in Int
        /\ n \in 1 .. n
    BY <1>1 DEF Frames
  <2>2. \A k \in 1 .. n : stack[k].level <= top.level /\ k - 1 <= stack[k].level
    BY <1>1, <2>1 DEF Levels, InOrder
  <2> QED BY <1>1, <2>1, <2>2
<1>4. /\ \A k \in 1 .. n - 1 : stack'[k].level = stack[k].level
      /\ stack'[n].level = top.level + 1 /\ stack'[n + 1].level = top.level + 1
      /\ Len(stack') = n + 1
  BY <1>2
<1>5. n - 1 <= top.level
  BY <1>1, <1>3
<1>6. \A j, k \in 1 .. n - 1 : j <= k => stack'[j].level <= stack'[k].level
  <2>1. \A k \in 1 .. n - 1 : k \in 1 .. n
    BY <1>3
  <2> QED BY <2>1, <1>4 DEF Levels, InOrder
<1> HIDE DEF n
<1>7. ASSUME NEW k \in 1 .. n + 1
      PROVE  /\ k - 1 <= stack'[k].level
             /\ k \in {n, n + 1} => stack'[k].level = top.level + 1
             /\ stack'[k].level <= top.level + 1
  <2>1. CASE k \in 1 .. n - 1
    <3>1. k \in 1 .. n /\ k # n /\ k # n + 1
      BY <2>1, <1>3
    <3>2. stack'[k].level = stack[k].level
      BY <2>1, <1>4
    <3>3. stack[k].level \in Int /\ stack[k].level <= top.level /\ k - 1 <= stack[k].level
      BY <3>1, <1>3
    <3>4. k - 1 <= stack'[k].level
      BY <3>2, <3>3
    <3>5. stack'[k].level <= top.level + 1
      <4>1. \A a, b \in Int : a <= b => a <= b + 1
        OBVIOUS
      <4> QED BY <4>1, <3>2, <3>3, <1>3
    <3>6. k \notin {n, n + 1}
      BY <3>1
    <3> QED BY <3>4, <3>5, <3>6
  <2>2. CASE k = n
    BY <2>2, <1>3, <1>4, <1>5
  <2>3. CASE k = n + 1
    BY <2>3, <1>3, <1>4, <1>5
  <2>4. k \in 1 .. n - 1 \/ k = n \/ k = n + 1
    BY <1>3
  <2> QED BY <2>1, <2>2, <2>3, <2>4
<1>8. ASSUME NEW j \in 1 .. n + 1, NEW k \in 1 .. n + 1, j <= k
      PROVE  stack'[j].level <= stack'[k].level
  <2>1. CASE k \in {n, n + 1}
    BY <2>1, <1>7
  <2>2. CASE k \notin {n, n + 1}
    <3>1. k \in 1 .. n - 1 /\ j \in 1 .. n - 1
      BY <2>2, <1>8, <1>3
    <3> QED BY <3>1, <1>8, <1>6
  <2> QED BY <2>1, <2>2
<1>9. InOrder'
  BY <1>4, <1>7, <1>8 DEF InOrder
<1>10. Len(stack') # 1
  BY <1>3, <1>4
<1> QED BY <1>2, <1>9, <1>10

-----------------------------------------------------------------------------
(* The state of a call that goes on. *)
LEMMA Going ==
  ASSUME IInv, ~aborted
  PROVE  /\ Types /\ Levels /\ Curdir /\ References
         /\ \A i \in Inodes : refs[i] \in Nat /\ leaked[i] \in Nat
BY DEF IInv, Types

(* namei starts at the root, which it holds twice. *)
LEMMA CallStep == ASSUME IInv, Call PROVE IInv'
<1> USE Constants
<1>0. at = "idle" /\ ~aborted
  BY DEF Call, IInv, Aborting
<1>1. /\ Types /\ Levels /\ Curdir /\ References
      /\ \A i \in Inodes : refs[i] \in Nat /\ leaked[i] \in Nat
  BY <1>0, Going
<1>2. PICK path \in Paths, deref \in BOOLEAN, null \in BOOLEAN :
        /\ call' = [path |-> path, deref |-> deref, null |-> null]
        /\ stack' = <<Frame(path, deref, 0)>>
  BY DEF Call
<1>3. /\ curdir' = root /\ refs' = Opened(Opened(refs, root), root) /\ at' = "enter"
      /\ UNCHANGED <<target, value, aborted, leaked>>
  BY DEF Call, tree
<1>4. Frame(path, deref, 0) \in Frames /\ Frame(path, deref, 0).level = 0
  <2>1. 0 \in 0 .. MaxLevel + 1
    OBVIOUS
  <2> QED BY <2>1, FrameType DEF Frame
<1>5. Types'
  <2>1. stack' \in Seq(Frames)
    BY <1>2, <1>4
  <2> QED BY <2>1, <1>1, <1>2, <1>3 DEF Types, Opened
<1>6. Levels'
  BY <1>2, <1>3, <1>4 DEF Levels, InOrder
<1>7. Curdir'
  BY <1>3 DEF Curdir
<1>8. References'
  <2> SUFFICES ASSUME NEW i \in Inodes PROVE refs'[i] = Counted(i)'
    BY DEF References
  <2>1. refs[i] = leaked[i]
    BY <1>0, <1>1 DEF References, Counted, Is, Resolving
  <2>2. refs'[i] = refs[i] + (IF i = root THEN 2 ELSE 0)
    BY <1>1, <1>3 DEF Opened, Types
  <2> QED BY <2>1, <2>2, <1>1, <1>3 DEF Counted, Is, Resolving
<1>9. Aborting'
  BY <1>0, <1>3 DEF Aborting
<1> QED BY <1>5, <1>6, <1>7, <1>8, <1>9 DEF IInv

(* The eight levels are used up: ELOOP, and *curdir stays as it is. *)
LEMMA TooDeepStep ==
  ASSUME IInv, ~aborted, TooDeep, UNCHANGED <<tree, call>>
  PROVE  IInv'
<1> USE Constants
<1>0. at = "enter" /\ Return(ELOOP) /\ UNCHANGED <<refs, curdir, aborted, leaked, call, target>>
      /\ top.level > MaxLevel
  BY DEF TooDeep, tree
<1>1. /\ Types /\ Levels /\ Curdir /\ References
      /\ \A i \in Inodes : refs[i] \in Nat /\ leaked[i] \in Nat
  BY Going
<1>2. ELOOP \in Errors
  BY DEF Errors
<1>3. stack # <<>> /\ Len(stack) \in Nat /\ top = stack[Len(stack)] /\ top \in Frames
  BY <1>0, <1>1, TopIs DEF Levels
<1>4. /\ stack' \in Seq(Frames) /\ Levels' /\ value' = ELOOP
      /\ at' \in {"end", "reload"} /\ (at' = "end" => Len(stack) = 1)
  BY <1>0, <1>1, <1>2, <1>3, Returning
<1>5. at' = "reload"
  <2>1. Len(stack) # 1
    BY <1>0, <1>1, <1>3 DEF Levels
  <2> QED BY <2>1, <1>4
<1>6. Types'
  BY <1>0, <1>1, <1>2, <1>4, <1>5 DEF Types
<1>7. Curdir'
  BY <1>2, <1>4, <1>5 DEF Curdir
<1>8. References'
  BY <1>0, <1>1, <1>2, <1>4, <1>5 DEF References, Counted, Is, Resolving
<1> QED BY <1>0, <1>4, <1>6, <1>7, <1>8 DEF IInv, Aborting

(* A relative path starts in *curdir, an absolute one puts the root there. *)
LEMMA EnterStep ==
  ASSUME IInv, ~aborted, Enter, UNCHANGED <<tree, call>>
  PROVE  IInv'
<1> USE Constants
<1>0. /\ at = "enter" /\ top.level <= MaxLevel /\ at' = "walk"
      /\ UNCHANGED <<value, aborted, leaked, call, target>>
  BY DEF Enter, tree
<1>1. /\ Types /\ Levels /\ Curdir /\ References
      /\ \A i \in Inodes : refs[i] \in Nat /\ leaked[i] \in Nat
      /\ refs \in [Inodes -> Nat] /\ curdir \in Dirs
  BY <1>0, Going DEF Curdir, Types
<1>3. /\ stack # <<>> /\ Len(stack) \in Nat /\ top = stack[Len(stack)] /\ top \in Frames
  BY <1>0, <1>1, TopIs DEF Levels
<1>4. PICK f \in Frames : /\ f.level = top.level /\ f.current = curdir' /\ SetTop(f)
                          /\ curdir' \in Dirs
  <2>1. CASE Absolute(top.todo)
    <3> DEFINE f == [top EXCEPT !.current = root, !.todo = Tail(@)]
    <3>1. curdir' = root /\ SetTop(f)
      BY <2>1 DEF Enter
    <3>2. Tail(top.todo) \in Seq(Strings) \ {<<>>}
      <4>1. top.todo \in Seq(Strings) /\ top.todo # <<>>
        BY <1>3 DEF Frames
      <4>2. Len(top.todo) # 1
        BY <2>1, <4>1, LastFront DEF Absolute
      <4> QED BY <4>1, <4>2, Onward
    <3>3. f \in Frames /\ f.level = top.level /\ f.current = root
      BY <3>2, <1>3 DEF Frames
    <3> QED BY <3>1, <3>3
  <2>2. CASE ~Absolute(top.todo)
    <3> DEFINE f == [top EXCEPT !.current = curdir]
    <3>1. curdir' = curdir /\ SetTop(f)
      BY <2>2 DEF Enter
    <3>3. f \in Frames /\ f.level = top.level /\ f.current = curdir
      BY <1>1, <1>3 DEF Frames
    <3> QED BY <3>1, <3>3, <1>1
  <2> QED BY <2>1, <2>2
<1>5. /\ stack' \in Seq(Frames) /\ InOrder' /\ stack' # <<>>
      /\ stack'[Len(stack')] = f
  BY <1>1, <1>3, <1>4, Moving
<1>6. /\ refs' \in [Inodes -> Nat]
      /\ \A i \in Inodes :
           refs'[i] = leaked[i] + (IF i = root THEN 1 ELSE 0) + (IF i = curdir' THEN 2 ELSE 0)
  <2>1. \A i \in Inodes :
          refs[i] = leaked[i] + (IF i = root THEN 1 ELSE 0) + (IF i = curdir THEN 1 ELSE 0)
    BY <1>0, <1>1 DEF References, Counted, Is, Resolving
  <2>2. CASE Absolute(top.todo)
    <3>1. refs' = Opened(Opened(Closed(refs, curdir), root), root) /\ curdir' = root
      BY <2>2 DEF Enter
    <3>2. \A i \in Inodes : refs'[i] = refs[i] - (IF i = curdir THEN 1 ELSE 0)
                                       + (IF i = root THEN 2 ELSE 0)
      BY <3>1, <1>1 DEF Opened, Closed
    <3>3. DOMAIN refs' = Inodes /\ refs' = [i \in Inodes |-> refs'[i]]
      BY <3>1, <1>1 DEF Opened, Closed
    <3>4. \A i \in Inodes :
            refs'[i] = leaked[i] + (IF i = root THEN 3 ELSE 0)
      BY <3>2, <2>1, <1>1
    <3> QED BY <3>1, <3>3, <3>4, <1>1
  <2>3. CASE ~Absolute(top.todo)
    <3>1. refs' = Opened(refs, curdir) /\ curdir' = curdir
      BY <2>3 DEF Enter
    <3>2. DOMAIN refs' = Inodes /\ refs' = [i \in Inodes |-> refs'[i]]
      BY <3>1, <1>1 DEF Opened
    <3>3. \A i \in Inodes : refs'[i] = refs[i] + (IF i = curdir THEN 1 ELSE 0)
      BY <3>1, <1>1 DEF Opened
    <3>4. \A i \in Inodes :
            refs'[i] = leaked[i] + (IF i = root THEN 1 ELSE 0) + (IF i = curdir' THEN 2 ELSE 0)
      BY <3>1, <3>3, <2>1, <1>1
    <3> QED BY <3>1, <3>2, <3>4, <1>1
  <2> QED BY <2>2, <2>3
<1>7. Types'
  BY <1>0, <1>1, <1>4, <1>5, <1>6 DEF Types
<1>8. Levels'
  BY <1>0, <1>4, <1>5 DEF Levels
<1>9. Curdir'
  BY <1>0, <1>4, <1>5 DEF Curdir
<1>10. References'
  <2>1. ASSUME NEW i \in Inodes
        PROVE  Counted(i)' = leaked[i] + (IF i = root THEN 1 ELSE 0)
                                 + (IF i = curdir' THEN 1 ELSE 0)
                                 + (IF i = curdir' THEN 1 ELSE 0)
    BY <1>0, <1>1, <1>4, <1>5 DEF Counted, Is, Resolving
  <2> QED BY <2>1, <1>1, <1>6 DEF References
<1> QED BY <1>0, <1>7, <1>8, <1>9, <1>10 DEF IInv, Aborting

(* An empty component is passed over; at the end of a path it is the       *)
(* directory itself.                                                       *)
LEMMA SkipEmptyStep ==
  ASSUME IInv, ~aborted, SkipEmpty, UNCHANGED <<tree, call>>
  PROVE  IInv'
<1> USE Constants
<1>0. /\ at = "walk" /\ UNCHANGED <<refs, curdir, aborted, leaked, call, target>>
  BY DEF SkipEmpty, tree
<1>1. /\ Types /\ Levels /\ Curdir /\ References
      /\ \A i \in Inodes : refs[i] \in Nat /\ leaked[i] \in Nat
  BY Going
<1>3. /\ stack # <<>> /\ Len(stack) \in Nat /\ top = stack[Len(stack)] /\ top \in Frames
      /\ top.current \in Dirs /\ top.level <= MaxLevel /\ curdir \in Dirs
  BY <1>0, <1>1, TopIs DEF Levels, Curdir
<1>4. CASE IsLast
  <2>1. Return(top.current)
    BY <1>4 DEF SkipEmpty
  <2>2. /\ stack' \in Seq(Frames) /\ Levels' /\ value' = top.current
        /\ at' \in {"end", "reload"}
    BY <2>1, <1>1, <1>3, Returning
  <2>3. value' \in Inodes
    BY <2>2, <1>3
  <2>4. Types'
    BY <1>0, <1>1, <2>2, <2>3 DEF Types
  <2>5. Curdir'
    BY <1>0, <1>3, <2>2, <2>3 DEF Curdir
  <2>6. References'
    BY <1>0, <1>1, <1>3, <2>2 DEF References, Counted, Is, Resolving
  <2> QED BY <1>0, <2>2, <2>4, <2>5, <2>6 DEF IInv, Aborting
<1>5. CASE ~IsLast
  <2> DEFINE f == [top EXCEPT !.todo = Tail(@)]
  <2>1. SetTop(f) /\ UNCHANGED <<at, value>>
    BY <1>5 DEF SkipEmpty
  <2>2. Tail(top.todo) \in Seq(Strings) \ {<<>>}
    <3>1. top.todo \in Seq(Strings) /\ top.todo # <<>>
      BY <1>3 DEF Frames
    <3> QED BY <3>1, <1>5, Onward DEF IsLast
  <2>3. f \in Frames /\ f.level = top.level /\ f.current = top.current
    BY <2>2, <1>3 DEF Frames
  <2> HIDE DEF f
  <2>4. /\ stack' \in Seq(Frames) /\ InOrder' /\ stack' # <<>>
        /\ stack'[Len(stack')] = f
    BY <2>1, <2>3, <1>1, <1>3, Moving
  <2>5. Types'
    BY <1>0, <1>1, <2>1, <2>4 DEF Types
  <2>6. Levels'
    BY <1>0, <1>3, <2>1, <2>3, <2>4 DEF Levels
  <2>7. Curdir'
    BY <1>0, <1>3, <2>1, <2>3, <2>4 DEF Curdir
  <2>8. References'
    BY <1>0, <1>1, <1>3, <2>1, <2>3, <2>4 DEF References, Counted, Is, Resolving
  <2> QED BY <1>0, <2>5, <2>6, <2>7, <2>8 DEF IInv, Aborting
<1> QED BY <1>4, <1>5

(* *curdir can be given back wherever it is a directory. *)
LEMMA StillOpen ==
  ASSUME IInv, ~aborted, Resolving
  PROVE  /\ curdir \in Dirs => CanClose(refs, curdir)
         /\ ~CanClose(refs, curdir) => curdir = INO_EOF
<1> USE Constants
<1>1. Types /\ References /\ \A i \in Inodes : refs[i] \in Nat /\ leaked[i] \in Nat
  BY Going
<1>2. ASSUME curdir \in Dirs PROVE curdir \in Inodes /\ refs[curdir] > 0
  BY <1>1, <1>2 DEF References, Counted, Is
<1>3. curdir \in Dirs \cup {INO_EOF}
  BY <1>1 DEF Types
<1> QED BY <1>2, <1>3 DEF CanClose

(* A component: *curdir moves on, and what was found there is held, or the *)
(* call for what the link contains begins.                                 *)
LEMMA DescendStep ==
  ASSUME IInv, ~aborted, Descend, UNCHANGED <<tree, call>>
  PROVE  IInv'
<1> USE Constants
<1> DEFINE i == Looked(top.current)
           r == Closed(refs, curdir)
<1>0. at = "walk" /\ target' = target /\ call' = call
  BY DEF Descend, tree
<1>1. /\ Types /\ Levels /\ Curdir /\ References
      /\ \A k \in Inodes : refs[k] \in Nat /\ leaked[k] \in Nat
      /\ refs \in [Inodes -> Nat]
  BY Going DEF Types
<1>3. /\ stack # <<>> /\ Len(stack) \in Nat /\ top = stack[Len(stack)] /\ top \in Frames
      /\ top.current \in Dirs /\ top.level <= MaxLevel /\ curdir \in Dirs
  BY <1>0, <1>1, TopIs DEF Levels, Curdir
<1>4. i \in Inodes \cup {ENOENT, EACCES}
  BY <1>3, LookedIs
<1>5. CanClose(refs, curdir)
  BY <1>0, <1>3, StillOpen DEF Resolving
<1>6. /\ curdir' = top.current /\ UNCHANGED <<aborted, leaked>>
      /\ IF i \in Inodes /\ Follows(i)
         THEN /\ stack' = Front(stack) \o <<[top EXCEPT !.level = top.level + 1],
                                           Frame(target[i], TRUE, top.level + 1)>>
              /\ refs' = r /\ at' = "enter" /\ value' = value
         ELSE /\ value' = i
              /\ refs' = IF i \in Inodes THEN Opened(r, i) ELSE r
              /\ at' = "found" /\ stack' = stack
  BY <1>5 DEF Descend
<1>7. /\ r \in [Inodes -> Nat]
      /\ \A k \in Inodes : r[k] = leaked[k] + Is(TRUE, k, root) + Is(TRUE, k, top.current)
  <2>1. \A k \in Inodes : refs[k] = leaked[k] + Is(TRUE, k, root) + Is(TRUE, k, curdir)
                                      + Is(TRUE, k, top.current)
    BY <1>0, <1>1, <1>3 DEF References, Counted, Is, Resolving
  <2>2. \A k \in Inodes : r[k] = IF k = curdir THEN refs[k] - 1 ELSE refs[k]
    BY <1>1 DEF Closed
  <2>3. \A k \in Inodes : r[k] = leaked[k] + Is(TRUE, k, root) + Is(TRUE, k, top.current)
    BY <2>1, <2>2, <1>1 DEF Is
  <2>4. \A k \in Inodes : r[k] \in Nat
    BY <2>3, <1>1 DEF Is
  <2> QED BY <2>3, <2>4, <1>1 DEF Closed
<1> HIDE DEF i, r
<1>8. CASE i \in Inodes /\ Follows(i)
  <2> DEFINE f == [top EXCEPT !.level = top.level + 1]
             g == Frame(target[i], TRUE, top.level + 1)
  <2>1. /\ stack' = Front(stack) \o <<f, g>>
        /\ refs' = r /\ at' = "enter" /\ value' = value
    BY <1>6, <1>8
  <2>2. top.level + 1 \in 0 .. MaxLevel + 1
    BY <1>3 DEF Frames
  <2>3. f \in Frames /\ f.level = top.level + 1
    BY <1>3, <2>2 DEF Frames
  <2>4. g \in Frames /\ g.level = top.level + 1
    <3>1. target[i] \in Targets
      BY <1>1, <1>8 DEF Follows, Types
    <3> QED BY <3>1, <2>2, FrameType DEF Frame
  <2> HIDE DEF f, g
  <2>5. stack' \in Seq(Frames) /\ InOrder' /\ stack' # <<>> /\ Len(stack') # 1
    BY <2>1, <2>3, <2>4, <1>1, <1>3, Deeper
  <2>6. Types'
    BY <1>0, <1>1, <1>3, <1>6, <1>7, <2>1, <2>5 DEF Types
  <2>7. Levels'
    BY <2>1, <2>5 DEF Levels
  <2>8. Curdir'
    BY <1>3, <1>6, <2>1 DEF Curdir
  <2>9. References'
    <3> SUFFICES ASSUME NEW k \in Inodes PROVE refs'[k] = Counted(k)'
      BY DEF References
    <3>1. Counted(k)' = leaked[k] + Is(TRUE, k, root) + Is(TRUE, k, top.current)
      BY <1>1, <1>6, <2>1 DEF Counted, Is, Resolving
    <3> QED BY <3>1, <1>7, <2>1
  <2> QED BY <1>6, <2>6, <2>7, <2>8, <2>9 DEF IInv, Aborting
<1>9. CASE ~(i \in Inodes /\ Follows(i))
  <2>1. /\ value' = i /\ refs' = (IF i \in Inodes THEN Opened(r, i) ELSE r)
        /\ at' = "found" /\ stack' = stack
    BY <1>6, <1>9
  <2>2. \A k \in Inodes :
          refs'[k] = leaked[k] + Is(TRUE, k, root) + Is(TRUE, k, top.current) + Is(TRUE, k, i)
    <3>1. CASE i \in Inodes
      BY <3>1, <2>1, <1>7, <1>1 DEF Opened, Is
    <3>2. CASE i \notin Inodes
      BY <3>2, <2>1, <1>7, <1>1 DEF Is
    <3> QED BY <3>1, <3>2
  <2>3. refs' \in [Inodes -> Nat]
    BY <2>1, <1>7 DEF Opened
  <2>4. Types'
    BY <1>0, <1>1, <1>3, <1>4, <1>6, <2>1, <2>3 DEF Types, Errors
  <2>5. Levels'
    BY <1>1, <1>3, <2>1 DEF Levels, InOrder
  <2>6. Curdir'
    BY <1>3, <1>6, <2>1 DEF Curdir
  <2>7. References'
    <3> SUFFICES ASSUME NEW k \in Inodes PROVE refs'[k] = Counted(k)'
      BY DEF References
    <3>1. Counted(k)' = leaked[k] + Is(TRUE, k, root) + Is(TRUE, k, top.current)
                          + Is(TRUE, k, i)
      BY <1>1, <1>6, <2>1 DEF Counted, Is, Resolving
    <3> QED BY <3>1, <2>2
  <2> QED BY <1>6, <2>1, <2>4, <2>5, <2>6, <2>7 DEF IInv, Aborting
<1> QED BY <1>8, <1>9

(* What the recursion returned is what was found. *)
LEMMA ReloadStep ==
  ASSUME IInv, ~aborted, Reload, UNCHANGED <<tree, call>>
  PROVE  IInv'
<1> USE Constants
<1>0. /\ at = "reload" /\ at' = "found" /\ stack' = stack
      /\ UNCHANGED <<refs, curdir, aborted, leaked, call, target>>
      /\ value' \in (IF value \in Inodes THEN {value} ELSE {value, ENOENT})
  BY DEF Reload, tree
<1>1. /\ Types /\ Levels /\ Curdir /\ References
  BY Going
<1>2. ENOENT \in Errors
  BY DEF Errors
<1>3. value \in Inodes => value' = value
  BY <1>0
<1>4. value \notin Inodes => value' \notin Inodes
  BY <1>0, <1>2
<1>5. value' \in Inodes \cup {INO_EOF} \cup Errors
  BY <1>0, <1>1, <1>2 DEF Types
<1>6. Types'
  BY <1>0, <1>1, <1>5 DEF Types
<1>7. Levels'
  BY <1>0, <1>1, <1>3, <1>4 DEF Levels, InOrder
<1>8. Curdir'
  BY <1>0, <1>1, <1>3, <1>4 DEF Curdir
<1>9. References'
  <2> SUFFICES ASSUME NEW k \in Inodes PROVE refs'[k] = Counted(k)'
    BY DEF References
  <2>1. Is(TRUE, k, value) = Is(TRUE, k, value')
    BY <1>3, <1>4 DEF Is
  <2> QED BY <2>1, <1>0, <1>1 DEF References, Counted, Is, Resolving
<1> QED BY <1>0, <1>6, <1>7, <1>8, <1>9 DEF IInv, Aborting

(* A component in the middle leads nowhere: *curdir is given back, or the  *)
(* assertion that it can be fails.  What was found and is no directory is  *)
(* left behind.                                                            *)
LEMMA GivingUp ==
  ASSUME IInv, ~aborted, at = "found", UNCHANGED <<tree, call>>,
         NEW v \in {INO_EOF} \cup Errors, GiveUp(v),
         \/ value \notin Inodes /\ leaked' = leaked
         \/ value \in Inodes /\ leaked' = Opened(leaked, value)
  PROVE  IInv'
<1> USE Constants
<1>1. /\ Types /\ Levels /\ Curdir /\ References
      /\ \A k \in Inodes : refs[k] \in Nat /\ leaked[k] \in Nat
      /\ refs \in [Inodes -> Nat] /\ leaked \in [Inodes -> Nat]
      /\ target' = target /\ call' = call
  BY Going DEF Types, tree
<1>2. stack # <<>>
  BY <1>1 DEF Levels
<1>3. leaked' \in [Inodes -> Nat]
      /\ \A k \in Inodes : leaked'[k] = leaked[k] + Is(value \in Inodes, k, value)
  BY <1>1 DEF Opened, Is
<1>4. CASE ~CanClose(refs, curdir)
  <2>1. aborted' = TRUE /\ UNCHANGED <<refs, curdir, stack, at, value>>
    BY <1>4 DEF GiveUp
  <2>2. curdir = INO_EOF
    BY <1>4, StillOpen DEF Resolving
  <2>3. Types'
    BY <2>1, <1>1, <1>3 DEF Types
  <2>4. InOrder'
    BY <2>1, <1>1 DEF Levels, InOrder
  <2> QED BY <2>1, <2>2, <2>3, <2>4 DEF IInv, Aborting
<1>5. CASE CanClose(refs, curdir)
  <2>1. /\ refs' = Closed(refs, curdir) /\ curdir' = INO_EOF /\ Return(v)
        /\ aborted' = aborted /\ curdir \in Inodes
    BY <1>5 DEF GiveUp, CanClose
  <2>2. v \notin Inodes
    OBVIOUS
  <2>3. /\ stack' \in Seq(Frames) /\ Levels' /\ value' = v
        /\ at' \in {"end", "reload"}
    BY <2>1, <2>2, <1>1, <1>2, Returning
  <2>4. \A k \in Inodes : refs[k] = leaked[k] + Is(TRUE, k, root) + Is(TRUE, k, curdir)
                                      + Is(TRUE, k, value)
    BY <1>1 DEF References, Counted, Is, Resolving
  <2>5. \A k \in Inodes : refs'[k] = refs[k] - Is(TRUE, k, curdir)
    BY <2>1, <1>1 DEF Closed, Is
  <2>6. \A k \in Inodes : refs'[k] = leaked[k] + Is(TRUE, k, root) + Is(TRUE, k, value)
    BY <2>4, <2>5, <1>1 DEF Is
  <2>7. \A k \in Inodes : Is(TRUE, k, value) = Is(value \in Inodes, k, value)
    BY DEF Is
  <2>8. refs' \in [Inodes -> Nat]
    <3>1. \A k \in Inodes : refs'[k] \in Nat
      BY <2>6, <1>1 DEF Is
    <3> QED BY <3>1, <2>1, <1>1 DEF Closed
  <2>9. References'
    <3> SUFFICES ASSUME NEW k \in Inodes PROVE refs'[k] = Counted(k)'
      BY DEF References
    <3>1. Counted(k)' = leaked'[k] + Is(TRUE, k, root)
      BY <1>3, <2>1, <2>2, <2>3 DEF Counted, Is, Resolving
    <3> QED BY <3>1, <1>1, <1>3, <2>6, <2>7 DEF Is
  <2>10. Types'
    BY <1>1, <1>3, <2>1, <2>3, <2>8 DEF Types
  <2>11. Curdir'
    BY <2>1, <2>2, <2>3 DEF Curdir
  <2> QED BY <2>1, <2>3, <2>9, <2>10, <2>11 DEF IInv, Aborting
<1> QED BY <1>4, <1>5

(* No such component. *)
LEMMA LostStep ==
  ASSUME IInv, ~aborted, Lost, UNCHANGED <<tree, call>>
  PROVE  IInv'
<1>1. at = "found" /\ value \notin Inodes /\ GiveUp(value) /\ leaked' = leaked
  BY DEF Lost
<1>2. value \in {INO_EOF} \cup Errors
  BY <1>1 DEF IInv, Types
<1> QED BY <1>1, <1>2, GivingUp

(* A component that is no directory. *)
LEMMA NoDirectoryStep ==
  ASSUME IInv, ~aborted, NoDirectory, UNCHANGED <<tree, call>>
  PROVE  IInv'
<1>1. at = "found" /\ value \in Inodes /\ GiveUp(ENOTDIR) /\ leaked' = Opened(leaked, value)
  BY DEF NoDirectory
<1>2. ENOTDIR \in {INO_EOF} \cup Errors
  BY DEF Errors
<1> QED BY <1>1, <1>2, GivingUp

(* The next directory is held as current. *)
LEMMA GoOnStep ==
  ASSUME IInv, ~aborted, GoOn, UNCHANGED <<tree, call>>
  PROVE  IInv'
<1> USE Constants
<1> DEFINE f == [top EXCEPT !.current = value, !.todo = Tail(@)]
<1>0. /\ at = "found" /\ at' = "walk" /\ ~IsLast /\ value \in Dirs /\ SetTop(f)
      /\ UNCHANGED <<refs, curdir, value, aborted, leaked, call, target>>
  BY DEF GoOn, tree
<1>1. /\ Types /\ Levels /\ Curdir /\ References
      /\ \A k \in Inodes : refs[k] \in Nat /\ leaked[k] \in Nat
  BY Going
<1>2. /\ stack # <<>> /\ Len(stack) \in Nat /\ top = stack[Len(stack)] /\ top \in Frames
      /\ top.level <= MaxLevel /\ curdir \in Dirs
  BY <1>0, <1>1, TopIs DEF Levels, Curdir
<1>3. Tail(top.todo) \in Seq(Strings) \ {<<>>}
  <2>1. top.todo \in Seq(Strings) /\ top.todo # <<>>
    BY <1>2 DEF Frames
  <2> QED BY <2>1, <1>0, Onward DEF IsLast
<1>4. f \in Frames /\ f.level = top.level /\ f.current = value
  BY <1>0, <1>2, <1>3 DEF Frames
<1> HIDE DEF f
<1>5. /\ stack' \in Seq(Frames) /\ InOrder' /\ stack' # <<>>
      /\ stack'[Len(stack')] = f
  BY <1>0, <1>1, <1>2, <1>4, Moving
<1>6. Types'
  BY <1>0, <1>1, <1>5 DEF Types
<1>7. Levels'
  BY <1>0, <1>2, <1>4, <1>5 DEF Levels
<1>8. Curdir'
  BY <1>0, <1>2, <1>4, <1>5 DEF Curdir
<1>9. References'
  <2> SUFFICES ASSUME NEW k \in Inodes PROVE refs'[k] = Counted(k)'
    BY DEF References
  <2>1. Counted(k)' = leaked[k] + Is(TRUE, k, root) + Is(TRUE, k, curdir) + Is(TRUE, k, value)
    BY <1>0, <1>1, <1>4, <1>5 DEF Counted, Is, Resolving
  <2>2. Counted(k) = leaked[k] + Is(TRUE, k, root) + Is(TRUE, k, curdir) + Is(TRUE, k, value)
    BY <1>0, <1>1 DEF Counted, Is, Resolving
  <2> QED BY <2>1, <2>2, <1>0, <1>1 DEF References
<1> QED BY <1>0, <1>6, <1>7, <1>8, <1>9 DEF IInv, Aborting

(* The last component is the answer, or INO_EOF is. *)
LEMMA FinalStep ==
  ASSUME IInv, ~aborted, Final, UNCHANGED <<tree, call>>
  PROVE  IInv'
<1> USE Constants
<1> DEFINE v == IF value \in Inodes THEN value ELSE INO_EOF
<1>0. /\ at = "found" /\ Return(v)
      /\ UNCHANGED <<refs, curdir, aborted, leaked, call, target>>
  BY DEF Final, tree
<1>1. /\ Types /\ Levels /\ Curdir /\ References
      /\ \A k \in Inodes : refs[k] \in Nat /\ leaked[k] \in Nat
  BY Going
<1>2. /\ stack # <<>> /\ top = stack[Len(stack)]
      /\ value \in Inodes => top.level <= MaxLevel /\ curdir \in Dirs
  BY <1>0, <1>1, TopIs DEF Levels, Curdir
<1>3. v \in Inodes => v = value /\ top.level <= MaxLevel
  BY <1>2
<1>4. (v \in Inodes <=> value \in Inodes) /\ v \in Inodes \cup {INO_EOF} /\ v \notin Errors
  OBVIOUS
<1> HIDE DEF v
<1>5. /\ stack' \in Seq(Frames) /\ Levels' /\ value' = v
      /\ at' \in {"end", "reload"}
  BY <1>0, <1>1, <1>2, <1>3, Returning
<1>6. Types'
  BY <1>0, <1>1, <1>4, <1>5 DEF Types
<1>7. Curdir'
  BY <1>0, <1>2, <1>4, <1>5 DEF Curdir
<1>8. References'
  <2> SUFFICES ASSUME NEW k \in Inodes PROVE refs'[k] = Counted(k)'
    BY DEF References
  <2>1. Is(TRUE, k, v) = Is(TRUE, k, value)
    BY <1>3, <1>4 DEF Is
  <2>2. Counted(k)' = leaked[k] + Is(TRUE, k, root) + Is(TRUE, k, curdir) + Is(TRUE, k, v)
    BY <1>0, <1>1, <1>5 DEF Counted, Is, Resolving
  <2>3. Counted(k) = leaked[k] + Is(TRUE, k, root) + Is(TRUE, k, curdir) + Is(TRUE, k, value)
    BY <1>0, <1>1 DEF Counted, Is, Resolving
  <2> QED BY <2>1, <2>2, <2>3, <1>0, <1>1 DEF References
<1> QED BY <1>0, <1>5, <1>6, <1>7, <1>8 DEF IInv, Aborting

(* namei gives the root back, and *curdir if nobody asked for it. *)
LEMMA EndStep ==
  ASSUME IInv, ~aborted, End, UNCHANGED <<tree, call>>
  PROVE  IInv'
<1> USE Constants
<1> DEFINE r == Closed(refs, root)
<1>0. /\ at = "end" /\ UNCHANGED <<stack, value, leaked, call, target>>
  BY DEF End, tree
<1>1. /\ Types /\ Levels /\ Curdir /\ References
      /\ \A k \in Inodes : refs[k] \in Nat /\ leaked[k] \in Nat
      /\ refs \in [Inodes -> Nat]
  BY Going DEF Types
<1>2. /\ r \in [Inodes -> Nat]
      /\ \A k \in Inodes : r[k] = leaked[k] + Is(TRUE, k, curdir) + Is(TRUE, k, value)
  <2>1. \A k \in Inodes : refs[k] = leaked[k] + Is(TRUE, k, root) + Is(TRUE, k, curdir)
                                      + Is(TRUE, k, value)
    BY <1>0, <1>1 DEF References, Counted, Is, Resolving
  <2>2. \A k \in Inodes : r[k] = refs[k] - Is(TRUE, k, root)
    BY <1>1 DEF Closed, Is
  <2>3. \A k \in Inodes : r[k] = leaked[k] + Is(TRUE, k, curdir) + Is(TRUE, k, value)
    BY <2>1, <2>2, <1>1 DEF Is
  <2>4. \A k \in Inodes : r[k] \in Nat
    BY <2>3, <1>1 DEF Is
  <2> QED BY <2>3, <2>4, <1>1 DEF Closed
<1>3. curdir \in Dirs \cup {INO_EOF} /\ value \in Inodes \cup {INO_EOF} \cup Errors
  BY <1>1 DEF Types
<1>4. CASE ~call.null
  <2>1. refs' = r /\ at' = "done" /\ UNCHANGED <<curdir, aborted>>
    BY <1>4 DEF End
  <2>2. Types'
    BY <2>1, <1>0, <1>1, <1>2 DEF Types
  <2>3. Levels' /\ Curdir'
    BY <2>1, <1>0, <1>1, <1>4 DEF Levels, InOrder, Curdir
  <2>4. References'
    <3> SUFFICES ASSUME NEW k \in Inodes PROVE refs'[k] = Counted(k)'
      BY DEF References
    <3>1. Counted(k)' = leaked[k] + Is(TRUE, k, curdir) + Is(TRUE, k, value)
      BY <2>1, <1>0, <1>1 DEF Counted, Is, Resolving
    <3> QED BY <3>1, <2>1, <1>2
  <2> QED BY <2>1, <2>2, <2>3, <2>4 DEF IInv, Aborting
<1>5. CASE call.null /\ CanClose(r, curdir)
  <2>1. /\ refs' = Closed(r, curdir) /\ at' = "done" /\ curdir' = INO_EOF
        /\ aborted' = aborted /\ curdir \in Inodes
    BY <1>5 DEF End, CanClose
  <2>2. \A k \in Inodes : refs'[k] = leaked[k] + Is(TRUE, k, value)
    <3>1. \A k \in Inodes : refs'[k] = r[k] - Is(TRUE, k, curdir)
      BY <2>1, <1>2 DEF Closed, Is
    <3> QED BY <3>1, <1>1, <1>2 DEF Is
  <2>3. refs' \in [Inodes -> Nat]
    <3>1. \A k \in Inodes : refs'[k] \in Nat
      BY <2>2, <1>1 DEF Is
    <3> QED BY <3>1, <2>1, <1>2 DEF Closed
  <2>4. Types'
    BY <2>1, <2>3, <1>0, <1>1 DEF Types
  <2>5. Levels' /\ Curdir'
    BY <2>1, <1>0, <1>1, <1>5 DEF Levels, InOrder, Curdir
  <2>6. References'
    <3> SUFFICES ASSUME NEW k \in Inodes PROVE refs'[k] = Counted(k)'
      BY DEF References
    <3>1. Counted(k)' = leaked[k] + Is(TRUE, k, value)
      BY <2>1, <1>0, <1>1 DEF Counted, Is, Resolving
    <3> QED BY <3>1, <2>2
  <2> QED BY <2>1, <2>4, <2>5, <2>6 DEF IInv, Aborting
<1>6. CASE call.null /\ ~CanClose(r, curdir)
  <2>1. aborted' = TRUE /\ UNCHANGED <<refs, curdir, at>>
    BY <1>6 DEF End
  <2>2. curdir = INO_EOF
    <3>1. ASSUME curdir \in Dirs PROVE r[curdir] > 0
      BY <3>1, <1>1, <1>2 DEF Is
    <3> QED BY <3>1, <1>3, <1>6 DEF CanClose
  <2>3. Types'
    BY <2>1, <1>0, <1>1 DEF Types
  <2>4. InOrder'
    BY <1>0, <1>1 DEF Levels, InOrder
  <2> QED BY <2>1, <2>2, <2>3, <2>4, <1>0 DEF IInv, Aborting
<1> QED BY <1>4, <1>5, <1>6

(* The caller gives back what it was given. *)
LEMMA ReleaseStep ==
  ASSUME IInv, ~aborted, Release, UNCHANGED <<tree, call>>
  PROVE  IInv'
<1> USE Constants
<1> DEFINE r == IF value \in Inodes THEN Closed(refs, value) ELSE refs
<1>0. /\ at = "done" /\ at' = "over"
      /\ UNCHANGED <<curdir, stack, value, aborted, leaked, call, target>>
      /\ refs' = IF ~call.null /\ value \in Inodes \cup {INO_EOF} /\ CanClose(r, curdir)
                 THEN Closed(r, curdir) ELSE r
  BY DEF Release, tree
<1>1. /\ Types /\ Levels /\ Curdir /\ References
      /\ \A k \in Inodes : refs[k] \in Nat /\ leaked[k] \in Nat
      /\ refs \in [Inodes -> Nat]
      /\ curdir \in Dirs \cup {INO_EOF} /\ value \in Inodes \cup {INO_EOF} \cup Errors
  BY Going DEF Types
<1>2. /\ r \in [Inodes -> Nat]
      /\ \A k \in Inodes : r[k] = leaked[k] + Is(TRUE, k, curdir)
  <2>1. \A k \in Inodes : refs[k] = leaked[k] + Is(TRUE, k, curdir) + Is(TRUE, k, value)
    BY <1>0, <1>1 DEF References, Counted, Is, Resolving
  <2>2. \A k \in Inodes : r[k] = refs[k] - Is(TRUE, k, value)
    BY <1>1 DEF Closed, Is
  <2>3. \A k \in Inodes : r[k] = leaked[k] + Is(TRUE, k, curdir)
    BY <2>1, <2>2, <1>1 DEF Is
  <2>4. \A k \in Inodes : r[k] \in Nat
    BY <2>3, <1>1 DEF Is
  <2> QED BY <2>3, <2>4, <1>1 DEF Closed
<1> HIDE DEF r
<1>3. refs' \in [Inodes -> Nat] /\ \A k \in Inodes : refs'[k] = leaked[k]
  <2>1. CASE curdir = INO_EOF
    <3>1. ~CanClose(r, curdir)
      BY <2>1 DEF CanClose
    <3> QED BY <3>1, <2>1, <1>0, <1>1, <1>2 DEF Is
  <2>2. CASE curdir \in Dirs
    <3>1. ~call.null /\ value \in Inodes \cup {INO_EOF}
      BY <2>2, <1>0, <1>1 DEF Curdir
    <3>2. CanClose(r, curdir)
      BY <2>2, <1>1, <1>2 DEF CanClose, Is
    <3>3. refs' = Closed(r, curdir)
      BY <3>1, <3>2, <1>0
    <3>4. \A k \in Inodes : refs'[k] = leaked[k]
      BY <3>3, <1>1, <1>2 DEF Closed, Is
    <3> QED BY <3>3, <3>4, <1>1, <1>2 DEF Closed
  <2> QED BY <2>1, <2>2, <1>1
<1>4. Types'
  BY <1>0, <1>1, <1>3 DEF Types
<1>5. Levels' /\ Curdir'
  BY <1>0, <1>1 DEF Levels, InOrder, Curdir
<1>6. References'
  <2> SUFFICES ASSUME NEW k \in Inodes PROVE refs'[k] = Counted(k)'
    BY DEF References
  <2>1. Counted(k)' = leaked[k]
    BY <1>0, <1>1 DEF Counted, Is, Resolving
  <2> QED BY <2>1, <1>3
<1> QED BY <1>0, <1>4, <1>5, <1>6 DEF IInv, Aborting

-----------------------------------------------------------------------------
(* Before the call nothing is held. *)
LEMMA Initial == Init => IInv
<1> USE Constants
<1> SUFFICES ASSUME Init PROVE IInv
  OBVIOUS
<1>1. stack = <<>> /\ at = "idle" /\ aborted = FALSE /\ curdir = INO_EOF /\ value = INO_EOF
      /\ refs = [i \in Inodes |-> 0] /\ leaked = [i \in Inodes |-> 0]
      /\ target \in [Links -> Targets]
  BY DEF Init, NoReferences
<1>2. call \in [path : Paths \cup {<<>>}, deref : BOOLEAN, null : BOOLEAN]
  BY DEF Init
<1>3. Types
  <2>1. stack \in Seq(Frames)
    BY <1>1, EmptySeq
  <2>2. refs \in [Inodes -> Nat] /\ leaked \in [Inodes -> Nat]
    BY <1>1
  <2> QED BY <2>1, <2>2, <1>1, <1>2 DEF Types
<1>4. Levels /\ Curdir
  BY <1>1 DEF Levels, InOrder, Curdir
<1>5. References
  BY <1>1 DEF References, Counted, Is, Resolving
<1> QED BY <1>1, <1>3, <1>4, <1>5 DEF IInv, Aborting

(* A step that changes nothing keeps the invariant. *)
LEMMA Stuttering == ASSUME IInv, UNCHANGED vars PROVE IInv'
<1>1. UNCHANGED <<target, call, refs, curdir, stack, at, value, aborted, leaked>>
  BY DEF vars
<1>2. Types'
  BY <1>1 DEF IInv, Types
<1>3. InOrder' <=> InOrder
  BY <1>1 DEF InOrder
<1>4. Aborting'
  BY <1>1, <1>3 DEF IInv, Aborting
<1>5. ASSUME ~aborted PROVE Levels' /\ Curdir' /\ References'
  <2>1. Levels /\ Curdir /\ References
    BY <1>5 DEF IInv
  <2>2. Levels'
    BY <2>1, <1>1, <1>3 DEF Levels
  <2>3. Curdir'
    BY <2>1, <1>1 DEF Curdir
  <2>4. \A i : Counted(i)' = Counted(i)
    BY <1>1 DEF Counted, Is, Resolving
  <2>5. References'
    BY <2>1, <2>4, <1>1 DEF References
  <2> QED BY <2>2, <2>3, <2>5
<1> QED BY <1>1, <1>2, <1>4, <1>5 DEF IInv

(* No step breaks it. *)
LEMMA Stepping == ASSUME IInv, Next PROVE IInv'
<1>1. CASE Call
  BY <1>1, CallStep
<1>2. CASE Step
  <2>1. ~aborted /\ UNCHANGED <<tree, call>>
    BY <1>2 DEF Step
  <2>2. \/ TooDeep \/ Enter \/ SkipEmpty \/ Descend \/ Reload
        \/ Lost \/ NoDirectory \/ GoOn \/ Final \/ End \/ Release
    BY <1>2 DEF Step
  <2> QED BY <2>1, <2>2, TooDeepStep, EnterStep, SkipEmptyStep, DescendStep, ReloadStep,
             LostStep, NoDirectoryStep, GoOnStep, FinalStep, EndStep, ReleaseStep
<1> QED BY <1>1, <1>2 DEF Next

(* What IInv says of the references, *curdir and the levels holds always,  *)
(* for every tree, every path and every depth of the recursion.            *)
THEOREM NameiInvariant == Spec => []IInv
<1>1. IInv /\ [Next]_vars => IInv'
  BY Stepping, Stuttering
<1> QED BY Initial, <1>1, PTL DEF Spec

-----------------------------------------------------------------------------
(* TypeOK holds always: no reference is given back that was not taken,     *)
(* *curdir is a directory or INO_EOF, and the recursion of namei_rec       *)
(* through links is never deeper than its level allows, though each        *)
(* activation follows as many links as its path has components.            *)
THEOREM NameiTypes == Spec => []TypeOK
<1>1. IInv => TypeOK
  <2> SUFFICES ASSUME IInv PROVE TypeOK
    OBVIOUS
  <2>1. Types /\ InOrder
    BY DEF IInv, Aborting, Levels
  <2>2. Len(stack) \in Nat /\ DOMAIN stack = 1 .. Len(stack)
        /\ \A k \in 1 .. Len(stack) : stack[k] \in Frames
    BY <2>1, LenProperties, ElementOfSeq DEF Types
  <2>3. Len(stack) <= MaxLevel + 2
    <3>1. CASE Len(stack) = 0
      BY <3>1, Constants
    <3>2. CASE Len(stack) # 0
      <4>1. Len(stack) \in 1 .. Len(stack)
        BY <3>2, <2>2
      <4>2. Len(stack) - 1 <= stack[Len(stack)].level
        BY <4>1, <2>1 DEF InOrder
      <4>3. stack[Len(stack)].level \in 0 .. MaxLevel + 1
        BY <4>1, <2>2 DEF Frames
      <4> QED BY <4>2, <4>3, <2>2, Constants
    <3> QED BY <3>1, <3>2
  <2>4. \A k \in DOMAIN stack :
          stack[k].current \in Dirs \cup {INO_EOF} /\ stack[k].level \in 0 .. MaxLevel + 1
    BY <2>2 DEF Frames
  <2> QED BY <2>1, <2>3, <2>4 DEF TypeOK, Types, Errors
<1> QED BY <1>1, NameiInvariant, PTL

(* What the caller of namei holds when it has given back what it was given *)
(* is what the return of ENOTDIR leaves behind.                            *)
LEMMA OnlyLeaked == ASSUME IInv, at = "over" PROVE refs = leaked
<1>1. Types /\ References
  BY DEF IInv, Aborting
<1>2. \A i \in Inodes : refs[i] = leaked[i]
  <2>1. \A i \in Inodes : leaked[i] \in Nat
    BY <1>1 DEF Types
  <2> QED BY <2>1, <1>1 DEF References, Counted, Is, Resolving
<1> QED BY <1>1, <1>2 DEF Types

(* A caller that asks for the directory has one where an inode was found,  *)
(* and none where an error was returned (path.c:127): path_open closes it  *)
(* in the one case and not in the other.                                   *)
CurdirAsPromised ==
  at = "done" /\ ~call.null =>
    /\ value \in Inodes => curdir \in Dirs
    /\ value \notin Inodes \cup {INO_EOF} => curdir = INO_EOF

(* CurdirAsPromised holds always. *)
THEOREM NameiCurdir == Spec => []CurdirAsPromised
<1>1. IInv => CurdirAsPromised
  BY DEF IInv, Aborting, Types, Curdir, CurdirAsPromised
<1> QED BY <1>1, NameiInvariant, PTL

(* An assertion of path.c fails only when *curdir has been given back: the *)
(* one at path.c:94, before a component is looked up, never does.          *)
AbortsWithoutCurdir == aborted => curdir = INO_EOF /\ at \in {"found", "end"}

(* AbortsWithoutCurdir holds always. *)
THEOREM NameiAborts == Spec => []AbortsWithoutCurdir
<1>1. IInv => AbortsWithoutCurdir
  BY DEF IInv, Aborting, AbortsWithoutCurdir
<1> QED BY <1>1, NameiInvariant, PTL

-----------------------------------------------------------------------------
(* A set of numbers that is not empty has a least one. *)
LEMMA Least ==
  ASSUME NEW S \in SUBSET Nat, S # {}
  PROVE  \E n \in S : \A m \in S : n <= m
<1>1. \E n \in S : \A m \in S : ~(<<m, n>> \in OpToRel(<, Nat))
  BY WFMin, NatLessThanWellFounded
<1>2. PICK n \in S : \A m \in S : ~(<<m, n>> \in OpToRel(<, Nat))
  BY <1>1
<1>3. \A m \in S : ~(m < n)
  BY <1>2 DEF OpToRel
<1> QED BY <1>3

(* The reference definition and its steps, as recursive functions.  What   *)
(* each is at a number follows from what it is at the one before.          *)
LEMMA StepsIs ==
  /\ \A k \in 0 .. MaxLevel : Steps[k] \in Nat /\ Steps[k] >= Longest
  /\ Steps[0] = Longest
  /\ \A k \in 1 .. MaxLevel : Steps[k] = 2 * Steps[k - 1]
<1> DEFINE P(f, m) == f[0] = Longest /\ \A k \in 1 .. m : f[k] = 2 * f[k - 1]
           S == {m \in Nat : ~\E f : P(f, m)}
<1>1. S = {}
  <2> SUFFICES ASSUME S # {} PROVE FALSE
    OBVIOUS
  <2>1. PICK m \in S : \A k \in S : m <= k
    BY Least
  <2>2. m # 0
    <3> DEFINE f == [k \in {0} |-> Longest]
    <3>1. P(f, 0)
      OBVIOUS
    <3> QED BY <3>1
  <2>3. m - 1 \in Nat /\ m - 1 \notin S
    BY <2>1, <2>2
  <2>4. PICK f : P(f, m - 1)
    BY <2>3
  <2> DEFINE g == [k \in 0 .. m |-> IF k = m THEN 2 * f[m - 1] ELSE f[k]]
  <2>5. P(g, m)
    <3>1. /\ g[0] = f[0] /\ g[m] = 2 * f[m - 1]
          /\ \A k \in 0 .. m - 1 : g[k] = f[k]
      BY <2>3
    <3> HIDE DEF g
    <3>2. ASSUME NEW k \in 1 .. m PROVE g[k] = 2 * g[k - 1]
      <4>1. CASE k = m
        BY <4>1, <3>1, <2>3
      <4>2. CASE k # m
        <5>1. k \in 1 .. m - 1 /\ k - 1 \in 0 .. m - 1 /\ k \in 0 .. m - 1
          BY <4>2, <2>3
        <5> QED BY <5>1, <3>1, <2>4
      <4> QED BY <4>1, <4>2
    <3> QED BY <3>1, <3>2, <2>4
  <2> QED BY <2>1, <2>5
<1>2. MaxLevel \in Nat /\ Longest \in Nat
  BY NameiAssumption
<1>3. PICK h : P(h, MaxLevel)
  BY <1>1, <1>2
<1> DEFINE Twice(x) == 2 * x
           Eq(f) == f = [k \in 0 .. MaxLevel |-> IF k = 0 THEN Longest ELSE Twice(f[k - 1])]
           g == [k \in 0 .. MaxLevel |-> h[k]]
<1>4. Eq(g)
  <2>1. g[0] = Longest /\ \A k \in 1 .. MaxLevel : g[k] = Twice(g[k - 1])
    BY <1>2, <1>3
  <2> HIDE DEF g, Twice
  <2>2. ASSUME NEW k \in 0 .. MaxLevel
        PROVE  g[k] = IF k = 0 THEN Longest ELSE Twice(g[k - 1])
    <3>1. k = 0 \/ k \in 1 .. MaxLevel
      BY <1>2
    <3>2. 0 \notin 1 .. MaxLevel
      OBVIOUS
    <3> QED BY <3>1, <3>2, <2>1
  <2>3. g = [k \in 0 .. MaxLevel |-> g[k]]
    BY DEF g
  <2> QED BY <2>2, <2>3
<1>5. Eq(Steps)
  <2>1. \E f : Eq(f)
    BY <1>4
  <2> QED BY <2>1 DEF Steps
<1>6. /\ Steps[0] = Longest
      /\ \A k \in 1 .. MaxLevel : Steps[k] = 2 * Steps[k - 1]
  BY <1>2, <1>5
<1>7. \A k \in 0 .. MaxLevel : Steps[k] \in Nat /\ Steps[k] >= Longest
  <2> DEFINE Q(k) == Steps[k] \in Nat /\ Steps[k] >= Longest
             B == {k \in 0 .. MaxLevel : ~Q(k)}
  <2> SUFFICES ASSUME B # {} PROVE FALSE
    OBVIOUS
  <2>1. B \in SUBSET Nat
    BY <1>2
  <2>2. PICK k \in B : \A j \in B : k <= j
    BY <2>1, Least
  <2>3. k # 0
    BY <2>2, <1>6, <1>2
  <2>4. k - 1 \in 0 .. MaxLevel /\ k - 1 \notin B /\ k \in 1 .. MaxLevel
    BY <2>2, <2>3, <1>2
  <2>5. Q(k - 1) /\ Steps[k] = 2 * Steps[k - 1]
    BY <2>4, <1>6
  <2>6. Q(k)
    BY <2>5, <1>2
  <2> QED BY <2>6, <2>2
<1> QED BY <1>6, <1>7

(* Where the reference is after each step. *)
LEMMA WalkedIs ==
  /\ Fuel \in Nat /\ Fuel >= 1
  /\ Walked[0] = Walk(call.path)
  /\ \A n \in 1 .. Fuel : Walked[n] = WalkStep(Walked[n - 1])
  /\ Reference = Walked[Fuel]
<1> DEFINE P(f, m) == f[0] = Walk(call.path) /\ \A k \in 1 .. m : f[k] = WalkStep(f[k - 1])
           S == {m \in Nat : ~\E f : P(f, m)}
<1>1. S = {}
  <2> SUFFICES ASSUME S # {} PROVE FALSE
    OBVIOUS
  <2>1. PICK m \in S : \A k \in S : m <= k
    BY Least
  <2>2. m # 0
    <3> DEFINE f == [k \in {0} |-> Walk(call.path)]
    <3>1. P(f, 0)
      OBVIOUS
    <3> QED BY <3>1
  <2>3. m - 1 \in Nat /\ m - 1 \notin S
    BY <2>1, <2>2
  <2>4. PICK f : P(f, m - 1)
    BY <2>3
  <2> DEFINE g == [k \in 0 .. m |-> IF k = m THEN WalkStep(f[m - 1]) ELSE f[k]]
  <2>5. P(g, m)
    <3>1. /\ g[0] = f[0] /\ g[m] = WalkStep(f[m - 1])
          /\ \A k \in 0 .. m - 1 : g[k] = f[k]
      BY <2>3
    <3> HIDE DEF g
    <3>2. ASSUME NEW k \in 1 .. m PROVE g[k] = WalkStep(g[k - 1])
      <4>1. CASE k = m
        BY <4>1, <3>1, <2>3
      <4>2. CASE k # m
        <5>1. k \in 1 .. m - 1 /\ k - 1 \in 0 .. m - 1 /\ k \in 0 .. m - 1
          BY <4>2, <2>3
        <5> QED BY <5>1, <3>1, <2>4
      <4> QED BY <4>1, <4>2
    <3> QED BY <3>1, <3>2, <2>4
  <2> QED BY <2>1, <2>5
<1>2. Fuel \in Nat /\ Fuel >= 1
  <2>1. MaxLevel \in 0 .. MaxLevel
    BY NameiAssumption
  <2> QED BY <2>1, StepsIs DEF Fuel
<1>3. PICK h : P(h, Fuel)
  BY <1>1, <1>2
<1> DEFINE Eq(f) == f = [k \in 0 .. Fuel |-> IF k = 0 THEN Walk(call.path) ELSE WalkStep(f[k - 1])]
           g == [k \in 0 .. Fuel |-> h[k]]
<1>4. Eq(g)
  <2>1. g[0] = Walk(call.path) /\ \A k \in 1 .. Fuel : g[k] = WalkStep(g[k - 1])
    BY <1>2, <1>3
  <2>2. \A k \in 0 .. Fuel : g[k] = IF k = 0 THEN Walk(call.path) ELSE WalkStep(g[k - 1])
    BY <2>1
  <2>3. g = [k \in 0 .. Fuel |-> g[k]]
    OBVIOUS
  <2> HIDE DEF g
  <2> QED BY <2>2, <2>3
<1>5. Eq(Walked)
  <2>1. \E f : Eq(f)
    BY <1>4
  <2> QED BY <2>1 DEF Walked
<1>6. /\ Walked[0] = Walk(call.path)
      /\ \A n \in 1 .. Fuel : Walked[n] = WalkStep(Walked[n - 1])
  BY <1>2, <1>5
<1> QED BY <1>2, <1>6 DEF Reference

(* The reference depends on the tree and the arguments only. *)
LEMMA SameWalk ==
  ASSUME UNCHANGED <<tree, call>>
  PROVE  Walked' = Walked /\ Reference' = Reference
<1>1. target' = target /\ searchable' = searchable /\ call' = call
  BY DEF tree
<1>2. Walked' = Walked
  BY <1>1 DEF Walked, Fuel, WalkStep, Walk, Stop, Has, Child, Absolute
<1> QED BY <1>2 DEF Reference

(* A path that is followed by another. *)
LEMMA Joined ==
  ASSUME NEW S, NEW s \in Seq(S), s # <<>>, NEW t \in Seq(S)
  PROVE  /\ s \o t \in Seq(S) /\ s \o t # <<>> /\ Tail(s) \in Seq(S)
         /\ Head(s \o t) = Head(s)
         /\ Tail(s \o t) = Tail(s) \o t
         /\ Len(s) \in Nat /\ Len(s) >= 1 /\ Len(t) \in Nat
         /\ Len(s \o t) = Len(s) + Len(t) /\ Len(Tail(s)) = Len(s) - 1
         /\ Len(t) = 0 => t = <<>>
<1>1. /\ Len(s) \in Nat /\ Len(s) >= 1 /\ Len(t) \in Nat
      /\ Len(t) = 0 => t = <<>>
  BY LastFront, LenProperties, EmptySeq
<1>2. /\ s \o t \in Seq(S) /\ Len(s \o t) = Len(s) + Len(t)
      /\ \A i \in 1 .. Len(s) + Len(t) :
           (s \o t)[i] = IF i <= Len(s) THEN s[i] ELSE t[i - Len(s)]
  BY ConcatProperties
<1>3. s \o t # <<>>
  BY <1>1, <1>2, EmptySeq
<1>4. /\ Tail(s) \in Seq(S) /\ Len(Tail(s)) = Len(s) - 1
      /\ \A i \in 1 .. Len(s) - 1 : Tail(s)[i] = s[i + 1]
  BY HeadTailProperties
<1>5. /\ Tail(s \o t) \in Seq(S) /\ Len(Tail(s \o t)) = Len(s) + Len(t) - 1
      /\ \A i \in 1 .. (Len(s) + Len(t)) - 1 : Tail(s \o t)[i] = (s \o t)[i + 1]
  BY <1>2, <1>3, HeadTailProperties
<1>6. Head(s \o t) = Head(s)
  BY <1>1, <1>2, <1>3
<1>7. /\ Tail(s) \o t \in Seq(S) /\ Len(Tail(s) \o t) = (Len(s) - 1) + Len(t)
      /\ \A i \in 1 .. (Len(s) - 1) + Len(t) :
           (Tail(s) \o t)[i] = IF i <= Len(s) - 1 THEN Tail(s)[i] ELSE t[i - (Len(s) - 1)]
  BY <1>4, ConcatProperties
<1>8. Tail(s \o t) = Tail(s) \o t
  <2> DEFINE a == Tail(s \o t)
             b == Tail(s) \o t
             n == Len(s)
             m == Len(t)
  <2>1. n \in Nat /\ n >= 1 /\ m \in Nat /\ Len(a) = (n - 1) + m /\ Len(b) = (n - 1) + m
        /\ a \in Seq(S) /\ b \in Seq(S)
    BY <1>1, <1>5, <1>7
  <2>2. ASSUME NEW i \in 1 .. (n - 1) + m PROVE a[i] = b[i]
    <3>1. i + 1 \in 1 .. n + m /\ i \in 1 .. (n + m) - 1
      BY <2>1
    <3>2. a[i] = IF i + 1 <= n THEN s[i + 1] ELSE t[(i + 1) - n]
      BY <3>1, <1>2, <1>5
    <3>3. b[i] = IF i <= n - 1 THEN Tail(s)[i] ELSE t[i - (n - 1)]
      BY <1>7
    <3>4. CASE i <= n - 1
      <4>1. i \in 1 .. n - 1 /\ i + 1 <= n
        BY <3>4, <2>1
      <4> QED BY <4>1, <3>2, <3>3, <3>4, <1>4
    <3>5. CASE ~(i <= n - 1)
      <4>1. ~(i + 1 <= n) /\ (i + 1) - n = i - (n - 1)
        BY <3>5, <2>1
      <4> QED BY <4>1, <3>2, <3>3, <3>5
    <3> QED BY <3>4, <3>5
  <2> HIDE DEF a, b, n, m
  <2>3. a = b
    BY <2>1, <2>2, SeqEqual
  <2> QED BY <2>3 DEF a, b
<1> QED BY <1>1, <1>2, <1>3, <1>4, <1>6, <1>8

-----------------------------------------------------------------------------
(* Where the reference may be. *)
Positions ==
  [dir : Dirs, cur : Inodes, todo : Seq(Strings), links : Nat,
   status : {"going", "found", "lost", "notdir", "missing"}]

(* What a name stands for is an inode. *)
LEMMA ChildIs ==
  ASSUME NEW d, NEW name, Has(d, name)
  PROVE  Child(d, name) \in Inodes
<1>1. PICK f \in Entries : f.dir = d /\ f.name = name
  BY DEF Has
<1>2. (CHOOSE e \in Entries : e.dir = d /\ e.name = name) \in Entries
  BY <1>1
<1> QED BY <1>2, NameiAssumption DEF Child

(* What the reference does in one step. *)
LEMMA WalkStepIs ==
  ASSUME target \in [Links -> Targets], NEW w \in Positions
  PROVE  /\ WalkStep(w) \in Positions
         /\ WalkStep(w).links \in Nat /\ w.links \in Nat
         /\ WalkStep(w).links >= w.links
         /\ w.status # "going" => WalkStep(w) = w
<1> DEFINE name == Head(w.todo)
           last == Len(w.todo) = 1
           i == Child(w.cur, name)
           path == target[i]
           start == IF Absolute(path) THEN root ELSE w.cur
<1>1. /\ w.dir \in Dirs /\ w.cur \in Inodes /\ w.todo \in Seq(Strings) /\ w.links \in Nat
      /\ w.links + 1 \in Nat
  BY DEF Positions
<1>2. \A v \in Positions : \A s \in {"found", "lost", "notdir", "missing"} :
        Stop(v, s) \in Positions /\ Stop(v, s).links = v.links
  BY DEF Positions, Stop
<1>3. CASE w.status # "going"
  BY <1>3, <1>1 DEF WalkStep
<1>4. CASE w.status = "going" /\ (w.todo = <<>> \/ w.cur \notin Dirs)
  <2>1. WalkStep(w) \in {Stop(w, "found"), Stop(w, "notdir")}
    BY <1>4 DEF WalkStep
  <2> QED BY <2>1, <1>1, <1>2, <1>4
<1>5. CASE w.status = "going" /\ w.todo # <<>> /\ w.cur \in Dirs
  <2>1. Tail(w.todo) \in Seq(Strings)
    BY <1>1, <1>5, HeadTailProperties
  <2>2. CASE name = Empty
    <3>1. WalkStep(w) = [w EXCEPT !.todo = Tail(@)]
      BY <1>5, <2>2 DEF WalkStep
    <3>2. [w EXCEPT !.todo = Tail(@)] \in Positions
          /\ [w EXCEPT !.todo = Tail(@)].links = w.links
      BY <2>1 DEF Positions
    <3> QED BY <3>1, <3>2, <1>1, <1>5
  <2>3. CASE name # Empty /\ (w.cur \notin searchable \/ ~Has(w.cur, name))
    <3>1. WalkStep(w) = Stop([w EXCEPT !.dir = w.cur], IF last THEN "missing" ELSE "lost")
      BY <1>5, <2>3 DEF WalkStep
    <3>2. [w EXCEPT !.dir = w.cur] \in Positions /\ [w EXCEPT !.dir = w.cur].links = w.links
      BY <1>5 DEF Positions
    <3>3. (IF last THEN "missing" ELSE "lost") \in {"found", "lost", "notdir", "missing"}
      OBVIOUS
    <3>4. /\ Stop([w EXCEPT !.dir = w.cur], IF last THEN "missing" ELSE "lost") \in Positions
          /\ Stop([w EXCEPT !.dir = w.cur], IF last THEN "missing" ELSE "lost").links = w.links
      <4> DEFINE v == [w EXCEPT !.dir = w.cur]
                 s == IF last THEN "missing" ELSE "lost"
      <4>1. v \in Positions /\ s \in {"found", "lost", "notdir", "missing"} /\ v.links = w.links
        BY <3>2, <3>3
      <4> HIDE DEF v, s
      <4>2. Stop(v, s) \in Positions /\ Stop(v, s).links = w.links
        BY <4>1, <1>2
      <4> QED BY <4>2 DEF v, s
    <3> QED BY <3>1, <3>4, <1>1, <1>5
  <2>4. CASE name # Empty /\ w.cur \in searchable /\ Has(w.cur, name)
    <3>1. i \in Inodes
      BY <2>4, ChildIs
    <3>2. CASE i \in Links /\ (call.deref \/ ~last)
      <4> DEFINE v == [w EXCEPT !.dir = start, !.cur = start, !.todo = path \o Tail(@),
                                !.links = @ + 1]
      <4>1. WalkStep(w) = v
        BY <1>5, <2>4, <3>2 DEF WalkStep
      <4>2. path \in Seq(Strings)
        BY <3>2, NameiAssumption
      <4>3. start \in Dirs /\ start \in Inodes
        BY <1>5, NameiAssumption
      <4>4. path \o Tail(w.todo) \in Seq(Strings)
        BY <4>2, <2>1, ConcatProperties
      <4>5. v \in Positions /\ v.links = w.links + 1
        <5> DEFINE joined == path \o Tail(w.todo)
                   more == w.links + 1
        <5>1. v = [w EXCEPT !.dir = start, !.cur = start, !.todo = joined, !.links = more]
          OBVIOUS
        <5>2. joined \in Seq(Strings) /\ more \in Nat
          BY <4>4, <1>1
        <5> HIDE DEF v, start, joined, more
        <5> QED BY <4>3, <5>1, <5>2 DEF Positions, more
      <4> HIDE DEF v
      <4> QED BY <4>1, <4>5, <1>1, <1>5
    <3>3. CASE ~(i \in Links /\ (call.deref \/ ~last))
      <4> DEFINE v == [w EXCEPT !.dir = w.cur, !.cur = i, !.todo = Tail(@)]
      <4>1. WalkStep(w) = v
        BY <1>5, <2>4, <3>3 DEF WalkStep
      <4>5. v \in Positions /\ v.links = w.links
        <5> DEFINE cur == w.cur
                   rest == Tail(w.todo)
        <5>1. v = [w EXCEPT !.dir = cur, !.cur = i, !.todo = rest]
          OBVIOUS
        <5>2. cur \in Dirs /\ rest \in Seq(Strings)
          BY <2>1, <1>5
        <5> HIDE DEF v, i, cur, rest
        <5> QED BY <3>1, <5>1, <5>2 DEF Positions
      <4> HIDE DEF v
      <4> QED BY <4>1, <4>5, <1>1, <1>5
    <3> QED BY <3>2, <3>3
  <2> QED BY <2>2, <2>3, <2>4
<1> QED BY <1>3, <1>4, <1>5

(* Where the reference has been, and that it stays where it stops. *)
LEMMA WalkedTypes ==
  ASSUME Types
  PROVE  \A n \in 0 .. Fuel : Walked[n] \in Positions
<1> DEFINE B == {n \in 0 .. Fuel : Walked[n] \notin Positions}
<1> SUFFICES ASSUME B # {} PROVE FALSE
  OBVIOUS
<1>1. Fuel \in Nat /\ B \in SUBSET Nat
  BY WalkedIs
<1>2. PICK n \in B : \A k \in B : n <= k
  BY <1>1, Least
<1>3. CASE n = 0
  <2>1. call.path \in Seq(Strings)
    <3>1. call.path \in Paths \cup {<<>>}
      BY DEF Types
    <3>2. <<>> \in Seq(Strings)
      BY EmptySeq
    <3> QED BY <3>1, <3>2, NameiAssumption
  <2>2. Walk(call.path) \in Positions
    BY <2>1, Constants DEF Walk, Positions
  <2> QED BY <1>2, <1>3, <2>2, WalkedIs
<1>4. CASE n # 0
  <2>1. n \in 1 .. Fuel /\ n - 1 \in 0 .. Fuel /\ n - 1 \notin B
    BY <1>1, <1>2, <1>4
  <2>2. Walked[n] = WalkStep(Walked[n - 1]) /\ Walked[n - 1] \in Positions
    BY <2>1, WalkedIs
  <2>3. WalkStep(Walked[n - 1]) \in Positions
    BY <2>2, WalkStepIs DEF Types
  <2> QED BY <1>2, <2>2, <2>3
<1> QED BY <1>3, <1>4

(* The reference counts its links, and stays where it has stopped. *)
LEMMA Settled ==
  ASSUME Types, NEW n \in 0 .. Fuel
  PROVE  /\ Walked[n].links <= Reference.links
         /\ Walked[n].status # "going" => Reference = Walked[n]
<1> DEFINE After(k) == /\ Walked[n].links <= Walked[k].links
                       /\ Walked[n].status # "going" => Walked[k] = Walked[n]
           B == {k \in n .. Fuel : ~After(k)}
<1>1. Fuel \in Nat /\ n \in Nat
  BY WalkedIs
<1>2. B = {}
  <2> SUFFICES ASSUME B # {} PROVE FALSE
    OBVIOUS
  <2>1. B \in SUBSET Nat
    BY <1>1
  <2>2. PICK k \in B : \A j \in B : k <= j
    BY <2>1, Least
  <2>3. k # n
    <3>1. Walked[n].links \in Nat
      BY WalkedTypes DEF Positions
    <3> QED BY <2>2, <3>1
  <2>4. k \in 1 .. Fuel /\ k - 1 \in 0 .. Fuel /\ k - 1 \in n .. Fuel /\ k - 1 \notin B
    BY <2>2, <2>3, <1>1
  <2>5. /\ Walked[k] = WalkStep(Walked[k - 1]) /\ Walked[k - 1] \in Positions
        /\ After(k - 1)
    BY <2>4, WalkedIs, WalkedTypes
  <2>6. /\ Walked[k].links \in Nat /\ Walked[k - 1].links \in Nat
        /\ Walked[k].links >= Walked[k - 1].links
        /\ Walked[k - 1].status # "going" => Walked[k] = Walked[k - 1]
    BY <2>5, WalkStepIs DEF Types
  <2>7. Walked[n].links \in Nat
    BY WalkedTypes DEF Positions
  <2>8. After(k)
    BY <2>5, <2>6, <2>7
  <2> QED BY <2>2, <2>8
<1>3. Fuel \in n .. Fuel
  BY <1>1
<1>4. After(Fuel)
  BY <1>2, <1>3
<1> QED BY <1>4, WalkedIs

-----------------------------------------------------------------------------
(* For each activation: what is left of the paths of those below it, once  *)
(* it has returned, and how many steps the reference may take before.      *)
Below(rest, left) ==
  /\ rest \in [1 .. Len(stack) -> Seq(Strings)]
  /\ left \in [1 .. Len(stack) -> Int]
  /\ stack # <<>> => rest[1] = <<>> /\ left[1] = Steps[MaxLevel] /\ stack[1].deref = call.deref
  /\ \A k \in 2 .. Len(stack) :
       /\ rest[k] = Tail(stack[k - 1].todo) \o rest[k - 1]
       /\ left[k] = left[k - 1] - (Steps[MaxLevel - stack[k - 1].level] - Longest)
       /\ stack[k].deref = TRUE
       /\ ~call.deref => rest[k] # <<>>
  /\ \A k \in 1 .. Len(stack) : left[k] <= Steps[MaxLevel]
  /\ \A j, k \in 1 .. Len(stack) : j < k /\ rest[k] = <<>> => Len(stack[j].todo) = 1

(* Where the code is in the path that the reference has before it, which   *)
(* is where the reference is.                                              *)
Ahead == IF at \in {"enter", "walk"} THEN top.todo ELSE Tail(top.todo)
Here == IF at = "enter" THEN IF Absolute(top.todo) THEN root ELSE curdir
        ELSE IF at = "walk" THEN top.current ELSE value
There == IF at = "enter" THEN Here ELSE curdir
Spare == Steps[MaxLevel - top.level] - Longest
Along(n, rest, left) ==
  /\ Walked[n].status = "going"
  /\ Walked[n].todo = Ahead \o rest
  /\ Walked[n].cur = Here
  /\ Walked[n].dir = There
  /\ Walked[n].links >= top.level
  /\ n + Len(Walked[n].todo) + Spare <= left

(* The code is about to fail, or has; otherwise it is where the reference  *)
(* is after some number of steps.                                          *)
Failing ==
  \/ at = "enter" /\ top.level > MaxLevel
  \/ at \in {"reload", "found", "end"} /\ value \notin Inodes
Following ==
  at \in {"enter", "walk", "reload", "found"} /\ ~Failing =>
    \E n \in Nat, rest \in [1 .. Len(stack) -> Seq(Strings)],
       left \in [1 .. Len(stack) -> Int] :
      Below(rest, left) /\ Along(n, rest[Len(stack)], left[Len(stack)])

(* The next token of the activation at the top.                            *)
LEMMA BelowMoved ==
  ASSUME Types, stack # <<>>, NEW rest, NEW left, Below(rest, left), NEW f \in Frames,
         f.deref = top.deref, f.level = top.level, SetTop(f), call' = call
  PROVE  Below(rest, left)' /\ Len(stack') = Len(stack) /\ top' = f
<1>1. Len(stack) \in Nat /\ Len(stack) >= 1 /\ top = stack[Len(stack)]
  BY TopIs
<1>2. /\ stack' \in Seq(Frames) /\ stack' # <<>> /\ Len(stack') = Len(stack)
      /\ stack'[Len(stack)] = f
      /\ \A k \in 1 .. Len(stack) - 1 : stack'[k] = stack[k]
  <2>1. stack \in Seq(Frames) /\ stack' = Append(Front(stack), f)
    BY DEF Types, SetTop
  <2> QED BY <2>1, Exchanged
<1>3. top' = f
  BY <1>2, LastFront DEF top
<1> DEFINE m == Len(stack)
<1>4. /\ m \in Nat /\ m >= 1 /\ Len(stack') = m
      /\ \A k \in 1 .. m : stack'[k].deref = stack[k].deref /\ stack'[k].level = stack[k].level
      /\ \A k \in 1 .. m - 1 : stack'[k] = stack[k]
  BY <1>1, <1>2
<1> HIDE DEF m
<1>5. /\ \A k \in 2 .. m : k - 1 \in 1 .. m - 1 /\ k \in 1 .. m
      /\ \A j, k \in 1 .. m : j < k => j \in 1 .. m - 1
      /\ 1 \in 1 .. m
  BY <1>4
<1>6. Below(rest, left)'
  BY <1>2, <1>4, <1>5 DEF Below, m
<1> QED BY <1>2, <1>3, <1>6

(* The activation at the top returns.                                      *)
LEMMA BelowPopped ==
  ASSUME Types, stack # <<>>, Len(stack) # 1, NEW rest, NEW left, Below(rest, left),
         stack' = Front(stack), call' = call
  PROVE  \E m, r, l :
           /\ m \in Nat \ {0}
           /\ Below(r, l)' /\ Len(stack') = m /\ Len(stack) = m + 1
           /\ r \in [1 .. m -> Seq(Strings)] /\ l \in [1 .. m -> Int]
           /\ top' = stack[m] /\ stack[m] \in Frames
           /\ rest[m + 1] = Tail(stack[m].todo) \o r[m]
           /\ left[m + 1] = l[m] - (Steps[MaxLevel - stack[m].level] - Longest)
<1>0. PICK m, r, l : /\ m = Len(stack) - 1
                     /\ r = [k \in 1 .. m |-> rest[k]]
                     /\ l = [k \in 1 .. m |-> left[k]]
  OBVIOUS
<1>1. Len(stack) \in Nat /\ Len(stack) >= 1 /\ \A k \in 1 .. Len(stack) : stack[k] \in Frames
  BY LastFront DEF Types
<1>2. /\ m \in Nat /\ m >= 1 /\ Len(stack) = m + 1 /\ m + 1 - 1 = m
      /\ 1 .. m \subseteq 1 .. m + 1 /\ 2 .. m \subseteq 2 .. m + 1 /\ m + 1 \in 2 .. m + 1
      /\ \A k \in 2 .. m : k - 1 \in 1 .. m /\ k \in 1 .. m
      /\ 1 \in 1 .. m /\ m \in 1 .. m /\ m \in 1 .. m + 1
  BY <1>0, <1>1
<1>3. /\ stack' \in Seq(Frames) /\ Len(stack') = m
      /\ \A k \in 1 .. m : stack'[k] = stack[k]
  <2>1. stack \in Seq(Frames)
    BY DEF Types
  <2>2. /\ Front(stack) \in Seq(Frames) /\ Len(Front(stack)) = Len(stack) - 1
        /\ \A k \in 1 .. Len(stack) - 1 : Front(stack)[k] = stack[k]
    BY <2>1, LastFront
  <2> QED BY <2>2, <1>0
<1>4. stack' # <<>>
  BY <1>2, <1>3, EmptySeq
<1>5. top' = stack[m] /\ stack[m] \in Frames
  BY <1>1, <1>2, <1>3, <1>4, LastFront DEF top
<1>6. /\ r \in [1 .. m -> Seq(Strings)] /\ l \in [1 .. m -> Int]
      /\ \A k \in 1 .. m : r[k] = rest[k] /\ l[k] = left[k]
  <2>1. \A k \in 1 .. m : rest[k] \in Seq(Strings) /\ left[k] \in Int
    BY <1>2 DEF Below
  <2> QED BY <2>1, <1>0
<1>7. Below(r, l)'
  <2>1. /\ rest[1] = <<>> /\ left[1] = Steps[MaxLevel] /\ stack[1].deref = call.deref
        /\ \A k \in 2 .. m :
             /\ rest[k] = Tail(stack[k - 1].todo) \o rest[k - 1]
             /\ left[k] = left[k - 1] - (Steps[MaxLevel - stack[k - 1].level] - Longest)
             /\ stack[k].deref = TRUE
             /\ ~call.deref => rest[k] # <<>>
        /\ \A k \in 1 .. m : left[k] <= Steps[MaxLevel]
        /\ \A j, k \in 1 .. m : j < k /\ rest[k] = <<>> => Len(stack[j].todo) = 1
    BY <1>2 DEF Below
  <2>2. /\ r[1] = <<>> /\ l[1] = Steps[MaxLevel] /\ stack'[1].deref = call.deref
        /\ \A k \in 2 .. m :
             /\ r[k] = Tail(stack'[k - 1].todo) \o r[k - 1]
             /\ l[k] = l[k - 1] - (Steps[MaxLevel - stack'[k - 1].level] - Longest)
             /\ stack'[k].deref = TRUE
             /\ ~call.deref => r[k] # <<>>
        /\ \A k \in 1 .. m : l[k] <= Steps[MaxLevel]
    <3>1. /\ r[1] = rest[1] /\ l[1] = left[1] /\ stack'[1] = stack[1]
          /\ \A k \in 2 .. m :
               /\ r[k] = rest[k] /\ l[k] = left[k] /\ stack'[k] = stack[k]
               /\ r[k - 1] = rest[k - 1] /\ l[k - 1] = left[k - 1]
               /\ stack'[k - 1] = stack[k - 1]
      BY <1>2, <1>3, <1>6
    <3>2. \A k \in 1 .. m : l[k] <= Steps[MaxLevel]
      BY <2>1, <1>6
    <3>3. ASSUME NEW k \in 2 .. m
          PROVE  /\ r[k] = Tail(stack'[k - 1].todo) \o r[k - 1]
                 /\ l[k] = l[k - 1] - (Steps[MaxLevel - stack'[k - 1].level] - Longest)
                 /\ stack'[k].deref = TRUE
                 /\ ~call.deref => r[k] # <<>>
      <4>1. /\ r[k] = rest[k] /\ l[k] = left[k] /\ stack'[k] = stack[k]
            /\ r[k - 1] = rest[k - 1] /\ l[k - 1] = left[k - 1]
            /\ stack'[k - 1] = stack[k - 1]
        BY <3>1
      <4>2. /\ rest[k] = Tail(stack[k - 1].todo) \o rest[k - 1]
            /\ left[k] = left[k - 1] - (Steps[MaxLevel - stack[k - 1].level] - Longest)
            /\ stack[k].deref = TRUE
            /\ ~call.deref => rest[k] # <<>>
        BY <2>1
      <4> QED BY ONLY <4>1, <4>2
    <3> QED BY <3>1, <3>2, <3>3, <2>1
  <2>3. \A j, k \in 1 .. m : j < k /\ r[k] = <<>> => Len(stack'[j].todo) = 1
    BY <2>1, <1>3, <1>6
  <2> QED BY <2>2, <2>3, <1>3, <1>6 DEF Below
<1>8. /\ rest[m + 1] = Tail(stack[m].todo) \o r[m]
      /\ left[m + 1] = l[m] - (Steps[MaxLevel - stack[m].level] - Longest)
  <2>1. PICK k : k = m + 1
    OBVIOUS
  <2>2. k \in 2 .. Len(stack) /\ k - 1 = m
    BY <2>1, <1>2
  <2>3. /\ rest[k] = Tail(stack[m].todo) \o rest[m]
        /\ left[k] = left[m] - (Steps[MaxLevel - stack[m].level] - Longest)
    BY <2>2 DEF Below
  <2> QED BY <2>1, <2>3, <1>2, <1>6
<1>9. m \in Nat \ {0}
  BY <1>2
<1> WITNESS m, r, l
<1> QED BY <1>2, <1>3, <1>5, <1>6, <1>7, <1>8, <1>9

(* What lies below the activation for a link. *)
Pushes(rest, left, f, g) ==
  \E m, r, l :
    /\ m \in Nat \ {0}
    /\ Below(r, l)' /\ Len(stack') = m /\ top' = g
    /\ r \in [1 .. m -> Seq(Strings)] /\ l \in [1 .. m -> Int]
    /\ r[m] = Tail(top.todo) \o rest[Len(stack)]
    /\ l[m] = left[Len(stack)] - (Steps[MaxLevel - f.level] - Longest)

(* The activation at the top calls one for a link.                         *)
LEMMA BelowPushed ==
  ASSUME Types, stack # <<>>, NEW rest, NEW left, Below(rest, left),
         NEW f \in Frames, NEW g \in Frames, stack' = Front(stack) \o <<f, g>>,
         f.todo = top.todo, f.deref = top.deref, f.level \in 0 .. MaxLevel, g.deref = TRUE,
         top.deref = TRUE \/ Len(top.todo) # 1, call' = call
  PROVE  Pushes(rest, left, f, g)
<1>0. PICK n, m, more, less, r, l :
        /\ n = Len(stack) /\ m = n + 1
        /\ more = Tail(top.todo) \o rest[n]
        /\ less = left[n] - (Steps[MaxLevel - f.level] - Longest)
        /\ r = [k \in 1 .. m |-> IF k = m THEN more ELSE rest[k]]
        /\ l = [k \in 1 .. m |-> IF k = m THEN less ELSE left[k]]
  OBVIOUS
<1>1. /\ n \in Nat /\ n >= 1 /\ top = stack[n] /\ top \in Frames
      /\ \A k \in 1 .. n : stack[k] \in Frames
  BY <1>0, TopIs, LastFront DEF Types
<1>2. /\ stack' \in Seq(Frames) /\ stack' # <<>> /\ Len(stack') = m
      /\ stack'[n] = f /\ stack'[m] = g
      /\ \A k \in 1 .. n - 1 : stack'[k] = stack[k]
  <2>1. stack \in Seq(Frames)
    BY DEF Types
  <2> DEFINE t == Front(stack) \o <<f, g>>
  <2>2. /\ t \in Seq(Frames) /\ t # <<>> /\ Len(t) = Len(stack) + 1
        /\ t[Len(stack)] = f /\ t[Len(stack) + 1] = g
        /\ \A k \in 1 .. Len(stack) - 1 : t[k] = stack[k]
    <3>1. stack \in Seq(Frames) /\ stack # <<>> /\ f \in Frames /\ g \in Frames
      BY <2>1
    <3> HIDE DEF Frames
    <3> QED BY ONLY <3>1, Pushed
  <2>3. stack' = t
    OBVIOUS
  <2> HIDE DEF t
  <2> QED BY <2>2, <2>3, <1>0
<1>3. top' = g
  BY <1>2, LastFront DEF top
<1>4. /\ m \in Nat /\ m - 1 = n /\ n # m /\ 1 # m /\ 1 \in 1 .. m /\ 1 \in 1 .. n
      /\ n \in 1 .. n /\ m \in 1 .. m /\ m \in 2 .. m
      /\ \A k \in 1 .. m : k = m \/ k \in 1 .. n
      /\ \A k \in 1 .. n : k \in 1 .. m /\ k # m
      /\ \A k \in 2 .. m : k = m \/ k \in 2 .. n
      /\ \A k \in 2 .. n : k - 1 \in 1 .. n - 1 /\ k \in 1 .. n /\ k - 1 \in 1 .. n
      /\ \A j, k \in 1 .. m : j < k => j \in 1 .. n
      /\ \A j, k \in 1 .. n : j < k => j \in 1 .. n - 1
      /\ \A j \in 1 .. n : j = n \/ j < n
  BY <1>0, <1>1
<1>5. \A k \in 1 .. n : rest[k] \in Seq(Strings) /\ left[k] \in Int /\ left[k] <= Steps[MaxLevel]
  BY <1>0 DEF Below
<1>6. /\ top.todo \in Seq(Strings) /\ top.todo # <<>> /\ Tail(top.todo) \in Seq(Strings)
      /\ rest[n] \in Seq(Strings) /\ more \in Seq(Strings)
      /\ more = <<>> => Len(top.todo) = 1 /\ rest[n] = <<>>
  <2>1. top.todo \in Seq(Strings) /\ top.todo # <<>> /\ rest[n] \in Seq(Strings)
    BY <1>1, <1>4, <1>5 DEF Frames
  <2>2. Tail(top.todo) \in Seq(Strings)
    BY <2>1, HeadTailProperties
  <2>3. more \in Seq(Strings)
    BY <2>1, <2>2, <1>0, ConcatProperties
  <2>4. more = <<>> => Tail(top.todo) = <<>> /\ rest[n] = <<>>
    <3>1. /\ Len(more) = Len(Tail(top.todo)) + Len(rest[n])
          /\ Len(Tail(top.todo)) \in Nat /\ Len(rest[n]) \in Nat
      BY <2>1, <2>2, <1>0, ConcatProperties, LenProperties
    <3>2. \A s \in Seq(Strings) : Len(s) = 0 <=> s = <<>>
      BY EmptySeq
    <3>3. ASSUME more = <<>> PROVE Len(Tail(top.todo)) = 0 /\ Len(rest[n]) = 0
      <4>1. Len(more) = 0
        BY <3>3, <3>2, <2>3
      <4> DEFINE a == Len(Tail(top.todo))
                 b == Len(rest[n])
      <4>2. a \in Nat /\ b \in Nat /\ a + b = 0
        BY <4>1, <3>1
      <4> HIDE DEF a, b
      <4>3. a = 0 /\ b = 0
        BY <4>2
      <4> QED BY <4>3 DEF a, b
    <3> QED BY <3>2, <3>3, <2>1, <2>2
  <2>5. Tail(top.todo) = <<>> => Len(top.todo) = 1
    BY <2>1, Onward
  <2> QED BY <2>1, <2>2, <2>3, <2>4, <2>5
<1>7. less \in Int /\ less <= Steps[MaxLevel]
  <2>1. MaxLevel \in Nat /\ MaxLevel \in 0 .. MaxLevel /\ MaxLevel - f.level \in 0 .. MaxLevel
    BY Constants
  <2>2. /\ Steps[MaxLevel - f.level] \in Nat /\ Steps[MaxLevel - f.level] >= Longest
        /\ Steps[MaxLevel] \in Nat /\ Longest \in Nat
    BY <2>1, StepsIs, NameiAssumption
  <2>3. PICK a, b, c : a = left[n] /\ b = Steps[MaxLevel - f.level] /\ c = Steps[MaxLevel]
    OBVIOUS
  <2>4. /\ a \in Int /\ a <= c /\ b \in Nat /\ b >= Longest /\ c \in Nat /\ Longest \in Nat
        /\ less = a - (b - Longest)
    BY <2>2, <2>3, <1>0, <1>4, <1>5
  <2>5. less \in Int /\ less <= c
    BY ONLY <2>4
  <2> QED BY <2>3, <2>5
<1>8. /\ r \in [1 .. m -> Seq(Strings)] /\ l \in [1 .. m -> Int]
      /\ r[m] = more /\ l[m] = less
      /\ \A k \in 1 .. n : r[k] = rest[k] /\ l[k] = left[k]
  BY <1>0, <1>4, <1>5, <1>6, <1>7
<1>9. ~call.deref => more # <<>>
  <2> SUFFICES ASSUME ~call.deref, more = <<>> PROVE FALSE
    OBVIOUS
  <2>1. Len(top.todo) = 1 /\ rest[n] = <<>>
    BY <1>6
  <2>2. top.deref = TRUE
    BY <2>1
  <2>3. CASE n = 1
    BY <2>3, <2>2, <1>0, <1>1 DEF Below
  <2>4. CASE n # 1
    <3>1. n \in 2 .. n
      BY <2>4, <1>1
    <3> QED BY <3>1, <2>1, <1>0 DEF Below
  <2> QED BY <2>3, <2>4
<1>10. \A k \in 1 .. n : stack'[k].deref = stack[k].deref /\ stack'[k].todo = stack[k].todo
  <2>1. \A k \in 1 .. n : k = n \/ k \in 1 .. n - 1
    BY <1>4, <1>1
  <2> QED BY <2>1, <1>1, <1>2
<1>11. /\ r[1] = <<>> /\ l[1] = Steps[MaxLevel] /\ stack'[1].deref = call.deref
  BY <1>0, <1>4, <1>8, <1>10 DEF Below
<1>12. ASSUME NEW k \in 2 .. m
       PROVE  /\ r[k] = Tail(stack'[k - 1].todo) \o r[k - 1]
              /\ l[k] = l[k - 1] - (Steps[MaxLevel - stack'[k - 1].level] - Longest)
              /\ stack'[k].deref = TRUE
              /\ ~call.deref => r[k] # <<>>
  <2>1. CASE k = m
    <3>1. /\ stack'[k - 1] = f /\ r[k - 1] = rest[n] /\ l[k - 1] = left[n]
          /\ stack'[k] = g /\ r[k] = more /\ l[k] = less
      BY <2>1, <1>2, <1>4, <1>8
    <3> QED BY <3>1, <1>0, <1>9
  <2>2. CASE k # m
    <3>1. k \in 2 .. n /\ k - 1 \in 1 .. n - 1 /\ k \in 1 .. n /\ k - 1 \in 1 .. n
      BY <2>2, <1>4
    <3>2. /\ rest[k] = Tail(stack[k - 1].todo) \o rest[k - 1]
          /\ left[k] = left[k - 1] - (Steps[MaxLevel - stack[k - 1].level] - Longest)
          /\ stack[k].deref = TRUE
          /\ ~call.deref => rest[k] # <<>>
      BY <3>1, <1>0 DEF Below
    <3> QED BY <3>1, <3>2, <1>2, <1>8, <1>10
  <2> QED BY <2>1, <2>2
<1>13. \A k \in 1 .. m : l[k] <= Steps[MaxLevel]
  BY <1>4, <1>5, <1>7, <1>8
<1>14. ASSUME NEW j \in 1 .. m, NEW k \in 1 .. m, j < k, r[k] = <<>>
       PROVE  Len(stack'[j].todo) = 1
  <2>0. j \in 1 .. n /\ stack'[j].todo = stack[j].todo
    BY <1>14, <1>4, <1>10
  <2>1. CASE k = m
    <3>1. Len(top.todo) = 1 /\ rest[n] = <<>>
      BY <2>1, <1>14, <1>8, <1>6
    <3>2. CASE j = n
      BY <3>1, <3>2, <2>0, <1>1
    <3>3. CASE j # n
      <4>1. j < n /\ n \in 1 .. n
        BY <3>3, <2>0, <1>4
      <4> QED BY <4>1, <3>1, <2>0, <1>0 DEF Below
    <3> QED BY <3>2, <3>3
  <2>2. CASE k # m
    <3>1. k \in 1 .. n /\ rest[k] = <<>>
      BY <2>2, <1>14, <1>4, <1>8
    <3> QED BY <3>1, <1>14, <2>0, <1>0 DEF Below
  <2> QED BY <2>1, <2>2
<1>15. Below(r, l)'
  <2>1. Len(stack') = m /\ call' = call
    BY <1>2
  <2> QED BY <2>1, <1>8, <1>11, <1>12, <1>13, <1>14 DEF Below
<1>16. m \in Nat \ {0} /\ Len(stack') = m
  BY <1>2, <1>4, <1>1
<1>17. /\ r[m] = Tail(top.todo) \o rest[Len(stack)]
       /\ l[m] = left[Len(stack)] - (Steps[MaxLevel - f.level] - Longest)
  BY <1>0, <1>8
<1> SUFFICES \E a, b, c :
      /\ a \in Nat \ {0}
      /\ Below(b, c)' /\ Len(stack') = a /\ top' = g
      /\ b \in [1 .. a -> Seq(Strings)] /\ c \in [1 .. a -> Int]
      /\ b[a] = Tail(top.todo) \o rest[Len(stack)]
      /\ c[a] = left[Len(stack)] - (Steps[MaxLevel - f.level] - Longest)
  BY DEF Pushes
<1> WITNESS m, r, l
<1> QED BY <1>3, <1>8, <1>15, <1>16, <1>17

(* The reference is lost, or has stopped at the name that is missing: then *)
(* every activation is at its last component.                              *)
Astray == Reference.status \in {"lost", "notdir"} \/ TooManyLinks
Wrong ==
  \/ Astray
  \/ Reference.status = "missing" /\ \A k \in 1 .. Len(stack) : Len(stack[k].todo) = 1

(* What the end promises: the file, a reason where *curdir has been given  *)
(* back, and the same for an assertion.                                    *)
Arrived ==
  at = "end" /\ value \in Inodes =>
    Reference.status = "found" /\ value = Reference.cur /\ curdir = Reference.dir
GivenBack == at \in {"reload", "found", "end"} /\ curdir = INO_EOF => Astray
Stopped == aborted => Astray /\ call.null

(* A path of the kernel, for a caller that does not want its last link     *)
(* followed: the components before todo lead to cur.                       *)
OnPath(todo, cur) ==
  \E j \in Nat : \E s \in [1 .. j -> Inodes] :
    /\ Leads(s, call.path)
    /\ cur = IF j = 0 THEN root ELSE s[j]
    /\ Len(todo) + j = Len(call.path)
    /\ \A k \in 1 .. Len(todo) : todo[k] = call.path[j + k]

(* For a caller that wants the last link itself no link is followed: the   *)
(* first activation is the only one.                                       *)
Missing == Reference.status = "missing" /\ curdir = Reference.dir /\ curdir \in Dirs
Unlinked ==
  /\ at # "reload"
  /\ at \in {"enter", "walk", "found"} => Len(stack) = 1
  /\ at = "enter" => top.todo = call.path /\ curdir = root
  /\ at = "walk" => OnPath(top.todo, top.current)
  /\ at = "found" =>
       /\ curdir \in Dirs /\ value # INO_EOF
       /\ value \in Inodes /\ ~IsLast => OnPath(Tail(top.todo), value)
       /\ value \notin Inodes /\ IsLast => Missing
  /\ at = "end" /\ value = INO_EOF => Missing
Plain ==
  /\ ~call.null => ~call.deref
  /\ at # "idle" => call.path \in Paths
  /\ ~call.deref => Unlinked
  /\ CurdirForCreate

(* What is kept together with IInv. *)
SInv ==
  /\ Following /\ (Failing => Wrong)
  /\ Arrived /\ GivenBack /\ Stopped /\ Plain

(* The reference has a step left for what the code does next. *)
LEMMA Walking ==
  ASSUME Types, stack # <<>>, top.level <= MaxLevel,
         NEW n \in Nat, NEW rest, NEW left, Below(rest, left),
         Along(n, rest[Len(stack)], left[Len(stack)])
  PROVE  /\ n \in 0 .. Fuel /\ n + 1 \in 0 .. Fuel /\ n + 1 \in Nat
         /\ Walked[n] \in Positions /\ Walked[n + 1] \in Positions
         /\ Walked[n + 1] = WalkStep(Walked[n])
         /\ rest[Len(stack)] \in Seq(Strings)
         /\ left[Len(stack)] \in Int
         /\ Spare \in Nat /\ top.level \in 0 .. MaxLevel
         /\ Walked[n].links \in Nat /\ Len(Walked[n].todo) \in Nat
<1>1. /\ Len(stack) \in 1 .. Len(stack) /\ top \in Frames
  BY TopIs
<1>2. /\ rest[Len(stack)] \in Seq(Strings) /\ left[Len(stack)] \in Int
      /\ left[Len(stack)] <= Steps[MaxLevel]
  BY <1>1 DEF Below
<1>3. /\ MaxLevel \in Nat /\ MaxLevel \in 0 .. MaxLevel
      /\ top.level \in 0 .. MaxLevel /\ MaxLevel - top.level \in 0 .. MaxLevel
  BY <1>1, Constants DEF Frames
<1>4. /\ Steps[MaxLevel - top.level] \in Nat /\ Longest \in Nat
      /\ Steps[MaxLevel - top.level] >= Longest
      /\ Steps[MaxLevel] \in Nat /\ Fuel = Steps[MaxLevel] + 1
  BY <1>3, StepsIs, NameiAssumption DEF Fuel
<1>5. Spare \in Nat
  BY <1>4 DEF Spare
<1>6. top.todo \in Seq(Strings) /\ top.todo # <<>> /\ Tail(top.todo) \in Seq(Strings)
  BY <1>1, HeadTailProperties DEF Frames
<1>7. Ahead \in Seq(Strings)
  BY <1>6 DEF Ahead
<1>8. Len(Walked[n].todo) \in Nat
  <2>1. Walked[n].todo = Ahead \o rest[Len(stack)]
    BY DEF Along
  <2>2. Ahead \o rest[Len(stack)] \in Seq(Strings)
    BY <1>2, <1>7, ConcatProperties
  <2> QED BY <2>1, <2>2, LenProperties
<1>9. n + Len(Walked[n].todo) + Spare <= left[Len(stack)]
  BY DEF Along
<1>10. n <= Steps[MaxLevel]
  BY <1>2, <1>4, <1>5, <1>8, <1>9
<1>11. n \in 0 .. Fuel /\ n + 1 \in 0 .. Fuel /\ n + 1 \in 1 .. Fuel /\ n + 1 \in Nat
       /\ (n + 1) - 1 = n
  BY <1>4, <1>10
<1>12. /\ Walked[n] \in Positions /\ Walked[n + 1] \in Positions
  BY <1>11, WalkedTypes
<1>13. Walked[n + 1] = WalkStep(Walked[n])
  <2>1. PICK k : k = n + 1
    OBVIOUS
  <2>2. k \in 1 .. Fuel /\ k - 1 = n
    BY <2>1, <1>11
  <2>3. Walked[k] = WalkStep(Walked[n])
    BY <2>2, WalkedIs
  <2> QED BY <2>1, <2>3
<1>14. Walked[n].links \in Nat
  BY <1>12 DEF Positions
<1> QED BY <1>2, <1>3, <1>5, <1>8, <1>11, <1>12, <1>13, <1>14

(* What is wrong stays wrong, while the activations return. *)
LEMMA WrongKept ==
  ASSUME Types, Wrong, UNCHANGED <<tree, call>>,
         stack' = stack \/ (stack # <<>> /\ stack' = Front(stack))
  PROVE  Wrong'
<1>1. Reference' = Reference
  BY SameWalk
<1>2. \A k \in 1 .. Len(stack') : k \in 1 .. Len(stack) /\ stack'[k] = stack[k]
  <2>1. CASE stack' = stack
    BY <2>1
  <2>2. CASE stack # <<>> /\ stack' = Front(stack)
    <3>1. stack \in Seq(Frames)
      BY DEF Types
    <3>2. /\ Len(stack) \in Nat /\ Len(stack) >= 1 /\ Len(stack') = Len(stack) - 1
          /\ \A k \in 1 .. Len(stack) - 1 : stack'[k] = stack[k]
      BY <2>2, <3>1, LastFront
    <3> QED BY <3>2
  <2> QED BY <2>1, <2>2
<1> QED BY <1>1, <1>2 DEF Wrong, Astray, TooManyLinks

(* The reference stops: where it is lost, or one name is missing.          *)
LEMMA Stops ==
  ASSUME Types, NEW n \in 0 .. Fuel, Walked[n].status # "going"
  PROVE  Reference = Walked[n]
BY Settled

-----------------------------------------------------------------------------
(* A path of the kernel, one component on. *)
LEMMA OnPathNext ==
  ASSUME NEW todo \in Seq(Strings), todo # <<>>, NEW cur, OnPath(todo, cur), NEW next \in Inodes,
         IF Head(todo) = Empty THEN next = cur
         ELSE cur \in Dirs /\ Has(cur, Head(todo)) /\ next = Child(cur, Head(todo)),
         call.path \in Paths
  PROVE  /\ OnPath(Tail(todo), next)
         /\ Len(todo) # 1 => next \notin Links
<1>0. PICK j \in Nat : \E s \in [1 .. j -> Inodes] :
        /\ Leads(s, call.path)
        /\ cur = IF j = 0 THEN root ELSE s[j]
        /\ Len(todo) + j = Len(call.path)
        /\ \A k \in 1 .. Len(todo) : todo[k] = call.path[j + k]
  BY DEF OnPath
<1>1. PICK s \in [1 .. j -> Inodes] :
        /\ Leads(s, call.path)
        /\ cur = IF j = 0 THEN root ELSE s[j]
        /\ Len(todo) + j = Len(call.path)
        /\ \A k \in 1 .. Len(todo) : todo[k] = call.path[j + k]
  BY <1>0
<1>2. PICK m, t : m = j + 1 /\ t = [k \in 1 .. m |-> IF k = m THEN next ELSE s[k]]
  OBVIOUS
<1>3. /\ m \in Nat /\ m # 0 /\ m - 1 = j /\ m \in 1 .. m /\ (m = 1 <=> j = 0)
      /\ \A k \in 1 .. m : k = m \/ k \in 1 .. j
      /\ \A k \in 1 .. j : k # m /\ k \in 1 .. m
      /\ \A k \in 1 .. j : k # 1 => k - 1 \in 1 .. j
      /\ j # 0 => j \in 1 .. j
  BY <1>2
<1>4. /\ t \in [1 .. m -> Inodes] /\ t[m] = next
      /\ \A k \in 1 .. j : t[k] = s[k]
      /\ DOMAIN t = 1 .. m /\ DOMAIN s = 1 .. j
  BY <1>2, <1>3
<1>5. /\ Len(todo) \in Nat /\ Len(todo) >= 1 /\ Head(todo) = todo[1]
      /\ Tail(todo) \in Seq(Strings) /\ Len(Tail(todo)) = Len(todo) - 1
      /\ \A k \in 1 .. Len(todo) - 1 : Tail(todo)[k] = todo[k + 1]
  BY LastFront, HeadTailProperties
<1>6. call.path[m] = Head(todo)
  <2>1. 1 \in 1 .. Len(todo)
    BY <1>5
  <2> QED BY <2>1, <1>1, <1>2, <1>5
<1>7. Leads(t, call.path)
  <2> SUFFICES ASSUME NEW k \in 1 .. m
               PROVE  LET d == IF k = 1 THEN root ELSE t[k - 1]
                      IN  IF call.path[k] = Empty THEN t[k] = d
                          ELSE /\ d \in Dirs /\ Has(d, call.path[k])
                               /\ t[k] = Child(d, call.path[k])
    BY <1>4 DEF Leads
  <2>1. CASE k = m
    <3>1. cur = IF k = 1 THEN root ELSE t[k - 1]
      BY <2>1, <1>1, <1>3, <1>4
    <3> QED BY <3>1, <2>1, <1>4, <1>6
  <2>2. CASE k # m
    <3>1. k \in 1 .. j
      BY <2>2, <1>3
    <3>2. LET d == IF k = 1 THEN root ELSE s[k - 1]
          IN  IF call.path[k] = Empty THEN s[k] = d
              ELSE /\ d \in Dirs /\ Has(d, call.path[k])
                   /\ s[k] = Child(d, call.path[k])
      BY <3>1, <1>1, <1>4 DEF Leads
    <3>3. t[k] = s[k] /\ (k # 1 => t[k - 1] = s[k - 1])
      BY <3>1, <1>3, <1>4
    <3> QED BY <3>2, <3>3
  <2> QED BY <2>1, <2>2
<1>8. OnPath(Tail(todo), next)
  <2>1. Len(Tail(todo)) + m = Len(call.path)
    BY <1>1, <1>2, <1>5
  <2>2. ASSUME NEW k \in 1 .. Len(Tail(todo))
        PROVE  Tail(todo)[k] = call.path[m + k]
    <3>1. k \in 1 .. Len(todo) - 1 /\ k + 1 \in 1 .. Len(todo) /\ j + (k + 1) = m + k
      BY <1>2, <1>5
    <3> QED BY <3>1, <1>1, <1>5
  <2>3. next = IF m = 0 THEN root ELSE t[m]
    BY <1>3, <1>4
  <2> QED BY <2>1, <2>2, <2>3, <1>3, <1>4, <1>7 DEF OnPath
<1>9. ASSUME Len(todo) # 1 PROVE next \notin Links
  <2>1. m \in 1 .. Len(call.path) - 1
    BY <1>1, <1>2, <1>3, <1>5, <1>9
  <2>2. t[m] \notin Links
    BY <2>1, <1>4, <1>7, KernelAssumption
  <2> QED BY <2>2, <1>4
<1> QED BY <1>8, <1>9

(* The whole path lies ahead. *)
LEMMA OnPathFirst ==
  ASSUME call.path \in Seq(Strings)
  PROVE  OnPath(call.path, root)
<1>1. PICK s : s = [k \in 1 .. 0 |-> root]
  OBVIOUS
<1>2. s \in [1 .. 0 -> Inodes] /\ Leads(s, call.path)
  BY <1>1 DEF Leads
<1>3. /\ Len(call.path) \in Nat
      /\ \A k \in 1 .. Len(call.path) : 0 + k = k
  BY LenProperties
<1>4. \E t \in [1 .. 0 -> Inodes] :
        /\ Leads(t, call.path)
        /\ root = IF 0 = 0 THEN root ELSE t[0]
        /\ Len(call.path) + 0 = Len(call.path)
        /\ \A k \in 1 .. Len(call.path) : call.path[k] = call.path[0 + k]
  <2>1. /\ Len(call.path) + 0 = Len(call.path)
        /\ \A k \in 1 .. Len(call.path) : call.path[k] = call.path[0 + k]
    BY <1>3
  <2> QED BY <2>1, <1>2
<1>5. 0 \in Nat
  OBVIOUS
<1> QED BY <1>4, <1>5 DEF OnPath

-----------------------------------------------------------------------------
(* An activation that was successful returns. *)
LEMMA ReturnsFound ==
  ASSUME Types, Levels, stack # <<>>, top.level <= MaxLevel,
         UNCHANGED <<tree, call>>,
         NEW n \in 0 .. Fuel, n + 1 \in 0 .. Fuel, NEW rest, NEW left, Below(rest, left),
         NEW v \in Inodes, Return(v),
         Walked[n].status = "going", Walked[n].todo = rest[Len(stack)],
         Walked[n].cur = v, Walked[n].dir = curdir', curdir' \in Dirs,
         Walked[n].links >= top.level,
         n + Len(rest[Len(stack)]) + Spare <= left[Len(stack)]
  PROVE  Following' /\ ~Failing' /\ Arrived' /\ GivenBack'
<1>0. Walked' = Walked /\ Reference' = Reference
  BY SameWalk
<1>1. /\ stack' = Front(stack) /\ value' = v
      /\ at' = IF Len(stack) = 1 THEN "end" ELSE "reload"
      /\ call' = call /\ v \in Inodes
  BY DEF Return
<1>2. Len(stack) \in Nat /\ Len(stack) >= 1 /\ top = stack[Len(stack)] /\ top \in Frames
  BY TopIs
<1>3. ~Failing' /\ GivenBack'
  BY <1>1, Constants DEF Failing, GivenBack
<1>4. CASE Len(stack) = 1
  <2>1. at' = "end"
    BY <1>1, <1>4
  <2>2. Walked[n].todo = <<>>
    BY <1>4 DEF Below
  <2>3. PICK k : k = n + 1
    OBVIOUS
  <2>4. k \in 1 .. Fuel /\ k - 1 = n /\ n \in 0 .. Fuel
    BY <2>3, WalkedIs
  <2>5. Walked[k] = WalkStep(Walked[n])
    BY <2>4, WalkedIs
  <2>6. Walked[k] = Stop(Walked[n], "found")
    BY <2>2, <2>5 DEF WalkStep
  <2>7. Walked[n] \in Positions
    BY WalkedTypes
  <2>8. /\ Walked[k].status = "found" /\ Walked[k].cur = v /\ Walked[k].dir = curdir'
    BY <2>6, <2>7 DEF Stop, Positions
  <2>9. Reference = Walked[k]
    BY <2>8, <2>4, Stops
  <2>10. Arrived'
    BY <2>8, <2>9, <1>0, <1>1 DEF Arrived
  <2> QED BY <2>1, <2>10, <1>3 DEF Following
<1>5. CASE Len(stack) # 1
  <2>1. at' = "reload"
    BY <1>1, <1>5
  <2>2. PICK m, r, l :
           /\ m \in Nat \ {0}
           /\ Below(r, l)' /\ Len(stack') = m /\ Len(stack) = m + 1
           /\ r \in [1 .. m -> Seq(Strings)] /\ l \in [1 .. m -> Int]
           /\ top' = stack[m] /\ stack[m] \in Frames
           /\ rest[m + 1] = Tail(stack[m].todo) \o r[m]
           /\ left[m + 1] = l[m] - (Steps[MaxLevel - stack[m].level] - Longest)
    BY <1>1, <1>5, BelowPopped
  <2>3. stack[m].level <= top.level /\ stack[m].level \in Nat /\ top.level \in Nat
    <3>1. m \in 1 .. Len(stack) /\ Len(stack) \in 1 .. Len(stack) /\ m <= Len(stack)
      BY <2>2
    <3>2. stack[m].level <= stack[Len(stack)].level
      BY <3>1 DEF Levels, InOrder
    <3> QED BY <3>2, <2>2, <1>2 DEF Frames
  <2>4. /\ MaxLevel \in Nat /\ MaxLevel - stack[m].level \in 0 .. MaxLevel
        /\ MaxLevel - top.level \in 0 .. MaxLevel
    BY <2>3, Constants
  <2>5. /\ Steps[MaxLevel - stack[m].level] \in Nat /\ Longest \in Nat
        /\ Steps[MaxLevel - stack[m].level] >= Longest
        /\ Steps[MaxLevel - top.level] \in Nat
        /\ Steps[MaxLevel - top.level] >= Longest
    BY <2>4, StepsIs, NameiAssumption
  <2>6. Walked[n] \in Positions
    BY WalkedTypes
  <2>7. Len(rest[Len(stack)]) \in Nat /\ Walked[n].links \in Nat
    BY <2>6, LenProperties DEF Positions
  <2>8. l[m] \in Int
    BY <2>2
  <2>9. n + Len(rest[Len(stack)]) + (Steps[MaxLevel - stack[m].level] - Longest) <= l[m]
    <3>1. left[Len(stack)] = l[m] - (Steps[MaxLevel - stack[m].level] - Longest)
      BY <2>2
    <3>2. Spare \in Nat
      BY <2>5 DEF Spare
    <3>3. n \in Nat
      OBVIOUS
    <3> DEFINE a == Len(rest[Len(stack)])
               b == left[Len(stack)]
               c == Steps[MaxLevel - stack[m].level] - Longest
               d == l[m]
               e == Spare
    <3>4. n \in Nat /\ a \in Nat /\ c \in Nat /\ d \in Int /\ e \in Nat /\ b = d - c
          /\ n + a + e <= b
      BY <3>1, <3>2, <3>3, <2>5, <2>7, <2>8
    <3> SUFFICES n + a + c <= d
      OBVIOUS
    <3> HIDE DEF a, b, c, d, e
    <3> QED BY <3>4
  <2>10. Walked[n].links >= stack[m].level
    BY <2>3, <2>7
  <2>11. Along(n, r[Len(stack)], l[Len(stack)])'
    <3>1. Ahead' = Tail(stack[m].todo) /\ Here' = v /\ There' = curdir'
      BY <2>1, <2>2, <1>1 DEF Ahead, Here, There
    <3>2. Spare' = Steps[MaxLevel - stack[m].level] - Longest
      BY <2>2 DEF Spare
    <3>3. Walked[n].todo = Tail(stack[m].todo) \o r[m]
      BY <2>2
    <3> QED BY <3>1, <3>2, <3>3, <2>2, <2>9, <2>10, <1>0 DEF Along
  <2>12. Following'
    <3>1. n \in Nat
      OBVIOUS
    <3>2. /\ r \in [1 .. Len(stack') -> Seq(Strings)] /\ l \in [1 .. Len(stack') -> Int]
          /\ Below(r, l)' /\ Along(n, r[Len(stack)], l[Len(stack)])'
      BY <2>2, <2>11
    <3> QED BY <3>1, <3>2 DEF Following
  <2>13. Arrived'
    BY <2>1 DEF Arrived
  <2> QED BY <2>12, <2>13, <1>3
<1> QED BY <1>4, <1>5

(* The same for paths. *)
LEMMA JoinedPaths ==
  \A s, t \in Seq(Strings) : s # <<>> =>
    /\ s \o t \in Seq(Strings) /\ s \o t # <<>>
    /\ Head(s \o t) = Head(s)
    /\ Tail(s \o t) = Tail(s) \o t
    /\ Len(s \o t) = Len(s) + Len(t)
    /\ Len(t) \in Nat /\ (Len(t) = 0 => t = <<>>)
BY Joined

(* What the steps of a call that goes on have in common. *)
LEMMA Midway ==
  ASSUME IInv, SInv, ~aborted, UNCHANGED <<tree, call>>
  PROVE  /\ Types /\ Levels /\ Curdir /\ target \in [Links -> Targets]
         /\ Following /\ (Failing => Wrong) /\ Arrived /\ GivenBack /\ Plain
         /\ Walked' = Walked /\ Reference' = Reference /\ (Astray' <=> Astray)
         /\ call' = call /\ target' = target /\ searchable' = searchable
         /\ at \in {"enter", "walk", "reload", "found"} =>
              /\ stack # <<>> /\ Len(stack) \in Nat /\ Len(stack) >= 1
              /\ Len(stack) \in 1 .. Len(stack)
              /\ top = stack[Len(stack)] /\ top \in Frames
              /\ top.todo \in Seq(Strings) /\ top.todo # <<>>
              /\ Len(top.todo) \in Nat /\ Len(top.todo) >= 1
              /\ Tail(top.todo) \in Seq(Strings)
              /\ (IsLast => Tail(top.todo) = <<>>)
<1>1. /\ Types /\ Levels /\ Curdir /\ target \in [Links -> Targets]
  BY Going DEF Types
<1>2. /\ Following /\ (Failing => Wrong) /\ Arrived /\ GivenBack /\ Plain
  BY DEF SInv
<1>3. Walked' = Walked /\ Reference' = Reference
  BY SameWalk
<1>4. Astray' <=> Astray
  BY <1>3 DEF Astray, TooManyLinks
<1>5. call' = call /\ target' = target /\ searchable' = searchable
  BY DEF tree
<1>6. ASSUME at \in {"enter", "walk", "reload", "found"}
      PROVE  /\ stack # <<>> /\ Len(stack) \in Nat /\ Len(stack) >= 1
             /\ Len(stack) \in 1 .. Len(stack)
             /\ top = stack[Len(stack)] /\ top \in Frames
             /\ top.todo \in Seq(Strings) /\ top.todo # <<>>
             /\ Len(top.todo) \in Nat /\ Len(top.todo) >= 1
             /\ Tail(top.todo) \in Seq(Strings)
             /\ (IsLast => Tail(top.todo) = <<>>)
  <2>1. /\ stack # <<>> /\ Len(stack) \in Nat /\ Len(stack) >= 1
        /\ Len(stack) \in 1 .. Len(stack)
        /\ top = stack[Len(stack)] /\ top \in Frames
    BY <1>1, <1>6, TopIs DEF Levels
  <2>2. /\ top.todo \in Seq(Strings) /\ top.todo # <<>>
    BY <2>1 DEF Frames
  <2>3. /\ Len(top.todo) \in Nat /\ Len(top.todo) >= 1
        /\ Tail(top.todo) \in Seq(Strings) /\ Len(Tail(top.todo)) = Len(top.todo) - 1
    BY <2>2, LastFront, HeadTailProperties
  <2>4. IsLast => Tail(top.todo) = <<>>
    <3>1. IsLast => Len(Tail(top.todo)) = 0
      BY <2>3 DEF IsLast
    <3> QED BY <3>1, <2>3, EmptySeq
  <2> QED BY <2>1, <2>2, <2>3, <2>4
<1> QED BY <1>1, <1>2, <1>3, <1>4, <1>5, <1>6

(* Nothing is promised of *curdir before the end of namei. *)
LEMMA NotDone ==
  ASSUME at' # "done"
  PROVE  CurdirForCreate'
BY DEF CurdirForCreate

-----------------------------------------------------------------------------
(* A link too many: the reference has followed too many as well. *)
LEMMA TooDeepFollows ==
  ASSUME IInv, SInv, ~aborted, TooDeep, UNCHANGED <<tree, call>>
  PROVE  SInv'
<1> USE Constants
<1>0. at = "enter" /\ Return(ELOOP) /\ UNCHANGED <<curdir, aborted>> /\ top.level > MaxLevel
  BY DEF TooDeep
<1>1. /\ Types /\ Levels /\ Curdir /\ stack # <<>> /\ Len(stack) \in Nat
      /\ (Failing => Wrong) /\ Plain /\ (Astray' <=> Astray) /\ call' = call
      /\ top = stack[Len(stack)]
  BY <1>0, Midway
<1>2. Len(stack) # 1
  BY <1>0, <1>1 DEF Levels
<1>3. at' = "reload" /\ value' = ELOOP /\ ELOOP \notin Inodes /\ stack' = Front(stack)
  BY <1>0, <1>2 DEF Return, Errors
<1>4. Following' /\ Arrived'
  BY <1>3 DEF Following, Failing, Arrived
<1>5. Failing' => Wrong'
  BY <1>0, <1>1, <1>3, WrongKept DEF Failing
<1>6. GivenBack'
  <2>1. curdir' # INO_EOF
    BY <1>0, <1>1 DEF Curdir
  <2> QED BY <2>1 DEF GivenBack
<1>7. Stopped'
  BY <1>0 DEF Stopped
<1>8. Plain'
  <2>1. call.deref
    BY <1>0, <1>1, <1>2 DEF Plain, Unlinked
  <2> QED BY <2>1, <1>0, <1>1, <1>3, NotDone DEF Plain
<1> QED BY <1>4, <1>5, <1>6, <1>7, <1>8 DEF SInv

(* An absolute path starts at the root, where the reference skips the      *)
(* empty string before its first slash.                                    *)
LEMMA EnterFollows ==
  ASSUME IInv, SInv, ~aborted, Enter, UNCHANGED <<tree, call>>
  PROVE  SInv'
<1> USE Constants
<1>0. at = "enter" /\ top.level <= MaxLevel /\ at' = "walk" /\ UNCHANGED <<value, aborted>>
  BY DEF Enter
<1>1. /\ Types /\ Levels /\ Curdir /\ Following /\ Plain /\ call' = call /\ Walked' = Walked
      /\ stack # <<>> /\ Len(stack) \in Nat /\ top = stack[Len(stack)] /\ top \in Frames
      /\ top.todo \in Seq(Strings) /\ top.todo # <<>> /\ Tail(top.todo) \in Seq(Strings)
      /\ Len(top.todo) \in Nat /\ Len(top.todo) >= 1
      /\ target \in [Links -> Targets]
  BY <1>0, Midway
<1>2. ~Failing
  <2>1. top.level \in Int
    BY <1>1 DEF Frames
  <2> QED BY <2>1, <1>0 DEF Failing
<1>3. PICK n \in Nat, rest \in [1 .. Len(stack) -> Seq(Strings)],
           left \in [1 .. Len(stack) -> Int] :
        Below(rest, left) /\ Along(n, rest[Len(stack)], left[Len(stack)])
  BY <1>0, <1>1, <1>2 DEF Following
<1> DEFINE w == Walked[n]
           r == rest[Len(stack)]
<1>4. /\ n \in 0 .. Fuel /\ n + 1 \in 0 .. Fuel /\ n + 1 \in Nat
      /\ w \in Positions /\ Walked[n + 1] = WalkStep(w)
      /\ r \in Seq(Strings) /\ left[Len(stack)] \in Int /\ Spare \in Nat
      /\ w.links \in Nat /\ Len(w.todo) \in Nat
  BY <1>0, <1>1, <1>3, Walking
<1>5. /\ w.status = "going" /\ w.todo = top.todo \o r /\ w.links >= top.level
      /\ w.dir = w.cur /\ w.cur = IF Absolute(top.todo) THEN root ELSE curdir
      /\ n + Len(w.todo) + Spare <= left[Len(stack)]
  BY <1>0, <1>3 DEF Along, Ahead, Here, There
<1>6. /\ Failing' = FALSE /\ Arrived' /\ GivenBack' /\ Stopped' /\ CurdirForCreate'
  BY <1>0 DEF Failing, Arrived, GivenBack, Stopped, CurdirForCreate
<1>7. CASE Absolute(top.todo)
  <2> DEFINE f == [top EXCEPT !.current = root, !.todo = Tail(@)]
  <2>1. curdir' = root /\ SetTop(f)
    BY <1>7 DEF Enter
  <2>2. Len(top.todo) > 1 /\ Head(top.todo) = Empty
    BY <1>7 DEF Absolute
  <2>3. Tail(top.todo) # <<>>
    <3>1. Len(top.todo) # 1 /\ top.todo \in Seq(Strings) /\ top.todo # <<>>
      <4> DEFINE k == Len(top.todo)
      <4>1. k \in Nat /\ k > 1
        BY <1>1, <2>2
      <4>2. k # 1
        <5> HIDE DEF k
        <5> QED BY <4>1
      <4> QED BY <4>2, <1>1
    <3>2. Tail(top.todo) \in Seq(Strings) \ {<<>>}
      BY ONLY <3>1, Onward
    <3> QED BY <3>2
  <2>4. /\ f \in Frames /\ f.level = top.level /\ f.current = root /\ f.deref = top.deref
        /\ f.todo = Tail(top.todo)
    BY <2>3, <1>1 DEF Frames
  <2> HIDE DEF f
  <2>5. Below(rest, left)' /\ Len(stack') = Len(stack) /\ top' = f
    BY <2>1, <2>4, <1>1, <1>3, BelowMoved
  <2>6. /\ w.todo # <<>> /\ Head(w.todo) = Empty /\ Tail(w.todo) = Tail(top.todo) \o r
        /\ Len(Tail(w.todo)) = Len(w.todo) - 1
    <3>1. top.todo \in Seq(Strings) /\ top.todo # <<>> /\ r \in Seq(Strings)
      BY <1>1, <1>4
    <3>2. /\ top.todo \o r # <<>> /\ Head(top.todo \o r) = Head(top.todo)
          /\ Tail(top.todo \o r) = Tail(top.todo) \o r
          /\ top.todo \o r \in Seq(Strings)
      BY ONLY <3>1, JoinedPaths
    <3>3. Len(Tail(top.todo \o r)) = Len(top.todo \o r) - 1
      BY ONLY <3>2, HeadTailProperties
    <3> QED BY <3>2, <3>3, <2>2, <1>5
  <2>7. WalkStep(w) = [w EXCEPT !.todo = Tail(@)]
    BY <2>6, <1>5, <1>7 DEF WalkStep
  <2>8. Along(n + 1, rest[Len(stack)], left[Len(stack)])'
    <3>1. Ahead' = Tail(top.todo) /\ Here' = root /\ There' = root /\ Spare' = Spare
      BY <2>1, <2>4, <2>5, <1>0 DEF Ahead, Here, There, Spare
    <3>2. /\ Walked'[n + 1].status = "going" /\ Walked'[n + 1].todo = Tail(top.todo) \o r
          /\ Walked'[n + 1].cur = root /\ Walked'[n + 1].dir = root
          /\ Walked'[n + 1].links = w.links /\ Walked'[n + 1].todo = Tail(w.todo)
      BY <2>6, <2>7, <1>1, <1>4, <1>5, <1>7 DEF Positions
    <3>3. (n + 1) + Len(Tail(w.todo)) + Spare <= left[Len(stack)]
      <4> DEFINE a == Len(w.todo)
      <4>1. Len(Tail(w.todo)) = a - 1 /\ a \in Nat /\ n + a + Spare <= left[Len(stack)]
        BY <2>6, <1>4, <1>5
      <4> HIDE DEF a
      <4> QED BY <4>1, <1>4
    <3>4. top'.level <= w.links
      BY <2>4, <2>5, <1>5
    <3> QED BY <3>1, <3>2, <3>3, <3>4, <2>5 DEF Along
  <2>9. Following'
    <3>1. n + 1 \in Nat /\ rest \in [1 .. Len(stack') -> Seq(Strings)]
          /\ left \in [1 .. Len(stack') -> Int]
      BY <2>5, <1>4
    <3> QED BY <3>1, <2>5, <2>8 DEF Following
  <2>10. Plain'
    <3>1. ASSUME ~call.deref PROVE Unlinked'
      <4>1. /\ Len(stack) = 1 /\ top.todo = call.path /\ curdir = root /\ call.path \in Paths
        BY <3>1, <1>0, <1>1 DEF Plain, Unlinked
      <4>2. OnPath(call.path, root)
        BY <4>1, <1>1, OnPathFirst
      <4>3. OnPath(Tail(call.path), root)
        BY <4>1, <4>2, <1>1, <2>2, OnPathNext
      <4>4. OnPath(top.todo, top.current)'
        <5>1. PICK t, c : t = Tail(call.path) /\ c = root
          OBVIOUS
        <5>2. OnPath(t, c) /\ top'.todo = t /\ top'.current = c
          BY <5>1, <4>1, <4>3, <2>4, <2>5
        <5>3. call' = call
          BY <1>1
        <5> QED BY ONLY <5>2, <5>3 DEF OnPath
      <4> QED BY <4>1, <4>4, <2>5, <1>0 DEF Unlinked
    <3> QED BY <3>1, <1>0, <1>1, <1>6 DEF Plain
  <2> QED BY <2>9, <2>10, <1>6 DEF SInv
<1>8. CASE ~Absolute(top.todo)
  <2> DEFINE f == [top EXCEPT !.current = curdir]
  <2>1. curdir' = curdir /\ SetTop(f) /\ curdir \in Dirs
    BY <1>8, <1>0, <1>1 DEF Enter, Curdir
  <2>4. /\ f \in Frames /\ f.level = top.level /\ f.current = curdir /\ f.deref = top.deref
        /\ f.todo = top.todo
    BY <2>1, <1>1 DEF Frames
  <2> HIDE DEF f
  <2>5. Below(rest, left)' /\ Len(stack') = Len(stack) /\ top' = f
    BY <2>1, <2>4, <1>1, <1>3, BelowMoved
  <2>8. Along(n, rest[Len(stack)], left[Len(stack)])'
    <3>1. Ahead' = top.todo /\ Here' = curdir /\ There' = curdir /\ Spare' = Spare
          /\ top'.level = top.level
      BY <2>1, <2>4, <2>5, <1>0 DEF Ahead, Here, There, Spare
    <3> QED BY <3>1, <1>1, <1>5, <1>8, <2>5 DEF Along
  <2>9. Following'
    <3>1. n \in Nat /\ rest \in [1 .. Len(stack') -> Seq(Strings)]
          /\ left \in [1 .. Len(stack') -> Int]
      BY <2>5, <1>4
    <3> QED BY <3>1, <2>5, <2>8 DEF Following
  <2>10. Plain'
    <3>1. ASSUME ~call.deref PROVE Unlinked'
      <4>1. /\ Len(stack) = 1 /\ top.todo = call.path /\ curdir = root /\ call.path \in Paths
        BY <3>1, <1>0, <1>1 DEF Plain, Unlinked
      <4>2. OnPath(call.path, root)
        BY <4>1, <1>1, OnPathFirst
      <4>4. OnPath(top.todo, top.current)'
        BY <4>1, <4>2, <2>4, <2>5, <1>1 DEF OnPath
      <4> QED BY <4>1, <4>4, <2>5, <1>0 DEF Unlinked
    <3> QED BY <3>1, <1>0, <1>1, <1>6 DEF Plain
  <2> QED BY <2>9, <2>10, <1>6 DEF SInv
<1> QED BY <1>7, <1>8

(* Slashes in a row, and one at the end. *)
LEMMA SkipEmptyFollows ==
  ASSUME IInv, SInv, ~aborted, SkipEmpty, UNCHANGED <<tree, call>>
  PROVE  SInv'
<1> USE Constants
<1>0. at = "walk" /\ token = Empty /\ UNCHANGED <<curdir, aborted>>
  BY DEF SkipEmpty
<1>1. /\ Types /\ Levels /\ Curdir /\ Following /\ Plain /\ call' = call /\ Walked' = Walked
      /\ stack # <<>> /\ Len(stack) \in Nat /\ top = stack[Len(stack)] /\ top \in Frames
      /\ top.todo \in Seq(Strings) /\ top.todo # <<>> /\ Tail(top.todo) \in Seq(Strings)
      /\ Len(top.todo) \in Nat /\ Len(top.todo) >= 1
      /\ (IsLast => Tail(top.todo) = <<>>)
      /\ target \in [Links -> Targets]
  BY <1>0, Midway
<1>2. ~Failing /\ top.level <= MaxLevel /\ top.current \in Dirs /\ curdir \in Dirs
  BY <1>0, <1>1 DEF Failing, Levels, Curdir
<1>3. PICK n \in Nat, rest \in [1 .. Len(stack) -> Seq(Strings)],
           left \in [1 .. Len(stack) -> Int] :
        Below(rest, left) /\ Along(n, rest[Len(stack)], left[Len(stack)])
  BY <1>0, <1>1, <1>2 DEF Following
<1> DEFINE w == Walked[n]
           r == rest[Len(stack)]
<1>4. /\ n \in 0 .. Fuel /\ n + 1 \in 0 .. Fuel /\ n + 1 \in Nat
      /\ w \in Positions /\ Walked[n + 1] = WalkStep(w)
      /\ r \in Seq(Strings) /\ left[Len(stack)] \in Int /\ Spare \in Nat
      /\ w.links \in Nat /\ Len(w.todo) \in Nat
  BY <1>1, <1>2, <1>3, Walking
<1>5. /\ w.status = "going" /\ w.todo = top.todo \o r /\ w.links >= top.level
      /\ w.cur = top.current /\ w.dir = curdir
      /\ n + Len(w.todo) + Spare <= left[Len(stack)]
  BY <1>0, <1>3 DEF Along, Ahead, Here, There
<1>6. /\ w.todo # <<>> /\ Head(w.todo) = Empty /\ Tail(w.todo) = Tail(top.todo) \o r
      /\ Len(Tail(w.todo)) = Len(w.todo) - 1
  <2>1. top.todo \in Seq(Strings) /\ top.todo # <<>> /\ r \in Seq(Strings)
    BY <1>1, <1>4
  <2>2. /\ top.todo \o r # <<>> /\ Head(top.todo \o r) = Head(top.todo)
        /\ Tail(top.todo \o r) = Tail(top.todo) \o r
        /\ top.todo \o r \in Seq(Strings)
    BY ONLY <2>1, JoinedPaths
  <2>3. Len(Tail(top.todo \o r)) = Len(top.todo \o r) - 1
    BY ONLY <2>2, HeadTailProperties
  <2> QED BY <2>2, <2>3, <1>0, <1>5 DEF token
<1>7. WalkStep(w) = [w EXCEPT !.todo = Tail(@)]
  BY <1>2, <1>5, <1>6 DEF WalkStep
<1>8. /\ Walked[n + 1].status = "going" /\ Walked[n + 1].todo = Tail(top.todo) \o r
      /\ Walked[n + 1].cur = top.current /\ Walked[n + 1].dir = curdir
      /\ Walked[n + 1].links = w.links /\ Walked[n + 1].todo = Tail(w.todo)
  BY <1>4, <1>5, <1>6, <1>7 DEF Positions
<1>9. (n + 1) + Len(Tail(w.todo)) + Spare <= left[Len(stack)]
  <2> DEFINE a == Len(w.todo)
  <2>1. Len(Tail(w.todo)) = a - 1 /\ a \in Nat /\ n + a + Spare <= left[Len(stack)]
    BY <1>4, <1>5, <1>6
  <2> HIDE DEF a
  <2> QED BY <2>1, <1>4
<1>10. CASE IsLast
  <2>1. Return(top.current)
    BY <1>10 DEF SkipEmpty
  <2>2. Tail(top.todo) \o r = r
    BY <1>1, <1>4, <1>10, ConcatEmptySeq
  <2>3. Following' /\ ~Failing' /\ Arrived' /\ GivenBack'
    <3>1. PICK k : k = n + 1
      OBVIOUS
    <3>2. /\ k \in 0 .. Fuel /\ k + 1 \in 0 .. Fuel
      <4>1. Len(r) \in Nat /\ k + Len(r) + Spare <= left[Len(stack)]
        BY <3>1, <2>2, <1>4, <1>8, <1>9, LenProperties
      <4>2. left[Len(stack)] <= Steps[MaxLevel] /\ Fuel = Steps[MaxLevel] + 1 /\ Fuel \in Nat
        <5>1. Len(stack) \in 1 .. Len(stack)
          BY <1>0, Midway
        <5> QED BY <5>1, <1>3, WalkedIs DEF Below, Fuel
      <4>3. Steps[MaxLevel] \in Nat /\ k \in Nat
        <5>1. MaxLevel \in 0 .. MaxLevel
          OBVIOUS
        <5> QED BY <5>1, <3>1, <1>4, StepsIs
      <4>4. PICK a, b, c, d : a = Len(r) /\ b = Spare /\ c = Steps[MaxLevel] /\ d = left[Len(stack)]
        OBVIOUS
      <4>5. /\ a \in Nat /\ b \in Nat /\ c \in Nat /\ d \in Int /\ k \in Nat
            /\ k + a + b <= d /\ d <= c /\ Fuel = c + 1
        BY <4>1, <4>2, <4>3, <4>4, <1>4
      <4> QED BY ONLY <4>5
    <3>3. /\ Walked[k].status = "going" /\ Walked[k].todo = r
          /\ Walked[k].cur = top.current /\ Walked[k].dir = curdir' /\ curdir' \in Dirs
          /\ Walked[k].links >= top.level
          /\ k + Len(r) + Spare <= left[Len(stack)]
      BY <3>1, <2>2, <1>0, <1>2, <1>5, <1>8, <1>9
    <3>4. top.current \in Inodes
      BY <1>2
    <3> QED BY <3>2, <3>3, <3>4, <2>1, <1>1, <1>2, <1>3, ReturnsFound
  <2>4. Stopped'
    BY <1>0 DEF Stopped
  <2>5. at' = (IF Len(stack) = 1 THEN "end" ELSE "reload") /\ value' = top.current
    BY <2>1 DEF Return
  <2>6. Plain'
    <3>1. ASSUME ~call.deref PROVE Unlinked'
      <4>1. Len(stack) = 1
        BY <3>1, <1>0, <1>1 DEF Plain, Unlinked
      <4>2. at' = "end" /\ value' # INO_EOF
        BY <4>1, <2>5, <1>2
      <4> QED BY <4>2 DEF Unlinked
    <3> QED BY <3>1, <2>5, <1>0, <1>1, NotDone DEF Plain
  <2> QED BY <2>3, <2>4, <2>6 DEF SInv
<1>11. CASE ~IsLast
  <2> DEFINE f == [top EXCEPT !.todo = Tail(@)]
  <2>1. SetTop(f) /\ UNCHANGED <<at, value>>
    BY <1>11 DEF SkipEmpty
  <2>2. Tail(top.todo) # <<>>
    BY <1>1, <1>11, Onward DEF IsLast
  <2>3. /\ f \in Frames /\ f.level = top.level /\ f.current = top.current
        /\ f.deref = top.deref /\ f.todo = Tail(top.todo)
    BY <2>2, <1>1 DEF Frames
  <2> HIDE DEF f
  <2>4. Below(rest, left)' /\ Len(stack') = Len(stack) /\ top' = f
    BY <2>1, <2>3, <1>1, <1>3, BelowMoved
  <2>5. Along(n + 1, rest[Len(stack)], left[Len(stack)])'
    <3>1. Ahead' = Tail(top.todo) /\ Here' = top.current /\ There' = curdir /\ Spare' = Spare
          /\ top'.level = top.level
      BY <2>1, <2>3, <2>4, <1>0 DEF Ahead, Here, There, Spare
    <3> QED BY <3>1, <1>1, <1>5, <1>8, <1>9, <2>4 DEF Along
  <2>6. Following'
    <3>1. n + 1 \in Nat /\ rest \in [1 .. Len(stack') -> Seq(Strings)]
          /\ left \in [1 .. Len(stack') -> Int]
      BY <2>4, <1>4
    <3> QED BY <3>1, <2>4, <2>5 DEF Following
  <2>7. /\ Failing' = FALSE /\ Arrived' /\ GivenBack' /\ Stopped' /\ CurdirForCreate'
    BY <2>1, <1>0 DEF Failing, Arrived, GivenBack, Stopped, CurdirForCreate
  <2>8. Plain'
    <3>1. ASSUME ~call.deref PROVE Unlinked'
      <4>1. Len(stack) = 1 /\ OnPath(top.todo, top.current) /\ call.path \in Paths
        BY <3>1, <1>0, <1>1 DEF Plain, Unlinked
      <4>2. PICK t, c : t = top.todo /\ c = top.current
        OBVIOUS
      <4>3. /\ t \in Seq(Strings) /\ t # <<>> /\ OnPath(t, c) /\ c \in Inodes /\ Head(t) = Empty
            /\ call.path \in Paths
        BY <4>1, <4>2, <1>0, <1>1, <1>2 DEF token
      <4>4. OnPath(Tail(t), c)
        BY <4>3, OnPathNext
      <4>5. OnPath(top.todo, top.current)'
        <5>1. PICK u : u = Tail(t)
          OBVIOUS
        <5>2. OnPath(u, c) /\ top'.todo = u /\ top'.current = c
          BY <5>1, <4>2, <4>4, <2>3, <2>4
        <5>3. call' = call
          BY <1>1
        <5> QED BY ONLY <5>2, <5>3 DEF OnPath
      <4> QED BY <4>1, <4>5, <2>1, <2>4, <1>0 DEF Unlinked
    <3> QED BY <3>1, <2>1, <2>7, <1>0, <1>1 DEF Plain
  <2> QED BY <2>6, <2>7, <2>8 DEF SInv
<1> QED BY <1>10, <1>11

(* A component: both look it up in the same directory, and the reference   *)
(* puts what a link contains where the code calls namei_rec for it.        *)
LEMMA DescendFollows ==
  ASSUME IInv, SInv, ~aborted, Descend, UNCHANGED <<tree, call>>
  PROVE  SInv'
<1> USE Constants
<1> DEFINE i == Looked(top.current)
<1>0. at = "walk" /\ token # Empty
  BY DEF Descend
<1>1. /\ Types /\ Levels /\ Curdir /\ Following /\ Plain /\ call' = call /\ Walked' = Walked
      /\ Reference' = Reference
      /\ stack # <<>> /\ Len(stack) \in Nat /\ top = stack[Len(stack)] /\ top \in Frames
      /\ Len(stack) >= 1 /\ Len(stack) \in 1 .. Len(stack)
      /\ top.todo \in Seq(Strings) /\ top.todo # <<>> /\ Tail(top.todo) \in Seq(Strings)
      /\ Len(top.todo) \in Nat /\ Len(top.todo) >= 1
      /\ (IsLast => Tail(top.todo) = <<>>)
      /\ target \in [Links -> Targets]
  BY <1>0, Midway
<1>2. /\ ~Failing /\ top.level <= MaxLevel /\ top.current \in Dirs /\ curdir \in Dirs
      /\ top.level \in 0 .. MaxLevel /\ CanClose(refs, curdir)
  <2>1. ~Failing /\ top.level <= MaxLevel /\ top.current \in Dirs /\ curdir \in Dirs
    BY <1>0, <1>1 DEF Failing, Levels, Curdir
  <2>2. top.level \in 0 .. MaxLevel
    BY <2>1, <1>1 DEF Frames
  <2> QED BY <2>1, <2>2, <1>0, StillOpen DEF Resolving
<1>3. PICK n \in Nat, rest \in [1 .. Len(stack) -> Seq(Strings)],
           left \in [1 .. Len(stack) -> Int] :
        Below(rest, left) /\ Along(n, rest[Len(stack)], left[Len(stack)])
  BY <1>0, <1>1, <1>2 DEF Following
<1> DEFINE w == Walked[n]
           r == rest[Len(stack)]
<1>4. /\ n \in 0 .. Fuel /\ n + 1 \in 0 .. Fuel /\ n + 1 \in Nat
      /\ w \in Positions /\ Walked[n + 1] = WalkStep(w)
      /\ r \in Seq(Strings) /\ left[Len(stack)] \in Int /\ Spare \in Nat
      /\ w.links \in Nat /\ Len(w.todo) \in Nat
  BY <1>1, <1>2, <1>3, Walking
<1>5. /\ w.status = "going" /\ w.todo = top.todo \o r /\ w.links >= top.level
      /\ w.cur = top.current /\ w.dir = curdir
      /\ n + Len(w.todo) + Spare <= left[Len(stack)]
  BY <1>0, <1>3 DEF Along, Ahead, Here, There
<1>6. /\ w.todo # <<>> /\ Head(w.todo) = token /\ Tail(w.todo) = Tail(top.todo) \o r
      /\ Len(Tail(w.todo)) = Len(w.todo) - 1
      /\ Len(w.todo) = Len(top.todo) + Len(r) /\ Len(r) \in Nat /\ (Len(r) = 0 => r = <<>>)
  <2>1. top.todo \in Seq(Strings) /\ top.todo # <<>> /\ r \in Seq(Strings)
    BY <1>1, <1>4
  <2>2. /\ top.todo \o r # <<>> /\ Head(top.todo \o r) = Head(top.todo)
        /\ Tail(top.todo \o r) = Tail(top.todo) \o r
        /\ top.todo \o r \in Seq(Strings)
        /\ Len(top.todo \o r) = Len(top.todo) + Len(r)
        /\ Len(r) \in Nat /\ (Len(r) = 0 => r = <<>>)
    BY ONLY <2>1, JoinedPaths
  <2>3. Len(Tail(top.todo \o r)) = Len(top.todo \o r) - 1
    BY ONLY <2>2, HeadTailProperties
  <2> QED BY <2>2, <2>3, <1>0, <1>5 DEF token
<1>7. Len(w.todo) = 1 <=> IsLast /\ r = <<>>
  <2> DEFINE a == Len(top.todo)
             b == Len(r)
             c == Len(w.todo)
  <2>1. a \in Nat /\ a >= 1 /\ b \in Nat /\ c = a + b /\ (IsLast <=> a = 1)
    BY <1>1, <1>6 DEF IsLast
  <2>2. r = <<>> <=> b = 0
    BY <1>6, <1>4, EmptySeq
  <2> HIDE DEF a, b, c
  <2>3. c = 1 <=> a = 1 /\ b = 0
    BY <2>1
  <2> QED BY <2>1, <2>2, <2>3 DEF c
<1>8. i \in Inodes \cup {ENOENT, EACCES}
  BY <1>2, LookedIs
<1>9. /\ curdir' = top.current /\ aborted' = aborted
      /\ IF i \in Inodes /\ Follows(i)
         THEN /\ stack' = Front(stack) \o <<[top EXCEPT !.level = top.level + 1],
                                           Frame(target[i], TRUE, top.level + 1)>>
              /\ at' = "enter" /\ value' = value
         ELSE value' = i /\ at' = "found" /\ stack' = stack
  BY <1>2 DEF Descend
<1>10. i \in Inodes => /\ top.current \in searchable /\ Has(top.current, token)
                       /\ i = Child(top.current, token)
  BY DEF Looked, Errors
<1>11. i \notin Inodes => top.current \notin searchable \/ ~Has(top.current, token)
  <2>1. Has(top.current, token) => Child(top.current, token) \in Inodes
    BY ChildIs
  <2> QED BY <2>1 DEF Looked
<1>12. /\ top.deref = (IF Len(stack) = 1 THEN call.deref ELSE TRUE)
       /\ ~call.deref => (r = <<>> <=> Len(stack) = 1)
  <2>1. CASE Len(stack) = 1
    BY <2>1, <1>1, <1>3 DEF Below
  <2>2. CASE Len(stack) # 1
    <3>1. PICK k : k = Len(stack)
      OBVIOUS
    <3>2. k \in 2 .. Len(stack)
      <4>1. k \in Nat /\ k >= 1 /\ k # 1 /\ k = Len(stack)
        BY <3>1, <2>2, <1>1
      <4> QED BY ONLY <4>1
    <3>3. Below(rest, left)
      BY <1>3
    <3>4. stack[k].deref = TRUE /\ (~call.deref => rest[k] # <<>>)
      BY ONLY <3>2, <3>3 DEF Below
    <3> QED BY <3>1, <3>4, <2>2, <1>1
  <2> QED BY <2>1, <2>2
<1>13. i \in Links => (Follows(i) <=> call.deref \/ Len(w.todo) # 1)
  BY <1>7, <1>12 DEF Follows
<1>14. GivenBack' /\ Stopped' /\ Arrived' /\ CurdirForCreate'
  <2>1. curdir' # INO_EOF /\ at' \in {"enter", "found"} /\ aborted' = FALSE
    BY <1>2, <1>9
  <2> QED BY <2>1 DEF GivenBack, Stopped, Arrived, CurdirForCreate
<1>15. ASSUME ~call.deref
       PROVE  Len(stack) = 1 /\ OnPath(top.todo, top.current) /\ call.path \in Paths
  BY <1>15, <1>0, <1>1 DEF Plain, Unlinked
<1>16. ASSUME ~call.deref, i \in Inodes
       PROVE  /\ OnPath(Tail(top.todo), i)
              /\ ~IsLast => i \notin Links
  <2>1. PICK t, c, d : t = top.todo /\ c = top.current /\ d = i
    OBVIOUS
  <2>2. /\ t \in Seq(Strings) /\ t # <<>> /\ OnPath(t, c) /\ d \in Inodes /\ Head(t) # Empty
        /\ c \in Dirs /\ Has(c, Head(t)) /\ d = Child(c, Head(t)) /\ call.path \in Paths
    BY <2>1, <1>16, <1>15, <1>10, <1>0, <1>1, <1>2 DEF token
  <2>3. OnPath(Tail(t), d) /\ (Len(t) # 1 => d \notin Links)
    BY <2>2, OnPathNext
  <2> QED BY <2>1, <2>3 DEF IsLast
<1> HIDE DEF i
<1>17. CASE i \notin Inodes
  <2>1. value' = i /\ at' = "found" /\ stack' = stack /\ curdir' = top.current
    BY <1>9, <1>17
  <2>2. WalkStep(w) = Stop([w EXCEPT !.dir = w.cur],
                           IF Len(w.todo) = 1 THEN "missing" ELSE "lost")
    BY <1>0, <1>2, <1>5, <1>6, <1>11, <1>17 DEF WalkStep
  <2>3. /\ Walked[n + 1].status = (IF Len(w.todo) = 1 THEN "missing" ELSE "lost")
        /\ Walked[n + 1].dir = top.current
    BY <2>2, <1>4, <1>5 DEF Stop, Positions
  <2>4. Reference = Walked[n + 1]
    <3>1. PICK k \in 0 .. Fuel : k = n + 1
      BY <1>4
    <3>2. Walked[k].status # "going"
      BY <3>1, <2>3
    <3>3. Reference = Walked[k]
      BY <3>2, <1>1, Stops
    <3> QED BY <3>1, <3>3
  <2>5. Wrong
    <3>1. CASE Len(w.todo) = 1
      <4>1. Reference.status = "missing" /\ r = <<>> /\ Len(top.todo) = 1
        BY <3>1, <2>3, <2>4, <1>7 DEF IsLast
      <4>2. \A k \in 1 .. Len(stack) : Len(stack[k].todo) = 1
        <5>1. \A k \in 1 .. Len(stack) : k < Len(stack) \/ k = Len(stack)
          BY <1>1
        <5>2. \A k \in 1 .. Len(stack) : k < Len(stack) => Len(stack[k].todo) = 1
          BY <4>1, <1>1, <1>3 DEF Below
        <5> QED BY <5>1, <5>2, <4>1, <1>1
      <4> QED BY <4>1, <4>2 DEF Wrong
    <3>2. CASE Len(w.todo) # 1
      BY <3>2, <2>3, <2>4 DEF Wrong, Astray
    <3> QED BY <3>1, <3>2
  <2>6. Wrong'
    BY <2>1, <2>5, <1>1, WrongKept
  <2>7. Following'
    BY <2>1, <1>17 DEF Following, Failing
  <2>8. Plain'
    <3>1. ASSUME ~call.deref PROVE Unlinked'
      <4>1. IsLast => Missing'
        <5>1. Len(stack) = 1
          BY <3>1, <1>15
        <5>2. IsLast => Len(w.todo) = 1
          BY <5>1, <3>1, <1>7, <1>12
        <5> QED BY <5>2, <2>1, <2>3, <2>4, <1>1, <1>2 DEF Missing
      <4>2. IsLast' <=> IsLast
        BY <2>1 DEF IsLast, top
      <4>3. Len(stack') = 1 /\ value' # INO_EOF /\ value' \notin Inodes /\ curdir' \in Dirs
        <5>1. Len(stack) = 1
          BY <3>1, <1>15
        <5> QED BY <5>1, <2>1, <1>2, <1>8, <1>17 DEF Errors
      <4> QED BY <4>1, <4>2, <4>3, <2>1 DEF Unlinked
    <3> QED BY <3>1, <2>1, <1>0, <1>1, <1>14 DEF Plain
  <2> QED BY <2>6, <2>7, <2>8, <1>14 DEF SInv
<1>18. CASE i \in Inodes /\ ~Follows(i)
  <2>1. value' = i /\ at' = "found" /\ stack' = stack /\ curdir' = top.current
    BY <1>9, <1>18
  <2>2. ~(i \in Links /\ (call.deref \/ Len(w.todo) # 1))
    BY <1>13, <1>18
  <2>3. WalkStep(w) = [w EXCEPT !.dir = w.cur, !.cur = i, !.todo = Tail(@)]
    <3>1. /\ w.status = "going" /\ w.todo # <<>> /\ w.cur \in Dirs /\ Head(w.todo) # Empty
          /\ w.cur \in searchable /\ Has(w.cur, Head(w.todo)) /\ i = Child(w.cur, Head(w.todo))
      BY <1>0, <1>2, <1>5, <1>6, <1>10, <1>18
    <3> QED BY <3>1, <2>2 DEF WalkStep
  <2>4. /\ Walked[n + 1].status = "going" /\ Walked[n + 1].dir = top.current
        /\ Walked[n + 1].cur = i /\ Walked[n + 1].todo = Tail(w.todo)
        /\ Walked[n + 1].links = w.links
    BY <2>3, <1>4, <1>5 DEF Positions
  <2>5. (n + 1) + Len(Tail(w.todo)) + Spare <= left[Len(stack)]
    <3>1. PICK a, b, c, d : /\ a = Len(w.todo) /\ b = Len(Tail(w.todo)) /\ c = Spare
                            /\ d = left[Len(stack)]
      OBVIOUS
    <3>2. b = a - 1 /\ a \in Nat /\ c \in Nat /\ d \in Int /\ n + a + c <= d
      BY <3>1, <1>4, <1>5, <1>6
    <3>3. n \in Nat
      OBVIOUS
    <3>4. (n + 1) + b + c <= d
      BY ONLY <3>2, <3>3
    <3> QED BY <3>1, <3>4
  <2>6. top' = top /\ Len(stack') = Len(stack)
    BY <2>1 DEF top
  <2>7. Along(n + 1, rest[Len(stack)], left[Len(stack)])'
    <3>1. Ahead' = Tail(top.todo) /\ Here' = i /\ There' = top.current /\ Spare' = Spare
      BY <2>1, <2>6 DEF Ahead, Here, There, Spare
    <3> QED BY <3>1, <2>4, <2>5, <2>6, <1>1, <1>5, <1>6 DEF Along
  <2>8. Below(rest, left)'
    BY <2>1, <1>1, <1>3 DEF Below
  <2>9. Following'
    <3>1. n + 1 \in Nat /\ rest \in [1 .. Len(stack') -> Seq(Strings)]
          /\ left \in [1 .. Len(stack') -> Int]
      BY <2>6, <1>4
    <3> QED BY <3>1, <2>7, <2>8 DEF Following
  <2>10. Failing' = FALSE
    BY <2>1, <1>18 DEF Failing
  <2>11. Plain'
    <3>1. ASSUME ~call.deref PROVE Unlinked'
      <4>1. IsLast' <=> IsLast
        BY <2>6 DEF IsLast
      <4>2. Len(stack') = 1 /\ value' # INO_EOF /\ value' \in Inodes /\ curdir' \in Dirs
        BY <3>1, <2>1, <1>2, <1>15, <1>18
      <4>3. OnPath(Tail(top.todo), value)'
        <5>1. PICK u, d : u = Tail(top.todo) /\ d = i
          OBVIOUS
        <5>2. OnPath(u, d) /\ Tail(top'.todo) = u /\ value' = d
          BY <5>1, <3>1, <2>1, <2>6, <1>16, <1>18
        <5>3. call' = call
          BY <1>1
        <5> QED BY ONLY <5>2, <5>3 DEF OnPath
      <4> QED BY <4>1, <4>2, <4>3, <2>1 DEF Unlinked
    <3> QED BY <3>1, <2>1, <1>0, <1>1, <1>14 DEF Plain
  <2> QED BY <2>9, <2>10, <2>11, <1>14 DEF SInv
<1>19. CASE i \in Inodes /\ Follows(i)
  <2> DEFINE f == [top EXCEPT !.level = top.level + 1]
             g == Frame(target[i], TRUE, top.level + 1)
  <2>1. stack' = Front(stack) \o <<f, g>> /\ at' = "enter" /\ value' = value
        /\ curdir' = top.current
    BY <1>9, <1>19
  <2>2. i \in Links /\ (call.deref \/ Len(w.todo) # 1) /\ target[i] \in Targets
    BY <1>1, <1>13, <1>19 DEF Follows
  <2>3. call.deref
    <3>1. ASSUME ~call.deref PROVE FALSE
      <4>1. ~IsLast
        BY <3>1, <2>2, <1>7, <1>12, <1>15
      <4> QED BY <4>1, <3>1, <2>2, <1>16, <1>19
    <3> QED BY <3>1
  <2>4. top.level + 1 \in 0 .. MaxLevel + 1
    BY <1>2
  <2>5. /\ f \in Frames /\ f.level = top.level + 1 /\ f.todo = top.todo /\ f.deref = top.deref
    BY <2>4, <1>1 DEF Frames
  <2>6. /\ g \in Frames /\ g.level = top.level + 1 /\ g.deref = TRUE /\ g.todo = target[i]
    BY <2>2, <2>4, FrameType DEF Frame
  <2> HIDE DEF f, g
  <2> DEFINE p == target[i]
             start == IF Absolute(p) THEN root ELSE w.cur
  <2>7. WalkStep(w) = [w EXCEPT !.dir = start, !.cur = start, !.todo = p \o Tail(@),
                                !.links = @ + 1]
    <3>1. /\ w.status = "going" /\ w.todo # <<>> /\ w.cur \in Dirs /\ Head(w.todo) # Empty
          /\ w.cur \in searchable /\ Has(w.cur, Head(w.todo)) /\ i = Child(w.cur, Head(w.todo))
      BY <1>0, <1>2, <1>5, <1>6, <1>10, <1>19
    <3> QED BY <3>1, <2>2 DEF WalkStep
  <2>8. /\ p \in Seq(Strings) /\ Len(p) <= Longest /\ Len(p) \in Nat /\ Longest \in Nat
    <3>1. p \in Seq(Strings) /\ Len(p) <= Longest /\ Longest \in Nat
      BY <2>2, NameiAssumption
    <3> QED BY <3>1, LenProperties
  <2>9. /\ Walked[n + 1].status = "going"
        /\ Walked[n + 1].dir = start /\ Walked[n + 1].cur = start
        /\ Walked[n + 1].todo = p \o Tail(w.todo)
        /\ Walked[n + 1].links = w.links + 1
    <3> HIDE DEF p, start
    <3> QED BY <2>7, <1>4, <1>5 DEF Positions
  <2>10. Len(p \o Tail(w.todo)) = Len(p) + (Len(w.todo) - 1)
    <3>1. Tail(w.todo) \in Seq(Strings)
      BY <1>4, <1>6, HeadTailProperties DEF Positions
    <3>2. Len(p \o Tail(w.todo)) = Len(p) + Len(Tail(w.todo))
      BY <3>1, <2>8, ConcatProperties
    <3> QED BY <3>2, <1>6
  <2>11. w.links + 1 >= top.level + 1
    BY <1>2, <1>4, <1>5
  <2>12. top' = g
    <3>1. stack \in Seq(Frames)
      BY <1>1 DEF Types
    <3>2. /\ Front(stack) \o <<f, g>> \in Seq(Frames) /\ Front(stack) \o <<f, g>> # <<>>
          /\ Len(Front(stack) \o <<f, g>>) = Len(stack) + 1
          /\ (Front(stack) \o <<f, g>>)[Len(stack) + 1] = g
      BY <3>1, <2>5, <2>6, <1>1, Pushed
    <3> QED BY <3>2, <2>1, LastFront DEF top
  <2>13. CASE top.level = MaxLevel
    <3>1. TooManyLinks
      <4>1. PICK k \in 0 .. Fuel : k = n + 1
        BY <1>4
      <4>2. Walked[k].links <= Reference.links
        BY <1>1, Settled
      <4>3. Reference.links \in Nat
        <5>1. Fuel \in 0 .. Fuel
          BY WalkedIs
        <5> QED BY <5>1, <1>1, WalkedIs, WalkedTypes DEF Positions
      <4>4. Walked[k].links = w.links + 1 /\ w.links >= MaxLevel /\ w.links \in Nat
        BY <4>1, <2>9, <2>13, <1>4, <1>5
      <4> QED BY <4>2, <4>3, <4>4 DEF TooManyLinks
    <3>2. Wrong'
      BY <3>1, <1>1 DEF Wrong, Astray, TooManyLinks
    <3>3. Failing'
      <4>1. top'.level > MaxLevel
        BY <2>6, <2>12, <2>13
      <4> QED BY <4>1, <2>1 DEF Failing
    <3>4. Plain'
      BY <2>1, <2>3, <1>0, <1>1, <1>14 DEF Plain
    <3> QED BY <3>2, <3>3, <3>4, <1>14 DEF SInv, Following
  <2>14. CASE top.level # MaxLevel
    <3>1. f.level \in 0 .. MaxLevel /\ top.level + 1 \in 0 .. MaxLevel
      BY <2>14, <2>5, <1>2
    <3>2. top.deref = TRUE \/ Len(top.todo) # 1
      BY <1>19 DEF Follows, IsLast
    <3>3. PICK m, q, l :
           /\ m \in Nat \ {0}
           /\ Below(q, l)' /\ Len(stack') = m /\ top' = g
           /\ q \in [1 .. m -> Seq(Strings)] /\ l \in [1 .. m -> Int]
           /\ q[m] = Tail(top.todo) \o rest[Len(stack)]
           /\ l[m] = left[Len(stack)] - (Steps[MaxLevel - f.level] - Longest)
      <4>1. /\ Types /\ stack # <<>> /\ Below(rest, left) /\ f \in Frames /\ g \in Frames
            /\ stack' = Front(stack) \o <<f, g>>
            /\ f.todo = top.todo /\ f.deref = top.deref /\ f.level \in 0 .. MaxLevel
            /\ g.deref = TRUE /\ (top.deref = TRUE \/ Len(top.todo) # 1)
            /\ call' = call
        BY <3>1, <3>2, <2>1, <2>5, <2>6, <1>1, <1>3
      <4>2. Pushes(rest, left, f, g)
        BY ONLY <4>1, BelowPushed
      <4> QED BY ONLY <4>2 DEF Pushes
    <3>4. Steps[MaxLevel - top.level] = 2 * Steps[MaxLevel - (top.level + 1)]
          /\ Steps[MaxLevel - (top.level + 1)] \in Nat
      <4>1. PICK k : k = MaxLevel - top.level
        OBVIOUS
      <4>2. k \in 1 .. MaxLevel /\ k - 1 = MaxLevel - (top.level + 1) /\ k - 1 \in 0 .. MaxLevel
        BY <4>1, <3>1, <1>2
      <4> QED BY <4>1, <4>2, StepsIs
    <3>5. Spare' = Steps[MaxLevel - (top.level + 1)] - Longest
      BY <2>6, <2>12 DEF Spare
    <3>6. (n + 1) + Len(p \o Tail(w.todo)) + Spare' <= l[m]
      <4> DEFINE a == Len(w.todo)
                 b == Len(p)
                 c == Steps[MaxLevel - (top.level + 1)]
                 d == left[Len(stack)]
                 L == Longest
      <4>1. /\ a \in Nat /\ b \in Nat /\ b <= L /\ L \in Nat /\ c \in Nat /\ d \in Int
            /\ n + a + (2 * c - L) <= d
        BY <3>4, <2>8, <1>4, <1>5 DEF Spare
      <4>2. /\ Len(p \o Tail(w.todo)) = b + (a - 1) /\ Spare' = c - L
            /\ l[m] = d - (c - L)
        BY <3>3, <3>5, <2>5, <2>10
      <4> HIDE DEF a, b, c, d, L
      <4>3. (n + 1) + (b + (a - 1)) + (c - L) <= d - (c - L)
        BY <4>1
      <4> QED BY <4>2, <4>3
    <3>7. Along(n + 1, q[Len(stack)], l[Len(stack)])'
      <4>1. Ahead' = p /\ Here' = start /\ There' = start
        BY <2>1, <2>6, <2>12, <1>5 DEF Ahead, Here, There
      <4>2. Walked'[n + 1].todo = p \o q[m] /\ Len(stack') = m
        BY <3>3, <2>9, <1>1, <1>6
      <4>3. top'.level = top.level + 1
        BY <2>6, <2>12
      <4>4. (n + 1) + Len(Walked'[n + 1].todo) + Spare' <= l[m]
        BY <3>6, <2>9, <1>1
      <4> HIDE DEF p, start
      <4> QED BY <4>1, <4>2, <4>3, <4>4, <2>9, <2>11, <1>1 DEF Along
    <3>8. Following'
      <4>1. n + 1 \in Nat /\ q \in [1 .. Len(stack') -> Seq(Strings)]
            /\ l \in [1 .. Len(stack') -> Int] /\ Below(q, l)'
        BY <3>3, <1>4
      <4> QED BY <4>1, <3>7 DEF Following
    <3>9. ~Failing'
      <4>1. ~(top'.level > MaxLevel)
        BY <2>6, <2>12, <3>1
      <4> QED BY <4>1, <2>1 DEF Failing
    <3>10. Plain'
      BY <2>1, <2>3, <1>0, <1>1, <1>14 DEF Plain
    <3> QED BY <3>8, <3>9, <3>10, <1>14 DEF SInv
  <2> QED BY <2>13, <2>14
<1> QED BY <1>17, <1>18, <1>19

(* The state that an assertion stops.                                      *)
LEMMA SameState ==
  ASSUME SInv, UNCHANGED <<tree, call, curdir, stack, at, value>>, Stopped'
  PROVE  SInv'
<1>1. Walked' = Walked /\ Reference' = Reference
  BY SameWalk
<1>2. call' = call /\ curdir' = curdir /\ stack' = stack /\ at' = at /\ value' = value
  OBVIOUS
<1>3. Following'
  <2>1. Failing' <=> Failing
    BY <1>2 DEF Failing, top
  <2>2. ASSUME NEW rest, NEW left PROVE Below(rest, left)' <=> Below(rest, left)
    BY <1>2 DEF Below
  <2>3. ASSUME NEW n, NEW r, NEW l PROVE Along(n, r, l)' <=> Along(n, r, l)
    BY <1>1, <1>2 DEF Along, Ahead, Here, There, Spare, top
  <2>4. ASSUME at \in {"enter", "walk", "reload", "found"}, ~Failing
        PROVE  Following'
    <3>1. PICK n \in Nat, rest \in [1 .. Len(stack) -> Seq(Strings)],
               left \in [1 .. Len(stack) -> Int] :
            Below(rest, left) /\ Along(n, rest[Len(stack)], left[Len(stack)])
      BY <2>4 DEF SInv, Following
    <3>2. Below(rest, left)' /\ Along(n, rest[Len(stack)], left[Len(stack)])'
      <4>1. PICK r, l : r = rest[Len(stack)] /\ l = left[Len(stack)]
        OBVIOUS
      <4>2. Along(n, r, l)'
        BY <4>1, <3>1, <2>3
      <4>3. rest[Len(stack')] = r /\ left[Len(stack')] = l
        BY <4>1, <1>2
      <4>4. Along(n, rest[Len(stack)], left[Len(stack)])'
        BY <4>2, <4>3 DEF Along
      <4> QED BY <4>4, <3>1, <2>2
    <3> QED BY <3>1, <3>2, <1>2 DEF Following
  <2> QED BY <2>1, <2>4, <1>2 DEF Following
<1>4. Failing' => Wrong'
  <2>1. Failing' <=> Failing
    BY <1>2 DEF Failing, top
  <2>2. Wrong' <=> Wrong
    BY <1>1, <1>2 DEF Wrong, Astray, TooManyLinks
  <2> QED BY <2>1, <2>2 DEF SInv
<1>5. Arrived' /\ GivenBack'
  BY <1>1, <1>2 DEF SInv, Arrived, GivenBack, Astray, TooManyLinks
<1>6. Plain'
  <2>1. Missing' <=> Missing
    BY <1>1, <1>2 DEF Missing
  <2>2. ASSUME NEW t, NEW c PROVE OnPath(t, c)' <=> OnPath(t, c)
    BY <1>2 DEF OnPath
  <2>3. OnPath(top.todo, top.current)' <=> OnPath(top.todo, top.current)
    BY <1>2 DEF OnPath, top
  <2>4. OnPath(Tail(top.todo), value)' <=> OnPath(Tail(top.todo), value)
    BY <1>2 DEF OnPath, top
  <2>5. (IsLast' <=> IsLast) /\ top' = top
    BY <1>2 DEF IsLast, top
  <2>6. Unlinked' <=> Unlinked
    BY <2>1, <2>3, <2>4, <2>5, <1>2 DEF Unlinked
  <2>7. CurdirForCreate' <=> CurdirForCreate
    BY <1>1, <1>2 DEF CurdirForCreate
  <2> QED BY <2>6, <2>7, <1>2 DEF SInv, Plain
<1> QED BY <1>3, <1>4, <1>5, <1>6 DEF SInv

(* A component in the middle that leads nowhere, where the reference is    *)
(* lost as well.                                                           *)
LEMMA GivingUpFollows ==
  ASSUME IInv, SInv, ~aborted, at = "found", UNCHANGED <<tree, call>>,
         NEW v \in {INO_EOF} \cup Errors, GiveUp(v), Astray,
         ~call.deref => v # INO_EOF
  PROVE  SInv'
<1> USE Constants
<1>1. /\ Types /\ Levels /\ Plain /\ call' = call /\ (Astray' <=> Astray)
      /\ stack # <<>>
  BY Midway
<1>2. ASSUME ~call.deref PROVE Len(stack) = 1 /\ curdir \in Dirs
  BY <1>1, <1>2 DEF Plain, Unlinked
<1>3. CASE ~CanClose(refs, curdir)
  <2>1. aborted' = TRUE /\ UNCHANGED <<refs, curdir, stack, at, value>>
    BY <1>3 DEF GiveUp
  <2>2. curdir = INO_EOF
    BY <1>3, StillOpen DEF Resolving
  <2>3. call.null
    BY <2>2, <1>1, <1>2 DEF Plain
  <2>4. Stopped'
    BY <2>3, <1>1 DEF Stopped
  <2> QED BY <2>1, <2>4, SameState
<1>4. CASE CanClose(refs, curdir)
  <2>1. /\ curdir' = INO_EOF /\ aborted' = FALSE /\ value' = v /\ stack' = Front(stack)
        /\ at' = IF Len(stack) = 1 THEN "end" ELSE "reload"
    BY <1>4 DEF GiveUp, Return
  <2>2. v \notin Inodes
    OBVIOUS
  <2>3. Following' /\ Arrived'
    BY <2>1, <2>2 DEF Following, Failing, Arrived
  <2>4. Wrong' /\ GivenBack' /\ Stopped'
    BY <2>1, <1>1 DEF Wrong, GivenBack, Stopped
  <2>5. Plain'
    <3>1. ASSUME ~call.deref PROVE Unlinked'
      <4>1. at' = "end" /\ value' # INO_EOF
        BY <3>1, <2>1, <1>2
      <4> QED BY <4>1 DEF Unlinked
    <3> QED BY <3>1, <2>1, <1>1, NotDone DEF Plain
  <2> QED BY <2>3, <2>4, <2>5 DEF SInv
<1> QED BY <1>3, <1>4

(* What the information on it says of an error does not find the file.     *)
LEMMA ReloadFollows ==
  ASSUME IInv, SInv, ~aborted, Reload, UNCHANGED <<tree, call>>
  PROVE  SInv'
<1> USE Constants
<1>0. /\ at = "reload" /\ at' = "found" /\ UNCHANGED <<curdir, stack, aborted>>
      /\ value \in Inodes => value' = value
      /\ value \notin Inodes => value' \in {value, ENOENT}
  BY DEF Reload
<1>1. /\ Types /\ Levels /\ Following /\ (Failing => Wrong) /\ GivenBack /\ Plain
      /\ Walked' = Walked /\ (Astray' <=> Astray) /\ call' = call
      /\ stack # <<>> /\ Len(stack) \in 1 .. Len(stack)
  BY <1>0, Midway
<1>2. value' \in Inodes <=> value \in Inodes
  BY <1>0 DEF Errors
<1>3. top' = top
  BY <1>0 DEF top
<1>4. Following'
  <2>1. ASSUME value \in Inodes PROVE Following'
    <3>1. ~Failing
      BY <2>1, <1>0 DEF Failing
    <3>2. PICK n \in Nat, rest \in [1 .. Len(stack) -> Seq(Strings)],
               left \in [1 .. Len(stack) -> Int] :
            Below(rest, left) /\ Along(n, rest[Len(stack)], left[Len(stack)])
      BY <3>1, <1>0, <1>1 DEF Following
    <3>3. Below(rest, left)'
      BY <3>2, <1>0, <1>1 DEF Below
    <3>4. Along(n, rest[Len(stack)], left[Len(stack)])'
      <4>1. Ahead' = Ahead /\ Here' = Here /\ There' = There /\ Spare' = Spare
        BY <2>1, <1>0, <1>3 DEF Ahead, Here, There, Spare
      <4> QED BY <4>1, <3>2, <1>0, <1>1, <1>3 DEF Along
    <3> QED BY <3>2, <3>3, <3>4, <1>0 DEF Following
  <2> QED BY <2>1, <1>0, <1>2 DEF Following, Failing
<1>5. Failing' => Wrong'
  <2>1. Failing' => Failing
    BY <1>0, <1>2 DEF Failing
  <2> QED BY <2>1, <1>0, <1>1, WrongKept
<1>6. Arrived' /\ GivenBack' /\ Stopped'
  BY <1>0, <1>1 DEF Arrived, GivenBack, Stopped
<1>7. Plain'
  <2>1. call.deref
    BY <1>0, <1>1 DEF Plain, Unlinked
  <2> QED BY <2>1, <1>0, <1>1, NotDone DEF Plain
<1> QED BY <1>4, <1>5, <1>6, <1>7 DEF SInv

(* A component in the middle that is not there. *)
LEMMA LostFollows ==
  ASSUME IInv, SInv, ~aborted, Lost, UNCHANGED <<tree, call>>
  PROVE  SInv'
<1>0. at = "found" /\ ~IsLast /\ value \notin Inodes /\ GiveUp(value)
  BY DEF Lost
<1>1. /\ (Failing => Wrong) /\ Plain /\ Len(stack) \in 1 .. Len(stack)
      /\ top = stack[Len(stack)]
  BY <1>0, Midway
<1>2. Wrong
  BY <1>0, <1>1 DEF Failing
<1>3. Astray
  BY <1>0, <1>1, <1>2 DEF Wrong, IsLast
<1>4. ~call.deref => value # INO_EOF
  BY <1>0, <1>1 DEF Plain, Unlinked
<1>5. value \in {INO_EOF} \cup Errors
  BY <1>0 DEF IInv, Types
<1> QED BY <1>0, <1>3, <1>4, <1>5, GivingUpFollows

(* A component in the middle that is no directory: the reference says so.  *)
LEMMA MeetsNoDirectory ==
  ASSUME IInv, SInv, ~aborted, NoDirectory, UNCHANGED <<tree, call>>
  PROVE  Reference.status = "notdir"
<1> USE Constants
<1>0. at = "found" /\ ~IsLast /\ value \in Inodes /\ value \notin Dirs /\ GiveUp(ENOTDIR)
  BY DEF NoDirectory
<1>1. /\ Types /\ Levels /\ Following /\ stack # <<>> /\ top = stack[Len(stack)]
      /\ top.todo \in Seq(Strings) /\ top.todo # <<>>
  BY <1>0, Midway
<1>2. ~Failing /\ top.level <= MaxLevel
  BY <1>0, <1>1 DEF Failing, Levels
<1>3. PICK n \in Nat, rest \in [1 .. Len(stack) -> Seq(Strings)],
           left \in [1 .. Len(stack) -> Int] :
        Below(rest, left) /\ Along(n, rest[Len(stack)], left[Len(stack)])
  BY <1>0, <1>1, <1>2 DEF Following
<1> DEFINE w == Walked[n]
           r == rest[Len(stack)]
<1>4. /\ n + 1 \in 0 .. Fuel /\ w \in Positions /\ Walked[n + 1] = WalkStep(w)
      /\ r \in Seq(Strings)
  BY <1>1, <1>2, <1>3, Walking
<1>5. w.status = "going" /\ w.todo = Tail(top.todo) \o r /\ w.cur = value
  BY <1>0, <1>3 DEF Along, Ahead, Here
<1>6. w.todo # <<>>
  <2>1. Tail(top.todo) \in Seq(Strings) \ {<<>>}
    BY <1>0, <1>1, Onward DEF IsLast
  <2> QED BY <2>1, <1>4, <1>5, JoinedPaths
<1>7. WalkStep(w) = Stop(w, "notdir")
  BY <1>0, <1>5, <1>6 DEF WalkStep
<1>8. PICK k \in 0 .. Fuel : k = n + 1
  BY <1>4
<1>9. Walked[k].status = "notdir"
  BY <1>4, <1>7, <1>8 DEF Stop, Positions
<1>10. Reference = Walked[k]
  BY <1>1, <1>9, Stops
<1> QED BY <1>9, <1>10

(* So the code gives up as the reference does. *)
LEMMA NoDirectoryFollows ==
  ASSUME IInv, SInv, ~aborted, NoDirectory, UNCHANGED <<tree, call>>
  PROVE  SInv'
<1> USE Constants
<1>1. /\ at = "found" /\ ~IsLast /\ value \in Inodes /\ value \notin Dirs /\ GiveUp(ENOTDIR)
      /\ Types
  BY Midway DEF NoDirectory
<1>2. Astray
  BY MeetsNoDirectory DEF Astray
<1>3. ENOTDIR \in {INO_EOF} \cup Errors /\ ENOTDIR # INO_EOF
  BY DEF Errors
<1> QED BY <1>1, <1>2, <1>3, GivingUpFollows

(* The directory to go on in. *)
LEMMA GoOnFollows ==
  ASSUME IInv, SInv, ~aborted, GoOn, UNCHANGED <<tree, call>>
  PROVE  SInv'
<1> USE Constants
<1> DEFINE f == [top EXCEPT !.current = value, !.todo = Tail(@)]
<1>0. /\ at = "found" /\ at' = "walk" /\ ~IsLast /\ value \in Dirs /\ SetTop(f)
      /\ UNCHANGED <<curdir, value, aborted>>
  BY DEF GoOn
<1>1. /\ Types /\ Levels /\ Following /\ Plain /\ Walked' = Walked /\ call' = call
      /\ stack # <<>> /\ top = stack[Len(stack)] /\ top \in Frames
      /\ top.todo \in Seq(Strings) /\ top.todo # <<>>
  BY <1>0, Midway
<1>2. ~Failing
  BY <1>0 DEF Failing
<1>3. PICK n \in Nat, rest \in [1 .. Len(stack) -> Seq(Strings)],
           left \in [1 .. Len(stack) -> Int] :
        Below(rest, left) /\ Along(n, rest[Len(stack)], left[Len(stack)])
  BY <1>0, <1>1, <1>2 DEF Following
<1>4. Tail(top.todo) \in Seq(Strings) \ {<<>>}
  BY <1>0, <1>1, Onward DEF IsLast
<1>5. /\ f \in Frames /\ f.level = top.level /\ f.current = value
      /\ f.deref = top.deref /\ f.todo = Tail(top.todo)
  BY <1>0, <1>1, <1>4 DEF Frames
<1> HIDE DEF f
<1>6. Below(rest, left)' /\ Len(stack') = Len(stack) /\ top' = f
  BY <1>0, <1>1, <1>3, <1>5, BelowMoved
<1>7. Along(n, rest[Len(stack)], left[Len(stack)])'
  <2>1. Ahead' = Ahead /\ Here' = Here /\ There' = There /\ Spare' = Spare
        /\ top'.level = top.level
    BY <1>0, <1>5, <1>6 DEF Ahead, Here, There, Spare
  <2> QED BY <2>1, <1>1, <1>3, <1>6 DEF Along
<1>8. Following'
  BY <1>3, <1>6, <1>7 DEF Following
<1>9. Failing' = FALSE /\ Arrived' /\ GivenBack' /\ Stopped'
  BY <1>0 DEF Failing, Arrived, GivenBack, Stopped
<1>10. Plain'
  <2>1. ASSUME ~call.deref PROVE Unlinked'
    <3>1. PICK t, c : t = Tail(top.todo) /\ c = value
      OBVIOUS
    <3>2. Len(stack) = 1 /\ OnPath(t, c)
      BY <3>1, <2>1, <1>0, <1>1 DEF Plain, Unlinked
    <3>3. top'.todo = t /\ top'.current = c
      BY <3>1, <1>5, <1>6
    <3>4. OnPath(top.todo, top.current)'
      <4>1. OnPath(t, c) /\ call' = call
        BY <3>2, <1>1
      <4> QED BY ONLY <4>1, <3>3 DEF OnPath
    <3> QED BY <3>2, <3>4, <1>0, <1>6 DEF Unlinked
  <2> QED BY <2>1, <1>0, <1>1, NotDone DEF Plain
<1> QED BY <1>8, <1>9, <1>10 DEF SInv

(* The last component: what was found is what the reference finds, and     *)
(* the name that is missing is the one that the reference misses.          *)
LEMMA FinalFollows ==
  ASSUME IInv, SInv, ~aborted, Final, UNCHANGED <<tree, call>>
  PROVE  SInv'
<1> USE Constants
<1>0. /\ at = "found" /\ IsLast /\ UNCHANGED <<curdir, aborted>>
      /\ Return(IF value \in Inodes THEN value ELSE INO_EOF)
  BY DEF Final
<1>1. /\ Types /\ Levels /\ Curdir /\ Following /\ (Failing => Wrong) /\ GivenBack /\ Plain
      /\ Reference' = Reference /\ (Astray' <=> Astray) /\ call' = call
      /\ stack # <<>> /\ Len(stack) \in 1 .. Len(stack) /\ top = stack[Len(stack)]
      /\ Tail(top.todo) = <<>>
  BY <1>0, Midway
<1>2. Stopped'
  BY <1>0 DEF Stopped
<1>3. at' = (IF Len(stack) = 1 THEN "end" ELSE "reload") /\ stack' = Front(stack)
      /\ value' = IF value \in Inodes THEN value ELSE INO_EOF
  BY <1>0 DEF Return
<1>4. Plain'
  <2>1. ASSUME ~call.deref PROVE Unlinked'
    <3>1. Unlinked /\ Len(stack) = 1
      BY <2>1, <1>0, <1>1 DEF Plain, Unlinked
    <3>2. value \notin Inodes => Missing
      BY <3>1, <1>0 DEF Unlinked
    <3>3. Missing' <=> Missing
      BY <1>0, <1>1 DEF Missing
    <3>4. at' = "end" /\ (value' = INO_EOF => value \notin Inodes)
      BY <3>1, <1>3
    <3> QED BY <3>2, <3>3, <3>4 DEF Unlinked
  <2> QED BY <2>1, <1>0, <1>1, <1>3, NotDone DEF Plain
<1>5. CASE value \in Inodes
  <2>1. ~Failing /\ top.level <= MaxLevel /\ curdir \in Dirs
    BY <1>0, <1>1, <1>5 DEF Failing, Levels, Curdir
  <2>2. PICK n \in Nat, rest \in [1 .. Len(stack) -> Seq(Strings)],
             left \in [1 .. Len(stack) -> Int] :
          Below(rest, left) /\ Along(n, rest[Len(stack)], left[Len(stack)])
    BY <2>1, <1>0, <1>1 DEF Following
  <2>3. /\ n \in 0 .. Fuel /\ n + 1 \in 0 .. Fuel /\ rest[Len(stack)] \in Seq(Strings)
    BY <2>1, <2>2, <1>1, Walking
  <2>4. Ahead \o rest[Len(stack)] = rest[Len(stack)]
    BY <2>3, <1>0, <1>1, ConcatEmptySeq DEF Ahead
  <2>5. /\ Walked[n].status = "going" /\ Walked[n].todo = rest[Len(stack)]
        /\ Walked[n].cur = value /\ Walked[n].dir = curdir'
        /\ Walked[n].links >= top.level
        /\ n + Len(rest[Len(stack)]) + Spare <= left[Len(stack)]
    BY <2>2, <2>4, <1>0 DEF Along, Here, There
  <2>6. PICK v \in Inodes : v = value
    BY <1>5
  <2>7. Return(v) /\ curdir' \in Dirs /\ Walked[n].cur = v
    BY <2>1, <2>5, <2>6, <1>0
  <2>8. Following' /\ ~Failing' /\ Arrived' /\ GivenBack'
    BY <2>1, <2>2, <2>3, <2>5, <2>7, <1>1, ReturnsFound
  <2> QED BY <2>8, <1>2, <1>4 DEF SInv
<1>6. CASE value \notin Inodes
  <2>1. value' = INO_EOF /\ at' \in {"end", "reload"}
    BY <1>3, <1>6
  <2>2. Following' /\ Arrived'
    BY <2>1 DEF Following, Failing, Arrived
  <2>3. Wrong'
    <3>1. Failing
      BY <1>0, <1>6 DEF Failing
    <3> QED BY <3>1, <1>1, <1>3, WrongKept
  <2>4. GivenBack'
    BY <1>0, <1>1 DEF GivenBack
  <2> QED BY <2>2, <2>3, <2>4, <1>2, <1>4 DEF SInv
<1> QED BY <1>5, <1>6

(* The end of namei: the directory in *curdir is what its caller expects,  *)
(* or nobody asked for it; if it has been given back, the reference is     *)
(* lost.                                                                   *)
LEMMA EndFollows ==
  ASSUME IInv, SInv, ~aborted, End, UNCHANGED <<tree, call>>
  PROVE  SInv'
<1> USE Constants
<1>0. at = "end" /\ UNCHANGED <<stack, value>>
  BY DEF End
<1>1. /\ Types /\ Curdir /\ GivenBack /\ Plain /\ call' = call
      /\ Reference' = Reference /\ (Astray' <=> Astray)
  BY Midway
<1>2. CASE aborted'
  <2>1. call.null /\ UNCHANGED <<curdir, at>>
    BY <1>2 DEF End
  <2>2. curdir = INO_EOF
    <3>1. IInv'
      BY EndStep
    <3> QED BY <3>1, <2>1, <1>2 DEF IInv, Aborting
  <2>3. Stopped'
    BY <2>1, <2>2, <1>0, <1>1 DEF Stopped, GivenBack
  <2> QED BY <2>1, <2>3, <1>0, SameState
<1>3. CASE ~aborted'
  <2>1. at' = "done" /\ (~call.null => curdir' = curdir)
    BY <1>3 DEF End
  <2>2. Following' /\ ~Failing' /\ Arrived' /\ GivenBack' /\ Stopped'
    BY <2>1, <1>3 DEF Following, Failing, Arrived, GivenBack, Stopped
  <2>3. CurdirForCreate'
    <3> SUFFICES ASSUME ~call.null
                 PROVE  /\ curdir' = INO_EOF <=> value' \notin Inodes \cup {INO_EOF}
                        /\ value' = INO_EOF =>
                             Reference'.status = "missing" /\ curdir' = Reference'.dir
      BY <1>1 DEF CurdirForCreate
    <3>1. value = INO_EOF => Missing
      BY <1>0, <1>1 DEF Plain, Unlinked
    <3>2. value \in Inodes \cup {INO_EOF} \cup Errors
      BY <1>1 DEF Types
    <3>3. /\ value \in Inodes => curdir \in Dirs
          /\ value \in Errors => curdir = INO_EOF
      BY <1>0, <1>1 DEF Curdir
    <3> QED BY <3>1, <3>2, <3>3, <2>1, <1>0, <1>1 DEF Missing
  <2>4. Plain'
    <3>1. Unlinked'
      BY <2>1 DEF Unlinked
    <3> QED BY <3>1, <2>3, <1>0, <1>1 DEF Plain
  <2> QED BY <2>2, <2>4 DEF SInv
<1> QED BY <1>2, <1>3

(* The caller gives back what it was given. *)
LEMMA ReleaseFollows ==
  ASSUME IInv, SInv, ~aborted, Release, UNCHANGED <<tree, call>>
  PROVE  SInv'
<1>0. at = "done" /\ at' = "over" /\ aborted' = FALSE
  BY DEF Release
<1>1. Plain /\ call' = call
  BY Midway
<1>2. Following' /\ ~Failing' /\ Arrived' /\ GivenBack' /\ Stopped'
  BY <1>0 DEF Following, Failing, Arrived, GivenBack, Stopped
<1>3. Unlinked' /\ CurdirForCreate'
  BY <1>0 DEF Unlinked, CurdirForCreate
<1> QED BY <1>0, <1>1, <1>2, <1>3 DEF SInv, Plain

(* The call: the reference has the whole path before it. *)
LEMMA CallFollows == ASSUME IInv, SInv, Call PROVE SInv'
<1> USE Constants
<1>0. at = "idle" /\ at' = "enter" /\ curdir' = root /\ ~aborted /\ aborted' = aborted
  BY DEF Call, IInv, Aborting
<1>1. PICK path \in Paths, deref \in BOOLEAN, null \in BOOLEAN :
        /\ ~null => ~deref
        /\ call' = [path |-> path, deref |-> deref, null |-> null]
        /\ stack' = <<Frame(path, deref, 0)>>
  BY DEF Call
<1>2. /\ stack' # <<>> /\ Len(stack') = 1 /\ stack'[1] = Frame(path, deref, 0)
      /\ top' = Frame(path, deref, 0)
  <2>1. /\ stack' # <<>> /\ Len(stack') = 1 /\ stack'[1] = Frame(path, deref, 0)
    BY <1>1
  <2>2. stack' \in Seq(Frames)
    <3>1. IInv'
      BY CallStep
    <3> QED BY <3>1 DEF IInv, Types
  <2>3. Last(stack') = stack'[Len(stack')]
    BY <2>1, <2>2, LastFront
  <2> QED BY <2>1, <2>3 DEF top
<1>3. /\ top'.todo = path /\ top'.level = 0 /\ top'.deref = deref
      /\ call'.path = path /\ call'.deref = deref /\ call'.null = null
  BY <1>1, <1>2 DEF Frame
<1>4. Walked'[0] = Walk(path)
  <2>1. (Walked[0] = Walk(call.path))'
    BY WalkedIs, PTL
  <2> QED BY <2>1, <1>3
<1>5. path \in Seq(Strings) /\ Len(path) \in Nat /\ Len(path) <= Longest /\ Longest \in Nat
  BY NameiAssumption, LenProperties
<1>6. Failing' = FALSE
  BY <1>0, <1>3 DEF Failing
<1>7. PICK rest, left : /\ rest = [k \in 1 .. 1 |-> <<>>]
                        /\ left = [k \in 1 .. 1 |-> Steps[MaxLevel]]
  OBVIOUS
<1>8. /\ Steps[MaxLevel] \in Nat /\ rest[1] = <<>> /\ left[1] = Steps[MaxLevel]
      /\ rest \in [1 .. 1 -> Seq(Strings)] /\ left \in [1 .. 1 -> Int]
  <2>1. Steps[MaxLevel] \in Nat
    <3>1. MaxLevel \in 0 .. MaxLevel
      OBVIOUS
    <3> QED BY <3>1, StepsIs
  <2>2. <<>> \in Seq(Strings) /\ 1 \in 1 .. 1
    OBVIOUS
  <2> QED BY <2>1, <2>2, <1>7
<1>9. Below(rest, left)'
  <2>1. \A k \in 1 .. 1 : k = 1
    OBVIOUS
  <2>2. 2 .. 1 = {}
    OBVIOUS
  <2>3. \A k \in 1 .. 1 : left[k] <= Steps[MaxLevel]
    BY <2>1, <1>8
  <2>4. \A j, k \in 1 .. 1 : ~(j < k)
    OBVIOUS
  <2> QED BY <2>2, <2>3, <2>4, <1>2, <1>3, <1>8 DEF Below
<1>10. Along(0, rest[1], left[1])'
  <2>1. Ahead' = path /\ Here' = root /\ There' = root
    BY <1>0, <1>3 DEF Ahead, Here, There
  <2>2. Spare' = Steps[MaxLevel] - Longest
    BY <1>3 DEF Spare
  <2>3. path \o <<>> = path
    BY <1>5, ConcatEmptySeq
  <2>4. 0 + Len(path) + (Steps[MaxLevel] - Longest) <= Steps[MaxLevel]
    <3>1. PICK a, b : a = Len(path) /\ b = Steps[MaxLevel]
      OBVIOUS
    <3>2. a \in Nat /\ b \in Nat /\ a <= Longest /\ Longest \in Nat
      BY <3>1, <1>5, <1>8
    <3>3. 0 + a + (b - Longest) <= b
      BY ONLY <3>2
    <3> QED BY <3>1, <3>3
  <2> QED BY <2>1, <2>2, <2>3, <2>4, <1>3, <1>4, <1>8 DEF Along, Walk
<1>11. Following'
  <2>1. 0 \in Nat
    OBVIOUS
  <2>2. Below(rest, left)' /\ Along(0, rest[Len(stack)], left[Len(stack)])'
    BY <1>2, <1>9, <1>10 DEF Along
  <2> QED BY <2>1, <2>2, <1>2, <1>8 DEF Following
<1>12. Arrived' /\ GivenBack' /\ Stopped'
  BY <1>0 DEF Arrived, GivenBack, Stopped
<1>13. Plain'
  <2>1. Unlinked'
    BY <1>0, <1>2, <1>3 DEF Unlinked
  <2> QED BY <2>1, <1>0, <1>1, <1>3, NotDone DEF Plain
<1> QED BY <1>6, <1>11, <1>12, <1>13 DEF SInv

-----------------------------------------------------------------------------
(* Before the call nothing is promised. *)
LEMMA InitialFollows == Init => SInv
BY DEF Init, SInv, Following, Failing, Arrived, GivenBack, Stopped, Plain, Unlinked,
       CurdirForCreate

(* No step parts the code from the reference. *)
LEMMA SteppingFollows == ASSUME IInv, SInv, Next PROVE SInv'
<1>1. CASE Call
  BY <1>1, CallFollows
<1>2. CASE Step
  <2>1. ~aborted /\ UNCHANGED <<tree, call>>
    BY <1>2 DEF Step
  <2>2. \/ TooDeep \/ Enter \/ SkipEmpty \/ Descend \/ Reload
        \/ Lost \/ NoDirectory \/ GoOn \/ Final \/ End \/ Release
    BY <1>2 DEF Step
  <2> QED BY <2>1, <2>2, TooDeepFollows, EnterFollows, SkipEmptyFollows, DescendFollows,
             ReloadFollows, LostFollows, NoDirectoryFollows, GoOnFollows, FinalFollows,
             EndFollows, ReleaseFollows
<1> QED BY <1>1, <1>2 DEF Next

(* The code and the reference go the same way, for every tree, every path  *)
(* and every depth of the recursion.                                       *)
THEOREM NameiFollows == Spec => [](IInv /\ SInv)
<1>1. Init => IInv /\ SInv
  BY Initial, InitialFollows
<1>2. IInv /\ SInv /\ [Next]_vars => (IInv /\ SInv)'
  <2> SUFFICES ASSUME IInv, SInv, [Next]_vars PROVE IInv' /\ SInv'
    OBVIOUS
  <2>1. CASE Next
    BY <2>1, Stepping, SteppingFollows
  <2>2. CASE UNCHANGED vars
    <3>1. UNCHANGED <<tree, call, curdir, stack, at, value, aborted>>
      BY <2>2 DEF vars, tree
    <3>2. Stopped'
      <4>1. Reference' = Reference
        BY <3>1, SameWalk
      <4> QED BY <4>1, <3>1 DEF SInv, Stopped, Astray, TooManyLinks
    <3> QED BY <3>1, <3>2, <2>2, Stuttering, SameState
  <2> QED BY <2>1, <2>2
<1> QED BY <1>1, <1>2, PTL DEF Spec

(* A reference is left behind only where the reference resolution meets    *)
(* something that is no directory.                                         *)
Leaving == leaked # NoReferences => at # "idle" /\ Reference.status = "notdir"

LEMMA SteppingLeaves ==
  ASSUME IInv, SInv, Leaving, Next
  PROVE  Leaving'
<1>1. CASE Call
  BY <1>1 DEF Call, Leaving
<1>2. CASE Step
  <2>1. /\ ~aborted /\ UNCHANGED <<tree, call>>
        /\ \/ TooDeep \/ Enter \/ SkipEmpty \/ Descend \/ Reload
           \/ Lost \/ NoDirectory \/ GoOn \/ Final \/ End \/ Release
    BY <1>2 DEF Step
  <2>2. Reference' = Reference
    BY <2>1, SameWalk DEF IInv
  <2>3. CASE NoDirectory
    <3>1. Reference.status = "notdir"
      BY <2>1, <2>3, MeetsNoDirectory
    <3>2. at' # "idle"
      BY <2>3 DEF NoDirectory, GiveUp, Return
    <3> QED BY <3>1, <3>2, <2>2 DEF Leaving
  <2>4. CASE ~NoDirectory
    <3>1. leaked' = leaked /\ at' # "idle"
      BY <2>1, <2>4 DEF TooDeep, Enter, SkipEmpty, Descend, Abort, Reload, Lost, GiveUp, GoOn,
                        Final, End, Release, Return
    <3> QED BY <3>1, <2>2 DEF Leaving
  <2> QED BY <2>3, <2>4
<1> QED BY <1>1, <1>2 DEF Next

(* OthersGiveBack holds always: when the caller of namei has given back    *)
(* what it was given, every reference that namei and namei_rec took is     *)
(* given back once, on every way through the recursion but the return of   *)
(* ENOTDIR, and in every tree unless the path leads through something that *)
(* is no directory.                                                        *)
THEOREM NameiOthersGiveBack == Spec => []OthersGiveBack
<1>1. Init => Leaving
  BY DEF Init, Leaving
<1>2. IInv /\ SInv /\ Leaving /\ [Next]_vars => Leaving'
  <2> SUFFICES ASSUME IInv, SInv, Leaving, [Next]_vars PROVE Leaving'
    OBVIOUS
  <2>1. CASE Next
    BY <2>1, SteppingLeaves
  <2>2. CASE UNCHANGED vars
    <3>1. UNCHANGED <<tree, call, at, leaked>>
      BY <2>2 DEF vars, tree
    <3>2. Reference' = Reference
      BY <3>1, SameWalk
    <3> QED BY <3>1, <3>2 DEF Leaving
  <2> QED BY <2>1, <2>2
<1>3. IInv /\ Leaving => OthersGiveBack
  BY OnlyLeaked DEF Leaving, OthersGiveBack
<1> QED BY <1>1, <1>2, <1>3, NameiFollows, PTL DEF Spec

(* FindsTheFile holds always: what the recursion of namei_rec finds, and   *)
(* the directory it leaves in *curdir, is what path_resolution(7) finds by *)
(* putting each link into the path, and it fails only where that fails, or *)
(* follows more than MaxLevel links.                                       *)
THEOREM NameiFinds == Spec => []FindsTheFile
<1>1. IInv /\ SInv => FindsTheFile
  BY DEF SInv, FindsTheFile, Arrived, Failing, Wrong, Astray
<1> QED BY <1>1, NameiFollows, PTL

(* CurdirForCreate holds always: a caller of path_open that is told        *)
(* INO_EOF has, open, the directory that the name is missing from          *)
(* (path.c:127), whatever comes before the name in the path.               *)
THEOREM NameiCurdirForCreate == Spec => []CurdirForCreate
<1>1. SInv => CurdirForCreate
  BY DEF SInv, Plain
<1> QED BY <1>1, NameiFollows, PTL

(* AbortsOnlyWhenLost holds always: the assertions at path.c:98 and 157    *)
(* fail only where a component in the middle leads nowhere or there are    *)
(* too many links, and never for path_open.                                *)
THEOREM NameiAbortsOnlyWhenLost == Spec => []AbortsOnlyWhenLost
<1>1. IInv /\ SInv => AbortsOnlyWhenLost
  BY DEF IInv, Aborting, SInv, Stopped, Astray, AbortsOnlyWhenLost
<1> QED BY <1>1, NameiFollows, PTL

=============================================================================
