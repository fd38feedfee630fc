--------------------------- MODULE NamespaceProofs ---------------------------
(***************************************************************************)
(* What the requests of Namespace keep, for every set of inodes, names and *)
(* handles: the types, the links, the references, the tree, what a crash   *)
(* tears, and that they implement Tree.                                    *)
(*                                                                         *)
(* What the properties say holds between requests only.  The invariant     *)
(* says for each place in a request what it holds (Asked), who refers to   *)
(* an inode (Referenced), which link is not counted yet or any more        *)
(* (Linked), which directory has two names (OneName) or a ".." that is not *)
(* right yet (Upward), what it has looked at that has to be so still       *)
(* (Steps), and what became of the names of its beginning (History).       *)
(*                                                                         *)
(* First come what can be reached, and numbers of names, places and        *)
(* handles; then the invariant, with one lemma to each action; then the    *)
(* properties; then how Tree sees each action.                             *)
(***************************************************************************)
EXTENDS Namespace, FiniteSetTheorems, TLAPS

(* What is reachable: the root, what a reachable directory names, and      *)
(* nothing else.                                                           *)
LEMMA ReachRoot ==
  ASSUME NEW es
  PROVE  root \in ReachableIn(es) /\ ReachableIn(es) \subseteq Inodes
BY NamespaceAssumption DEF ReachableIn

(* A name leads on from a directory that can be reached. *)
LEMMA ReachStep ==
  ASSUME NEW es, NEW e \in es, e.ino \in Inodes, e.dir \in ReachableIn(es)
  PROVE  e.ino \in ReachableIn(es)
BY DEF ReachableIn

(* A set with the root that no name of its directories leads out of has    *)
(* everything that can be reached.                                         *)
LEMMA ReachLeast ==
  ASSUME NEW es, NEW S \in SUBSET Inodes, root \in S,
         \A e \in es : e.dir \in S => e.ino \in S
  PROVE  ReachableIn(es) \subseteq S
BY DEF ReachableIn

(* More names reach no less. *)
LEMMA ReachMore ==
  ASSUME NEW es, NEW fs, es \subseteq fs
  PROVE  ReachableIn(es) \subseteq ReachableIn(fs)
BY DEF ReachableIn

(* What is reachable has a name, unless it is the root. *)
LEMMA ReachNamed ==
  ASSUME NEW es, \A e \in es : e.ino \in Inodes,
         NEW i \in ReachableIn(es), i # root
  PROVE  \E e \in es : e.ino = i
<1> DEFINE S == {root} \cup {e.ino : e \in es}
<1>1. S \in SUBSET Inodes /\ root \in S
  BY NamespaceAssumption
<1>2. \A e \in es : e.dir \in S => e.ino \in S
  OBVIOUS
<1>3. i \in S
  BY <1>1, <1>2, ReachLeast
<1> QED BY <1>3

(* A name under which nothing is can go: everything else stays reachable. *)
LEMMA ReachWithoutLeaf ==
  ASSUME NEW es, \A e \in es : e.ino \in Inodes,
         NEW leaf, \A e \in es : e.dir # leaf,
         NEW fs \in SUBSET es, \A e \in es \ fs : e.ino = leaf,
         NEW i \in ReachableIn(es), i # leaf
  PROVE  i \in ReachableIn(fs)
<1> DEFINE S == ReachableIn(fs) \cup ({leaf} \cap Inodes)
<1>1. S \in SUBSET Inodes /\ root \in S
  BY ReachRoot
<1>2. ASSUME NEW e \in es, e.dir \in S PROVE e.ino \in S
  <2>1. e.dir \in ReachableIn(fs)
    BY <1>2
  <2>2. CASE e \in fs
    BY <2>1, <2>2, ReachStep
  <2>3. CASE e \notin fs
    BY <2>3
  <2> QED BY <2>2, <2>3
<1>3. i \in S
  BY <1>1, <1>2, ReachLeast
<1> QED BY <1>3

(* A name can go when another one for the same inode is reachable without  *)
(* it: nothing is lost.                                                    *)
LEMMA ReachWithoutOther ==
  ASSUME NEW es, \A e \in es : e.ino \in Inodes,
         NEW fs \in SUBSET es, NEW moved,
         \A e \in es \ fs : e.ino = moved,
         moved \in ReachableIn(fs)
  PROVE  ReachableIn(es) = ReachableIn(fs)
<1> DEFINE S == ReachableIn(fs)
<1>1. S \in SUBSET Inodes /\ root \in S
  BY ReachRoot
<1>2. ASSUME NEW e \in es, e.dir \in S PROVE e.ino \in S
  BY <1>2, ReachStep
<1>3. ReachableIn(es) \subseteq S
  BY <1>1, <1>2, ReachLeast
<1> QED BY <1>3, ReachMore

-----------------------------------------------------------------------------
(* How adding and removing a name changes the number of names of an inode. *)
Count(es, i) == Cardinality({e \in es : e.ino = i})

(* The names of an inode are a number, which is 0 when there is none. *)
LEMMA CountType ==
  ASSUME NEW es, IsFiniteSet(es), NEW i
  PROVE  /\ Count(es, i) \in Nat
         /\ Count(es, i) = 0 <=> \A e \in es : e.ino # i
<1>1. IsFiniteSet({e \in es : e.ino = i})
  BY FS_Subset
<1> QED BY <1>1, FS_CardinalityType, FS_EmptySet DEF Count

(* One more name counts once, for the inode it leads to and no other. *)
LEMMA CountAdd ==
  ASSUME NEW es, IsFiniteSet(es), NEW e, e \notin es, NEW i
  PROVE  /\ IsFiniteSet(es \cup {e})
         /\ Count(es \cup {e}, i) = Count(es, i) + Bit(i = e.ino)
<1> DEFINE old == {f \in es : f.ino = i}
           new == {f \in es \cup {e} : f.ino = i}
<1>1. IsFiniteSet(old)
  BY FS_Subset
<1>2. Cardinality(old) \in Nat
  BY <1>1, FS_CardinalityType
<1>3. CASE i = e.ino
  <2>1. new = old \cup {e} /\ e \notin old
    BY <1>3
  <2> HIDE DEF old, new
  <2>2. Cardinality(new) = Cardinality(old) + 1
    BY <2>1, <1>1, FS_AddElement
  <2> QED BY <2>2, <1>3, FS_AddElement DEF Bit, Count, old, new
<1>4. CASE i # e.ino
  <2>1. new = old
    BY <1>4
  <2>2. Count(es \cup {e}, i) = Count(es, i)
    BY <2>1 DEF Count
  <2> QED BY <2>2, <1>2, <1>4, FS_AddElement DEF Bit, Count
<1> QED BY <1>3, <1>4

(* So does one name less. *)
LEMMA CountRemove ==
  ASSUME NEW es, IsFiniteSet(es), NEW e \in es, NEW i
  PROVE  /\ IsFiniteSet(es \ {e})
         /\ Count(es \ {e}, i) = Count(es, i) - Bit(i = e.ino)
<1> DEFINE fs == es \ {e}
<1>1. IsFiniteSet(fs) /\ e \notin fs /\ fs \cup {e} = es
  BY FS_RemoveElement
<1> HIDE DEF fs
<1>2. Count(fs \cup {e}, i) = Count(fs, i) + Bit(i = e.ino)
  BY <1>1, CountAdd
<1>3. Count(fs, i) \in Nat
  BY <1>1, CountType
<1> QED BY <1>1, <1>2, <1>3 DEF Bit, fs

(* The references that no place, one place and several places hold. *)
LEMMA PathRefsType ==
  ASSUME NEW ps, IsFiniteSet(ps), NEW i
  PROVE  /\ PathRefs(ps, i) \in Nat
         /\ PathRefs(ps, i) = 0 <=> \A p \in ps : p.dir # i
<1>1. IsFiniteSet({p \in ps : p.dir = i})
  BY FS_Subset
<1> QED BY <1>1, FS_CardinalityType, FS_EmptySet DEF PathRefs

(* A place more holds a reference to its directory, if it was not there. *)
LEMMA PathRefsOne ==
  ASSUME NEW p, NEW i
  PROVE  PathRefs({p}, i) = Bit(i = p.dir) /\ PathRefs({}, i) = 0
<1>1. CASE p.dir = i
  <2>1. {q \in {p} : q.dir = i} = {p} /\ {q \in {} : q.dir = i} = {}
    BY <1>1
  <2> QED BY <2>1, <1>1, FS_Singleton, FS_EmptySet DEF PathRefs, Bit
<1>2. CASE p.dir # i
  <2>1. {q \in {p} : q.dir = i} = {} /\ {q \in {} : q.dir = i} = {}
    BY <1>2
  <2> QED BY <2>1, <1>2, FS_EmptySet DEF PathRefs, Bit
<1> QED BY <1>1, <1>2

(* The handles that name an inode, and how opening and closing one changes *)
(* their number.                                                           *)
Held(f, i) == Cardinality({h \in Handles : f[h] = i})

(* The handles of an inode are a number, which is 0 when there is none. *)
LEMMA HeldType ==
  ASSUME NEW f, NEW i
  PROVE  /\ Held(f, i) \in Nat
         /\ Held(f, i) = 0 <=> \A h \in Handles : f[h] # i
<1>1. IsFiniteSet({h \in Handles : f[h] = i})
  BY NamespaceAssumption, FS_Subset
<1> QED BY <1>1, FS_CardinalityType, FS_EmptySet DEF Held

(* HeldBy counts the handles of fd. *)
LEMMA HeldByIs ==
  ASSUME NEW i
  PROVE  HeldBy(i) = Held(fd, i) /\ HeldBy(i)' = Held(fd', i)
BY DEF HeldBy, Held

(* f and g agree on every handle but h. *)
Others(f, g, h) == \A k \in Handles : k # h => g[k] = f[k]

(* A handle that comes to name an inode counts once for it. *)
LEMMA HeldOpen ==
  ASSUME NEW f, NEW g, NEW h \in Handles, NEW i, f[h] # i, Others(f, g, h)
  PROVE  /\ i = g[h] => Held(g, i) = Held(f, i) + 1
         /\ i # g[h] => Held(g, i) = Held(f, i)
<1> USE DEF Others
<1> DEFINE old == {k \in Handles : f[k] = i}
           new == {k \in Handles : g[k] = i}
<1>1. IsFiniteSet(old) /\ Cardinality(old) \in Nat /\ h \notin old
  BY NamespaceAssumption, FS_Subset, FS_CardinalityType
<1>2. CASE i = g[h]
  <2>1. new = old \cup {h}
    BY <1>2
  <2> QED BY <2>1, <1>1, <1>2, FS_AddElement DEF Held
<1>3. CASE i # g[h]
  <2>1. new = old
    BY <1>3, <1>1
  <2> QED BY <2>1, <1>1, <1>3 DEF Held
<1> QED BY <1>2, <1>3

(* Where the program may be, and what a request then holds. *)
Asks == {"attributes", "same", "path_open", "mkdir", "path_link", "linking", "unlink",
         "got", "rmdir", "rename", "source", "target", "crippled", "unlinking", "unlinked",
         "insert", "moved", "reparent"}
Ops == {"none", "attributes", "mkdir", "create", "symlink", "link", "unlink", "rmdir",
        "rename"}
(* TypeOK, and what it takes to be kept. *)
Types ==
  /\ kind \in [Inodes -> {"free", "dir", "file", "link"}]
  /\ links \in [Inodes -> Nat]
  /\ refs \in [Inodes -> Nat]
  /\ entries \subseteq [dir : Inodes, name : Names, ino : Inodes]
  /\ IsFiniteSet(entries)
  /\ parent \in [Inodes -> Inodes \cup {None}]
  /\ \A i \in Inodes : parent[i] # None => kind[i] = "dir"
  /\ fd \in [Handles -> Inodes \cup {None}]
  /\ paths \subseteq Place /\ IsFiniteSet(paths)
  /\ pc \in Asks \cup {"idle", "torn"}
  /\ req \in [op : Ops, inode : Inodes \cup {None}, current : Inodes \cup {None},
              src : Place \cup {None}, dst : Place \cup {None}]
  /\ ok \in BOOLEAN
  /\ leaked \in [Inodes -> Nat]

(* Which of its two inodes the request has open, and which paths. *)
Holds(inode, current) ==
  /\ req.inode \in (IF inode THEN Inodes ELSE {None})
  /\ req.current \in (IF current THEN Inodes ELSE {None})

OnePath == req.dst \in Place /\ paths = {req.dst}
TwoPaths ==
  /\ req.op = "rename" /\ req.src # req.dst
  /\ req.src \in Place /\ req.dst \in Place /\ paths = {req.src, req.dst}

(* What a request has open where it is. *)
Asked ==
  /\ pc = "idle" => req = Idle /\ paths = {}
  /\ pc = "attributes" =>
       req.op = "attributes" /\ paths = {} /\ Holds(TRUE, FALSE)
  /\ pc = "same" => req.op = "rename" /\ req.src = req.dst /\ OnePath /\ Holds(FALSE, FALSE)
  /\ pc = "path_open" =>
       /\ req.op \in {"create", "symlink", "link"}
       /\ req.dst \in Place /\ paths = {} /\ Holds(TRUE, FALSE)
  /\ pc \in {"mkdir", "unlink", "rmdir"} => req.op = pc /\ OnePath /\ Holds(FALSE, FALSE)
  /\ pc \in {"path_link", "linking"} =>
       /\ req.op \in {"create", "symlink", "link", "mkdir"}
       /\ OnePath /\ Holds(TRUE, FALSE)
  /\ pc = "got" => req.op \in {"unlink", "rmdir"} /\ OnePath /\ Holds(FALSE, TRUE)
  /\ pc = "rename" => TwoPaths /\ Holds(FALSE, FALSE)
  /\ pc \in {"source", "insert", "moved", "reparent"} => TwoPaths /\ Holds(TRUE, FALSE)
  /\ pc = "target" => TwoPaths /\ Holds(TRUE, TRUE)
  /\ pc = "crippled" => \/ req.op = "rmdir" /\ OnePath /\ Holds(FALSE, TRUE)
                        \/ TwoPaths /\ Holds(TRUE, TRUE)
  /\ pc \in {"unlinking", "unlinked"} =>
       \/ req.op \in {"unlink", "rmdir"} /\ OnePath /\ Holds(FALSE, TRUE)
       \/ TwoPaths /\ Holds(TRUE, TRUE)

(* Each reference belongs to a handle, to an open path, to what the        *)
(* request is about, or was dropped.                                       *)
Referenced ==
  /\ \A i \in Inodes :
       refs[i] = HeldBy(i) + leaked[i] + PathRefs(paths, i)
                 + Bit(i = req.inode) + Bit(i = req.current)
  /\ \A i \in Inodes : kind[i] = "free" => refs[i] = 0
  /\ \A i \in Inodes : kind[i] # "free" /\ links[i] = 0 /\ refs[i] = 0 => i \in stranded

(* A handle names a file or a directory. *)
HandlesKind == \A h \in Handles : fd[h] # None => kind[fd[h]] \in {"file", "dir"}

(* The link that is still to be counted, or still counted. *)
Uncounted(i) ==
  IF i = req.inode /\ pc \in {"linking", "moved"} THEN 1
  ELSE IF i = req.current /\ pc = "unlinking" THEN -1 ELSE 0

Linked == \A i \in Inodes : kind[i] # "free" => links[i] + Uncounted(i) = NamesFor(i)

(* The names are a tree. *)
Rooted ==
  /\ kind[root] = "dir" /\ parent[root] = root
  /\ \A e, f \in entries : e.dir = f.dir /\ e.name = f.name => e = f
  /\ \A e \in entries : kind[e.ino] # "free" /\ Live(e.dir) /\ e.ino # root
  /\ \A e \in entries : e.dir \in Reachable

(* A directory has two names only while it moves, and a ".." that is not   *)
(* right only while it is removed or moved.                                *)
Moving(e) == pc = "moved" /\ e \in {Entry(req.src, req.inode), Entry(req.dst, req.inode)}
OneName == \A e, f \in entries : e.ino = f.ino /\ IsDir(e.ino) => e = f \/ Moving(e)
Upward ==
  \A e \in entries : IsDir(e.ino) =>
    \/ parent[e.ino] = e.dir
    \/ pc = "crippled" /\ e.ino = req.current
    \/ pc \in {"moved", "reparent"} /\ e = Entry(req.dst, req.inode)

(* What the request found before, and nothing in it has changed. *)
Renaming == {"rename", "source", "target", "crippled", "unlinking", "unlinked", "insert",
             "moved"}
Around == req.dst.dir \in ReachableIn(entries \ EntriesAt(req.src))
Steps ==
  /\ pc \in {"path_open", "mkdir", "path_link"} => req.dst.dir \in Reachable
  /\ pc \in {"path_open", "path_link", "linking"} /\ req.op = "create" =>
       kind[req.inode] = "file"
  /\ pc = "path_link" /\ req.op = "mkdir" =>
       /\ req.inode # root /\ EntriesFor(req.inode) = {} /\ IsDir(req.inode)
       /\ parent[req.inode] = req.dst.dir
  /\ pc \in {"got", "target", "crippled"} => req.current \in At(req.dst)
  /\ pc = "crippled" => IsDir(req.current) /\ parent[req.current] = None
  /\ pc = "unlinking" /\ IsDir(req.current) => parent[req.current] = None
  /\ req.op = "rename" /\ pc \in Renaming =>
       /\ Around
       /\ pc # "rename" => req.inode \in At(req.src)
  /\ pc = "moved" /\ IsDir(req.inode) => parent[req.inode] = req.src.dir
  /\ pc = "reparent" /\ IsDir(req.inode) => Live(req.inode)

(* The names of the beginning of the request, and what it did to them. *)
BeforeAt(p) == {e \in before : e.dir = p.dir /\ e.name = p.name}
TargetGone ==
  /\ \A e \in BeforeAt(req.dst) : \A f \in before : f.dir # e.ino
  /\ req.op = "rename" => BeforeAt(req.src) = {Entry(req.src, req.inode)}
History ==
  /\ pc \in Asks \ {"linking", "unlinking", "unlinked", "insert", "moved", "reparent"} =>
       entries = before
  /\ pc = "linking" =>
       BeforeAt(req.dst) = {} /\ entries = before \cup {Entry(req.dst, req.inode)}
  /\ pc \in {"unlinking", "unlinked"} => BeforeAt(req.dst) # {}
  /\ pc \in {"unlinking", "unlinked", "insert"} => TargetGone /\ entries = before \ BeforeAt(req.dst)
  /\ pc = "moved" =>
       /\ TargetGone
       /\ entries = (before \ BeforeAt(req.dst)) \cup {Entry(req.dst, req.inode)}
  /\ pc = "reparent" =>
       /\ TargetGone
       /\ entries = (before \ (BeforeAt(req.src) \cup BeforeAt(req.dst)))
                      \cup {Entry(req.dst, req.inode)}

Whole == Asked /\ Referenced /\ Linked /\ Rooted /\ OneName /\ Upward /\ Steps /\ History

IInv ==
  /\ Types
  /\ HandlesKind
  /\ pc # "torn" => Whole
  /\ TornByOne

-----------------------------------------------------------------------------
(* What has to hold of a request that gives back everything and ends.  *)
Settled(held, lk, up) ==
  /\ lk \in [Inodes -> Nat]
  /\ up \in [Inodes -> Inodes \cup {None}]
  /\ \A i \in Inodes : up[i] # None => IsDir(i)
  /\ up[root] = root
  /\ \A i \in Inodes :
       refs[i] = HeldBy(i)' + leaked'[i] + PathRefs(paths, i) + Bit(i \in held)
  /\ \A i \in Inodes : kind[i] # "free" => lk[i] = NamesFor(i)
  /\ \A i \in Inodes : kind[i] # "free" /\ lk[i] = 0 /\ refs[i] = 0 => i \in stranded
  /\ \A e, f \in entries : e.ino = f.ino /\ IsDir(e.ino) => e = f
  /\ \A e \in entries : up[e.dir] # None /\ (IsDir(e.ino) => up[e.ino] = e.dir)
  /\ leaked' \in [Inodes -> Nat]
  /\ fd' \in [Handles -> Inodes \cup {None}]
  /\ \A h \in Handles : fd'[h] # None => kind[fd'[h]] \in {"file", "dir"}

(* NamesFor counts the names in entries. *)
LEMMA NamesForIs ==
  ASSUME NEW i
  PROVE  NamesFor(i) = Count(entries, i) + Bit(i = root)
BY DEF NamesFor, EntriesFor, Count, Bit

(* A file with a name counts links. *)
LEMMA NamedCounts ==
  ASSUME Types, NEW i
  PROVE  /\ NamesFor(i) \in Nat
         /\ NamesFor(i) = 0 <=> i # root /\ \A e \in entries : e.ino # i
<1>1. NamesFor(i) = Count(entries, i) + Bit(i = root)
  BY NamesForIs
<1>2. /\ Count(entries, i) \in Nat
      /\ Count(entries, i) = 0 <=> \A e \in entries : e.ino # i
  BY CountType DEF Types
<1> QED BY <1>1, <1>2 DEF Bit

(* The end of a request that gives back everything keeps the invariant:    *)
(* what is freed has no name, and nothing that is kept refers to it.       *)
LEMMA Finishing ==
  ASSUME IInv, pc # "torn", NEW held, NEW lk, NEW up, NEW success \in BOOLEAN,
         Finish(held, lk, up, success), Settled(held, lk, up),
         links' = lk, UNCHANGED <<entries, stranded>>
  PROVE  IInv'
<1> USE NamespaceAssumption
<1>0. Types /\ Whole
  BY DEF IInv
<1>1. \A i \in Inodes : i = root \/ (\E e \in entries : e.ino = i) =>
        kind[i] # "free" /\ lk[i] # 0
  BY <1>0, NamedCounts DEF Whole, Rooted, Settled, Types
<1>2. \A i \in Inodes : i = root \/ (\E e \in entries : e.ino = i) =>
        kind'[i] = kind[i] /\ parent'[i] = up[i]
  BY <1>1 DEF Finish, Closing
<1>3. \A e \in entries : /\ e \in [dir : Inodes, name : Names, ino : Inodes]
                          /\ kind'[e.dir] = kind[e.dir] /\ parent'[e.dir] = up[e.dir]
                          /\ kind'[e.ino] = kind[e.ino] /\ parent'[e.ino] = up[e.ino]
  <2> SUFFICES ASSUME NEW e \in entries
               PROVE  /\ e \in [dir : Inodes, name : Names, ino : Inodes]
                      /\ kind'[e.dir] = kind[e.dir] /\ parent'[e.dir] = up[e.dir]
                      /\ kind'[e.ino] = kind[e.ino] /\ parent'[e.ino] = up[e.ino]
    OBVIOUS
  <2>1. e \in [dir : Inodes, name : Names, ino : Inodes] /\ \A f \in entries : f.ino \in Inodes
    BY <1>0 DEF Types
  <2>2. e.dir = root \/ \E f \in entries : f.ino = e.dir
    BY <1>0, <2>1, ReachNamed DEF Whole, Rooted, Reachable
  <2> QED BY <2>1, <2>2, <1>2
<1>4. \A i \in Inodes : HeldBy(i)' \in Nat /\ (HeldBy(i)' = 0 <=> \A h \in Handles : fd'[h] # i)
  BY HeldByIs, HeldType, NamespaceAssumption DEF HeldBy, Held
<1>5. \A i \in Inodes : /\ refs'[i] = HeldBy(i)' + leaked'[i]
                         /\ refs'[i] \in Nat
  <2> SUFFICES ASSUME NEW i \in Inodes
               PROVE  /\ refs'[i] = HeldBy(i)' + leaked'[i]
                      /\ refs'[i] \in Nat
    OBVIOUS
  <2>1. refs'[i] = refs[i] - Bit(i \in held) - PathRefs(paths, i)
    BY DEF Finish, Closing
  <2>2. PathRefs(paths, i) \in Nat
    BY <1>0, PathRefsType DEF Types
  <2>3. /\ refs[i] = HeldBy(i)' + leaked'[i] + PathRefs(paths, i) + Bit(i \in held)
        /\ leaked'[i] \in Nat
    BY DEF Settled
  <2> QED BY <2>1, <2>2, <2>3, <1>4 DEF Bit
<1>6. Types'
  <2>1. kind' \in [Inodes -> {"free", "dir", "file", "link"}] /\ refs' \in [Inodes -> Nat]
    BY <1>0, <1>5 DEF Types, Finish, Closing
  <2>2. parent' \in [Inodes -> Inodes \cup {None}]
    BY DEF Settled, Finish, Closing
  <2>3. \A i \in Inodes : parent'[i] # None => kind'[i] = "dir"
    BY DEF Settled, Finish, Closing, IsDir
  <2>4. req' \in [op : Ops, inode : Inodes \cup {None}, current : Inodes \cup {None},
                  src : Place \cup {None}, dst : Place \cup {None}]
    BY DEF Finish, Idle, Request, Ops
  <2>5. links' \in [Inodes -> Nat] /\ leaked' \in [Inodes -> Nat] /\ ok' \in BOOLEAN
        /\ fd' \in [Handles -> Inodes \cup {None}] /\ pc' = "idle" /\ paths' = {}
    BY DEF Settled, Finish
  <2>6. entries' \subseteq [dir : Inodes, name : Names, ino : Inodes] /\ IsFiniteSet(entries')
    BY <1>0 DEF Types
  <2> QED BY <2>1, <2>2, <2>3, <2>4, <2>5, <2>6, FS_EmptySet DEF Types
<1>7. HandlesKind'
  <2> SUFFICES ASSUME NEW h \in Handles, fd'[h] # None
               PROVE  kind'[fd'[h]] \in {"file", "dir"}
    BY DEF HandlesKind
  <2>1. fd'[h] \in Inodes /\ kind[fd'[h]] \in {"file", "dir"} /\ leaked'[fd'[h]] \in Nat
    BY DEF Settled
  <2>2. refs'[fd'[h]] # 0
    BY <2>1, <1>4, <1>5
  <2> QED BY <2>1, <2>2 DEF Finish, Closing
<1>8. Asked'
  BY DEF Asked, Finish
<1>9. Referenced'
  <2>1. ASSUME NEW i \in Inodes
        PROVE  refs'[i] = HeldBy(i)' + leaked'[i] + PathRefs(paths', i)
                          + Bit(i = req'.inode) + Bit(i = req'.current)
    <3>1. PathRefs(paths', i) = 0 /\ req'.inode = None /\ req'.current = None
      BY PathRefsOne DEF Finish, Idle, Request
    <3>2. leaked'[i] \in Nat
      BY DEF Settled
    <3> QED BY <3>1, <3>2, <1>4, <1>5 DEF Bit
  <2>2. ASSUME NEW i \in Inodes PROVE kind'[i] = "free" => refs'[i] = 0
    <3>1. kind[i] = "free" => refs[i] = 0
      BY <1>0 DEF Whole, Referenced
    <3>2. PathRefs(paths, i) \in Nat
      BY <1>0, PathRefsType DEF Types
    <3> QED BY <1>5, <3>1, <3>2 DEF Finish, Closing, Bit
  <2>3. ASSUME NEW i \in Inodes, kind'[i] # "free", links'[i] = 0, refs'[i] = 0
        PROVE  i \in stranded'
    BY <2>3 DEF Finish, Closing, Settled
  <2> QED BY <2>1, <2>2, <2>3 DEF Referenced
<1>10. Linked'
  <2> SUFFICES ASSUME NEW i \in Inodes, kind'[i] # "free"
               PROVE  links'[i] + Uncounted(i)' = NamesFor(i)'
    BY DEF Linked
  <2>1. Uncounted(i)' = 0
    BY DEF Uncounted, Finish
  <2>2. NamesFor(i)' = NamesFor(i)
    BY DEF NamesFor, EntriesFor
  <2>3. kind[i] # "free"
    BY DEF Finish, Closing
  <2> QED BY <2>1, <2>2, <2>3, <1>0, NamedCounts DEF Settled
<1>11. Rooted'
  <2>1. kind'[root] = "dir" /\ parent'[root] = root
    BY <1>0, <1>2 DEF Whole, Rooted, Settled
  <2>2. \A e, f \in entries' : e.dir = f.dir /\ e.name = f.name => e = f
    BY <1>0 DEF Whole, Rooted
  <2>3. \A e \in entries' : kind'[e.ino] # "free" /\ Live(e.dir)' /\ e.ino # root
    BY <1>0, <1>3 DEF Whole, Rooted, Live, IsDir, Settled
  <2>4. \A e \in entries' : e.dir \in Reachable'
    BY <1>0 DEF Whole, Rooted, Reachable
  <2> QED BY <2>1, <2>2, <2>3, <2>4 DEF Rooted
<1>12. OneName' /\ Upward'
  BY <1>0, <1>3 DEF OneName, Upward, IsDir, Settled, Whole
<1>13. Steps' /\ History' /\ TornByOne' /\ pc' = "idle"
  BY DEF Steps, Renaming, History, TornByOne, Finish, Asks
<1> QED BY <1>6, <1>7, <1>8, <1>9, <1>10, <1>11, <1>12, <1>13 DEF IInv, Whole

-----------------------------------------------------------------------------
(* The steps at which every link is counted and every ".." is right.       *)
QuietSteps == {"attributes", "same", "path_open", "mkdir", "path_link", "unlink",
               "got", "rmdir", "rename", "source", "target", "insert"}

(* A set of the inodes that the request holds, each once. *)
Gives(held) ==
  \A i \in Inodes : Bit(i \in held) = Bit(i = req.inode) + Bit(i = req.current)

(* A request that has opened no inode has none to give back. *)
LEMMA GivesNothing == ASSUME req.inode = None, req.current = None PROVE Gives({})
BY NamespaceAssumption DEF Gives, Bit

(* One that holds its inode only gives back all with it. *)
LEMMA GivesInode == ASSUME req.current = None PROVE Gives({req.inode})
BY NamespaceAssumption DEF Gives, Bit

(* So does one that holds only what its path names. *)
LEMMA GivesCurrent == ASSUME req.inode = None PROVE Gives({req.current})
BY NamespaceAssumption DEF Gives, Bit

(* A rename that has found two inodes gives back both. *)
LEMMA GivesBoth == ASSUME req.inode # req.current PROVE Gives({req.inode, req.current})
BY NamespaceAssumption DEF Gives, Bit

(* Where links match the names already, the end of a request needs only    *)
(* that it gives back what it holds.                                       *)
LEMMA QuietSettled ==
  ASSUME IInv, pc \in QuietSteps \cup {"unlinked"}, NEW held, Gives(held),
         UNCHANGED <<fd, leaked>>
  PROVE  Settled(held, links, parent)
<1>0. Types /\ Whole /\ HandlesKind /\ pc # "torn"
  BY DEF IInv, QuietSteps
<1>1. ASSUME NEW i \in Inodes
      PROVE  refs[i] = HeldBy(i)' + leaked'[i] + PathRefs(paths, i) + Bit(i \in held)
  <2>1. HeldBy(i)' = HeldBy(i)
    BY DEF HeldBy
  <2>2. HeldBy(i) \in Nat /\ leaked[i] \in Nat /\ PathRefs(paths, i) \in Nat
    BY <1>0, HeldByIs, HeldType, PathRefsType DEF Types
  <2>3. Bit(i \in held) = Bit(i = req.inode) + Bit(i = req.current)
    BY DEF Gives
  <2> QED BY <1>0, <2>1, <2>2, <2>3 DEF Whole, Referenced, Bit
<1>2. ASSUME NEW i \in Inodes, kind[i] # "free"
      PROVE  links[i] = NamesFor(i)
  <2>1. Uncounted(i) = 0
    BY DEF Uncounted, QuietSteps
  <2> QED BY <1>0, <1>2, <2>1 DEF Whole, Linked, Types
<1>3. \A e, f \in entries : e.ino = f.ino /\ IsDir(e.ino) => e = f
  BY <1>0 DEF Whole, OneName, Moving, QuietSteps
<1>4. \A e \in entries : parent[e.dir] # None /\ (IsDir(e.ino) => parent[e.ino] = e.dir)
  BY <1>0 DEF Whole, Rooted, Live, Upward, QuietSteps
<1>5. /\ \A i \in Inodes : parent[i] # None => IsDir(i)
      /\ parent[root] = root
      /\ \A i \in Inodes : kind[i] # "free" /\ links[i] = 0 /\ refs[i] = 0 => i \in stranded
  BY <1>0 DEF Types, IsDir, Whole, Rooted, Referenced
<1>6. \A h \in Handles : fd'[h] # None => kind[fd'[h]] \in {"file", "dir"}
  BY <1>0 DEF HandlesKind
<1>7. /\ links \in [Inodes -> Nat] /\ parent \in [Inodes -> Inodes \cup {None}]
      /\ leaked' \in [Inodes -> Nat] /\ fd' \in [Handles -> Inodes \cup {None}]
  BY <1>0 DEF Types
<1> QED BY <1>1, <1>2, <1>3, <1>4, <1>5, <1>6, <1>7 DEF Settled

(* A request that fails, wherever it may. *)
LEMMA Failing ==
  ASSUME IInv, pc \in QuietSteps, NEW held, Gives(held), Fail(held)
  PROVE  IInv'
<1>1. Settled(held, links, parent)
  BY QuietSettled DEF Fail
<1>2. Finish(held, links, parent, FALSE) /\ UNCHANGED <<links, entries, stranded>>
  BY DEF Fail
<1>3. pc # "torn"
  BY DEF QuietSteps
<1> QED BY <1>1, <1>2, <1>3, Finishing

(* The handlers that change no name give back the inode. *)
LEMMA AttributesStep == ASSUME IInv, Attributes PROVE IInv'
<1>1. pc \in QuietSteps /\ pc # "torn" /\ req.current = None
  BY DEF Attributes, QuietSteps, IInv, Whole, Asked, Holds
<1>2. Settled({req.inode}, links, parent)
  BY <1>1, GivesInode, QuietSettled DEF Attributes
<1>3. PICK success \in BOOLEAN : Finish({req.inode}, links, parent, success)
  BY DEF Attributes
<1> QED BY <1>1, <1>2, <1>3, Finishing DEF Attributes

(* candy_rename of a path to itself gives back the one path. *)
LEMMA SameStep == ASSUME IInv, Same PROVE IInv'
<1>1. pc \in QuietSteps /\ pc # "torn" /\ req.inode = None /\ req.current = None
  BY DEF Same, QuietSteps, IInv, Whole, Asked, Holds
<1>2. Settled({}, links, parent)
  BY <1>1, GivesNothing, QuietSettled DEF Same
<1> QED BY <1>1, <1>2, Finishing DEF Same

(* What path_unlink of a directory does not give back counts as leaked. *)
LEMMA UnlinkDirectoryStep == ASSUME IInv, UnlinkDirectory PROVE IInv'
<1>0. Types /\ Whole
  BY DEF IInv, UnlinkDirectory
<1>1. pc \in QuietSteps /\ pc = "got" /\ pc # "torn" /\ req.inode = None /\ req.current \in Inodes
  BY <1>0 DEF UnlinkDirectory, QuietSteps, Whole, Asked, Holds
<1>2. ASSUME NEW i \in Inodes
      PROVE  refs[i] = HeldBy(i)' + leaked'[i] + PathRefs(paths, i) + Bit(i \in {})
  <2>1. HeldBy(i)' = HeldBy(i)
    BY DEF HeldBy, UnlinkDirectory
  <2>2. HeldBy(i) \in Nat /\ leaked[i] \in Nat /\ PathRefs(paths, i) \in Nat
    BY <1>0, HeldByIs, HeldType, PathRefsType DEF Types
  <2>3. leaked'[i] = leaked[i] + Bit(i = req.current)
    BY <1>0, <1>1, <2>2 DEF UnlinkDirectory, Opened, Bit, Types
  <2>4. Bit(i = req.inode) = 0 /\ Bit(i \in {}) = 0
    BY <1>1, NamespaceAssumption DEF Bit
  <2>5. refs[i] = HeldBy(i) + leaked[i] + PathRefs(paths, i)
                 + Bit(i = req.inode) + Bit(i = req.current)
    BY <1>0 DEF Whole, Referenced
  <2> QED BY <2>1, <2>2, <2>3, <2>4, <2>5 DEF Bit
<1>3. ASSUME NEW i \in Inodes, kind[i] # "free" PROVE links[i] = NamesFor(i)
  <2>1. Uncounted(i) = 0
    BY <1>1 DEF Uncounted
  <2> QED BY <1>0, <1>3, <2>1 DEF Whole, Linked, Types
<1>4. \A e, f \in entries : e.ino = f.ino /\ IsDir(e.ino) => e = f
  BY <1>0, <1>1 DEF Whole, OneName, Moving
<1>5. \A e \in entries : parent[e.dir] # None /\ (IsDir(e.ino) => parent[e.ino] = e.dir)
  BY <1>0, <1>1 DEF Whole, Rooted, Live, Upward
<1>6. /\ \A i \in Inodes : parent[i] # None => IsDir(i)
      /\ parent[root] = root
      /\ \A i \in Inodes : kind[i] # "free" /\ links[i] = 0 /\ refs[i] = 0 => i \in stranded
  BY <1>0 DEF Types, IsDir, Whole, Rooted, Referenced
<1>7. \A h \in Handles : fd'[h] # None => kind[fd'[h]] \in {"file", "dir"}
  BY DEF HandlesKind, IInv, UnlinkDirectory
<1>8. /\ links \in [Inodes -> Nat] /\ parent \in [Inodes -> Inodes \cup {None}]
      /\ leaked' \in [Inodes -> Nat] /\ fd' \in [Handles -> Inodes \cup {None}]
  BY <1>0, <1>1 DEF Types, UnlinkDirectory, Opened
<1>9. Settled({}, links, parent)
  BY <1>2, <1>3, <1>4, <1>5, <1>6, <1>7, <1>8 DEF Settled
<1> QED BY <1>1, <1>9, Finishing DEF UnlinkDirectory

(* refs_link counts the name that was there before. *)
LEMMA LinkingStep == ASSUME IInv, Linking PROVE IInv'
<1> DEFINE more == [links EXCEPT ![req.inode] = @ + 1]
           held == IF req.op = "create" THEN {} ELSE {req.inode}
<1> USE NamespaceAssumption
<1>0. Types /\ Whole
  BY DEF IInv, Linking
<1>1. /\ pc = "linking" /\ req.inode \in Inodes /\ req.current = None
      /\ Finish(held, more, parent, TRUE) /\ links' = more
      /\ UNCHANGED <<entries, leaked, stranded>>
  BY <1>0 DEF Linking, Whole, Asked, Holds
<1>2. ASSUME NEW i \in Inodes
      PROVE  refs[i] = HeldBy(i)' + leaked'[i] + PathRefs(paths, i) + Bit(i \in held)
  <2>1. refs[i] = HeldBy(i) + leaked[i] + PathRefs(paths, i)
                  + Bit(i = req.inode) + Bit(i = req.current)
    BY <1>0 DEF Whole, Referenced
  <2>2. HeldBy(i) \in Nat /\ leaked[i] \in Nat /\ PathRefs(paths, i) \in Nat
    BY <1>0, HeldByIs, HeldType, PathRefsType DEF Types
  <2>3. CASE req.op = "create"
    <3>1. PICK h \in Handles : fd[h] = None /\ fd' = [fd EXCEPT ![h] = req.inode]
      BY <2>3 DEF Linking
    <3>0. fd \in [Handles -> Inodes \cup {None}]
      BY <1>0 DEF Types
    <3>2. HeldBy(i)' = HeldBy(i) + Bit(i = req.inode)
      <4>1. req.inode \in Inodes \cup {None} /\ fd[h] = None
            /\ fd' = [fd EXCEPT ![h] = req.inode]
        BY <1>1, <3>1
      <4>3. fd[h] # i /\ fd'[h] = req.inode /\ Others(fd, fd', h)
        BY <4>1, <3>0 DEF Others
      <4>2. /\ i = fd'[h] => Held(fd', i) = Held(fd, i) + 1
            /\ i # fd'[h] => Held(fd', i) = Held(fd, i)
        BY ONLY <4>3, h \in Handles, HeldOpen
      <4>4. HeldBy(i) \in Nat
        BY <2>2
      <4> QED BY <4>2, <4>3, <4>4, HeldByIs DEF Bit
    <3>3. Bit(i \in held) = 0 /\ Bit(i = req.current) = 0
      BY <1>1, <2>3 DEF Bit
    <3> QED BY <1>1, <2>1, <2>2, <3>2, <3>3 DEF Bit
  <2>4. CASE req.op # "create"
    <3>1. HeldBy(i)' = HeldBy(i)
      BY <2>4 DEF Linking, HeldBy
    <3>2. Bit(i \in held) = Bit(i = req.inode) /\ Bit(i = req.current) = 0
      BY <1>1, <2>4 DEF Bit
    <3> QED BY <1>1, <2>1, <2>2, <3>1, <3>2 DEF Bit
  <2> QED BY <2>3, <2>4
<1>3. ASSUME NEW i \in Inodes, kind[i] # "free" PROVE more[i] = NamesFor(i)
  BY <1>0, <1>1, <1>3 DEF Whole, Linked, Uncounted, Types
<1>4. \A e, f \in entries : e.ino = f.ino /\ IsDir(e.ino) => e = f
  BY <1>0, <1>1 DEF Whole, OneName, Moving
<1>5. \A e \in entries : parent[e.dir] # None /\ (IsDir(e.ino) => parent[e.ino] = e.dir)
  BY <1>0, <1>1 DEF Whole, Rooted, Live, Upward
<1>6. /\ \A i \in Inodes : parent[i] # None => IsDir(i)
      /\ parent[root] = root
      /\ \A i \in Inodes : kind[i] # "free" /\ more[i] = 0 /\ refs[i] = 0 => i \in stranded
  BY <1>0, <1>1 DEF Types, IsDir, Whole, Rooted, Referenced
<1>7. \A h \in Handles : fd'[h] # None => kind[fd'[h]] \in {"file", "dir"}
  <2>1. \A h \in Handles : fd[h] # None => kind[fd[h]] \in {"file", "dir"}
    BY DEF HandlesKind, IInv
  <2>2. CASE req.op = "create"
    <3>1. kind[req.inode] = "file"
      BY <1>0, <1>1, <2>2 DEF Whole, Steps, Renaming
    <3>2. PICK h \in Handles : fd' = [fd EXCEPT ![h] = req.inode]
      BY <2>2 DEF Linking
    <3> QED BY <1>0, <2>1, <3>1, <3>2 DEF Types
  <2>3. CASE req.op # "create"
    BY <2>1, <2>3 DEF Linking
  <2> QED BY <2>2, <2>3
<1>8. /\ more \in [Inodes -> Nat] /\ parent \in [Inodes -> Inodes \cup {None}]
      /\ leaked' \in [Inodes -> Nat] /\ fd' \in [Handles -> Inodes \cup {None}]
  <2>1. \/ UNCHANGED fd
        \/ \E h \in Handles : fd' = [fd EXCEPT ![h] = req.inode]
    BY DEF Linking
  <2> QED BY <1>0, <1>1, <2>1 DEF Types
<1> HIDE DEF more, held
<1>9. Settled(held, more, parent)
  BY <1>2, <1>3, <1>4, <1>5, <1>6, <1>7, <1>8 DEF Settled
<1> QED BY <1>1, <1>9, Finishing

(* What a request holds and gives back is all that is held but by handles. *)
LEMMA GivesBack ==
  ASSUME Types, Whole, NEW held, Gives(held), UNCHANGED <<fd, leaked>>, NEW i \in Inodes
  PROVE  refs[i] = HeldBy(i)' + leaked'[i] + PathRefs(paths, i) + Bit(i \in held)
<1>1. HeldBy(i)' = HeldBy(i)
  BY DEF HeldBy
<1>2. HeldBy(i) \in Nat /\ leaked[i] \in Nat /\ PathRefs(paths, i) \in Nat
  BY HeldByIs, HeldType, PathRefsType DEF Types
<1>3. Bit(i \in held) = Bit(i = req.inode) + Bit(i = req.current)
  BY DEF Gives
<1>4. refs[i] = HeldBy(i) + leaked[i] + PathRefs(paths, i)
                + Bit(i = req.inode) + Bit(i = req.current)
  BY DEF Whole, Referenced
<1> QED BY <1>1, <1>2, <1>3, <1>4 DEF Bit

(* What the request is about has a reference, so that it is not free. *)
LEMMA HeldIsUsed ==
  ASSUME Types, Whole, NEW i \in Inodes, i = req.inode \/ i = req.current
  PROVE  kind[i] # "free" /\ refs[i] # 0
<1>1. HeldBy(i) \in Nat /\ leaked[i] \in Nat /\ PathRefs(paths, i) \in Nat
  BY HeldByIs, HeldType, PathRefsType DEF Types
<1>2. refs[i] = HeldBy(i) + leaked[i] + PathRefs(paths, i)
                + Bit(i = req.inode) + Bit(i = req.current)
  BY DEF Whole, Referenced
<1>3. refs[i] # 0
  BY <1>1, <1>2 DEF Bit
<1> QED BY <1>3 DEF Whole, Referenced

(* What unlinking leaves: as many links as there are names. *)
LEMMA LinkTaken ==
  ASSUME Types, Whole, pc = "unlinking", req.current \in Inodes
  PROVE  LET less == [links EXCEPT ![req.current] = @ - 1]
         IN  /\ less \in [Inodes -> Nat]
             /\ \A i \in Inodes : kind[i] # "free" => less[i] = NamesFor(i)
             /\ \A i \in Inodes : kind[i] # "free" /\ less[i] = 0 /\ refs[i] = 0 => i \in stranded
<1> DEFINE less == [links EXCEPT ![req.current] = @ - 1]
<1>0. links \in [Inodes -> Nat] /\ \A i \in Inodes : NamesFor(i) \in Nat
  BY NamedCounts DEF Types
<1>1. ASSUME NEW i \in Inodes, kind[i] # "free" PROVE less[i] = NamesFor(i)
  <2>1. links[i] + Uncounted(i) = NamesFor(i)
    BY <1>1 DEF Whole, Linked
  <2>2. Uncounted(i) = IF i = req.current THEN -1 ELSE 0
    BY DEF Uncounted
  <2> QED BY <1>0, <2>1, <2>2
<1>2. kind[req.current] # "free" /\ refs[req.current] # 0
  BY HeldIsUsed
<1>3. less[req.current] \in Nat
  BY <1>0, <1>1, <1>2
<1>4. less \in [Inodes -> Nat]
  BY <1>0, <1>3
<1>5. \A i \in Inodes : kind[i] # "free" /\ less[i] = 0 /\ refs[i] = 0 => i \in stranded
  BY <1>0, <1>2 DEF Whole, Referenced
<1> QED BY <1>1, <1>4, <1>5

(* refs_unlink takes the link away while the inode is open. *)
LEMMA UnlinkingStep == ASSUME IInv, Unlinking PROVE IInv'
<1> DEFINE less == [links EXCEPT ![req.current] = @ - 1]
<1>0. Types /\ Whole /\ HandlesKind /\ pc = "unlinking" /\ req.current \in Inodes
  BY DEF IInv, Unlinking, Whole, Asked, Holds
<1>1. /\ UNCHANGED <<kind, entries, parent, refs, fd, paths, req, ok, before, leaked, stranded>>
      /\ links' = less /\ pc' = "unlinked"
  BY DEF Unlinking, Continue, hist
<1>2. /\ less \in [Inodes -> Nat]
      /\ \A i \in Inodes : kind[i] # "free" => less[i] = NamesFor(i)
      /\ \A i \in Inodes : kind[i] # "free" /\ less[i] = 0 /\ refs[i] = 0 => i \in stranded
  BY <1>0, LinkTaken
<1> HIDE DEF less
<1>3. Types'
  BY <1>0, <1>1, <1>2 DEF Types, Asks
<1>4. Referenced' /\ HandlesKind'
  <2>1. \A i \in Inodes : HeldBy(i)' = HeldBy(i)
    BY <1>1 DEF HeldBy
  <2> QED BY <1>0, <1>1, <1>2, <2>1 DEF Whole, Referenced, HandlesKind
<1>5. Linked'
  <2> SUFFICES ASSUME NEW i \in Inodes, kind[i] # "free"
               PROVE  less[i] + Uncounted(i)' = NamesFor(i)'
    BY <1>1 DEF Linked
  <2>1. Uncounted(i)' = 0 /\ NamesFor(i)' = NamesFor(i)
    BY <1>1 DEF Uncounted, NamesFor, EntriesFor
  <2> QED BY <1>2, <2>1
<1>6. Rooted'
  BY <1>0, <1>1 DEF Whole, Rooted, Live, IsDir, Reachable
<1>7. OneName' /\ Upward' /\ TornByOne'
  BY <1>0, <1>1 DEF Whole, OneName, Upward, Moving, IsDir, TornByOne
<1>8. Asked'
  BY <1>0, <1>1 DEF Whole, Asked, Holds, OnePath, TwoPaths
<1>9. Steps'
  BY <1>0, <1>1 DEF Whole, Steps, Renaming, Around, At, EntriesAt
<1>10. History'
  BY <1>0, <1>1 DEF Whole, History, Asks, TargetGone, BeforeAt
<1> QED BY <1>1, <1>3, <1>4, <1>5, <1>6, <1>7, <1>8, <1>9, <1>10 DEF IInv, Whole

(* The end of path_unlink and path_rmdir. *)
LEMMA UnlinkedEnds == ASSUME IInv, Unlinked, req.op # "rename" PROVE IInv'
<1>1. pc = "unlinked" /\ req.inode = None
  BY DEF Unlinked, IInv, Whole, Asked, Holds, TwoPaths
<1>2. /\ Finish({req.current}, links, parent, TRUE) /\ links' = links
      /\ UNCHANGED <<entries, stranded>> /\ UNCHANGED <<fd, leaked>>
  BY DEF Unlinked
<1>3. Settled({req.current}, links, parent)
  BY <1>1, <1>2, GivesCurrent, QuietSettled
<1> QED BY <1>1, <1>2, <1>3, Finishing

(* dir_reparent makes the last thing right: ".." of what was moved. *)
LEMMA ReparentStep == ASSUME IInv, Reparent PROVE IInv'
<1> DEFINE up == IF IsDir(req.inode) THEN [parent EXCEPT ![req.inode] = req.dst.dir]
                 ELSE parent
<1> USE NamespaceAssumption
<1>0. Types /\ Whole /\ HandlesKind
  BY DEF IInv, Reparent
<1>1. /\ pc = "reparent" /\ req.current = None /\ req.inode \in Inodes
      /\ req.dst \in Place /\ req.dst.dir \in Inodes
      /\ Entry(req.dst, req.inode) \in entries
      /\ (IsDir(req.inode) => Live(req.inode))
  BY <1>0 DEF Reparent, Whole, Asked, TwoPaths, Holds, Steps, Renaming, History, Place
<1>2. /\ Finish({req.inode}, links, up, TRUE) /\ links' = links
      /\ UNCHANGED <<entries, stranded>> /\ UNCHANGED <<fd, leaked>>
  BY <1>1 DEF Reparent
<1>3. \A i \in Inodes : refs[i] = HeldBy(i)' + leaked'[i] + PathRefs(paths, i)
                                  + Bit(i \in {req.inode})
  BY <1>0, <1>1, <1>2, GivesInode, GivesBack
<1>4. \A i \in Inodes : kind[i] # "free" => links[i] = NamesFor(i)
  <2>1. \A i \in Inodes : Uncounted(i) = 0
    BY <1>1 DEF Uncounted
  <2> QED BY <1>0, <2>1 DEF Whole, Linked, Types
<1>5. \A e, f \in entries : e.ino = f.ino /\ IsDir(e.ino) => e = f
  BY <1>0, <1>1 DEF Whole, OneName, Moving
<1>6. ASSUME NEW e \in entries
      PROVE  up[e.dir] # None /\ (IsDir(e.ino) => up[e.ino] = e.dir)
  <2>1. e.dir \in Inodes /\ e.ino \in Inodes /\ parent \in [Inodes -> Inodes \cup {None}]
    BY <1>0 DEF Types
  <2>2. parent[e.dir] # None
    BY <1>0 DEF Whole, Rooted, Live
  <2>3. up[e.dir] # None
    BY <1>1, <2>1, <2>2
  <2>4. ASSUME IsDir(e.ino) PROVE up[e.ino] = e.dir
    <3>1. CASE e.ino = req.inode
      <4>1. e = Entry(req.dst, req.inode)
        BY <1>1, <1>5, <2>4, <3>1 DEF Entry
      <4> QED BY <4>1, <2>1, <2>4, <3>1 DEF Entry
    <3>2. CASE e.ino # req.inode
      <4>1. parent[e.ino] = e.dir
        BY <1>0, <1>1, <2>4, <3>2 DEF Whole, Upward, Entry
      <4> QED BY <4>1, <2>1, <3>2
    <3> QED BY <3>1, <3>2
  <2> QED BY <2>3, <2>4
<1>7. up[root] = root
  <2>1. req.inode # root
    BY <1>0, <1>1 DEF Whole, Rooted, Entry
  <2> QED BY <2>1, <1>0 DEF Whole, Rooted, Types
<1>8. up \in [Inodes -> Inodes \cup {None}] /\ \A i \in Inodes : up[i] # None => IsDir(i)
  BY <1>0, <1>1 DEF Types, IsDir
<1> HIDE DEF up
<1>9. /\ \A i \in Inodes : kind[i] # "free" /\ links[i] = 0 /\ refs[i] = 0 => i \in stranded
      /\ \A h \in Handles : fd'[h] # None => kind[fd'[h]] \in {"file", "dir"}
      /\ links \in [Inodes -> Nat]
      /\ leaked' \in [Inodes -> Nat] /\ fd' \in [Handles -> Inodes \cup {None}]
  BY <1>0, <1>2 DEF Types, Whole, Referenced, HandlesKind
<1>10. Settled({req.inode}, links, up)
  BY <1>3, <1>4, <1>5, <1>6, <1>7, <1>8, <1>9 DEF Settled
<1> QED BY <1>1, <1>2, <1>10, Finishing

(* candy_release is the end of a request that holds no path. *)
LEMMA ReleaseStep == ASSUME IInv, NEW h \in Handles, Release(h) PROVE IInv'
<1> USE NamespaceAssumption
<1>0. Types /\ Whole /\ HandlesKind
  BY DEF IInv, Release
<1>1. /\ pc = "idle" /\ paths = {} /\ req = Idle /\ fd[h] \in Inodes
      /\ fd \in [Handles -> Inodes \cup {None}] /\ leaked \in [Inodes -> Nat]
  BY <1>0 DEF Release, Whole, Asked, Types
<1>2. /\ Finish({fd[h]}, links, parent, ok) /\ ok \in BOOLEAN /\ links' = links
      /\ UNCHANGED <<entries, stranded, leaked>> /\ fd' = [fd EXCEPT ![h] = None]
  BY <1>0, <1>1 DEF Release, Finish, hist, Types
<1>3. ASSUME NEW i \in Inodes
      PROVE  refs[i] = HeldBy(i)' + leaked'[i] + PathRefs(paths, i) + Bit(i \in {fd[h]})
  <2>1. fd'[h] # i /\ \A k \in Handles : k # h => fd'[k] = fd[k]
    BY <1>1, <1>2
  <2>6. Others(fd', fd, h)
    BY <2>1 DEF Others
  <2>2. /\ i = fd[h] => Held(fd, i) = Held(fd', i) + 1
        /\ i # fd[h] => Held(fd, i) = Held(fd', i)
    BY ONLY <2>1, <2>6, h \in Handles, HeldOpen
  <2>3. refs[i] = HeldBy(i) + leaked[i] + PathRefs(paths, i)
                  + Bit(i = req.inode) + Bit(i = req.current)
    BY <1>0 DEF Whole, Referenced
  <2>4. Bit(i = req.inode) = 0 /\ Bit(i = req.current) = 0 /\ PathRefs(paths, i) = 0
    BY <1>1, PathRefsOne DEF Bit, Idle, Request
  <2>5. Held(fd', i) \in Nat /\ leaked[i] \in Nat /\ leaked'[i] = leaked[i]
    BY <1>1, <1>2, HeldType
  <2>7. Bit(i \in {fd[h]}) = IF i = fd[h] THEN 1 ELSE 0
    BY DEF Bit
  <2>8. HeldBy(i) = Held(fd, i) /\ HeldBy(i)' = Held(fd', i)
    BY HeldByIs
  <2> QED BY <2>2, <2>3, <2>4, <2>5, <2>7, <2>8
<1>4. \A i \in Inodes : kind[i] # "free" => links[i] = NamesFor(i)
  <2>1. \A i \in Inodes : Uncounted(i) = 0
    BY <1>1 DEF Uncounted
  <2> QED BY <1>0, <2>1 DEF Whole, Linked, Types
<1>5. \A e, f \in entries : e.ino = f.ino /\ IsDir(e.ino) => e = f
  BY <1>0, <1>1 DEF Whole, OneName, Moving
<1>6. \A e \in entries : parent[e.dir] # None /\ (IsDir(e.ino) => parent[e.ino] = e.dir)
  BY <1>0, <1>1 DEF Whole, Rooted, Live, Upward
<1>7. /\ \A i \in Inodes : parent[i] # None => IsDir(i)
      /\ parent[root] = root
      /\ \A i \in Inodes : kind[i] # "free" /\ links[i] = 0 /\ refs[i] = 0 => i \in stranded
  BY <1>0 DEF Types, IsDir, Whole, Rooted, Referenced
<1>8. \A k \in Handles : fd'[k] # None => kind[fd'[k]] \in {"file", "dir"}
  BY <1>0, <1>1, <1>2 DEF HandlesKind
<1>9. /\ links \in [Inodes -> Nat] /\ parent \in [Inodes -> Inodes \cup {None}]
      /\ leaked' \in [Inodes -> Nat] /\ fd' \in [Handles -> Inodes \cup {None}]
  BY <1>0, <1>1, <1>2 DEF Types
<1>10. Settled({fd[h]}, links, parent)
  BY <1>3, <1>4, <1>5, <1>6, <1>7, <1>8, <1>9 DEF Settled
<1> QED BY <1>1, <1>2, <1>10, Finishing

-----------------------------------------------------------------------------
(* The root and what has a name are in use; so is what can be reached, and *)
(* each directory that has entries.                                        *)
LEMMA ReachableUsed ==
  ASSUME Types, Whole, NEW i \in Reachable
  PROVE  i \in Inodes /\ kind[i] # "free"
<1>1. \A e \in entries : e.ino \in Inodes
  BY DEF Types
<1>2. i = root \/ \E e \in entries : e.ino = i
  BY <1>1, ReachNamed DEF Reachable
<1> QED BY <1>2, ReachRoot DEF Whole, Rooted, Reachable

(* The beginnings: nothing that has a name changes, and what the request   *)
(* opens is in use.                                                        *)
LEMMA Beginning ==
  ASSUME IInv, NEW request, NEW opened \in SUBSET Place, NEW where, Begin(request, opened, where),
         request \in [op : Ops, inode : Inodes \cup {None}, current : {None},
                      src : Place \cup {None}, dst : Place \cup {None}],
         IsFiniteSet(opened),
         where \in QuietSteps \ {"insert"},
         kind' \in [Inodes -> {"free", "dir", "file", "link"}],
         links' \in [Inodes -> Nat], UNCHANGED parent,
         \A i \in Inodes : kind[i] # "free" => kind'[i] = kind[i] /\ links'[i] = links[i],
         \A i \in Inodes : kind[i] = "free" /\ kind'[i] # "free" =>
           links'[i] = 0 /\ i = request.inode,
         \A i \in Inodes : i = request.inode => kind'[i] # "free",
         \A p \in opened : kind'[p.dir] # "free",
         Asked', Steps'
  PROVE  IInv'
<1> USE NamespaceAssumption
<1>0. Types /\ Whole /\ HandlesKind /\ pc = "idle" /\ req = Idle /\ paths = {}
      /\ pc' = where /\ req' = request /\ paths' = opened
  BY DEF IInv, Begin, Whole, Asked
<1>1. \A i \in Inodes :
        /\ PathRefs(opened, i) \in Nat
        /\ PathRefs(opened, i) # 0 => kind'[i] # "free"
        /\ refs'[i] = refs[i] + (IF i = request.inode THEN 1 ELSE 0) + PathRefs(opened, i)
  BY PathRefsType DEF Begin, Bit
<1>10. paths = {} /\ refs \in [Inodes -> Nat] /\ \A i \in Inodes : PathRefs({}, i) = 0
  BY <1>0, PathRefsOne DEF Types
<1>2. Types'
  <2>1. refs' \in [Inodes -> Nat]
    BY ONLY <1>1, <1>10, Begin(request, opened, where) DEF Begin
  <2>2. \A i \in Inodes : parent'[i] # None => kind'[i] = "dir"
    BY <1>0 DEF Types
  <2>3. pc' \in Asks \cup {"idle", "torn"} /\ paths' \subseteq Place /\ IsFiniteSet(paths')
    BY <1>0 DEF QuietSteps, Asks
  <2>4. req' \in [op : Ops, inode : Inodes \cup {None}, current : Inodes \cup {None},
                  src : Place \cup {None}, dst : Place \cup {None}]
    BY <1>0
  <2>5. UNCHANGED <<entries, parent, fd, ok, leaked>>
    BY DEF Begin
  <2> QED BY <1>0, <2>1, <2>2, <2>3, <2>4, <2>5 DEF Types
<1>3. HandlesKind'
  BY <1>0 DEF HandlesKind, Types, Begin
<1>4. Referenced'
  <2>1. ASSUME NEW i \in Inodes
        PROVE  refs'[i] = HeldBy(i)' + leaked'[i] + PathRefs(paths', i)
                          + Bit(i = req'.inode) + Bit(i = req'.current)
    <3>1. HeldBy(i)' = HeldBy(i) /\ leaked'[i] = leaked[i]
      BY DEF HeldBy, Begin
    <3>2. HeldBy(i) \in Nat /\ leaked[i] \in Nat /\ PathRefs(paths, i) = 0
      BY <1>0, <1>10, HeldByIs, HeldType DEF Types
    <3>3. refs[i] = HeldBy(i) + leaked[i] + PathRefs(paths, i)
                    + Bit(i = req.inode) + Bit(i = req.current)
      BY <1>0 DEF Whole, Referenced
    <3>4. Bit(i = req.inode) = 0 /\ Bit(i = req.current) = 0 /\ Bit(i = req'.current) = 0
      BY <1>0 DEF Bit, Idle, Request
    <3>5. Bit(i = req'.inode) = (IF i = request.inode THEN 1 ELSE 0) /\ paths' = opened
      BY <1>0 DEF Bit
    <3> QED BY <1>1, <3>1, <3>2, <3>3, <3>4, <3>5
  <2>2. ASSUME NEW i \in Inodes, kind'[i] = "free" PROVE refs'[i] = 0
    <3>1. refs[i] = 0
      BY <1>0, <2>2 DEF Whole, Referenced
    <3> QED BY <1>1, <2>2, <3>1
  <2>3. ASSUME NEW i \in Inodes, kind'[i] # "free", links'[i] = 0, refs'[i] = 0
        PROVE  i \in stranded'
    <3>1. refs[i] \in Nat
      BY <1>10
    <3>2. i # request.inode /\ refs[i] = 0
      BY <1>1, <2>3, <3>1
    <3>3. kind[i] # "free" /\ links[i] = 0
      BY <2>3, <3>2
    <3> QED BY <1>0, <3>2, <3>3 DEF Whole, Referenced, Begin
  <2> QED BY <2>1, <2>2, <2>3 DEF Referenced
<1>5. Linked'
  <2> SUFFICES ASSUME NEW i \in Inodes, kind'[i] # "free"
               PROVE  links'[i] + Uncounted(i)' = NamesFor(i)'
    BY DEF Linked
  <2>1. Uncounted(i)' = 0 /\ Uncounted(i) = 0
    BY <1>0 DEF Uncounted, QuietSteps
  <2>2. NamesFor(i)' = NamesFor(i)
    BY DEF NamesFor, EntriesFor, Begin
  <2>3. CASE kind[i] # "free"
    BY <1>0, <2>1, <2>2, <2>3 DEF Whole, Linked
  <2>4. CASE kind[i] = "free"
    <3>1. NamesFor(i) = 0
      BY <1>0, <2>4, NamedCounts DEF Whole, Rooted
    <3> QED BY <2>1, <2>2, <2>4, <3>1
  <2> QED BY <2>3, <2>4
<1>6. Rooted'
  <2>1. \A e \in entries : e.ino \in Inodes /\ e.dir \in Inodes
    BY <1>0 DEF Types
  <2>2. entries' = entries
    BY DEF Begin
  <2> QED BY <1>0, <2>1, <2>2 DEF Whole, Rooted, Live, IsDir, Reachable
<1>7. OneName' /\ Upward'
  <2>1. \A e \in entries : e.ino \in Inodes /\ kind'[e.ino] = kind[e.ino]
    BY <1>0 DEF Types, Whole, Rooted
  <2>2. entries' = entries
    BY DEF Begin
  <2> QED BY <1>0, <2>1, <2>2 DEF Whole, OneName, Upward, Moving, IsDir
<1>8. History' /\ TornByOne'
  BY <1>0 DEF History, Begin, QuietSteps, TornByOne
<1>9. pc' # "torn"
  BY <1>0 DEF QuietSteps
<1> QED BY <1>2, <1>3, <1>4, <1>5, <1>6, <1>7, <1>8 DEF IInv, Whole

(* candy_mkdir, candy_unlink and candy_rmdir open one path. *)
LEMMA AskPathStep == ASSUME IInv, AskPath PROVE IInv'
<1> USE NamespaceAssumption
<1>1. PICK op \in {"mkdir", "unlink", "rmdir"}, p \in Paths :
        Begin(Request(op, None, None, p), {p}, op) /\ UNCHANGED disk
  BY DEF AskPath
<1> DEFINE request == Request(op, None, None, p)
<1>2. Types /\ Whole
  BY <1>1 DEF IInv, Begin
<1>3. p \in Place /\ p.dir \in Reachable /\ kind[p.dir] = "dir"
  BY <1>2, ReachableUsed DEF Paths, PathsIn, Place, IsDir
<1>4. request = [op |-> op, inode |-> None, current |-> None, src |-> None, dst |-> p]
  BY DEF Request
<1>5. IsFiniteSet({p})
  BY FS_Singleton
<1>6. pc' = op /\ req' = request /\ paths' = {p} /\ entries' = entries
  BY <1>1 DEF Begin
<1>7. Asked'
  BY <1>3, <1>4, <1>6 DEF Asked, Holds, OnePath
<1>8. Steps'
  BY <1>3, <1>4, <1>6 DEF Steps, Renaming, Reachable
<1>9. op \in QuietSteps \ {"insert"} /\ op \in Ops
  BY DEF QuietSteps, Ops
<1> HIDE DEF request
<1>10. Begin(request, {p}, op)
  BY <1>1 DEF request
<1> QED BY <1>1, <1>2, <1>3, <1>4, <1>5, <1>7, <1>8, <1>9, <1>10, Beginning DEF disk, Types

(* candy_rename opens two, the second around the first. *)
LEMMA AskRenameStep == ASSUME IInv, AskRename PROVE IInv'
<1> USE NamespaceAssumption
<1>1. PICK src \in Paths : \E dst \in PathsAround(src) :
        /\ Begin(Request("rename", None, src, dst),
                 {src, dst}, IF src = dst THEN "same" ELSE "rename")
        /\ UNCHANGED disk
  BY DEF AskRename
<1>2. PICK dst \in PathsAround(src) :
        /\ Begin(Request("rename", None, src, dst),
                 {src, dst}, IF src = dst THEN "same" ELSE "rename")
        /\ UNCHANGED disk
  BY <1>1
<1> DEFINE request == Request("rename", None, src, dst)
           where == IF src = dst THEN "same" ELSE "rename"
<1>3. Types /\ Whole
  BY <1>2 DEF IInv, Begin
<1>4. src \in Place /\ kind[src.dir] = "dir"
  BY <1>3, ReachableUsed DEF Paths, PathsIn, Place, IsDir
<1>5. /\ dst \in Place /\ kind[dst.dir] = "dir"
      /\ dst.dir \in ReachableIn(entries \ EntriesAt(src))
  BY ReachRoot DEF PathsAround, PathsIn, Place, IsDir
<1>6. request = [op |-> "rename", inode |-> None, current |-> None, src |-> src, dst |-> dst]
  BY DEF Request
<1>7. IsFiniteSet({src, dst})
  <2>1. {src, dst} = {src} \cup {dst}
    OBVIOUS
  <2>2. IsFiniteSet({src}) /\ IsFiniteSet({dst})
    BY FS_Singleton
  <2>3. IsFiniteSet({src} \cup {dst})
    BY <2>2, FS_Union
  <2> QED BY <2>1, <2>3
<1>8. pc' = where /\ req' = request /\ paths' = {src, dst} /\ entries' = entries
  BY <1>2 DEF Begin
<1>9. Asked'
  BY <1>4, <1>5, <1>6, <1>8 DEF Asked, Holds, OnePath, TwoPaths
<1>10. Steps'
  <2>1. req'.src = src /\ req'.dst = dst /\ req'.op = "rename"
    BY <1>6, <1>8
  <2>2. EntriesAt(req.src)' = EntriesAt(src)
    BY <1>8, <2>1 DEF EntriesAt
  <2>3. Around'
    BY <1>5, <1>8, <2>1, <2>2 DEF Around
  <2>4. pc' \in {"same", "rename"}
    BY <1>8
  <2> QED BY <2>3, <2>4 DEF Steps, Renaming
<1>11. where \in QuietSteps \ {"insert"} /\ "rename" \in Ops
  BY DEF QuietSteps, Ops
<1>12. Begin(request, {src, dst}, where) /\ UNCHANGED <<kind, links, parent>>
  BY <1>2 DEF disk
<1> HIDE DEF request, where
<1> QED BY <1>3, <1>4, <1>5, <1>6, <1>7, <1>9, <1>10, <1>11, <1>12, Beginning DEF Types

(* candy_create and candy_symlink open a number that was free. *)
LEMMA AskCreateStep == ASSUME IInv, AskCreate PROVE IInv'
<1> USE NamespaceAssumption
<1>1. PICK op \in {"create", "symlink"}, p \in Paths, i \in Inodes :
        /\ kind[i] = "free"
        /\ Begin(Request(op, i, None, p), {}, "path_open")
        /\ kind' = [kind EXCEPT ![i] = IF op = "create" THEN "file" ELSE "link"]
        /\ links' = [links EXCEPT ![i] = 0]
        /\ UNCHANGED parent
  BY DEF AskCreate
<1> DEFINE request == Request(op, i, None, p)
<1>2. Types /\ Whole
  BY <1>1 DEF IInv, Begin
<1>3. p \in Place /\ p.dir \in Reachable
  BY ReachRoot DEF Paths, PathsIn, Place, Reachable
<1>4. request = [op |-> op, inode |-> i, current |-> None, src |-> None, dst |-> p]
  BY DEF Request
<1>5. IsFiniteSet({}) /\ {} \in SUBSET Place
  BY FS_EmptySet
<1>6. pc' = "path_open" /\ req' = request /\ paths' = {} /\ entries' = entries
  BY <1>1 DEF Begin
<1>7. Asked'
  BY <1>3, <1>4, <1>6 DEF Asked, Holds
<1>8. Steps'
  BY <1>1, <1>2, <1>3, <1>4, <1>6 DEF Steps, Renaming, Reachable, Types
<1>9. "path_open" \in QuietSteps \ {"insert"} /\ op \in Ops
  BY DEF QuietSteps, Ops
<1>10. /\ kind' \in [Inodes -> {"free", "dir", "file", "link"}] /\ links' \in [Inodes -> Nat]
       /\ kind'[i] # "free" /\ links'[i] = 0
       /\ \A k \in Inodes : k # i => kind'[k] = kind[k] /\ links'[k] = links[k]
  BY <1>1, <1>2 DEF Types
<1>11. request \in [op : Ops, inode : Inodes \cup {None}, current : {None},
                    src : Place \cup {None}, dst : Place \cup {None}]
       /\ request.inode = i
  BY <1>3, <1>4, <1>9
<1>12. Begin(request, {}, "path_open") /\ UNCHANGED parent /\ kind[i] = "free"
  BY <1>1
<1> HIDE DEF request
<1> QED BY <1>5, <1>7, <1>8, <1>9, <1>10, <1>11, <1>12, Beginning

(* candy_link opens what a path leads to. *)
LEMMA AskLinkStep == ASSUME IInv, AskLink PROVE IInv'
<1> USE NamespaceAssumption
<1>1. PICK i \in Reachable, p \in Paths :
        /\ Begin(Request("link", i, None, p), {}, "path_open")
        /\ UNCHANGED disk
  BY DEF AskLink
<1> DEFINE request == Request("link", i, None, p)
<1>2. Types /\ Whole
  BY <1>1 DEF IInv, Begin
<1>3. p \in Place /\ p.dir \in Reachable /\ i \in Inodes /\ kind[i] # "free"
  BY <1>2, ReachableUsed, ReachRoot DEF Paths, PathsIn, Place, Reachable
<1>4. request = [op |-> "link", inode |-> i, current |-> None, src |-> None, dst |-> p]
  BY DEF Request
<1>5. IsFiniteSet({}) /\ {} \in SUBSET Place
  BY FS_EmptySet
<1>6. pc' = "path_open" /\ req' = request /\ paths' = {} /\ entries' = entries
  BY <1>1 DEF Begin
<1>7. Asked'
  BY <1>3, <1>4, <1>6 DEF Asked, Holds
<1>8. Steps'
  BY <1>3, <1>4, <1>6 DEF Steps, Renaming, Reachable
<1>9. "path_open" \in QuietSteps \ {"insert"} /\ "link" \in Ops
  BY DEF QuietSteps, Ops
<1>10. Begin(request, {}, "path_open") /\ UNCHANGED <<kind, links, parent>>
  BY <1>1 DEF disk
<1>11. request \in [op : Ops, inode : Inodes \cup {None}, current : {None},
                    src : Place \cup {None}, dst : Place \cup {None}]
       /\ request.inode = i
  BY <1>3, <1>4, <1>9
<1> HIDE DEF request
<1> QED BY <1>2, <1>3, <1>5, <1>7, <1>8, <1>9, <1>10, <1>11, Beginning DEF Types

(* So do the handlers that change no name. *)
LEMMA AskAttributesStep == ASSUME IInv, AskAttributes PROVE IInv'
<1> USE NamespaceAssumption
<1>1. PICK i \in Reachable :
        /\ Begin(Request("attributes", i, None, None), {}, "attributes")
        /\ UNCHANGED disk
  BY DEF AskAttributes
<1> DEFINE request == Request("attributes", i, None, None)
<1>2. Types /\ Whole
  BY <1>1 DEF IInv, Begin
<1>3. i \in Inodes /\ kind[i] # "free"
  BY <1>2, ReachableUsed
<1>4. request = [op |-> "attributes", inode |-> i, current |-> None, src |-> None, dst |-> None]
  BY DEF Request
<1>5. IsFiniteSet({}) /\ {} \in SUBSET Place
  BY FS_EmptySet
<1>6. pc' = "attributes" /\ req' = request /\ paths' = {} /\ entries' = entries
  BY <1>1 DEF Begin
<1>7. Asked'
  BY <1>3, <1>4, <1>6 DEF Asked, Holds
<1>8. Steps'
  BY <1>6 DEF Steps, Renaming
<1>9. "attributes" \in QuietSteps \ {"insert"} /\ "attributes" \in Ops
  BY DEF QuietSteps, Ops
<1>10. Begin(request, {}, "attributes") /\ UNCHANGED <<kind, links, parent>>
  BY <1>1 DEF disk
<1>11. request \in [op : Ops, inode : Inodes \cup {None}, current : {None},
                    src : Place \cup {None}, dst : Place \cup {None}]
       /\ request.inode = i
  BY <1>3, <1>4, <1>9
<1> HIDE DEF request
<1> QED BY <1>2, <1>3, <1>5, <1>7, <1>8, <1>9, <1>10, <1>11, Beginning DEF Types

-----------------------------------------------------------------------------
(* What refs[i] counts. *)
LEMMA CountedRefs ==
  ASSUME Types, Whole, NEW i \in Inodes
  PROVE  /\ HeldBy(i) \in Nat /\ leaked[i] \in Nat /\ PathRefs(paths, i) \in Nat
         /\ refs[i] \in Nat
         /\ refs[i] = HeldBy(i) + leaked[i] + PathRefs(paths, i)
                      + (IF i = req.inode THEN 1 ELSE 0) + (IF i = req.current THEN 1 ELSE 0)
BY HeldByIs, HeldType, PathRefsType DEF Types, Whole, Referenced, Bit

(* The references to an inode after a step that opens some. *)
CountedNext(i) ==
  refs'[i] = HeldBy(i)' + leaked'[i] + PathRefs(paths', i)
             + (IF i = req'.inode THEN 1 ELSE 0) + (IF i = req'.current THEN 1 ELSE 0)

(* refs_open counts a reference more to one inode. *)
LEMMA OpenedMore ==
  ASSUME Types, Whole, UNCHANGED stranded,
         \A i \in Inodes : CountedNext(i),
         \A i \in Inodes : refs'[i] \in Nat /\ refs'[i] >= refs[i],
         \A i \in Inodes : refs'[i] # refs[i] => kind'[i] # "free",
         \A i \in Inodes : \/ kind'[i] = kind[i] /\ links'[i] = links[i]
                           \/ kind[i] = "free" /\ refs'[i] # 0
  PROVE  Referenced'
<1>1. ASSUME NEW i \in Inodes, kind'[i] = "free" PROVE refs'[i] = 0
  BY <1>1 DEF Whole, Referenced
<1>2. ASSUME NEW i \in Inodes, kind'[i] # "free", links'[i] = 0, refs'[i] = 0
      PROVE  i \in stranded'
  <2>1. refs[i] = 0
    BY <1>2 DEF Types
  <2> QED BY <1>2, <2>1 DEF Whole, Referenced
<1> QED BY <1>1, <1>2 DEF Referenced, CountedNext, Bit

(* A step that changes no name keeps them a tree. *)
LEMMA NamesKept ==
  ASSUME Types, Whole, UNCHANGED entries,
         \A i \in Inodes : kind[i] # "free" => kind'[i] = kind[i],
         \A e \in entries : parent'[e.dir] = parent[e.dir], parent'[root] = root
  PROVE  Rooted'
<1>1. \A e \in entries : e.ino \in Inodes /\ e.dir \in Inodes
  BY DEF Types
<1>2. \A e \in entries : kind[e.ino] # "free" /\ kind[e.dir] = "dir"
  BY DEF Whole, Rooted, Live, IsDir
<1>3. \A e \in entries : kind'[e.ino] = kind[e.ino] /\ kind'[e.dir] = "dir"
  BY <1>1, <1>2
<1>4. \A e \in entries : parent[e.dir] # None /\ e.ino # root /\ e.dir \in Reachable
  BY DEF Whole, Rooted, Live
<1>5. Reachable' = Reachable
  BY DEF Reachable
<1>6. \A e, f \in entries : e.dir = f.dir /\ e.name = f.name => e = f
  BY DEF Whole, Rooted
<1>7. \A e \in entries' : kind'[e.ino] # "free" /\ Live(e.dir)' /\ e.ino # root
  BY <1>2, <1>3, <1>4 DEF Live, IsDir
<1>8. \A e \in entries' : e.dir \in Reachable'
  BY <1>4, <1>5
<1>9. kind'[root] = "dir" /\ parent'[root] = root
  BY NamespaceAssumption DEF Whole, Rooted
<1> QED BY <1>6, <1>7, <1>8, <1>9 DEF Rooted

(* One that counts no link differently either keeps the links right. *)
LEMMA LinksKept ==
  ASSUME Types, Whole, UNCHANGED entries,
         \A i \in Inodes : Uncounted(i) = 0 /\ Uncounted(i)' = 0,
         \A i \in Inodes : \/ kind'[i] = kind[i] /\ links'[i] = links[i]
                           \/ kind[i] = "free" /\ links'[i] = 0
  PROVE  Linked'
<1> SUFFICES ASSUME NEW i \in Inodes, kind'[i] # "free"
             PROVE  links'[i] + Uncounted(i)' = NamesFor(i)'
  BY DEF Linked
<1>1. NamesFor(i)' = NamesFor(i)
  BY DEF NamesFor, EntriesFor
<1>2. CASE kind[i] # "free" /\ links'[i] = links[i]
  BY <1>1, <1>2 DEF Whole, Linked
<1>3. CASE kind[i] = "free" /\ links'[i] = 0
  <2>1. NamesFor(i) = 0
    BY <1>3, NamedCounts DEF Whole, Rooted
  <2> QED BY <1>1, <1>3, <2>1
<1> QED BY <1>2, <1>3

(* path_open that drops a reference: it counts as leaked. *)
LEMMA NotADirectoryStep == ASSUME IInv, NotADirectory PROVE IInv'
<1> USE NamespaceAssumption
<1>0. Types /\ Whole /\ HandlesKind /\ pc = "idle"
  BY DEF IInv, NotADirectory
<1>1. PICK j \in Reachable : refs' = Opened(refs, j) /\ leaked' = Opened(leaked, j)
  BY DEF NotADirectory
<1>2. UNCHANGED <<kind, links, entries, parent, fd, paths, pc, req, ok, before, stranded>>
  BY DEF NotADirectory, disk
<1>3. j \in Inodes /\ kind[j] # "free"
  BY <1>0, ReachableUsed
<1>4. refs \in [Inodes -> Nat] /\ leaked \in [Inodes -> Nat]
  BY <1>0 DEF Types
<1>5. /\ refs' \in [Inodes -> Nat] /\ leaked' \in [Inodes -> Nat]
      /\ \A i \in Inodes : /\ refs'[i] = IF i = j THEN refs[i] + 1 ELSE refs[i]
                           /\ leaked'[i] = IF i = j THEN leaked[i] + 1 ELSE leaked[i]
  BY <1>1, <1>3, <1>4 DEF Opened
<1>6. Types' /\ HandlesKind'
  BY <1>0, <1>2, <1>5 DEF Types, HandlesKind
<1>7. ASSUME NEW i \in Inodes PROVE CountedNext(i)
  <2>1. HeldBy(i)' = HeldBy(i)
    BY <1>2 DEF HeldBy
  <2>2. /\ HeldBy(i) \in Nat /\ leaked[i] \in Nat /\ PathRefs(paths, i) \in Nat
        /\ refs[i] = HeldBy(i) + leaked[i] + PathRefs(paths, i)
                     + (IF i = req.inode THEN 1 ELSE 0) + (IF i = req.current THEN 1 ELSE 0)
    BY <1>0, CountedRefs
  <2>3. paths' = paths /\ req' = req
    BY <1>2
  <2> QED BY <1>5, <2>1, <2>2, <2>3 DEF CountedNext
<1>8. Referenced'
  BY <1>0, <1>2, <1>3, <1>4, <1>5, <1>7, OpenedMore
<1>9. Linked'
  <2>1. \A i \in Inodes : Uncounted(i) = 0 /\ Uncounted(i)' = 0
    BY <1>0, <1>2 DEF Uncounted
  <2> QED BY <1>0, <1>2, <2>1, LinksKept
<1>10. Rooted'
  BY <1>0, <1>2, NamesKept DEF Whole, Rooted
<1>11. Asked' /\ OneName' /\ Upward' /\ Steps' /\ History' /\ TornByOne'
  BY <1>0, <1>2
     DEF Whole, Asked, OneName, Upward, Moving, IsDir, Steps, Renaming, History, Asks, TornByOne
<1> QED BY <1>6, <1>8, <1>9, <1>10, <1>11 DEF IInv, Whole

(* candy_open: what a handle names can be reached, and is in use. *)
LEMMA OpenHandleStep == ASSUME IInv, NEW h \in Handles, OpenHandle(h) PROVE IInv'
<1> USE NamespaceAssumption
<1>0. Types /\ Whole /\ HandlesKind
  BY DEF IInv, OpenHandle
<1>1. PICK j \in Reachable :
        kind[j] # "link" /\ fd' = [fd EXCEPT ![h] = j] /\ refs' = Opened(refs, j)
  BY DEF OpenHandle
<1>2. /\ pc = "idle" /\ fd[h] = None
      /\ UNCHANGED <<kind, links, entries, parent, paths, pc, req, ok, before, leaked, stranded>>
  BY DEF OpenHandle, disk, hist
<1>3. j \in Inodes /\ kind[j] \in {"file", "dir"}
  BY <1>0, <1>1, ReachableUsed DEF Types
<1>4. fd \in [Handles -> Inodes \cup {None}] /\ refs \in [Inodes -> Nat]
  BY <1>0 DEF Types
<1>5. Types'
  <2>1. fd' \in [Handles -> Inodes \cup {None}] /\ refs' \in [Inodes -> Nat]
    BY <1>1, <1>3, <1>4 DEF Opened
  <2> QED BY <1>0, <1>2, <2>1 DEF Types
<1>6. HandlesKind'
  BY <1>0, <1>1, <1>2, <1>3, <1>4 DEF HandlesKind
<1>7. \A i \in Inodes : refs'[i] = IF i = j THEN refs[i] + 1 ELSE refs[i]
  BY <1>1, <1>4 DEF Opened
<1>8. ASSUME NEW i \in Inodes PROVE CountedNext(i)
  <2>1. fd[h] # i /\ fd'[h] = j /\ Others(fd, fd', h)
    BY <1>1, <1>2, <1>4 DEF Others
  <2>2. /\ i = fd'[h] => Held(fd', i) = Held(fd, i) + 1
        /\ i # fd'[h] => Held(fd', i) = Held(fd, i)
    BY ONLY <2>1, h \in Handles, HeldOpen
  <2>3. HeldBy(i) = Held(fd, i) /\ HeldBy(i)' = Held(fd', i)
    BY HeldByIs
  <2>4. /\ HeldBy(i) \in Nat /\ leaked[i] \in Nat /\ PathRefs(paths, i) \in Nat
        /\ refs[i] = HeldBy(i) + leaked[i] + PathRefs(paths, i)
                     + (IF i = req.inode THEN 1 ELSE 0) + (IF i = req.current THEN 1 ELSE 0)
    BY <1>0, CountedRefs
  <2>5. leaked' = leaked /\ paths' = paths /\ req' = req
    BY <1>2
  <2> QED BY <1>7, <2>1, <2>2, <2>3, <2>4, <2>5 DEF CountedNext
<1>9. Referenced'
  BY <1>0, <1>2, <1>3, <1>4, <1>7, <1>8, OpenedMore
<1>10. Asked' /\ Linked' /\ Rooted' /\ OneName' /\ Upward' /\ Steps' /\ History' /\ TornByOne'
  <2>1. \A i \in Inodes : Uncounted(i) = 0 /\ Uncounted(i)' = 0
    BY <1>2 DEF Uncounted
  <2>2. Linked'
    BY <1>0, <1>2, <2>1, LinksKept
  <2>3. Rooted'
    BY <1>0, <1>2, NamesKept DEF Whole, Rooted
  <2> QED BY <1>0, <1>2, <2>2, <2>3
          DEF Whole, Asked, OneName, Upward, Moving, IsDir, Steps, Renaming, History, Asks,
              TornByOne
<1> QED BY <1>5, <1>6, <1>9, <1>10 DEF IInv, Whole

(* path_open of a file that is created or linked, or its failure. *)
LEMMA PathOpenStep == ASSUME IInv, PathOpen PROVE IInv'
<1> USE NamespaceAssumption
<1>0. Types /\ Whole /\ HandlesKind /\ pc = "path_open"
  BY DEF IInv, PathOpen
<1>1. /\ req.op \in {"create", "symlink", "link"} /\ req.dst \in Place /\ paths = {}
      /\ req.inode \in Inodes /\ req.current = None /\ req.dst.dir \in Reachable
  BY <1>0 DEF Whole, Asked, Holds, Steps, Renaming
<1>2. CASE Fail({req.inode})
  BY <1>0, <1>1, <1>2, GivesInode, Failing DEF QuietSteps
<1>3. ASSUME paths' = {req.dst}, refs' = Opened(refs, req.dst.dir), pc' = "path_link",
             UNCHANGED <<disk, fd, req, ok, hist>>
      PROVE  IInv'
  <2>1. /\ UNCHANGED <<kind, links, entries, parent, fd, req, ok, before, leaked, stranded>>
        /\ pc' = "path_link"
    BY <1>3 DEF disk, hist
  <2>2. req.dst.dir \in Inodes /\ kind[req.dst.dir] # "free" /\ refs \in [Inodes -> Nat]
    BY <1>0, <1>1, ReachableUsed DEF Types
  <2>3. Types'
    <3>1. refs' \in [Inodes -> Nat]
      BY <1>3, <2>2 DEF Opened
    <3>2. paths' \subseteq Place /\ IsFiniteSet(paths')
      BY <1>1, <1>3, FS_Singleton
    <3> QED BY <1>0, <2>1, <3>1, <3>2 DEF Types, Asks
  <2>4. \A i \in Inodes : refs'[i] = IF i = req.dst.dir THEN refs[i] + 1 ELSE refs[i]
    BY <1>3, <2>2 DEF Opened
  <2>5. ASSUME NEW i \in Inodes PROVE CountedNext(i)
    <3>1. HeldBy(i)' = HeldBy(i)
      BY <2>1 DEF HeldBy
    <3>2. /\ HeldBy(i) \in Nat /\ leaked[i] \in Nat
          /\ refs[i] = HeldBy(i) + leaked[i] + PathRefs(paths, i)
                       + (IF i = req.inode THEN 1 ELSE 0) + (IF i = req.current THEN 1 ELSE 0)
      BY <1>0, CountedRefs
    <3>3. PathRefs({req.dst}, i) = (IF i = req.dst.dir THEN 1 ELSE 0) /\ PathRefs({}, i) = 0
      BY PathRefsOne DEF Bit
    <3>4. PathRefs(paths', i) = (IF i = req.dst.dir THEN 1 ELSE 0) /\ PathRefs(paths, i) = 0
      BY <1>1, <1>3, <3>3
    <3> QED BY <2>1, <2>4, <3>1, <3>2, <3>4 DEF CountedNext
  <2>6. Referenced'
    BY <1>0, <2>1, <2>2, <2>4, <2>5, OpenedMore
  <2>7. Linked'
    <3>1. \A i \in Inodes : Uncounted(i) = 0 /\ Uncounted(i)' = 0
      BY <1>0, <2>1 DEF Uncounted
    <3> QED BY <1>0, <2>1, <3>1, LinksKept
  <2>8. Rooted'
    BY <1>0, <2>1, NamesKept DEF Whole, Rooted
  <2>9. Asked'
    BY <1>1, <1>3, <2>1 DEF Asked, Holds, OnePath
  <2>10. OneName' /\ Upward' /\ TornByOne'
    BY <1>0, <2>1 DEF Whole, OneName, Upward, Moving, IsDir, TornByOne
  <2>11. Steps'
    BY <1>0, <1>1, <2>1 DEF Whole, Steps, Renaming, Reachable
  <2>12. History'
    BY <1>0, <2>1 DEF Whole, History, Asks
  <2>13. HandlesKind'
    BY <1>0, <2>1 DEF HandlesKind
  <2> QED BY <2>1, <2>3, <2>6, <2>7, <2>8, <2>9, <2>10, <2>11, <2>12, <2>13 DEF IInv, Whole
<1> QED BY <1>2, <1>3 DEF PathOpen

(* path_get opens what a path names, for a request that has changed        *)
(* nothing.                                                                *)
LEMMA Getting ==
  ASSUME IInv, pc \in {"unlink", "rmdir", "rename", "source"}, req.current = None,
         NEW p, NEW j \in At(p), refs' = Opened(refs, j),
         \/ req.inode = None /\ req' = [req EXCEPT !.inode = j]
         \/ req' = [req EXCEPT !.current = j],
         NEW where \in {"got", "source", "target"}, Continue(where), UNCHANGED disk,
         Asked', Steps'
  PROVE  IInv'
<1> USE NamespaceAssumption
<1>0. Types /\ Whole /\ HandlesKind
  BY DEF IInv
<1>1. /\ UNCHANGED <<kind, links, entries, parent, fd, paths, ok, before, leaked, stranded>>
      /\ pc' = where
  BY DEF disk, hist, Continue
<1>2. j \in Inodes /\ kind[j] # "free" /\ refs \in [Inodes -> Nat]
  BY <1>0 DEF Types, Whole, Rooted, At, EntriesAt
<1>3. /\ req' \in [op : Ops, inode : Inodes \cup {None}, current : Inodes \cup {None},
                   src : Place \cup {None}, dst : Place \cup {None}]
      /\ \/ req.inode = None /\ req'.inode = j /\ req'.current = None
         \/ req'.inode = req.inode /\ req'.current = j
  BY <1>0, <1>2 DEF Types
<1>4. refs' \in [Inodes -> Nat] /\ \A i \in Inodes :
        refs'[i] = IF i = j THEN refs[i] + 1 ELSE refs[i]
  BY <1>2 DEF Opened
<1>5. Types'
  BY <1>0, <1>1, <1>3, <1>4 DEF Types, Asks
<1>6. ASSUME NEW i \in Inodes PROVE CountedNext(i)
  <2>1. HeldBy(i)' = HeldBy(i)
    BY <1>1 DEF HeldBy
  <2>2. /\ HeldBy(i) \in Nat /\ leaked[i] \in Nat /\ PathRefs(paths, i) \in Nat
        /\ refs[i] = HeldBy(i) + leaked[i] + PathRefs(paths, i)
                     + (IF i = req.inode THEN 1 ELSE 0) + (IF i = req.current THEN 1 ELSE 0)
    BY <1>0, CountedRefs
  <2> QED BY <1>1, <1>3, <1>4, <2>1, <2>2 DEF CountedNext
<1>7. Referenced'
  BY <1>0, <1>1, <1>2, <1>4, <1>6, OpenedMore
<1>8. Linked'
  <2>1. \A i \in Inodes : Uncounted(i) = 0 /\ Uncounted(i)' = 0
    BY <1>1 DEF Uncounted
  <2> QED BY <1>0, <1>1, <2>1, LinksKept
<1>9. Rooted'
  BY <1>0, <1>1, NamesKept DEF Whole, Rooted
<1>10. OneName' /\ Upward' /\ TornByOne'
  BY <1>0, <1>1 DEF Whole, OneName, Upward, Moving, IsDir, TornByOne
<1>11. History' /\ HandlesKind'
  BY <1>0, <1>1 DEF Whole, History, Asks, HandlesKind
<1> QED BY <1>1, <1>5, <1>7, <1>8, <1>9, <1>10, <1>11 DEF IInv, Whole

(* path_get of path_unlink and path_rmdir. *)
LEMMA PathGetStep == ASSUME IInv, PathGet PROVE IInv'
<1>1. /\ pc \in {"unlink", "rmdir"} /\ Types /\ req.op = pc
      /\ OnePath /\ req.inode = None /\ req.current = None
  BY DEF PathGet, IInv, Whole, Asked, Holds
<1>2. CASE Fail({})
  BY <1>1, <1>2, GivesNothing, Failing DEF QuietSteps
<1>3. ASSUME NEW j \in At(req.dst),
             refs' = Opened(refs, j), req' = [req EXCEPT !.current = j],
             Continue("got"), UNCHANGED disk
      PROVE  IInv'
  <2>1. UNCHANGED <<entries, paths>> /\ pc' = "got"
    BY <1>3 DEF disk, Continue
  <2>2. /\ req'.op = req.op /\ req'.inode = None /\ req'.current = j /\ req'.dst = req.dst
        /\ j \in Inodes
    BY <1>1, <1>3 DEF Types, At, EntriesAt
  <2>3. Asked'
    BY <1>1, <2>1, <2>2 DEF Asked, Holds, OnePath
  <2>4. Steps'
    BY <1>1, <2>1, <2>2 DEF Steps, Renaming, At, EntriesAt
  <2> QED BY <1>1, <1>3, <2>3, <2>4, Getting
<1> QED BY <1>2, <1>3 DEF PathGet

(* path_mkdir: the new directory has no name yet. *)
LEMMA MkdirStep == ASSUME IInv, Mkdir PROVE IInv'
<1> USE NamespaceAssumption
<1>0. Types /\ Whole /\ HandlesKind /\ pc = "mkdir"
  BY DEF IInv, Mkdir
<1>1. /\ req.op = "mkdir" /\ OnePath /\ req.inode = None /\ req.current = None
      /\ req.dst.dir \in Reachable
  BY <1>0 DEF Whole, Asked, Holds, Steps, Renaming
<1>2. CASE Fail({})
  BY <1>0, <1>1, <1>2, GivesNothing, Failing DEF QuietSteps
<1>3. ASSUME NEW j \in Inodes, kind[j] = "free",
             kind' = [kind EXCEPT ![j] = "dir"], links' = [links EXCEPT ![j] = 0],
             parent' = [parent EXCEPT ![j] = req.dst.dir], refs' = Opened(refs, j),
             req' = [req EXCEPT !.inode = j], Continue("path_link"), UNCHANGED entries
      PROVE  IInv'
  <2>1. UNCHANGED <<entries, fd, paths, ok, before, leaked, stranded>> /\ pc' = "path_link"
    BY <1>3 DEF hist, Continue
  <2>2. /\ refs \in [Inodes -> Nat] /\ links \in [Inodes -> Nat]
        /\ kind \in [Inodes -> {"free", "dir", "file", "link"}]
        /\ parent \in [Inodes -> Inodes \cup {None}] /\ req.dst.dir \in Inodes
    BY <1>0, <1>1, ReachableUsed DEF Types
  <2>3. /\ req' \in [op : Ops, inode : Inodes \cup {None}, current : Inodes \cup {None},
                     src : Place \cup {None}, dst : Place \cup {None}]
        /\ req'.op = "mkdir" /\ req'.inode = j /\ req'.current = None /\ req'.dst = req.dst
    BY <1>0, <1>1, <1>3 DEF Types
  <2>4. \A i \in Inodes :
          /\ refs'[i] = IF i = j THEN refs[i] + 1 ELSE refs[i]
          /\ kind'[i] = IF i = j THEN "dir" ELSE kind[i]
          /\ links'[i] = IF i = j THEN 0 ELSE links[i]
          /\ parent'[i] = IF i = j THEN req.dst.dir ELSE parent[i]
    BY <1>3, <2>2 DEF Opened
  <2>5. Types'
    <3>1. /\ refs' \in [Inodes -> Nat] /\ links' \in [Inodes -> Nat]
          /\ kind' \in [Inodes -> {"free", "dir", "file", "link"}]
          /\ parent' \in [Inodes -> Inodes \cup {None}]
      BY <1>3, <2>2 DEF Opened
    <3>2. \A i \in Inodes : parent'[i] # None => kind'[i] = "dir"
      BY <1>0, <2>4 DEF Types
    <3>3. pc' \in Asks \cup {"idle", "torn"}
      BY <2>1 DEF Asks
    <3> QED BY <1>0, <2>1, <2>3, <3>1, <3>2, <3>3 DEF Types
  <2>6. ASSUME NEW i \in Inodes PROVE CountedNext(i)
    <3>1. HeldBy(i)' = HeldBy(i)
      BY <2>1 DEF HeldBy
    <3>2. /\ HeldBy(i) \in Nat /\ leaked[i] \in Nat /\ PathRefs(paths, i) \in Nat
          /\ refs[i] = HeldBy(i) + leaked[i] + PathRefs(paths, i)
                       + (IF i = req.inode THEN 1 ELSE 0) + (IF i = req.current THEN 1 ELSE 0)
      BY <1>0, CountedRefs
    <3> QED BY <1>1, <2>1, <2>3, <2>4, <3>1, <3>2 DEF CountedNext
  <2>7. Referenced'
    <3>1. \A i \in Inodes : refs[i] \in Nat
      BY <2>2
    <3> QED BY <1>0, <1>3, <2>1, <2>4, <2>6, <3>1, OpenedMore
  <2>8. Linked'
    <3>1. \A i \in Inodes : Uncounted(i) = 0 /\ Uncounted(i)' = 0
      BY <1>0, <2>1 DEF Uncounted
    <3> QED BY <1>0, <1>3, <2>1, <2>4, <3>1, LinksKept
  <2>9. \A e \in entries : e.dir \in Inodes /\ e.ino \in Inodes /\ e.dir # j /\ e.ino # j
    BY <1>0, <1>3 DEF Types, Whole, Rooted, Live, IsDir
  <2>10. Rooted' /\ j # root
    <3>1. kind[root] = "dir" /\ parent[root] = root
      BY <1>0 DEF Whole, Rooted
    <3> QED BY <1>0, <1>3, <2>1, <2>4, <2>9, <3>1, NamesKept
  <2>11. Asked'
    BY <1>1, <1>3, <2>1, <2>3 DEF Asked, Holds, OnePath
  <2>12. OneName' /\ Upward' /\ TornByOne'
    BY <1>0, <2>1, <2>4, <2>9 DEF Whole, OneName, Upward, Moving, IsDir, TornByOne
  <2>13. Steps'
    <3>1. entries' = entries /\ EntriesFor(j)' = {}
      BY <2>1, <2>9 DEF EntriesFor
    <3>2. Reachable' = Reachable
      BY <2>1 DEF Reachable
    <3>3. kind'[j] = "dir" /\ parent'[j] = req.dst.dir
      BY <1>3, <2>4
    <3> QED BY <1>1, <2>1, <2>3, <2>10, <3>1, <3>2, <3>3 DEF Steps, Renaming, IsDir
  <2>14. History' /\ HandlesKind'
    <3>1. History'
      BY <1>0, <2>1 DEF Whole, History, Asks
    <3>2. \A h \in Handles : fd[h] # None => fd[h] \in Inodes /\ fd[h] # j
      BY <1>0, <1>3 DEF Types, HandlesKind
    <3> QED BY <1>0, <2>1, <2>4, <3>1, <3>2 DEF HandlesKind
  <2> QED BY <2>1, <2>5, <2>7, <2>8, <2>10, <2>11, <2>12, <2>13, <2>14 DEF IInv, Whole
<1> QED BY <1>2, <1>3 DEF Mkdir

(* dir_destroy: the directory is marked while its name is still there. *)
LEMMA Destroying ==
  ASSUME IInv, pc \in {"got", "target"}, CanDestroy(req.current),
         parent' = [parent EXCEPT ![req.current] = None],
         Continue("crippled"), UNCHANGED <<kind, links, entries, refs, req>>, Asked'
  PROVE  IInv'
<1> USE NamespaceAssumption
<1> DEFINE j == req.current
<1>0. Types /\ Whole /\ HandlesKind /\ j \in At(req.dst)
  BY DEF IInv, Whole, Steps, Renaming
<1>1. /\ UNCHANGED <<kind, links, entries, refs, req, fd, paths, ok, before, leaked, stranded>>
      /\ pc' = "crippled"
  BY DEF hist, Continue
<1>2. j \in Inodes /\ kind[j] = "dir" /\ j # root /\ parent \in [Inodes -> Inodes \cup {None}]
  BY <1>0 DEF Types, Whole, Rooted, At, EntriesAt, CanDestroy, Live, IsDir
<1>3. /\ parent' \in [Inodes -> Inodes \cup {None}]
      /\ \A i \in Inodes : parent'[i] = IF i = j THEN None ELSE parent[i]
  BY <1>2
<1>4. \A e \in entries : e.dir \in Inodes /\ e.ino \in Inodes /\ e.dir # j
  BY <1>0 DEF Types, CanDestroy, IsEmpty
<1> HIDE DEF j
<1>5. Types'
  <2>1. \A i \in Inodes : parent'[i] # None => kind'[i] = "dir"
    BY <1>0, <1>1, <1>3 DEF Types
  <2>2. pc' \in Asks \cup {"idle", "torn"}
    BY <1>1 DEF Asks
  <2> QED BY <1>0, <1>1, <1>3, <2>1, <2>2 DEF Types
<1>6. Referenced' /\ HandlesKind'
  <2>1. \A i \in Inodes : HeldBy(i)' = HeldBy(i)
    BY <1>1 DEF HeldBy
  <2> QED BY <1>0, <1>1, <2>1 DEF Whole, Referenced, HandlesKind
<1>7. Linked'
  <2>1. \A i \in Inodes : Uncounted(i) = 0 /\ Uncounted(i)' = 0
    BY <1>1 DEF Uncounted
  <2> QED BY <1>0, <1>1, <2>1, LinksKept
<1>8. Rooted'
  <2>1. parent[root] = root
    BY <1>0 DEF Whole, Rooted
  <2> QED BY <1>0, <1>1, <1>2, <1>3, <1>4, <2>1, NamesKept
<1>9. OneName' /\ Upward' /\ TornByOne'
  BY <1>0, <1>1, <1>3, <1>4 DEF Whole, OneName, Upward, Moving, IsDir, TornByOne, j
<1>10. Steps'
  <2>1. At(req.dst)' = At(req.dst) /\ At(req.src)' = At(req.src)
    BY <1>1 DEF At, EntriesAt
  <2>2. kind'[j] = "dir" /\ parent'[j] = None
    BY <1>1, <1>2, <1>3
  <2>3. req.op = "rename" => Around' /\ req.inode \in At(req.src)
    <3>1. req.op = "rename" => pc = "target"
      BY <1>0 DEF Whole, Asked
    <3> QED BY <1>0, <1>1, <3>1 DEF Whole, Steps, Renaming, Around, EntriesAt
  <2> QED BY <1>0, <1>1, <2>1, <2>2, <2>3 DEF Steps, Renaming, IsDir, j
<1>11. History'
  BY <1>0, <1>1 DEF Whole, History, Asks
<1> QED BY <1>1, <1>5, <1>6, <1>7, <1>8, <1>9, <1>10, <1>11 DEF IInv, Whole

(* path_rmdir. *)
LEMMA RmdirStep == ASSUME IInv, Rmdir PROVE IInv'
<1>1. /\ pc = "got" /\ req.op = "rmdir" /\ OnePath
      /\ req.inode = None /\ req.current \in Inodes
  BY DEF Rmdir, IInv, Whole, Asked, Holds
<1>2. CASE Fail({req.current})
  BY <1>1, <1>2, GivesCurrent, Failing DEF QuietSteps
<1>3. ASSUME CanDestroy(req.current), parent' = [parent EXCEPT ![req.current] = None],
             Continue("crippled"), UNCHANGED <<kind, links, entries, refs, req>>
      PROVE  IInv'
  <2>1. Asked'
    BY <1>1, <1>3 DEF Asked, Holds, OnePath, Continue
  <2> QED BY <1>1, <1>3, <2>1, Destroying
<1> QED BY <1>2, <1>3 DEF Rmdir

-----------------------------------------------------------------------------
(* What a name leads to, it leads to alone: what dir_remove asserts.       *)
LEMMA NamedOnce ==
  ASSUME Types, Whole, NEW p, NEW i \in At(p)
  PROVE  /\ i \in Inodes /\ i # root /\ kind[i] # "free"
         /\ Live(p.dir) /\ At(p) = {i} /\ EntriesAt(p) = {Entry(p, i)}
         /\ Entry(p, i) \in entries
<1>1. PICK e \in entries : e.dir = p.dir /\ e.name = p.name /\ e.ino = i
  BY DEF At, EntriesAt
<1>2. e \in [dir : Inodes, name : Names, ino : Inodes]
  BY DEF Types
<1>3. e = Entry(p, i)
  BY <1>1, <1>2 DEF Entry
<1>4. \A f \in entries : f.dir = p.dir /\ f.name = p.name => f = e
  BY <1>1 DEF Whole, Rooted
<1>5. EntriesAt(p) = {e}
  BY <1>1, <1>4 DEF EntriesAt
<1>6. At(p) = {i}
  BY <1>1, <1>5 DEF At
<1> QED BY <1>1, <1>2, <1>3, <1>5, <1>6 DEF Whole, Rooted

(* dir_insert keeps the names a tree. *)
LEMMA NameAdded ==
  ASSUME Types, Whole, NEW p \in Place, NEW i \in Inodes, kind[i] # "free", i # root,
         Live(p.dir), p.dir \in Reachable, At(p) = {},
         entries' = entries \cup {Entry(p, i)}, UNCHANGED <<kind, parent>>
  PROVE  /\ Rooted' /\ IsFiniteSet(entries')
         /\ entries' \subseteq [dir : Inodes, name : Names, ino : Inodes]
         /\ Reachable \subseteq Reachable'
         /\ \A k \in Inodes : NamesFor(k)' = NamesFor(k) + (IF k = i THEN 1 ELSE 0)
<1> DEFINE new == Entry(p, i)
<1>1. /\ new \in [dir : Inodes, name : Names, ino : Inodes]
      /\ new.dir = p.dir /\ new.name = p.name /\ new.ino = i
  BY DEF Entry, Place
<1>2. \A e \in entries : ~(e.dir = p.dir /\ e.name = p.name)
  BY DEF At, EntriesAt
<1>3. new \notin entries /\ entries' = entries \cup {new}
  BY <1>1, <1>2
<1> HIDE DEF new
<1>4. entries' \subseteq [dir : Inodes, name : Names, ino : Inodes] /\ IsFiniteSet(entries')
  BY <1>1, <1>3, FS_AddElement DEF Types
<1>5. Reachable \subseteq Reachable'
  BY <1>3, ReachMore DEF Reachable
<1>6. ASSUME NEW k \in Inodes
      PROVE  NamesFor(k)' = NamesFor(k) + (IF k = i THEN 1 ELSE 0)
  <2>1. Count(entries', k) = Count(entries, k) + Bit(k = new.ino)
    BY <1>3, CountAdd DEF Types
  <2>2. Count(entries, k) \in Nat
    BY CountType DEF Types
  <2>3. NamesFor(k) = Count(entries, k) + Bit(k = root)
    BY NamesForIs
  <2>4. NamesFor(k)' = Count(entries', k) + Bit(k = root)
    BY DEF NamesFor, EntriesFor, Count, Bit
  <2> QED BY <1>1, <2>1, <2>2, <2>3, <2>4 DEF Bit
<1>7. \A e, f \in entries' : e.dir = f.dir /\ e.name = f.name => e = f
  BY <1>1, <1>2, <1>3 DEF Whole, Rooted
<1>8. \A e \in entries' : kind'[e.ino] # "free" /\ Live(e.dir)' /\ e.ino # root
  BY <1>1, <1>3 DEF Whole, Rooted, Live, IsDir
<1>9. \A e \in entries' : e.dir \in Reachable'
  BY <1>1, <1>3, <1>5 DEF Whole, Rooted
<1>10. kind'[root] = "dir" /\ parent'[root] = root
  BY DEF Whole, Rooted
<1>11. Rooted'
  BY <1>7, <1>8, <1>9, <1>10 DEF Rooted
<1> QED BY <1>4, <1>5, <1>6, <1>11

(* dir_remove keeps them a tree, where no name lies in what it named, or   *)
(* another name leads there.                                               *)
LEMMA NameRemoved ==
  ASSUME Types, Whole, NEW p \in Place, NEW i \in At(p),
         \/ \A e \in entries : e.dir # i
         \/ i \in ReachableIn(entries \ EntriesAt(p)),
         entries' = entries \ EntriesAt(p), UNCHANGED <<kind, parent>>
  PROVE  /\ Rooted' /\ IsFiniteSet(entries')
         /\ entries' \subseteq [dir : Inodes, name : Names, ino : Inodes]
         /\ \A k \in Inodes : NamesFor(k)' = NamesFor(k) - (IF k = i THEN 1 ELSE 0)
<1> DEFINE old == Entry(p, i)
<1>1. EntriesAt(p) = {old} /\ old \in entries /\ old.ino = i
  BY NamedOnce DEF Entry
<1>2. entries' = entries \ {old} /\ entries' \subseteq entries
  BY <1>1
<1> HIDE DEF old
<1>3. IsFiniteSet(entries') /\ entries' \subseteq [dir : Inodes, name : Names, ino : Inodes]
  BY <1>2, FS_Subset DEF Types
<1>4. ASSUME NEW k \in Inodes
      PROVE  NamesFor(k)' = NamesFor(k) - (IF k = i THEN 1 ELSE 0)
  <2>5. IsFiniteSet(entries) /\ old \in entries
    BY <1>1 DEF Types
  <2>6. Count(entries \ {old}, k) = Count(entries, k) - Bit(k = old.ino)
    BY ONLY <2>5, CountRemove
  <2>1. Count(entries', k) = Count(entries, k) - Bit(k = old.ino)
    BY <1>2, <2>6
  <2>2. Count(entries, k) \in Nat
    BY CountType DEF Types
  <2>3. NamesFor(k) = Count(entries, k) + Bit(k = root)
    BY NamesForIs
  <2>4. NamesFor(k)' = Count(entries', k) + Bit(k = root)
    BY DEF NamesFor, EntriesFor, Count, Bit
  <2> QED BY <1>1, <2>1, <2>2, <2>3, <2>4 DEF Bit
<1>5. ASSUME NEW e \in entries' PROVE e.dir \in Reachable'
  <2>1. e \in entries /\ e.dir \in ReachableIn(entries) /\ \A f \in entries : f.ino \in Inodes
    BY <1>2 DEF Types, Whole, Rooted, Reachable
  <2>2. \A f \in entries \ entries' : f.ino = i
    BY <1>1, <1>2
  <2>3. CASE \A f \in entries : f.dir # i
    <3>1. e.dir # i
      BY <2>1, <2>3
    <3> QED BY <1>2, <2>1, <2>2, <2>3, <3>1, ReachWithoutLeaf DEF Reachable
  <2>4. CASE i \in ReachableIn(entries \ EntriesAt(p))
    <3>1. i \in ReachableIn(entries')
      BY <2>4
    <3> QED BY <1>2, <2>1, <2>2, <3>1, ReachWithoutOther DEF Reachable
  <2> QED BY <2>3, <2>4
<1>6. \A e, f \in entries' : e.dir = f.dir /\ e.name = f.name => e = f
  BY <1>2 DEF Whole, Rooted
<1>7. \A e \in entries' : kind'[e.ino] # "free" /\ Live(e.dir)' /\ e.ino # root
  BY <1>2 DEF Whole, Rooted, Live, IsDir
<1>8. kind'[root] = "dir" /\ parent'[root] = root
  BY DEF Whole, Rooted
<1>9. Rooted'
  BY <1>5, <1>6, <1>7, <1>8 DEF Rooted
<1> QED BY <1>3, <1>4, <1>9

(* A step that opens and closes nothing. *)
LEMMA RefsKept ==
  ASSUME Types, Whole, HandlesKind, UNCHANGED <<kind, links, refs, fd, paths, req, leaked, stranded>>
  PROVE  Referenced' /\ HandlesKind'
<1>1. \A i \in Inodes : HeldBy(i)' = HeldBy(i)
  BY DEF HeldBy
<1> QED BY <1>1 DEF Whole, Referenced, HandlesKind

(* path_link: the name is there, and not counted. *)
LEMMA PathLinkStep == ASSUME IInv, PathLink PROVE IInv'
<1> USE NamespaceAssumption
<1>0. Types /\ Whole /\ HandlesKind /\ pc = "path_link"
  BY DEF IInv, PathLink
<1>1. /\ OnePath /\ req.inode \in Inodes /\ req.current = None /\ req.dst \in Place
      /\ req.op \in {"create", "symlink", "link", "mkdir"}
      /\ req.dst.dir \in Reachable
  BY <1>0 DEF Whole, Asked, Holds, Steps, Renaming, OnePath
<1>2. CASE Fail({req.inode})
  BY <1>0, <1>1, <1>2, GivesInode, Failing DEF QuietSteps
<1>3. ASSUME CanLink, entries' = entries \cup {Entry(req.dst, req.inode)},
             Continue("linking"), UNCHANGED <<kind, links, parent, refs, req>>
      PROVE  IInv'
  <2>1. /\ UNCHANGED <<kind, links, parent, refs, req, fd, paths, ok, before, leaked, stranded>>
        /\ pc' = "linking"
    BY <1>3 DEF hist, Continue
  <2>2. /\ kind[req.inode] # "free" /\ req.inode # root
        /\ Live(req.dst.dir) /\ At(req.dst) = {}
        /\ IsDir(req.inode) => EntriesFor(req.inode) = {} /\ parent[req.inode] = req.dst.dir
    BY <1>0, <1>1, <1>3, HeldIsUsed DEF CanLink, Whole, Steps, Renaming, Rooted, IsDir
  <2>3. /\ Rooted' /\ IsFiniteSet(entries')
        /\ entries' \subseteq [dir : Inodes, name : Names, ino : Inodes]
        /\ \A k \in Inodes : NamesFor(k)' = NamesFor(k) + (IF k = req.inode THEN 1 ELSE 0)
    BY <1>0, <1>1, <1>3, <2>1, <2>2, NameAdded
  <2>4. Types'
    BY <1>0, <2>1, <2>3 DEF Types, Asks
  <2>5. Referenced' /\ HandlesKind'
    BY <1>0, <2>1, RefsKept
  <2>6. Linked'
    <3> SUFFICES ASSUME NEW k \in Inodes, kind[k] # "free"
                 PROVE  links[k] + Uncounted(k)' = NamesFor(k)'
      BY <2>1 DEF Linked
    <3>1. Uncounted(k) = 0 /\ Uncounted(k)' = IF k = req.inode THEN 1 ELSE 0
      BY <1>0, <1>1, <2>1 DEF Uncounted
    <3>2. links[k] = NamesFor(k) /\ links[k] \in Nat
      BY <1>0, <3>1 DEF Whole, Linked, Types
    <3> QED BY <2>3, <3>1, <3>2
  <2>7. \A e \in entries : IsDir(req.inode) => e.ino # req.inode
    BY <2>2 DEF EntriesFor
  <2>8. /\ Entry(req.dst, req.inode).ino = req.inode
        /\ Entry(req.dst, req.inode).dir = req.dst.dir
    BY DEF Entry
  <2>9. OneName' /\ Upward'
    <3>1. \A e, f \in entries : e.ino = f.ino /\ IsDir(e.ino) => e = f
      BY <1>0 DEF Whole, OneName, Moving
    <3>2. \A e \in entries : IsDir(e.ino) => parent[e.ino] = e.dir
      BY <1>0 DEF Whole, Upward
    <3>3. \A e, f \in entries' : e.ino = f.ino /\ IsDir(e.ino) => e = f
      BY <1>3, <2>7, <2>8, <3>1
    <3>4. \A e \in entries' : IsDir(e.ino) => parent[e.ino] = e.dir
      BY <1>3, <2>2, <2>8, <3>2
    <3> QED BY <2>1, <3>3, <3>4 DEF OneName, Upward, IsDir
  <2>10. Asked' /\ TornByOne'
    BY <1>1, <2>1 DEF Asked, Holds, OnePath, TornByOne
  <2>11. Steps'
    BY <1>0, <2>1 DEF Whole, Steps, Renaming
  <2>12. History'
    <3>1. entries = before
      BY <1>0 DEF Whole, History, Asks
    <3>2. BeforeAt(req.dst) = {}
      BY <2>2, <3>1 DEF BeforeAt, At, EntriesAt
    <3> QED BY <1>3, <2>1, <3>1, <3>2 DEF History, BeforeAt, Asks
  <2> QED BY <2>1, <2>3, <2>4, <2>5, <2>6, <2>9, <2>10, <2>11, <2>12 DEF IInv, Whole
<1> QED BY <1>2, <1>3 DEF PathLink

(* The second step of path_rename. *)
LEMMA InsertStep == ASSUME IInv, Insert PROVE IInv'
<1> USE NamespaceAssumption
<1>0. Types /\ Whole /\ HandlesKind /\ pc = "insert"
  BY DEF IInv, Insert
<1>1. /\ TwoPaths /\ req.inode \in Inodes /\ req.current = None
      /\ req.dst \in Place /\ req.src \in Place /\ req.op = "rename"
      /\ Around /\ req.inode \in At(req.src)
  BY <1>0 DEF Whole, Asked, Holds, Steps, Renaming, TwoPaths
<1>2. CASE Fail({req.inode})
  BY <1>0, <1>1, <1>2, GivesInode, Failing DEF QuietSteps
<1>3. ASSUME Live(req.dst.dir), At(req.dst) = {},
             entries' = entries \cup {Entry(req.dst, req.inode)},
             Continue("moved"), UNCHANGED <<kind, links, parent, refs, req>>
      PROVE  IInv'
  <2>1. /\ UNCHANGED <<kind, links, parent, refs, req, fd, paths, ok, before, leaked, stranded>>
        /\ pc' = "moved"
    BY <1>3 DEF hist, Continue
  <2>2. /\ kind[req.inode] # "free" /\ req.inode # root
        /\ EntriesAt(req.src) = {Entry(req.src, req.inode)}
        /\ Entry(req.src, req.inode) \in entries
    BY <1>0, <1>1, NamedOnce
  <2>3. req.dst.dir \in Reachable
    BY <1>1, ReachMore DEF Around, Reachable
  <2>4. /\ Rooted' /\ IsFiniteSet(entries')
        /\ entries' \subseteq [dir : Inodes, name : Names, ino : Inodes]
        /\ \A k \in Inodes : NamesFor(k)' = NamesFor(k) + (IF k = req.inode THEN 1 ELSE 0)
    BY <1>0, <1>1, <1>3, <2>1, <2>2, <2>3, NameAdded
  <2>5. Types'
    BY <1>0, <2>1, <2>4 DEF Types, Asks
  <2>6. Referenced' /\ HandlesKind'
    BY <1>0, <2>1, RefsKept
  <2>7. Linked'
    <3> SUFFICES ASSUME NEW k \in Inodes, kind[k] # "free"
                 PROVE  links[k] + Uncounted(k)' = NamesFor(k)'
      BY <2>1 DEF Linked
    <3>1. Uncounted(k) = 0 /\ Uncounted(k)' = IF k = req.inode THEN 1 ELSE 0
      BY <1>0, <1>1, <2>1 DEF Uncounted
    <3>2. links[k] = NamesFor(k) /\ links[k] \in Nat
      BY <1>0, <3>1 DEF Whole, Linked, Types
    <3> QED BY <2>4, <3>1, <3>2
  <2>8. /\ Entry(req.dst, req.inode).ino = req.inode
        /\ Entry(req.src, req.inode).ino = req.inode
        /\ Entry(req.src, req.inode).dir = req.src.dir
    BY DEF Entry
  <2>9. \A e, f \in entries : e.ino = f.ino /\ IsDir(e.ino) => e = f
    BY <1>0 DEF Whole, OneName, Moving
  <2>10. \A e \in entries : IsDir(e.ino) => parent[e.ino] = e.dir
    BY <1>0 DEF Whole, Upward
  <2>11. OneName'
    <3> SUFFICES ASSUME NEW e \in entries', NEW f \in entries', e.ino = f.ino, IsDir(e.ino),
                        e # f
                 PROVE  e \in {Entry(req.src, req.inode), Entry(req.dst, req.inode)}
      BY <2>1 DEF OneName, Moving, IsDir
    <3>1. e.ino = req.inode
      BY <1>3, <2>8, <2>9
    <3> QED BY <1>3, <2>2, <2>8, <2>9, <3>1
  <2>12. Upward'
    BY <1>3, <2>1, <2>10 DEF Upward, IsDir
  <2>13. Asked' /\ TornByOne'
    BY <1>1, <2>1 DEF Asked, Holds, TwoPaths, TornByOne
  <2>14. Steps'
    <3>1. req.inode \in At(req.src)'
      BY <1>1, <1>3, <2>1 DEF At, EntriesAt
    <3>2. entries \ EntriesAt(req.src) \subseteq entries' \ EntriesAt(req.src)'
      BY <1>3, <2>1 DEF EntriesAt
    <3>3. Around'
      BY <1>1, <2>1, <3>2, ReachMore DEF Around
    <3>4. IsDir(req.inode) => parent[req.inode] = req.src.dir
      BY <2>2, <2>8, <2>10
    <3> QED BY <2>1, <3>1, <3>3, <3>4 DEF Steps, Renaming, IsDir
  <2>15. History'
    <3>1. TargetGone'
      BY <1>0, <2>1 DEF Whole, History, TargetGone, BeforeAt
    <3>2. entries = before \ BeforeAt(req.dst) /\ BeforeAt(req.dst)' = BeforeAt(req.dst)
      BY <1>0, <2>1 DEF Whole, History, BeforeAt
    <3> QED BY <1>3, <2>1, <3>1, <3>2 DEF History, Asks
  <2> QED BY <2>1, <2>5, <2>6, <2>7, <2>4, <2>11, <2>12, <2>13, <2>14, <2>15 DEF IInv, Whole
<1> QED BY <1>2, <1>3 DEF Insert

(* The third: the old name goes, and what was reachable through it is      *)
(* reachable through the new one.                                          *)
LEMMA MovedStep == ASSUME IInv, Moved PROVE IInv'
<1> USE NamespaceAssumption
<1>0. Types /\ Whole /\ HandlesKind /\ pc = "moved"
  BY DEF IInv, Moved
<1>1. /\ TwoPaths /\ req.inode \in Inodes /\ req.current = None
      /\ req.dst \in Place /\ req.src \in Place /\ req.op = "rename" /\ req.src # req.dst
      /\ Around /\ req.inode \in At(req.src)
  BY <1>0 DEF Whole, Asked, Holds, Steps, Renaming, TwoPaths
<1>2. /\ kind[req.inode] # "free" /\ req.inode # root /\ Live(req.src.dir)
      /\ At(req.src) = {req.inode} /\ EntriesAt(req.src) = {Entry(req.src, req.inode)}
  BY <1>0, <1>1, NamedOnce
<1>3. /\ entries' = entries \ EntriesAt(req.src)
      /\ UNCHANGED <<kind, links, parent, refs, req, fd, paths, ok, before, leaked, stranded>>
      /\ pc' = "reparent"
  BY <1>2 DEF Moved, RemoveEntry, Continue, hist
<1>4. /\ Entry(req.dst, req.inode) \in entries
      /\ entries = (before \ BeforeAt(req.dst)) \cup {Entry(req.dst, req.inode)}
      /\ TargetGone
  BY <1>0 DEF Whole, History
<1>5. /\ Entry(req.dst, req.inode) # Entry(req.src, req.inode)
      /\ Entry(req.dst, req.inode).ino = req.inode
      /\ Entry(req.dst, req.inode).dir = req.dst.dir
      /\ Entry(req.src, req.inode).ino = req.inode
  BY <1>1 DEF Entry, Place
<1>6. req.inode \in ReachableIn(entries \ EntriesAt(req.src))
  <2>1. Entry(req.dst, req.inode) \in entries \ EntriesAt(req.src)
    BY <1>2, <1>4, <1>5
  <2>2. Entry(req.dst, req.inode).dir \in ReachableIn(entries \ EntriesAt(req.src))
    BY <1>1, <1>5 DEF Around
  <2>3. Entry(req.dst, req.inode).ino \in ReachableIn(entries \ EntriesAt(req.src))
    BY <1>1, <1>5, <2>1, <2>2, ReachStep
  <2> QED BY <1>5, <2>3
<1>7. /\ Rooted' /\ IsFiniteSet(entries')
      /\ entries' \subseteq [dir : Inodes, name : Names, ino : Inodes]
      /\ \A k \in Inodes : NamesFor(k)' = NamesFor(k) - (IF k = req.inode THEN 1 ELSE 0)
  BY <1>0, <1>1, <1>3, <1>6, NameRemoved
<1>8. Types'
  BY <1>0, <1>3, <1>7 DEF Types, Asks
<1>9. Referenced' /\ HandlesKind'
  BY <1>0, <1>3, RefsKept
<1>10. Linked'
  <2> SUFFICES ASSUME NEW k \in Inodes, kind[k] # "free"
               PROVE  links[k] + Uncounted(k)' = NamesFor(k)'
    BY <1>3 DEF Linked
  <2>1. Uncounted(k)' = 0 /\ Uncounted(k) = IF k = req.inode THEN 1 ELSE 0
    BY <1>0, <1>1, <1>3 DEF Uncounted
  <2>2. links[k] + Uncounted(k) = NamesFor(k) /\ links[k] \in Nat
    BY <1>0 DEF Whole, Linked, Types
  <2> QED BY <1>7, <2>1, <2>2
<1>11. entries' = entries \ {Entry(req.src, req.inode)}
  BY <1>2, <1>3
<1>12. OneName'
  <2> SUFFICES ASSUME NEW e \in entries', NEW f \in entries', e.ino = f.ino, IsDir(e.ino)
               PROVE  e = f
    BY <1>3 DEF OneName, IsDir
  <2>1. e = f \/ e \in {Entry(req.src, req.inode), Entry(req.dst, req.inode)}
    BY <1>0, <1>11 DEF Whole, OneName, Moving
  <2>2. f = e \/ f \in {Entry(req.src, req.inode), Entry(req.dst, req.inode)}
    BY <1>0, <1>11 DEF Whole, OneName, Moving, IsDir
  <2> QED BY <1>11, <2>1, <2>2
<1>13. Upward'
  <2>1. \A e \in entries : IsDir(e.ino) =>
          parent[e.ino] = e.dir \/ e = Entry(req.dst, req.inode)
    BY <1>0 DEF Whole, Upward
  <2> QED BY <1>3, <1>11, <2>1 DEF Upward, IsDir
<1>14. Asked' /\ TornByOne'
  BY <1>1, <1>3 DEF Asked, Holds, TwoPaths, TornByOne
<1>15. Steps'
  <2>1. IsDir(req.inode) => Live(req.inode)
    <3>1. IsDir(req.inode) => parent[req.inode] = req.src.dir
      BY <1>0 DEF Whole, Steps, Renaming
    <3> QED BY <1>1, <3>1 DEF Live, Place
  <2> QED BY <1>3, <2>1 DEF Steps, Renaming, IsDir, Live
<1>16. History'
  <2>1. TargetGone' /\ BeforeAt(req.src)' = BeforeAt(req.src) /\ BeforeAt(req.dst)' = BeforeAt(req.dst)
    BY <1>3, <1>4 DEF TargetGone, BeforeAt
  <2>2. BeforeAt(req.src) = {Entry(req.src, req.inode)}
    BY <1>1, <1>4 DEF TargetGone
  <2>3. entries' = (before \ (BeforeAt(req.src) \cup BeforeAt(req.dst)))
                     \cup {Entry(req.dst, req.inode)}
    BY <1>4, <1>5, <1>11, <2>2
  <2> QED BY <1>3, <2>1, <2>3 DEF History, Asks
<1> QED BY <1>3, <1>7, <1>8, <1>9, <1>10, <1>12, <1>13, <1>14, <1>15, <1>16 DEF IInv, Whole

(* What is reachable without the old name is so without the target. *)
LEMMA AroundKept ==
  ASSUME Types, Whole, Around, NEW j \in At(req.dst), \A e \in entries : e.dir # j,
         req.src # req.dst, req.src \in Place, req.dst \in Place, req'.src = req.src,
         req'.dst = req.dst, entries' = entries \ EntriesAt(req.dst)
  PROVE  Around' /\ EntriesAt(req.src)' = EntriesAt(req.src)
<1> DEFINE es == entries \ EntriesAt(req.src)
           fs == es \ EntriesAt(req.dst)
<1>1. EntriesAt(req.dst) = {Entry(req.dst, j)} /\ Entry(req.dst, j) \in entries
  BY NamedOnce
<1>2. EntriesAt(req.src)' = EntriesAt(req.src)
  BY DEF EntriesAt, Place
<1>3. req.dst.dir # j
  BY <1>1 DEF Entry
<1>4. \A e \in es : e.ino \in Inodes /\ e.dir # j
  BY DEF Types
<1>5. fs \in SUBSET es /\ \A e \in es \ fs : e.ino = j
  BY <1>1 DEF Entry
<1>6. req.dst.dir \in ReachableIn(es)
  BY DEF Around
<1>7. entries' \ EntriesAt(req.src)' = fs
  BY <1>2
<1> HIDE DEF es, fs
<1>8. req.dst.dir \in ReachableIn(fs)
  BY <1>3, <1>4, <1>5, <1>6, ReachWithoutLeaf
<1> QED BY <1>2, <1>7, <1>8 DEF Around

(* The name of the target goes: nothing lies in a destroyed directory, nor *)
(* in what is no directory.                                                *)
LEMMA TargetRemoved ==
  ASSUME IInv, pc \in {"got", "target", "crippled"}, pc # "crippled" => ~IsDir(req.current),
         RemoveEntry(req.dst, req.current, "unlinking"),
         UNCHANGED <<kind, links, parent, refs, req>>
  PROVE  IInv'
<1> USE NamespaceAssumption
<1>0. Types /\ Whole /\ HandlesKind
  BY DEF IInv
<1>1. /\ req.current \in At(req.dst) /\ req.dst \in Place
      /\ IsDir(req.current) => parent[req.current] = None
      /\ entries = before
  BY <1>0 DEF Whole, Asked, Steps, Renaming, OnePath, TwoPaths, History, Asks
<1>2. /\ req.current \in Inodes /\ Live(req.dst.dir)
      /\ At(req.dst) = {req.current} /\ EntriesAt(req.dst) = {Entry(req.dst, req.current)}
      /\ Entry(req.dst, req.current) \in entries
  BY <1>0, <1>1, NamedOnce
<1>3. /\ entries' = entries \ EntriesAt(req.dst)
      /\ UNCHANGED <<kind, links, parent, refs, req, fd, paths, ok, before, leaked, stranded>>
      /\ pc' = "unlinking"
  BY <1>2 DEF RemoveEntry, Continue, hist
<1>4. \A e \in entries : e.dir # req.current
  BY <1>0, <1>1 DEF Whole, Rooted, Live
<1>5. /\ Rooted' /\ IsFiniteSet(entries')
      /\ entries' \subseteq [dir : Inodes, name : Names, ino : Inodes]
      /\ \A k \in Inodes : NamesFor(k)' = NamesFor(k) - (IF k = req.current THEN 1 ELSE 0)
  BY <1>0, <1>1, <1>3, <1>4, NameRemoved
<1>6. Types'
  BY <1>0, <1>3, <1>5 DEF Types, Asks
<1>7. Referenced' /\ HandlesKind'
  BY <1>0, <1>3, RefsKept
<1>8. Linked'
  <2> SUFFICES ASSUME NEW k \in Inodes, kind[k] # "free"
               PROVE  links[k] + Uncounted(k)' = NamesFor(k)'
    BY <1>3 DEF Linked
  <2>1. Uncounted(k) = 0 /\ Uncounted(k)' = IF k = req.current THEN -1 ELSE 0
    BY <1>0, <1>3 DEF Uncounted
  <2>2. links[k] = NamesFor(k) /\ links[k] \in Nat
    BY <1>0, <2>1 DEF Whole, Linked, Types
  <2> QED BY <1>5, <2>1, <2>2
<1>9. OneName'
  BY <1>0, <1>3 DEF Whole, OneName, Moving, IsDir
<1>10. Upward'
  <2>1. \A e \in entries : IsDir(e.ino) => parent[e.ino] = e.dir \/ e.ino = req.current
    BY <1>0 DEF Whole, Upward
  <2>2. \A e \in entries' : IsDir(e.ino) => e.ino # req.current
    <3>1. \A e, f \in entries : e.ino = f.ino /\ IsDir(e.ino) => e = f
      BY <1>0 DEF Whole, OneName, Moving
    <3>2. Entry(req.dst, req.current).ino = req.current
      BY DEF Entry
    <3> QED BY <1>2, <1>3, <3>1, <3>2
  <2> QED BY <1>3, <2>1, <2>2 DEF Upward, IsDir
<1>11. Asked' /\ TornByOne'
  BY <1>0, <1>3 DEF Whole, Asked, Holds, TwoPaths, OnePath, TornByOne
<1>12. Steps'
  <2>1. IsDir(req.current)' => parent'[req.current] = None
    BY <1>1, <1>3 DEF IsDir
  <2>2. ASSUME req.op = "rename"
        PROVE  Around' /\ req.inode \in At(req.src)'
    <3>1. /\ Around /\ req.inode \in At(req.src) /\ req.src # req.dst
          /\ req.src \in Place /\ req.dst \in Place
      BY <1>0, <2>2 DEF Whole, Steps, Renaming, Asked, TwoPaths
    <3>2. Around' /\ EntriesAt(req.src)' = EntriesAt(req.src)
      BY <1>0, <1>1, <1>3, <1>4, <3>1, AroundKept
    <3> QED BY <1>3, <3>1, <3>2 DEF At
  <2> QED BY <1>3, <2>1, <2>2 DEF Steps, Renaming
<1>13. History'
  <2>1. BeforeAt(req.dst) = EntriesAt(req.dst) /\ BeforeAt(req.src) = EntriesAt(req.src)
    BY <1>1 DEF BeforeAt, EntriesAt
  <2>2. BeforeAt(req.dst)' = BeforeAt(req.dst) /\ BeforeAt(req.src)' = BeforeAt(req.src)
    BY <1>3 DEF BeforeAt
  <2>3. \A e \in BeforeAt(req.dst) : \A f \in before : f.dir # e.ino
    BY <1>1, <1>2, <1>4, <2>1 DEF Entry
  <2>4. req.op = "rename" => BeforeAt(req.src) = {Entry(req.src, req.inode)}
    <3>1. req.op = "rename" => req.inode \in At(req.src)
      <4>1. req.op = "rename" => pc \in {"target", "crippled"}
        BY <1>0 DEF Whole, Asked
      <4> QED BY <1>0, <4>1 DEF Whole, Steps, Renaming
    <3> QED BY <1>0, <2>1, <3>1, NamedOnce
  <2>5. TargetGone'
    BY <1>3, <2>2, <2>3, <2>4 DEF TargetGone
  <2> QED BY <1>1, <1>2, <1>3, <2>1, <2>2, <2>5 DEF History, Asks
<1> QED BY <1>3, <1>5, <1>6, <1>7, <1>8, <1>9, <1>10, <1>11, <1>12, <1>13 DEF IInv, Whole

(* path_rmdir and path_rename remove the name of what they destroyed. *)
LEMMA CrippledStep == ASSUME IInv, Crippled PROVE IInv'
BY TargetRemoved DEF Crippled

(* path_unlink. *)
LEMMA UnlinkStep == ASSUME IInv, Unlink PROVE IInv'
<1>1. pc = "got" /\ ~IsDir(req.current) /\ req.inode = None
  BY DEF Unlink, IInv, Whole, Asked, Holds
<1>2. CASE Fail({req.current})
  BY <1>1, <1>2, GivesCurrent, Failing DEF QuietSteps
<1> QED BY <1>1, <1>2, TargetRemoved DEF Unlink

(* path_rename: the old name is looked up, and then the new one. *)
LEMMA RenameSourceStep == ASSUME IInv, RenameSource PROVE IInv'
<1>1. pc = "rename" /\ Types /\ TwoPaths /\ req.inode = None /\ req.current = None /\ Around
  BY DEF RenameSource, IInv, Whole, Asked, Holds, Steps, Renaming, TwoPaths
<1>2. CASE Fail({})
  BY <1>1, <1>2, GivesNothing, Failing DEF QuietSteps
<1>3. ASSUME NEW j \in At(req.src),
             refs' = Opened(refs, j), req' = [req EXCEPT !.inode = j],
             Continue("source"), UNCHANGED disk
      PROVE  IInv'
  <2>1. UNCHANGED <<entries, paths>> /\ pc' = "source"
    BY <1>3 DEF disk, Continue
  <2>2. /\ req'.op = req.op /\ req'.inode = j /\ req'.current = None
        /\ req'.src = req.src /\ req'.dst = req.dst /\ j \in Inodes
    BY <1>1, <1>3 DEF Types, At, EntriesAt
  <2>3. Asked'
    BY <1>1, <2>1, <2>2 DEF Asked, Holds, TwoPaths
  <2>4. Steps'
    BY <1>1, <2>1, <2>2 DEF Steps, Renaming, Around, At, EntriesAt
  <2> QED BY <1>1, <1>3, <2>3, <2>4, Getting
<1> QED BY <1>2, <1>3 DEF RenameSource

(* Without a target nothing changes. *)
LEMMA RenameTargetStep == ASSUME IInv, RenameTarget PROVE IInv'
<1> USE NamespaceAssumption
<1>0. Types /\ Whole /\ HandlesKind /\ pc = "source"
  BY DEF IInv, RenameTarget
<1>1. /\ TwoPaths /\ req.inode \in Inodes /\ req.current = None /\ req.op = "rename"
      /\ Around /\ req.inode \in At(req.src) /\ entries = before
  BY <1>0 DEF Whole, Asked, Holds, Steps, Renaming, TwoPaths, History, Asks
<1>2. CASE Fail({req.inode})
  BY <1>0, <1>1, <1>2, GivesInode, Failing DEF QuietSteps
<1>3. ASSUME At(req.dst) = {}, Continue("insert"), UNCHANGED <<disk, refs, req>>
      PROVE  IInv'
  <2>1. /\ UNCHANGED <<kind, links, entries, parent, refs, req, fd, paths, ok, before,
                       leaked, stranded>>
        /\ pc' = "insert"
    BY <1>3 DEF disk, hist, Continue
  <2>2. Types'
    BY <1>0, <2>1 DEF Types, Asks
  <2>3. Referenced' /\ HandlesKind'
    BY <1>0, <2>1, RefsKept
  <2>4. Linked'
    <3>1. \A i \in Inodes : Uncounted(i) = 0 /\ Uncounted(i)' = 0
      BY <1>0, <2>1 DEF Uncounted
    <3> QED BY <1>0, <2>1, <3>1, LinksKept
  <2>5. Rooted'
    BY <1>0, <2>1, NamesKept DEF Whole, Rooted
  <2>6. OneName' /\ Upward' /\ TornByOne'
    BY <1>0, <2>1 DEF Whole, OneName, Upward, Moving, IsDir, TornByOne
  <2>7. Asked'
    BY <1>1, <2>1 DEF Asked, Holds, TwoPaths
  <2>8. Steps'
    BY <1>1, <2>1 DEF Steps, Renaming, Around, At, EntriesAt
  <2>9. History'
    <3>1. \A e \in EntriesAt(req.dst) : e.ino \in At(req.dst)
      BY DEF At
    <3>2. EntriesAt(req.dst) = {} /\ EntriesAt(req.src) = {Entry(req.src, req.inode)}
      BY <1>0, <1>1, <1>3, <3>1, NamedOnce
    <3>3. BeforeAt(req.dst)' = {} /\ BeforeAt(req.src)' = {Entry(req.src, req.inode)}
      BY <1>1, <2>1, <3>2 DEF BeforeAt, EntriesAt
    <3>4. TargetGone'
      BY <2>1, <3>3 DEF TargetGone, Entry
    <3> QED BY <1>1, <2>1, <3>3, <3>4 DEF History, Asks
  <2> QED BY <2>1, <2>2, <2>3, <2>4, <2>5, <2>6, <2>7, <2>8, <2>9 DEF IInv, Whole
<1>4. ASSUME NEW j \in At(req.dst),
             refs' = Opened(refs, j), req' = [req EXCEPT !.current = j],
             Continue("target"), UNCHANGED disk
      PROVE  IInv'
  <2>1. UNCHANGED <<entries, paths>> /\ pc' = "target"
    BY <1>4 DEF disk, Continue
  <2>2. /\ req'.op = req.op /\ req'.inode = req.inode /\ req'.current = j
        /\ req'.src = req.src /\ req'.dst = req.dst /\ j \in Inodes
    BY <1>0, <1>4 DEF Types, At, EntriesAt
  <2>3. Asked'
    BY <1>1, <2>1, <2>2 DEF Asked, Holds, TwoPaths
  <2>4. Steps'
    BY <1>1, <2>1, <2>2 DEF Steps, Renaming, Around, At, EntriesAt
  <2> QED BY <1>0, <1>1, <1>4, <2>3, <2>4, Getting
<1> QED BY <1>2, <1>3, <1>4 DEF RenameTarget

(* What becomes of the target. *)
LEMMA RenameOverStep == ASSUME IInv, RenameOver PROVE IInv'
<1>1. pc = "target" /\ TwoPaths /\ req.inode \in Inodes /\ req.current \in Inodes
  BY DEF RenameOver, IInv, Whole, Asked, Holds
<1>2. ASSUME CanDestroy(req.current), parent' = [parent EXCEPT ![req.current] = None],
             Continue("crippled"), UNCHANGED <<kind, links, entries, refs, req>>
      PROVE  IInv'
  <2>1. Asked'
    BY <1>1, <1>2 DEF Asked, Holds, TwoPaths, Continue
  <2> QED BY <1>1, <1>2, <2>1, Destroying
<1> QED BY <1>1, <1>2, TargetRemoved DEF RenameOver

(* A rename that is refused has found two inodes. *)
LEMMA RenameRefusedStep == ASSUME IInv, RenameRefused PROVE IInv'
<1>0. Types /\ Whole /\ pc = "target"
  BY DEF IInv, RenameRefused
<1>1. /\ req.src # req.dst /\ req.src \in Place /\ req.dst \in Place
      /\ req.inode \in At(req.src) /\ req.current \in At(req.dst)
  BY <1>0 DEF Whole, Asked, TwoPaths, Steps, Renaming
<1>2. ASSUME req.inode = req.current PROVE FALSE
  <2>1. IsDir(req.inode)
    BY <1>2 DEF RenameRefused
  <2>2. /\ Entry(req.src, req.inode) \in entries
        /\ Entry(req.dst, req.inode) \in entries
    BY <1>0, <1>1, <1>2, NamedOnce
  <2>3. Entry(req.src, req.inode) = Entry(req.dst, req.inode)
    BY <1>0, <2>1, <2>2 DEF Whole, OneName, Moving, Entry
  <2> QED BY <1>1, <2>3 DEF Entry, Place
<1>3. Gives({req.inode, req.current})
  BY <1>2, GivesBoth
<1> QED BY <1>0, <1>3, Failing DEF RenameRefused, QuietSteps

(* path_rename goes on when the target is closed: the old name and the way *)
(* to the new one stay.                                                    *)
LEMMA UnlinkedGoesOn == ASSUME IInv, Unlinked, req.op = "rename" PROVE IInv'
<1> USE NamespaceAssumption
<1>0. Types /\ Whole /\ HandlesKind /\ pc = "unlinked"
  BY DEF IInv, Unlinked
<1>1. /\ TwoPaths /\ req.inode \in Inodes /\ req.current \in Inodes
      /\ Around /\ req.inode \in At(req.src)
  BY <1>0 DEF Unlinked, Whole, Asked, Holds, TwoPaths, Steps, Renaming
<1>2. /\ links' = links /\ Closing({req.current}, {}, links, parent)
      /\ req' = [req EXCEPT !.current = None] /\ pc' = "insert"
      /\ UNCHANGED <<entries, fd, paths, ok, before, leaked, stranded>>
  BY DEF Unlinked, Continue, hist
<1>3. /\ links \in [Inodes -> Nat]
      /\ \A i \in Inodes : kind[i] # "free" => links[i] = NamesFor(i)
      /\ \A i \in Inodes : kind[i] # "free" /\ links[i] = 0 /\ refs[i] = 0 => i \in stranded
  <2>1. \A i \in Inodes : Uncounted(i) = 0
    BY <1>0 DEF Uncounted
  <2> QED BY <1>0, <2>1 DEF Whole, Linked, Referenced, Types
<1>4. /\ req' \in [op : Ops, inode : Inodes \cup {None}, current : Inodes \cup {None},
                   src : Place \cup {None}, dst : Place \cup {None}]
      /\ req'.op = "rename" /\ req'.inode = req.inode /\ req'.current = None
      /\ req'.src = req.src /\ req'.dst = req.dst
  BY <1>0, <1>2 DEF Types, Unlinked
<1>5. refs \in [Inodes -> Nat] /\ refs[req.current] # 0
  BY <1>0, <1>1, HeldIsUsed DEF Types
<1>6. refs' \in [Inodes -> Nat] /\ \A i \in Inodes :
        refs'[i] = IF i = req.current THEN refs[i] - 1 ELSE refs[i]
  <2>1. refs' = [i \in Inodes |-> refs[i] - Bit(i \in {req.current}) - PathRefs({}, i)]
    BY <1>2 DEF Closing
  <2>2. \A i \in Inodes : PathRefs({}, i) = 0
    BY PathRefsOne
  <2>3. \A i \in Inodes : Bit(i \in {req.current}) = IF i = req.current THEN 1 ELSE 0
    BY DEF Bit
  <2> QED BY <1>5, <2>1, <2>2, <2>3
<1>7. \A i \in Inodes :
        IF refs'[i] = 0 /\ refs'[i] # refs[i] /\ links[i] = 0
        THEN kind'[i] = "free" /\ parent'[i] = None
        ELSE kind'[i] = kind[i] /\ parent'[i] = parent[i]
  BY <1>2 DEF Closing
<1>8. \A i \in Inodes : i = root \/ (\E e \in entries : e.ino = i) =>
        kind[i] # "free" /\ links[i] # 0 /\ kind'[i] = kind[i] /\ parent'[i] = parent[i]
  BY <1>0, <1>3, <1>7, NamedCounts DEF Whole, Rooted
<1>9. \A e \in entries : /\ e.ino \in Inodes /\ kind'[e.ino] = kind[e.ino]
                         /\ parent'[e.ino] = parent[e.ino]
  BY <1>0, <1>8 DEF Types
<1>10. \A e \in entries : /\ kind'[e.dir] = kind[e.dir] /\ parent'[e.dir] = parent[e.dir]
  <2> SUFFICES ASSUME NEW e \in entries
               PROVE  kind'[e.dir] = kind[e.dir] /\ parent'[e.dir] = parent[e.dir]
    OBVIOUS
  <2>1. e.dir \in Inodes /\ e.dir \in ReachableIn(entries) /\ \A f \in entries : f.ino \in Inodes
    BY <1>0 DEF Types, Whole, Rooted, Reachable
  <2>2. e.dir = root \/ \E f \in entries : f.ino = e.dir
    BY <2>1, ReachNamed
  <2> QED BY <1>8, <2>1, <2>2
<1>11. Types'
  <2>1. kind' \in [Inodes -> {"free", "dir", "file", "link"}]
        /\ parent' \in [Inodes -> Inodes \cup {None}]
    BY <1>0, <1>2 DEF Types, Closing
  <2>2. \A i \in Inodes : parent'[i] # None => kind'[i] = "dir"
    BY <1>0, <1>7 DEF Types
  <2>3. pc' \in Asks \cup {"idle", "torn"}
    BY <1>2 DEF Asks
  <2> QED BY <1>0, <1>2, <1>3, <1>4, <1>6, <2>1, <2>2, <2>3 DEF Types
<1>12. ASSUME NEW i \in Inodes
       PROVE  CountedNext(i) /\ (HeldBy(i) # 0 => refs'[i] # 0)
  <2>1. HeldBy(i)' = HeldBy(i)
    BY <1>2 DEF HeldBy
  <2>2. /\ HeldBy(i) \in Nat /\ leaked[i] \in Nat /\ PathRefs(paths, i) \in Nat
        /\ refs[i] = HeldBy(i) + leaked[i] + PathRefs(paths, i)
                     + (IF i = req.inode THEN 1 ELSE 0) + (IF i = req.current THEN 1 ELSE 0)
    BY <1>0, CountedRefs
  <2>3. leaked' = leaked /\ paths' = paths
    BY <1>2
  <2>4. refs'[i] = HeldBy(i) + leaked[i] + PathRefs(paths, i)
                   + (IF i = req.inode THEN 1 ELSE 0)
    BY <1>6, <2>2
  <2>5. req'.inode = req.inode /\ i # req'.current
    BY <1>4
  <2>7. \A a, b, c, d \in Nat : a # 0 => a + b + c + d # 0
    OBVIOUS
  <2>8. (IF i = req.inode THEN 1 ELSE 0) \in Nat
    OBVIOUS
  <2>6. HeldBy(i) # 0 => refs'[i] # 0
    BY <2>2, <2>4, <2>7, <2>8
  <2> QED BY <2>1, <2>2, <2>3, <2>4, <2>5, <2>6 DEF CountedNext
<1>13. HandlesKind'
  <2> SUFFICES ASSUME NEW h \in Handles, fd[h] # None
               PROVE  kind'[fd[h]] \in {"file", "dir"}
    BY <1>2 DEF HandlesKind
  <2>1. fd[h] \in Inodes /\ kind[fd[h]] \in {"file", "dir"}
    BY <1>0 DEF Types, HandlesKind
  <2>2. HeldBy(fd[h]) # 0
    BY HeldByIs, HeldType
  <2> QED BY <1>7, <1>12, <2>1, <2>2
<1>14. Referenced'
  <2>1. ASSUME NEW i \in Inodes, kind'[i] = "free" PROVE refs'[i] = 0
    <3>1. kind[i] = "free" => refs[i] = 0
      BY <1>0 DEF Whole, Referenced
    <3>2. i = req.current => kind[i] # "free"
      BY <1>0, HeldIsUsed
    <3> QED BY <1>6, <1>7, <2>1, <3>1, <3>2
  <2>2. ASSUME NEW i \in Inodes, kind'[i] # "free", links'[i] = 0, refs'[i] = 0
        PROVE  i \in stranded'
    BY <1>2, <1>3, <1>7, <2>2
  <2> QED BY <1>12, <2>1, <2>2 DEF Referenced, CountedNext, Bit
<1>15. Linked'
  <2> SUFFICES ASSUME NEW i \in Inodes, kind'[i] # "free"
               PROVE  links'[i] + Uncounted(i)' = NamesFor(i)'
    BY DEF Linked
  <2>1. Uncounted(i)' = 0 /\ NamesFor(i)' = NamesFor(i)
    BY <1>2 DEF Uncounted, NamesFor, EntriesFor
  <2>2. links'[i] = NamesFor(i) /\ links'[i] \in Nat
    BY <1>2, <1>3, <1>7
  <2> QED BY <2>1, <2>2
<1>16. Rooted'
  <2>1. \A e, f \in entries' : e.dir = f.dir /\ e.name = f.name => e = f
    BY <1>0, <1>2 DEF Whole, Rooted
  <2>2. \A e \in entries' : kind'[e.ino] # "free" /\ Live(e.dir)' /\ e.ino # root
    BY <1>0, <1>2, <1>9, <1>10 DEF Whole, Rooted, Live, IsDir
  <2>3. \A e \in entries' : e.dir \in Reachable'
    BY <1>0, <1>2 DEF Whole, Rooted, Reachable
  <2>4. kind'[root] = "dir" /\ parent'[root] = root
    BY <1>0, <1>8 DEF Whole, Rooted
  <2> QED BY <2>1, <2>2, <2>3, <2>4 DEF Rooted
<1>17. OneName' /\ Upward' /\ TornByOne'
  <2>1. \A e, f \in entries : e.ino = f.ino /\ IsDir(e.ino) => e = f
    BY <1>0 DEF Whole, OneName, Moving
  <2>2. \A e \in entries : IsDir(e.ino) => parent[e.ino] = e.dir
    BY <1>0 DEF Whole, Upward
  <2> QED BY <1>2, <1>9, <2>1, <2>2 DEF OneName, Upward, IsDir, TornByOne
<1>18. Asked'
  BY <1>1, <1>2, <1>4 DEF Asked, Holds, TwoPaths
<1>19. Steps'
  <2>1. Around' /\ req.inode \in At(req.src)'
    BY <1>1, <1>2, <1>4 DEF Around, EntriesAt, At
  <2> QED BY <1>2, <1>4, <2>1 DEF Steps, Renaming, EntriesAt, At
<1>20. History'
  <2>1. BeforeAt(req.dst)' = BeforeAt(req.dst) /\ BeforeAt(req.src)' = BeforeAt(req.src)
    BY <1>2, <1>4 DEF BeforeAt
  <2>2. TargetGone /\ entries = before \ BeforeAt(req.dst)
    BY <1>0 DEF Whole, History
  <2>3. TargetGone'
    BY <1>2, <1>4, <2>1, <2>2 DEF TargetGone, Unlinked
  <2> QED BY <1>2, <2>1, <2>2, <2>3 DEF History, Asks
<1> QED BY <1>2, <1>11, <1>13, <1>14, <1>15, <1>16, <1>17, <1>18, <1>19, <1>20 DEF IInv, Whole

(* After a crash the tables are empty, and the disk is as it was: at most  *)
(* what the request has not yet made right is wrong.                       *)
LEMMA CrashKeeps ==
  ASSUME IInv, pc # "torn", Crash
  PROVE  /\ Types' /\ HandlesKind'
         /\ UNCHANGED <<kind, links, entries, parent, req, ok, before>>
<1>1. Types /\ UNCHANGED <<kind, links, entries, parent, req, ok, before>>
  BY DEF IInv, Crash, disk
<1>2. /\ refs' = [i \in Inodes |-> 0] /\ fd' = [h \in Handles |-> None]
      /\ paths' = {} /\ leaked' = [i \in Inodes |-> 0]
      /\ pc' \in Asks \cup {"idle", "torn"}
  BY DEF Crash
<1>3. Types'
  BY <1>1, <1>2, FS_EmptySet DEF Types
<1>4. HandlesKind'
  BY <1>2 DEF HandlesKind
<1> QED BY <1>1, <1>3, <1>4

(* A crash between requests loses references only. *)
LEMMA CrashIdle == ASSUME IInv, pc = "idle", Crash PROVE IInv'
<1> USE NamespaceAssumption
<1>0. Types /\ Whole
  BY DEF IInv
<1>1. /\ Types' /\ HandlesKind' /\ UNCHANGED <<kind, links, entries, parent, req, ok, before>>
  BY CrashKeeps
<1>2. /\ refs' = [i \in Inodes |-> 0] /\ fd' = [h \in Handles |-> None]
      /\ paths' = {} /\ leaked' = [i \in Inodes |-> 0] /\ pc' = "idle"
      /\ stranded' = stranded \cup
                      {i \in Inodes : kind[i] # "free" /\ links[i] = 0 /\ refs[i] > 0}
  BY DEF Crash
<1>3. req = Idle
  BY <1>0 DEF Whole, Asked
<1>4. Asked' /\ Steps' /\ History' /\ TornByOne'
  BY <1>1, <1>2, <1>3 DEF Asked, Steps, Renaming, History, TornByOne, Asks
<1>5. ASSUME NEW i \in Inodes
      PROVE  refs'[i] = HeldBy(i)' + leaked'[i] + PathRefs(paths', i)
                        + Bit(i = req'.inode) + Bit(i = req'.current)
  <2>1. HeldBy(i)' = 0
    <3>1. \A h \in Handles : fd'[h] # i
      BY <1>2
    <3> QED BY <3>1, HeldByIs, HeldType
  <2>2. PathRefs(paths', i) = 0
    BY <1>2, PathRefsOne
  <2>3. Bit(i = req'.inode) = 0 /\ Bit(i = req'.current) = 0
    BY <1>1, <1>3 DEF Idle, Request, Bit
  <2> QED BY <1>2, <2>1, <2>2, <2>3
<1>6. Referenced'
  <2>1. ASSUME NEW i \in Inodes, kind[i] # "free", links[i] = 0 PROVE i \in stranded'
    <3>1. refs[i] = 0 => i \in stranded
      BY <1>0, <2>1 DEF Whole, Referenced
    <3>2. refs[i] = 0 \/ refs[i] > 0
      BY <1>0 DEF Types
    <3> QED BY <1>2, <2>1, <3>1, <3>2
  <2> QED BY <1>1, <1>2, <1>5, <2>1 DEF Referenced
<1>7. Linked'
  <2>1. \A i \in Inodes : Uncounted(i) = 0 /\ Uncounted(i)' = 0
    BY <1>2 DEF Uncounted
  <2> QED BY <1>0, <1>1, <2>1, LinksKept
<1>8. Rooted'
  BY <1>0, <1>1, NamesKept DEF Whole, Rooted
<1>9. OneName' /\ Upward'
  BY <1>0, <1>1, <1>2 DEF Whole, OneName, Upward, Moving, IsDir
<1> QED BY <1>1, <1>4, <1>6, <1>7, <1>8, <1>9 DEF IInv, Whole

(* Of what the request is about, one thing at most has neither link nor    *)
(* name, and then nothing else is wrong.                                   *)
LEMMA Orphaned ==
  ASSUME Types, Whole, pc # "torn", NEW i \in Inodes, i = req.inode \/ i = req.current,
         kind[i] # "free", links[i] = 0, NamesFor(i) = 0
  PROVE  /\ pc \notin {"linking", "moved", "unlinking", "crippled", "reparent"}
         /\ i = IF req.current # None THEN req.current ELSE req.inode
<1> USE NamespaceAssumption
<1>1. \A e \in entries : e.ino # i
  BY NamedCounts
<1>2. \A p : i \notin At(p)
  BY <1>1 DEF At, EntriesAt
<1>3. pc = "unlinking" => i # req.current \/ i = req.inode
  <2>1. links[i] + Uncounted(i) = NamesFor(i)
    BY DEF Whole, Linked
  <2> QED BY <2>1 DEF Uncounted
<1>4. pc \in {"linking", "moved", "reparent"} =>
        /\ Entry(req.dst, req.inode) \in entries
        /\ req.current = None
  BY DEF Whole, History, Asked, Holds
<1>5. pc \notin {"linking", "moved", "reparent"}
  BY <1>1, <1>4 DEF Entry
<1>6. ASSUME req.inode # None, req.current # None PROVE i # req.inode
  <2>1. pc \in {"target", "crippled", "unlinking", "unlinked"} /\ TwoPaths
    BY <1>6 DEF Whole, Asked, Holds, Idle, Request, Types, Asks
  <2>2. req.inode \in At(req.src)
    BY <2>1 DEF Whole, Steps, Renaming, TwoPaths
  <2> QED BY <1>2, <2>2
<1>7. pc \in {"crippled", "unlinking"} => req.current # None
  BY DEF Whole, Asked, Holds
<1>8. pc = "crippled" => req.current \in At(req.dst)
  BY DEF Whole, Steps, Renaming
<1> QED BY <1>2, <1>3, <1>5, <1>6, <1>7, <1>8

(* In the middle of a request at most one link is not counted right, or at *)
(* most one ".." is not, or at most one inode has neither link nor name.   *)
LEMMA OneDamage ==
  ASSUME IInv, pc # "torn"
  PROVE  /\ \A x, y \in Damage : x = y
         /\ \A i \in Inodes : kind[i] # "free" => links[i] - NamesFor(i) \in {-1, 0, 1}
<1>0. Types /\ Whole
  BY DEF IInv
<1> DEFINE wrongLinks == pc \in {"linking", "moved", "unlinking"}
           about == IF pc \in {"crippled", "unlinking"} THEN req.current ELSE req.inode
           badLinks == {i \in Inodes : kind[i] # "free" /\ links[i] # NamesFor(i)}
           named == {i \in Inodes : EntriesFor(i) # {}}
           badDirs == {i \in named : IsDir(i) /\ parent[i] \notin {e.dir : e \in EntriesFor(i)}}
           orphans == {i \in {req.inode, req.current} \ {None} :
                         kind[i] # "free" /\ links[i] = 0 /\ NamesFor(i) = 0}
           wrongDirs == pc \in {"crippled", "reparent"}
           orphan == IF req.current # None THEN req.current ELSE req.inode
<1>1. ASSUME NEW i \in Inodes, kind[i] # "free"
      PROVE  /\ links[i] - NamesFor(i) \in {-1, 0, 1}
             /\ links[i] # NamesFor(i) => wrongLinks /\ i = about
  <2>1. links[i] + Uncounted(i) = NamesFor(i) /\ NamesFor(i) \in Nat /\ links[i] \in Nat
    BY <1>0, <1>1, NamedCounts DEF Whole, Linked, Types
  <2>2. Uncounted(i) \in {-1, 0, 1} /\ (Uncounted(i) # 0 => wrongLinks /\ i = about)
    BY DEF Uncounted
  <2> QED BY <2>1, <2>2
<1>2. badLinks \subseteq (IF wrongLinks THEN {about} ELSE {})
  BY <1>1
<1>3. badDirs \subseteq (IF wrongDirs THEN {about} ELSE {})
  <2> SUFFICES ASSUME NEW i \in badDirs PROVE wrongDirs /\ i = about
    OBVIOUS
  <2>1. PICK e \in entries : e.ino = i
    BY DEF EntriesFor
  <2>2. IsDir(e.ino) /\ \A f \in entries : f.ino = i => parent[i] # f.dir
    BY <2>1 DEF EntriesFor
  <2>3. \/ parent[e.ino] = e.dir
        \/ pc = "crippled" /\ e.ino = req.current
        \/ pc \in {"moved", "reparent"} /\ e = Entry(req.dst, req.inode)
    BY <1>0, <2>2 DEF Whole, Upward
  <2>4. CASE pc = "crippled" /\ e.ino = req.current
    BY <2>1, <2>4
  <2>5. CASE pc = "reparent" /\ e = Entry(req.dst, req.inode)
    BY <2>1, <2>5 DEF Entry
  <2>6. CASE pc = "moved" /\ e = Entry(req.dst, req.inode)
    <3>1. i = req.inode /\ req.inode \in At(req.src) /\ req.op = "rename"
      BY <1>0, <2>1, <2>6 DEF Entry, Whole, Steps, Renaming, Asked, TwoPaths
    <3>2. parent[i] = req.src.dir
      BY <1>0, <2>1, <2>2, <2>6, <3>1 DEF Whole, Steps, Renaming
    <3>3. Entry(req.src, i) \in entries
      BY <1>0, <3>1, NamedOnce
    <3> QED BY <2>2, <3>2, <3>3 DEF Entry
  <2> QED BY <2>1, <2>2, <2>3, <2>4, <2>5, <2>6
<1>4. orphans \subseteq (IF wrongLinks \/ wrongDirs THEN {} ELSE {orphan})
  <2> SUFFICES ASSUME NEW i \in orphans PROVE ~wrongLinks /\ ~wrongDirs /\ i = orphan
    OBVIOUS
  <2>1. i \in Inodes
    BY <1>0 DEF Types
  <2> QED BY <1>0, <2>1, Orphaned
<1>5. Damage = ({"links"} \X badLinks) \cup ({"parent"} \X badDirs) \cup ({"orphan"} \X orphans)
  BY DEF Damage
<1>6. ~(wrongLinks /\ wrongDirs)
  OBVIOUS
<1> HIDE DEF badLinks, badDirs, orphans, wrongLinks, wrongDirs, about, orphan
<1>7. \A x \in Damage : x = IF wrongLinks THEN <<"links", about>>
                            ELSE IF wrongDirs THEN <<"parent", about>> ELSE <<"orphan", orphan>>
  BY <1>2, <1>3, <1>4, <1>5, <1>6
<1> QED BY <1>1, <1>7

(* A crash within a request leaves one thing wrong at most. *)
LEMMA CrashTorn == ASSUME IInv, pc # "torn", pc # "idle", Crash PROVE IInv'
<1>0. Types /\ Whole
  BY DEF IInv
<1>1. /\ Types' /\ HandlesKind' /\ pc' = "torn"
      /\ UNCHANGED <<kind, links, entries, parent, req, ok, before>>
  BY CrashKeeps DEF Crash
<1>2. /\ \A x, y \in Damage : x = y
      /\ \A i \in Inodes : kind[i] # "free" => links[i] - NamesFor(i) \in {-1, 0, 1}
  BY OneDamage
<1>3. Damage' = Damage
  BY <1>1 DEF Damage, EntriesFor, NamesFor, IsDir
<1>4. \A i \in Inodes : NamesFor(i)' = NamesFor(i)
  BY <1>1 DEF NamesFor, EntriesFor
<1>5. \A e \in entries : kind[e.ino] # "free" /\ IsDir(e.dir)
  BY <1>0 DEF Whole, Rooted, Live
<1>6. \A e \in before \ entries :
        \E p \in {req.src, req.dst} \ {None} : e.dir = p.dir /\ e.name = p.name
  <2> SUFFICES ASSUME NEW e \in before, e \notin entries
               PROVE  \E p \in {req.src, req.dst} \ {None} : e.dir = p.dir /\ e.name = p.name
    OBVIOUS
  <2>1. pc \in {"linking", "unlinking", "unlinked", "insert", "moved", "reparent"}
    BY <1>0 DEF Whole, History, Types
  <2>2. /\ req.dst # None
        /\ pc = "reparent" => req.src # None
    <3>1. req.dst \in Place /\ (pc = "reparent" => req.src \in Place)
      BY <1>0, <2>1 DEF Whole, Asked, OnePath, TwoPaths
    <3> QED BY <3>1, NamespaceAssumption DEF Place
  <2>3. e \in BeforeAt(req.dst) \/ (pc = "reparent" /\ e \in BeforeAt(req.src))
    BY <1>0, <2>1 DEF Whole, History
  <2> QED BY <2>2, <2>3 DEF BeforeAt
<1>7. TornByOne'
  BY <1>1, <1>2, <1>3, <1>4, <1>5, <1>6 DEF TornByOne, IsDir
<1> QED BY <1>1, <1>7 DEF IInv

-----------------------------------------------------------------------------
(* The file system that mkfs_path writes. *)
LEMMA Initial == Init => IInv
<1> USE NamespaceAssumption
<1> SUFFICES ASSUME Init PROVE IInv
  OBVIOUS
<1>1. Types
  <2>1. req \in [op : Ops, inode : Inodes \cup {None}, current : Inodes \cup {None},
                 src : Place \cup {None}, dst : Place \cup {None}]
    BY DEF Init, Idle, Request, Ops
  <2>2. /\ kind \in [Inodes -> {"free", "dir", "file", "link"}]
        /\ links \in [Inodes -> Nat] /\ refs \in [Inodes -> Nat] /\ leaked \in [Inodes -> Nat]
        /\ parent \in [Inodes -> Inodes \cup {None}] /\ fd \in [Handles -> Inodes \cup {None}]
        /\ \A i \in Inodes : parent[i] # None => kind[i] = "dir"
    BY DEF Init
  <2> QED BY <2>1, <2>2, FS_EmptySet DEF Init, Types, Asks
<1>2. HandlesKind
  BY DEF Init, HandlesKind
<1>3. Asked /\ Rooted /\ OneName /\ Upward /\ Steps /\ History /\ TornByOne
  BY DEF Init, Asked, Rooted, OneName, Upward, Steps, Renaming, History, Asks, TornByOne
<1>4. Referenced
  <2>1. ASSUME NEW i \in Inodes
        PROVE  refs[i] = HeldBy(i) + leaked[i] + PathRefs(paths, i)
                         + Bit(i = req.inode) + Bit(i = req.current)
    <3>1. HeldBy(i) = 0
      BY HeldByIs, HeldType DEF Init
    <3>2. PathRefs(paths, i) = 0
      BY PathRefsOne DEF Init
    <3>3. Bit(i = req.inode) = 0 /\ Bit(i = req.current) = 0
      BY DEF Init, Idle, Request, Bit
    <3>4. refs[i] = 0 /\ leaked[i] = 0
      BY DEF Init
    <3> QED BY <3>1, <3>2, <3>3, <3>4
  <2>2. \A i \in Inodes : kind[i] # "free" => links[i] # 0
    BY DEF Init
  <2>3. \A i \in Inodes : refs[i] = 0
    BY DEF Init
  <2> QED BY <2>1, <2>2, <2>3 DEF Referenced
<1>5. Linked
  <2> SUFFICES ASSUME NEW i \in Inodes, kind[i] # "free"
               PROVE  links[i] + Uncounted(i) = NamesFor(i)
    BY DEF Linked
  <2>1. Uncounted(i) = 0 /\ links[i] = 1 /\ i = root
    BY DEF Init, Uncounted
  <2>2. Count(entries, i) = 0
    BY CountType, FS_EmptySet DEF Init
  <2>3. NamesFor(i) = Count(entries, i) + Bit(i = root)
    BY NamesForIs
  <2> QED BY <2>1, <2>2, <2>3 DEF Bit
<1> QED BY <1>1, <1>2, <1>3, <1>4, <1>5 DEF IInv, Whole

(* A step that changes nothing keeps it. *)
LEMMA Stuttering == ASSUME IInv, UNCHANGED vars PROVE IInv'
<1>1. UNCHANGED <<kind, links, entries, parent, refs, fd, paths, pc, req, ok, before,
                  leaked, stranded>>
  BY DEF vars, disk, hist
<1>2. Types' /\ HandlesKind'
  BY <1>1 DEF IInv, Types, HandlesKind
<1>3. TornByOne'
  BY <1>1 DEF IInv, TornByOne, Damage, EntriesFor, NamesFor, IsDir
<1>4. CASE pc # "torn"
  <2>1. Whole
    BY <1>4 DEF IInv
  <2>2. Asked' /\ OneName' /\ Upward'
    BY <1>1, <2>1 DEF Whole, Asked, Holds, OnePath, TwoPaths, OneName, Upward, Moving, IsDir
  <2>3. Referenced' /\ Linked'
    BY <1>1, <2>1 DEF Whole, Referenced, HeldBy, Linked, Uncounted, NamesFor, EntriesFor
  <2>4. Rooted'
    BY <1>1, <2>1 DEF Whole, Rooted, Live, IsDir, Reachable
  <2>5. Steps'
    BY <1>1, <2>1 DEF Whole, Steps, Renaming, Live, IsDir, Reachable, Around, At, EntriesAt, EntriesFor
  <2>6. History'
    BY <1>1, <2>1 DEF Whole, History, TargetGone, BeforeAt
  <2> QED BY <1>2, <1>3, <2>1, <2>2, <2>3, <2>4, <2>5, <2>6 DEF IInv, Whole
<1>5. CASE pc = "torn"
  BY <1>1, <1>2, <1>3, <1>5 DEF IInv
<1> QED BY <1>4, <1>5

(* No step breaks the invariant. *)
LEMMA Stepping == ASSUME IInv, Next PROVE IInv'
<1>1. CASE AskPath       BY <1>1, AskPathStep
<1>2. CASE AskRename     BY <1>2, AskRenameStep
<1>3. CASE AskCreate     BY <1>3, AskCreateStep
<1>4. CASE AskLink       BY <1>4, AskLinkStep
<1>5. CASE AskAttributes BY <1>5, AskAttributesStep
<1>6. CASE NotADirectory \/ \E h \in Handles : OpenHandle(h) \/ Release(h)
  BY <1>6, NotADirectoryStep, OpenHandleStep, ReleaseStep
<1>7. CASE Attributes \/ Same
  BY <1>7, AttributesStep, SameStep
<1>8. CASE PathOpen \/ Mkdir \/ PathLink \/ Linking
  BY <1>8, PathOpenStep, MkdirStep, PathLinkStep, LinkingStep
<1>9. CASE PathGet \/ UnlinkDirectory \/ Unlink
  BY <1>9, PathGetStep, UnlinkDirectoryStep, UnlinkStep
<1>10. CASE Rmdir \/ RenameSource \/ RenameTarget \/ RenameOver \/ RenameRefused
  BY <1>10, RmdirStep, RenameSourceStep, RenameTargetStep, RenameOverStep, RenameRefusedStep
<1>11. CASE Crippled \/ Unlinking \/ Unlinked
  BY <1>11, CrippledStep, UnlinkingStep, UnlinkedEnds, UnlinkedGoesOn
<1>12. CASE Insert \/ Moved \/ Reparent
  BY <1>12, InsertStep, MovedStep, ReparentStep
<1>13. CASE pc # "torn" /\ Crash
  BY <1>13, CrashIdle, CrashTorn
<1> QED BY <1>1, <1>2, <1>3, <1>4, <1>5, <1>6, <1>7, <1>8, <1>9, <1>10, <1>11, <1>12, <1>13
        DEF Next

(* What IInv says of the names, links and references holds always, for     *)
(* every set of inodes, names and handles.                                 *)
THEOREM Invariance == Spec => []IInv
<1>1. IInv /\ [Next]_vars => IInv'
  BY Stepping, Stuttering
<1> QED BY Initial, <1>1, PTL DEF Spec

(* TypeOK holds always: refs_close closes nothing that is not open,        *)
(* refs_unlink unlinks nothing that has no links, and a directory marked   *)
(* destroyed is still a directory, whatever the order of requests and      *)
(* crashes.                                                                *)
THEOREM TypeCorrect == Spec => []TypeOK
<1>1. IInv => TypeOK
  BY DEF IInv, Types, TypeOK, IsDir
<1> QED BY <1>1, Invariance, PTL

(* LinksMatchNames holds always: between requests every inode counts as    *)
(* many links as there are names for it, and what has neither name nor     *)
(* reference is free (refs_link and refs_unlink around dir_insert and      *)
(* dir_remove).                                                            *)
THEOREM LinksAreNames == Spec => []LinksMatchNames
<1>1. IInv => LinksMatchNames
  <2> SUFFICES ASSUME IInv, pc = "idle", NEW i \in Inodes
               PROVE  /\ kind[i] = "free" => EntriesFor(i) = {} /\ refs[i] = 0
                      /\ kind[i] # "free" => links[i] = NamesFor(i)
                      /\ kind[i] # "free" /\ links[i] = 0 /\ refs[i] = 0 => i \in stranded
    BY DEF LinksMatchNames
  <2>1. Types /\ Whole
    BY DEF IInv
  <2>2. Uncounted(i) = 0
    BY DEF Uncounted
  <2>3. kind[i] = "free" => EntriesFor(i) = {}
    BY <2>1 DEF Whole, Rooted, EntriesFor
  <2> QED BY <2>1, <2>2, <2>3 DEF Whole, Referenced, Linked, Types
<1> QED BY <1>1, Invariance, PTL

(* OthersAccounted holds always: between requests the handles hold the     *)
(* references, but for those that path.c:102 and path.c:333 drop, and no   *)
(* return gives back too many or too few; a handle names a file or a       *)
(* directory (refs_open, refs_close, path_open, path_close).               *)
THEOREM OthersGivenBack == Spec => []OthersAccounted
<1>1. IInv => OthersAccounted
  <2>1. ASSUME IInv, pc = "idle"
        PROVE  paths = {} /\ \A i \in Inodes : refs[i] = HeldBy(i) + leaked[i]
    <3>1. Types /\ Whole /\ paths = {} /\ req = Idle
      BY <2>1 DEF IInv, Whole, Asked
    <3>2. ASSUME NEW i \in Inodes PROVE refs[i] = HeldBy(i) + leaked[i]
      <4>1. /\ HeldBy(i) \in Nat /\ leaked[i] \in Nat
            /\ refs[i] = HeldBy(i) + leaked[i] + PathRefs(paths, i)
                         + (IF i = req.inode THEN 1 ELSE 0) + (IF i = req.current THEN 1 ELSE 0)
        BY <3>1, CountedRefs
      <4>2. i # req.inode /\ i # req.current
        BY <3>1, NamespaceAssumption DEF Idle, Request
      <4>3. PathRefs(paths, i) = 0
        BY <3>1, PathRefsOne
      <4> QED BY <4>1, <4>2, <4>3
    <3> QED BY <3>1, <3>2
  <2> QED BY <2>1 DEF OthersAccounted, IInv, HandlesKind
<1> QED BY <1>1, Invariance, PTL

(* IsTree holds always: between requests the names are a tree whose        *)
(* directories know where they are, and none of the assertions of path.c   *)
(* about dir_remove and dir_reparent fails.                                *)
THEOREM NamesAreATree == Spec => []IsTree
<1>1. IInv => IsTree
  <2>1. ASSUME IInv, pc = "idle"
        PROVE  /\ \A e, f \in entries : e.dir = f.dir /\ e.name = f.name => e = f
               /\ \A e \in entries : e.dir \in Reachable /\ Live(e.dir)
               /\ \A e \in entries :
                    IsDir(e.ino) => EntriesFor(e.ino) = {e} /\ parent[e.ino] = e.dir
    <3>1. Whole
      BY <2>1 DEF IInv
    <3>2. \A e, f \in entries : e.ino = f.ino /\ IsDir(e.ino) => e = f
      BY <2>1, <3>1 DEF Whole, OneName, Moving
    <3>3. \A e \in entries : IsDir(e.ino) => EntriesFor(e.ino) = {e}
      BY <3>2 DEF EntriesFor
    <3>4. \A e \in entries : IsDir(e.ino) => parent[e.ino] = e.dir
      BY <2>1, <3>1 DEF Whole, Upward
    <3> QED BY <3>1, <3>3, <3>4 DEF Whole, Rooted
  <2>2. IInv => pc # "aborted"
    BY DEF IInv, Types, Asks
  <2> QED BY <2>1, <2>2 DEF IsTree
<1> QED BY <1>1, Invariance, PTL

(* TornByOne holds always: a crash between any two changes of a request    *)
(* leaves one thing wrong at most, and takes only names that the request   *)
(* is about.                                                               *)
THEOREM OneThingTorn == Spec => []TornByOne
<1>1. IInv => TornByOne
  BY DEF IInv
<1> QED BY <1>1, Invariance, PTL

-----------------------------------------------------------------------------
(* How Tree sees it: before is what its names are while a request runs.    *)
Running == pc \in Asks

(* While a request runs there is one. *)
LEMMA RequestRuns ==
  ASSUME Types, Whole, Running
  PROVE  req.op # "none" /\ pc # "idle" /\ pc # "torn"
BY DEF Whole, Asked, Running, Asks, TwoPaths

(* A step in the middle of a request. *)
LEMMA Invisible ==
  ASSUME pc # "idle", pc' # "idle", UNCHANGED <<ok, before>>,
         req'.op = req.op, req'.src = req.src, req'.dst = req.dst
  PROVE  UNCHANGED Visible!tree
BY DEF Visible!tree

(* The end of a request. *)
LEMMA EndSeen ==
  ASSUME IInv, Running, NEW held, NEW lk, NEW up, NEW success, Finish(held, lk, up, success)
  PROVE  \A ops : req.op \in ops => Visible!End(ops, success)
<1>1. pc # "idle"
  BY DEF Running, Asks
<1> QED BY <1>1 DEF Finish, Idle, Request, Visible!End, Visible!Nothing

(* One that fails with its names unchanged. *)
LEMMA FailSeen ==
  ASSUME IInv, Running, NEW held, NEW lk, NEW up, Finish(held, lk, up, FALSE),
         entries = before, UNCHANGED entries
  PROVE  Visible!Fail
<1>1. req.op # "none" /\ pc # "idle" /\ pc' = "idle"
  BY RequestRuns DEF IInv, Finish, Running, Asks
<1>2. Visible!End({req.op}, FALSE)
  BY EndSeen
<1> QED BY <1>1, <1>2 DEF Visible!Fail, Visible!Nothing

(* The beginning of a request. *)
LEMMA BeginSeen ==
  ASSUME IInv, NEW request, NEW opened, NEW where, Begin(request, opened, where),
         where # "idle", request.op # "none"
  PROVE  Visible!Ask
<1>1. pc = "idle" /\ req = Idle
  BY DEF IInv, Whole, Asked, Begin
<1>2. pc' = where /\ req' = request /\ before' = entries /\ ok' = ok
  BY DEF Begin
<1> QED BY <1>1, <1>2 DEF Visible!Ask, Visible!Nothing, Idle, Request

(* Every request begins in one of these ways. *)
LEMMA AskSeen ==
  ASSUME IInv, AskPath \/ AskRename \/ AskCreate \/ AskLink \/ AskAttributes
  PROVE  Visible!Ask
<1>1. CASE AskPath
  <2>1. PICK op \in {"mkdir", "unlink", "rmdir"}, p \in Paths :
          Begin(Request(op, None, None, p), {p}, op)
    BY <1>1 DEF AskPath
  <2>2. Request(op, None, None, p).op = op
    BY DEF Request
  <2> QED BY <2>1, <2>2, BeginSeen
<1>2. CASE AskRename
  <2>1. PICK src \in Paths : \E dst \in PathsAround(src) :
          Begin(Request("rename", None, src, dst), {src, dst},
                IF src = dst THEN "same" ELSE "rename")
    BY <1>2 DEF AskRename
  <2>2. PICK dst \in PathsAround(src) :
          Begin(Request("rename", None, src, dst), {src, dst},
                IF src = dst THEN "same" ELSE "rename")
    BY <2>1
  <2>3. Request("rename", None, src, dst).op = "rename"
    BY DEF Request
  <2>4. (IF src = dst THEN "same" ELSE "rename") # "idle"
    OBVIOUS
  <2> QED BY <2>2, <2>3, <2>4, BeginSeen
<1>3. CASE AskCreate
  <2>1. PICK op \in {"create", "symlink"}, p \in Paths, i \in Inodes :
          Begin(Request(op, i, None, p), {}, "path_open")
    BY <1>3 DEF AskCreate
  <2>2. Request(op, i, None, p).op = op
    BY DEF Request
  <2> QED BY <2>1, <2>2, BeginSeen
<1>4. CASE AskLink
  <2>1. PICK i \in Reachable, p \in Paths :
          Begin(Request("link", i, None, p), {}, "path_open")
    BY <1>4 DEF AskLink
  <2>2. Request("link", i, None, p).op = "link"
    BY DEF Request
  <2> QED BY <2>1, <2>2, BeginSeen
<1>5. CASE AskAttributes
  <2>1. PICK i \in Reachable : Begin(Request("attributes", i, None, None), {}, "attributes")
    BY <1>5 DEF AskAttributes
  <2>2. Request("attributes", i, None, None).op = "attributes"
    BY DEF Request
  <2> QED BY <2>1, <2>2, BeginSeen
<1> QED BY <1>1, <1>2, <1>3, <1>4, <1>5

(* In the middle of a request Tree sees the names of its beginning. *)
LEMMA SeenAt ==
  ASSUME pc # "idle"
  PROVE  /\ Visible!At(req.dst) = BeforeAt(req.dst) /\ Visible!At(req.src) = BeforeAt(req.src)
         /\ \A es : Visible!Empty(es) <=> \A e \in es : \A f \in before : f.dir # e.ino
BY DEF Visible!At, Visible!Empty, BeforeAt

(* A request that fails changes nothing, but for a rename that has removed *)
(* its target.                                                             *)
LEMMA FailsSeen ==
  ASSUME IInv, pc \in QuietSteps, NEW held, Fail(held)
  PROVE  Visible!Next
<1>0. /\ Types /\ Whole /\ Running /\ pc # "idle" /\ pc' = "idle"
      /\ Finish(held, links, parent, FALSE) /\ entries' = entries
  BY DEF IInv, QuietSteps, Running, Asks, Fail, Finish
<1>1. CASE entries = before
  BY <1>0, <1>1, FailSeen DEF Visible!Next
<1>2. CASE entries # before
  <2>1. pc = "insert" /\ TargetGone /\ entries = before \ BeforeAt(req.dst)
    BY <1>0, <1>2 DEF Whole, History, QuietSteps, Asks
  <2>2. req.op \in {"rename"}
    BY <1>0, <2>1 DEF Whole, Asked, TwoPaths
  <2>3. Visible!End({"rename"}, FALSE)
    BY <1>0, <2>2, EndSeen
  <2>4. Visible!At(req.dst) = BeforeAt(req.dst) /\ BeforeAt(req.dst) # {}
    BY <1>0, <1>2, <2>1, SeenAt
  <2>5. Visible!Empty(BeforeAt(req.dst))
    BY <1>0, <2>1, SeenAt DEF TargetGone
  <2>6. Visible!MoveLosesTarget
    BY <1>0, <2>1, <2>3, <2>4, <2>5 DEF Visible!MoveLosesTarget
  <2> QED BY <2>6 DEF Visible!Next
<1> QED BY <1>1, <1>2

(* A request that changes no name ends, with success or without. *)
LEMMA AttributesSeen == ASSUME IInv, Attributes PROVE Visible!Next
<1>1. PICK success \in BOOLEAN : Finish({req.inode}, links, parent, success)
  BY DEF Attributes
<1>2. /\ Running /\ pc # "idle" /\ pc' = "idle" /\ entries = before /\ entries' = entries
      /\ req.op \in {"attributes"}
  BY DEF Attributes, IInv, Whole, History, Asked, Running, Asks, Finish
<1>3. CASE success
  <2>1. Finish({req.inode}, links, parent, TRUE)
    BY <1>1, <1>3
  <2>2. Visible!End({"attributes"}, TRUE)
    BY <1>2, <2>1, EndSeen
  <2>3. Visible!Look
    BY <1>2, <2>2 DEF Visible!Look
  <2> QED BY <2>3 DEF Visible!Next
<1>4. CASE ~success
  <2>1. Finish({req.inode}, links, parent, FALSE)
    BY <1>1, <1>4
  <2> QED BY <1>2, <2>1, FailSeen DEF Visible!Next
<1> QED BY <1>3, <1>4

(* candy_rename of a path to itself changes nothing and succeeds. *)
LEMMA SameSeen == ASSUME IInv, Same PROVE Visible!Next
<1>1. /\ Running /\ pc # "idle" /\ pc' = "idle" /\ entries = before /\ entries' = entries
      /\ req.op \in {"rename"} /\ req.src = req.dst /\ Finish({}, links, parent, TRUE)
  BY DEF Same, IInv, Whole, History, Asked, Running, Asks, Finish
<1>2. Visible!End({"rename"}, TRUE)
  BY <1>1, EndSeen
<1>3. Visible!Move
  BY <1>1, <1>2 DEF Visible!Move
<1> QED BY <1>3 DEF Visible!Next

(* The new name takes its place at the end of refs_link. *)
LEMMA LinkingSeen == ASSUME IInv, Linking PROVE Visible!Next
<1> DEFINE more == [links EXCEPT ![req.inode] = @ + 1]
<1>1. /\ Running /\ pc = "linking" /\ pc' = "idle" /\ entries' = entries
      /\ \E held : Finish(held, more, parent, TRUE)
  BY DEF Linking, Running, Asks, Finish
<1>2. /\ req.op \in {"mkdir", "create", "symlink", "link"} /\ req.inode \in Inodes
      /\ BeforeAt(req.dst) = {} /\ entries = before \cup {Entry(req.dst, req.inode)}
  BY <1>1 DEF IInv, Whole, Asked, Holds, History
<1> HIDE DEF more
<1>3. Visible!End({"mkdir", "create", "symlink", "link"}, TRUE)
  BY <1>1, <1>2, EndSeen
<1>4. Visible!At(req.dst) = {}
  BY <1>1, <1>2, SeenAt
<1>5. Visible!Add
  BY <1>1, <1>2, <1>3, <1>4 DEF Visible!Add, Visible!Entry, Entry
<1> QED BY <1>5 DEF Visible!Next

(* path_unlink of a directory fails and changes nothing. *)
LEMMA UnlinkDirectorySeen == ASSUME IInv, UnlinkDirectory PROVE Visible!Next
<1>1. /\ Running /\ entries = before /\ entries' = entries
      /\ Finish({}, links, parent, FALSE)
  BY DEF UnlinkDirectory, IInv, Whole, History, Running, Asks
<1> QED BY <1>1, FailSeen DEF Visible!Next

(* path_unlink and path_rmdir: at their end the name is gone. *)
LEMMA UnlinkedSeen == ASSUME IInv, Unlinked, req.op # "rename" PROVE Visible!Next
<1>1. /\ Running /\ pc = "unlinked" /\ pc' = "idle" /\ entries' = entries
      /\ Finish({req.current}, links, parent, TRUE)
  BY DEF Unlinked, Running, Asks, Finish
<1>2. /\ req.op \in {"unlink", "rmdir"}
      /\ TargetGone /\ BeforeAt(req.dst) # {} /\ entries = before \ BeforeAt(req.dst)
  BY <1>1 DEF IInv, Whole, Asked, TwoPaths, History
<1>3. Visible!End({"unlink", "rmdir"}, TRUE)
  BY <1>1, <1>2, EndSeen
<1>4. Visible!At(req.dst) = BeforeAt(req.dst) /\ Visible!Empty(BeforeAt(req.dst))
  BY <1>1, <1>2, SeenAt DEF TargetGone
<1>5. Visible!Remove
  BY <1>1, <1>2, <1>3, <1>4 DEF Visible!Remove
<1> QED BY <1>5 DEF Visible!Next

(* path_rename: at its end the name has moved. *)
LEMMA ReparentSeen == ASSUME IInv, Reparent PROVE Visible!Next
<1>1. /\ pc = "reparent" /\ TwoPaths /\ req.op = "rename" /\ req.src # req.dst
      /\ TargetGone
      /\ entries = (before \ (BeforeAt(req.src) \cup BeforeAt(req.dst)))
                     \cup {Entry(req.dst, req.inode)}
      /\ (IsDir(req.inode) => Live(req.inode))
  BY DEF Reparent, IInv, Whole, Asked, TwoPaths, History, Steps, Renaming
<1>2. \E up : Finish({req.inode}, links, up, TRUE) /\ entries' = entries
  BY <1>1 DEF Reparent
<1>3. Running /\ pc' = "idle" /\ entries' = entries
  BY <1>1, <1>2 DEF Running, Asks, Finish
<1>4. Visible!End({"rename"}, TRUE)
  BY <1>1, <1>2, <1>3, EndSeen
<1>5. /\ Visible!At(req.dst) = BeforeAt(req.dst) /\ Visible!Empty(BeforeAt(req.dst))
      /\ Visible!At(req.src) = {Entry(req.src, req.inode)}
      /\ BeforeAt(req.src) = {Entry(req.src, req.inode)}
  BY <1>1, SeenAt DEF TargetGone
<1>6. {Visible!Entry(req.dst, e.ino) : e \in {Entry(req.src, req.inode)}}
        = {Entry(req.dst, req.inode)}
  BY DEF Visible!Entry, Entry
<1>7. Visible!Move
  BY <1>1, <1>3, <1>4, <1>5, <1>6 DEF Visible!Move
<1> QED BY <1>7 DEF Visible!Next

(* The steps in between. *)
LEMMA RequestKept ==
  ASSUME IInv, \/ UNCHANGED req
               \/ \E i : req' = [req EXCEPT !.inode = i]
               \/ \E i : req' = [req EXCEPT !.current = i]
  PROVE  req'.op = req.op /\ req'.src = req.src /\ req'.dst = req.dst
BY DEF IInv, Types

(* Every other step is one that Tree does not see. *)
LEMMA Between ==
  ASSUME IInv, Next
  PROVE  \/ UNCHANGED Visible!tree
         \/ AskPath \/ AskRename \/ AskCreate \/ AskLink \/ AskAttributes
         \/ Attributes \/ Same \/ Linking \/ UnlinkDirectory \/ Reparent
         \/ Unlinked /\ req.op # "rename"
         \/ pc \in QuietSteps /\ \E held : Fail(held)
<1>1. CASE NotADirectory \/ \E h \in Handles : OpenHandle(h) \/ Release(h)
  <2>1. UNCHANGED <<entries, pc, req, ok, before>>
    BY <1>1 DEF NotADirectory, OpenHandle, Release, disk, hist
  <2> QED BY <2>1 DEF Visible!tree
<1>2. CASE PathOpen
  <2>1. CASE Fail({req.inode})
    BY <1>2, <2>1 DEF PathOpen, QuietSteps
  <2>2. CASE pc' = "path_link" /\ UNCHANGED <<disk, fd, req, ok, hist>>
    BY <1>2, <2>2, Invisible DEF PathOpen, hist
  <2> QED BY <1>2, <2>1, <2>2 DEF PathOpen
<1>3. CASE Mkdir
  <2>1. CASE Fail({})
    BY <1>3, <2>1 DEF Mkdir, QuietSteps
  <2>2. CASE \E i \in Inodes : req' = [req EXCEPT !.inode = i] /\ Continue("path_link")
    BY <1>3, <2>2, RequestKept, Invisible DEF Mkdir, Continue, hist
  <2> QED BY <1>3, <2>1, <2>2 DEF Mkdir
<1>4. CASE PathLink
  <2>1. CASE Fail({req.inode})
    BY <1>4, <2>1 DEF PathLink, QuietSteps
  <2>2. CASE Continue("linking") /\ UNCHANGED req
    BY <1>4, <2>2, Invisible DEF PathLink, Continue, hist
  <2> QED BY <1>4, <2>1, <2>2 DEF PathLink
<1>5. CASE PathGet
  <2>1. CASE Fail({})
    BY <1>5, <2>1 DEF PathGet, QuietSteps
  <2>2. CASE \E i \in At(req.dst) : req' = [req EXCEPT !.current = i] /\ Continue("got")
    BY <1>5, <2>2, RequestKept, Invisible DEF PathGet, Continue, hist
  <2> QED BY <1>5, <2>1, <2>2 DEF PathGet
<1>6. CASE Unlink
  <2>1. CASE Fail({req.current})
    BY <1>6, <2>1 DEF Unlink, QuietSteps
  <2>2. CASE RemoveEntry(req.dst, req.current, "unlinking") /\ UNCHANGED req
    BY <1>6, <2>2, Invisible DEF Unlink, RemoveEntry, Continue, hist
  <2> QED BY <1>6, <2>1, <2>2 DEF Unlink
<1>7. CASE Rmdir
  <2>1. CASE Fail({req.current})
    BY <1>7, <2>1 DEF Rmdir, QuietSteps
  <2>2. CASE Continue("crippled") /\ UNCHANGED req
    BY <1>7, <2>2, Invisible DEF Rmdir, Continue, hist
  <2> QED BY <1>7, <2>1, <2>2 DEF Rmdir
<1>8. CASE RenameSource \/ RenameTarget \/ RenameOver \/ RenameRefused
  <2>1. pc \in {"rename", "source", "target"} /\ pc \in QuietSteps
    BY <1>8 DEF RenameSource, RenameTarget, RenameOver, RenameRefused, QuietSteps
  <2>2. CASE \E held : Fail(held)
    BY <2>1, <2>2
  <2>3. ASSUME NEW where \in {"source", "insert", "target", "crippled"}, Continue(where),
               \/ UNCHANGED req
               \/ \E i : req' = [req EXCEPT !.inode = i]
               \/ \E i : req' = [req EXCEPT !.current = i]
        PROVE  UNCHANGED Visible!tree
    BY <2>1, <2>3, RequestKept, Invisible DEF Continue, hist
  <2>4. CASE RemoveEntry(req.dst, req.current, "unlinking") /\ UNCHANGED req
    BY <2>1, <2>4, Invisible DEF RemoveEntry, Continue, hist
  <2>5. CASE RenameSource
    BY <2>2, <2>3, <2>5 DEF RenameSource
  <2>6. CASE RenameTarget
    BY <2>2, <2>3, <2>6 DEF RenameTarget
  <2>7. CASE RenameOver
    BY <2>3, <2>4, <2>7 DEF RenameOver
  <2>8. CASE RenameRefused
    BY <2>2, <2>8 DEF RenameRefused
  <2> QED BY <1>8, <2>5, <2>6, <2>7, <2>8
<1>9. CASE Crippled \/ Moved \/ Unlinking
  <2>1. UNCHANGED <<ok, before, req>> /\ pc # "idle" /\ pc' # "idle"
    BY <1>9 DEF Crippled, Moved, Unlinking, RemoveEntry, Continue, hist
  <2> QED BY <2>1, Invisible
<1>10. CASE Unlinked /\ req.op = "rename"
  <2>1. /\ UNCHANGED <<ok, before>> /\ pc # "idle" /\ pc' # "idle"
        /\ req' = [req EXCEPT !.current = None]
    BY <1>10 DEF Unlinked, Continue, hist
  <2> QED BY <2>1, RequestKept, Invisible
<1>11. CASE Insert
  <2>1. CASE Fail({req.inode})
    BY <1>11, <2>1 DEF Insert, QuietSteps
  <2>2. CASE Continue("moved") /\ UNCHANGED req
    BY <1>11, <2>2, Invisible DEF Insert, Continue, hist
  <2> QED BY <1>11, <2>1, <2>2 DEF Insert
<1>12. CASE Crash
  <2>1. UNCHANGED <<entries, req, ok, before>> /\ (pc' = "idle" <=> pc = "idle")
    BY <1>12 DEF Crash, disk
  <2> QED BY <2>1 DEF Visible!tree
<1> QED BY <1>1, <1>2, <1>3, <1>4, <1>5, <1>6, <1>7, <1>8, <1>9, <1>10, <1>11, <1>12 DEF Next

(* Every behaviour is one of Tree: each request takes place at once, at    *)
(* its end, and one that fails changes nothing, but for a rename           *)
(* (path_rename) whose target is gone.                                     *)
THEOREM RequestsAreAtomic == Spec => ImplementsTree
<1>1. Init => Visible!Init
  BY DEF Init, Visible!Init, Visible!Nothing, Idle, Request
<1>2. IInv /\ [Next]_vars => [Visible!Next]_(Visible!tree)
  <2>1. ASSUME IInv, Next PROVE Visible!Next \/ UNCHANGED Visible!tree
    BY <2>1, Between, AskSeen, AttributesSeen, SameSeen, LinkingSeen, UnlinkDirectorySeen,
       UnlinkedSeen, ReparentSeen, FailsSeen DEF Visible!Next
  <2>2. ASSUME UNCHANGED vars PROVE UNCHANGED Visible!tree
    BY <2>2 DEF vars, disk, hist, Visible!tree
  <2> QED BY <2>1, <2>2
<1> QED BY <1>1, <1>2, Invariance, PTL DEF Spec, ImplementsTree, Visible!Spec

=============================================================================
