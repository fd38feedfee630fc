-------------------------------- MODULE Refs --------------------------------
(***************************************************************************)
(* The open file table (refs.c): a hash map of sorted chains, one node to  *)
(* an open inode, with the number of references to it and a copy of the    *)
(* link count on the disk.  The copy decides, at the last close, whether   *)
(* the inode is freed: an unlink never frees.                              *)
(*                                                                         *)
(* The inode layer underneath is "alloc" and "nlinks", as inode_allocate,  *)
(* inode_free, inode_link and inode_unlink change them.  The callers are   *)
(* path.c and candyfs.c, which serve one request at a time: of a number    *)
(* they were just given ("fresh") they first take ownership, or give the   *)
(* inode up.  A crash loses the table and keeps the disk.                  *)
(***************************************************************************)
EXTENDS Integers, Sequences, SequencesExt

CONSTANTS
  Inodes,        \* inode numbers
  HASHMAP_SIZE,
  MaxRefs,       \* bound: the references held to one inode
  MaxLinks       \* bound: the links of one inode

ASSUME RefsAssumption ==
  /\ Inodes \subseteq Nat
  /\ HASHMAP_SIZE \in Nat \ {0}
  /\ MaxRefs \in Nat \ {0}
  /\ MaxLinks \in Nat

VARIABLES
  open_file_table,
  alloc,      \* the inodes that are allocated on the disk
  nlinks,     \* the link count of each inode on the disk
  fresh,      \* the inode that inode_allocate just returned, or None
  ret,        \* what the last call returned
  stranded    \* history: what a crash left with neither link nor reference

vars == <<open_file_table, alloc, nlinks, fresh, ret, stranded>>

None == -1
EIO == -5

Buckets == 0 .. HASHMAP_SIZE - 1
hash(i) == i % HASHMAP_SIZE
chainOf(i) == open_file_table[hash(i)]

Node == [inode : Inodes, refcount : Nat, nlinks : Int]

Init ==
  /\ open_file_table = [h \in Buckets |-> <<>>]
  /\ alloc = {}
  /\ nlinks = [i \in Inodes |-> 0]
  /\ fresh = None
  /\ ret = 0
  /\ stranded = {}

-----------------------------------------------------------------------------
(* Where the walk along the chain of i stops: at the first node whose      *)
(* number is not below i, or at the end.                                   *)
find_node_loc(i, k) ==
  /\ k \in 1 .. Len(chainOf(i)) + 1
  /\ \A j \in 1 .. k - 1 : chainOf(i)[j].inode < i
  /\ k <= Len(chainOf(i)) => chainOf(i)[k].inode >= i

(* The node of i is at place k of its chain; there is none, and k is where *)
(* it would be.                                                            *)
NodeAt(i, k) ==
  find_node_loc(i, k) /\ k <= Len(chainOf(i)) /\ chainOf(i)[k].inode = i
NoNodeAt(i, k) ==
  find_node_loc(i, k) /\ (k <= Len(chainOf(i)) => chainOf(i)[k].inode # i)

Places(i) == 1 .. Len(chainOf(i)) + 1

SetChain(i, c) == open_file_table' = [open_file_table EXCEPT ![hash(i)] = c]

(* refs_open: the inode is open already. *)
OpenAgain(i) ==
  \E k \in Places(i) :
    /\ NodeAt(i, k)
    /\ chainOf(i)[k].refcount < MaxRefs
    /\ SetChain(i, [chainOf(i) EXCEPT ![k].refcount = @ + 1])
    /\ ret' = 0
    /\ fresh' = None
    /\ UNCHANGED <<alloc, nlinks, stranded>>

(* Changed: the new node does not ask the disk for the link count. *)
OpenFirstAssumesLink(i) ==
  \E k \in Places(i) :
    /\ NoNodeAt(i, k)
    /\ i \in alloc
    /\ SetChain(i, InsertAt(chainOf(i), k,
                            [inode |-> i, refcount |-> 1, nlinks |-> 1]))
    /\ ret' = 0
    /\ fresh' = None
    /\ stranded' = stranded \ {i}
    /\ UNCHANGED <<alloc, nlinks>>

(* refs_open: a new node, with the link count inode_getinfo reads. *)
OpenFirst(i) ==
  \E k \in Places(i) :
    /\ NoNodeAt(i, k)
    /\ i \in alloc
    /\ SetChain(i, InsertAt(chainOf(i), k,
                            [inode |-> i, refcount |-> 1, nlinks |-> nlinks[i]]))
    /\ ret' = 0
    /\ fresh' = None
    /\ stranded' = stranded \ {i}
    /\ UNCHANGED <<alloc, nlinks>>

(* refs_open: inode_getinfo fails. *)
OpenNothing(i) ==
  \E k \in Places(i) :
    /\ NoNodeAt(i, k)
    /\ i \notin alloc
    /\ ret' = -1
    /\ UNCHANGED <<open_file_table, alloc, nlinks, fresh, stranded>>

refs_open(i) == OpenAgain(i) \/ OpenFirst(i) \/ OpenNothing(i)

-----------------------------------------------------------------------------
(* Changed: decrements whatever the count is. *)
CloseAgainAlways(i) ==
  \E k \in Places(i) :
    /\ NodeAt(i, k)
    /\ SetChain(i, [chainOf(i) EXCEPT ![k].refcount = @ - 1])
    /\ ret' = 0
    /\ UNCHANGED <<alloc, nlinks, fresh, stranded>>

(* refs_close: others still hold the inode. *)
CloseAgain(i) ==
  \E k \in Places(i) :
    /\ NodeAt(i, k)
    /\ chainOf(i)[k].refcount > 1
    /\ SetChain(i, [chainOf(i) EXCEPT ![k].refcount = @ - 1])
    /\ ret' = 0
    /\ UNCHANGED <<alloc, nlinks, fresh, stranded>>

(* inode_free: refuses an inode that is not allocated or has links. *)
Freeable(i) == i \in alloc /\ nlinks[i] = 0

(* Changed: frees the inode, links or not. *)
CloseLastFrees(i) ==
  \E k \in Places(i) :
    /\ NodeAt(i, k)
    /\ chainOf(i)[k].refcount <= 1
    /\ SetChain(i, RemoveAt(chainOf(i), k))
    /\ alloc' = alloc \ {i}
    /\ ret' = 0
    /\ UNCHANGED <<nlinks, fresh, stranded>>

(* refs_close: the last reference.  The node goes, and so does the inode   *)
(* when the node says that it has no links.                                *)
CloseLast(i) ==
  \E k \in Places(i) :
    /\ NodeAt(i, k)
    /\ chainOf(i)[k].refcount <= 1
    /\ SetChain(i, RemoveAt(chainOf(i), k))
    /\ IF chainOf(i)[k].nlinks = 0 /\ Freeable(i)
       THEN alloc' = alloc \ {i} ELSE alloc' = alloc
    /\ ret' = IF chainOf(i)[k].nlinks = 0 /\ ~Freeable(i) THEN EIO ELSE 0
    /\ UNCHANGED <<nlinks, fresh, stranded>>

refs_close(i) == CloseAgain(i) \/ CloseLast(i)

(* Changed: changes the disk and not the copy. *)
RelinkDiskOnly(i, delta) ==
  \E k \in Places(i) :
    /\ NodeAt(i, k)
    /\ nlinks[i] + delta \in 0 .. MaxLinks
    /\ nlinks' = [nlinks EXCEPT ![i] = IF i \in alloc THEN @ + delta ELSE @]
    /\ ret' = 0
    /\ UNCHANGED <<open_file_table, alloc, fresh, stranded>>

(* refs_link and refs_unlink: the disk, and the copy.  The callers remove  *)
(* a link only where they removed a directory entry.                       *)
Relink(i, delta) ==
  \E k \in Places(i) :
    /\ NodeAt(i, k)
    /\ nlinks[i] + delta \in 0 .. MaxLinks
    /\ nlinks' = [nlinks EXCEPT ![i] = IF i \in alloc THEN @ + delta ELSE @]
    /\ SetChain(i, [chainOf(i) EXCEPT
                      ![k].nlinks = IF i \in alloc THEN nlinks[i] + delta ELSE -1])
    /\ ret' = 0
    /\ UNCHANGED <<alloc, fresh, stranded>>

refs_link(i) == Relink(i, 1)
refs_unlink(i) == Relink(i, -1)

(* refs_close, refs_link and refs_unlink of what is not open. *)
UserError(i) ==
  \E k \in Places(i) :
    /\ NoNodeAt(i, k)
    /\ ret' = -1
    /\ UNCHANGED <<open_file_table, alloc, nlinks, fresh, stranded>>

-----------------------------------------------------------------------------
inode_allocate(i) ==
  /\ i \notin alloc
  /\ alloc' = alloc \cup {i}
  /\ nlinks' = [nlinks EXCEPT ![i] = 0]
  /\ fresh' = i
  /\ ret' = 0
  /\ UNCHANGED <<open_file_table, stranded>>

(* dir_create and symlink_create could not write: inode_free. *)
CreateFails ==
  /\ fresh # None
  /\ Freeable(fresh)
  /\ alloc' = alloc \ {fresh}
  /\ fresh' = None
  /\ ret' = -1
  /\ UNCHANGED <<open_file_table, nlinks, stranded>>

Open(i) == \E k \in 1 .. Len(chainOf(i)) : chainOf(i)[k].inode = i

(* The process ends, at any point, and the device is mounted again.  The   *)
(* inodes without links that were open then are stranded.                  *)
Crash ==
  /\ open_file_table' = [h \in Buckets |-> <<>>]
  /\ fresh' = None
  /\ ret' = 0
  /\ stranded' = stranded \cup {i \in alloc : nlinks[i] = 0 /\ (Open(i) \/ i = fresh)}
  /\ UNCHANGED <<alloc, nlinks>>

Next ==
  \/ \E i \in Inodes :
       \/ fresh \in {None, i} /\ refs_open(i)
       \/ /\ fresh = None
          /\ \/ inode_allocate(i)
             \/ refs_close(i)
             \/ refs_link(i)
             \/ refs_unlink(i)
             \/ UserError(i)
  \/ CreateFails
  \/ Crash

Spec == Init /\ [][Next]_vars

-----------------------------------------------------------------------------
(* Every variable holds a value of the type the code gives it. *)
TypeOK ==
  /\ open_file_table \in [Buckets -> Seq(Node)]
  /\ alloc \subseteq Inodes
  /\ nlinks \in [Inodes -> Nat]
  /\ fresh \in Inodes \cup {None}
  /\ ret \in {0, -1, EIO}
  /\ stranded \subseteq Inodes

(* The chains are what find_node_loc expects: every node in the bucket of  *)
(* its inode, in strictly increasing order.  So an inode has one node at   *)
(* most, and the walk never misses it.                                     *)
ChainsSorted ==
  \A h \in Buckets :
    LET c == open_file_table[h]
    IN  /\ \A k \in 1 .. Len(c) : hash(c[k].inode) = h /\ c[k].refcount > 0
        /\ \A j, k \in 1 .. Len(c) : j < k => c[j].inode < c[k].inode

(* What a node remembers of its inode is what is on the disk: it is still  *)
(* allocated and has as many links.  A stale copy would free an inode that *)
(* a directory still names, or keep one that nothing names.                *)
CacheCoherent ==
  \A h \in Buckets : \A k \in 1 .. Len(open_file_table[h]) :
    LET n == open_file_table[h][k]
    IN  n.inode \in alloc /\ n.nlinks = nlinks[n.inode]

(* No inode is leaked: one without links is open, or about to be, unless a *)
(* crash took just that reference away; and a crash strands no other.      *)
NoOrphans ==
  {i \in alloc : nlinks[i] = 0 /\ ~Open(i) /\ i # fresh} = stranded

(* The last close never finds that it cannot free the inode. *)
FreeNeverFails == ret # EIO

(* The inductive invariant: a number just allocated is allocated, has no   *)
(* links, and is not open.                                                 *)
FreshOK == fresh # None => Freeable(fresh) /\ ~Open(fresh)

IInv ==
  /\ TypeOK
  /\ ChainsSorted
  /\ CacheCoherent
  /\ FreshOK
  /\ NoOrphans
  /\ FreeNeverFails

(* The table implements the abstract one: the references to an inode are   *)
(* the refcount of its node, its links are the ones on the disk.           *)
References(i) ==
  IF Open(i)
  THEN chainOf(i)[CHOOSE k \in 1 .. Len(chainOf(i)) : chainOf(i)[k].inode = i].refcount
  ELSE 0

Abstract == INSTANCE OpenInodes WITH
  live <- alloc,
  refs <- [i \in Inodes |-> References(i)],
  links <- nlinks

ImplementsOpenInodes == Abstract!Spec

=============================================================================
