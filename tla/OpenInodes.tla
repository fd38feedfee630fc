----------------------------- MODULE OpenInodes -----------------------------
(***************************************************************************)
(* What the open file table promises to path.c and candyfs.c ("while you   *)
(* hold ownership you can be sure you're always referring to the same      *)
(* file", notes:13): an inode lives as long as it has a link or somebody   *)
(* holds a reference to it, and is freed the moment it has neither, by the *)
(* close that gives the last reference back, never by an unlink.  A crash  *)
(* forgets the references; what then has no links stays on the disk.       *)
(***************************************************************************)
EXTENDS Integers

CONSTANT Inodes

VARIABLES
  live,   \* the allocated inodes
  refs,   \* the references held to each inode
  links   \* the links of each inode

table == <<live, refs, links>>

Init ==
  /\ live = {}
  /\ refs = [i \in Inodes |-> 0]
  /\ links \in [Inodes -> Nat]

Create(i) ==
  /\ i \notin live
  /\ live' = live \cup {i}
  /\ links' = [links EXCEPT ![i] = 0]
  /\ UNCHANGED refs

(* The constructor of a directory or a symlink that fails. *)
Discard(i) ==
  /\ i \in live /\ refs[i] = 0 /\ links[i] = 0
  /\ live' = live \ {i}
  /\ UNCHANGED <<refs, links>>

Open(i) ==
  /\ i \in live
  /\ refs' = [refs EXCEPT ![i] = @ + 1]
  /\ UNCHANGED <<live, links>>

Close(i) ==
  /\ refs[i] > 0
  /\ refs' = [refs EXCEPT ![i] = @ - 1]
  /\ live' = IF refs[i] = 1 /\ links[i] = 0 THEN live \ {i} ELSE live
  /\ UNCHANGED links

Relink(i) ==
  /\ i \in live /\ refs[i] > 0
  /\ \E n \in {links[i] - 1, links[i] + 1} \cap Nat :
       links' = [links EXCEPT ![i] = n]
  /\ UNCHANGED <<live, refs>>

Crash ==
  /\ refs' = [i \in Inodes |-> 0]
  /\ UNCHANGED <<live, links>>

Next ==
  \/ \E i \in Inodes : Create(i) \/ Discard(i) \/ Open(i) \/ Close(i) \/ Relink(i)
  \/ Crash

Spec == Init /\ [][Next]_table

=============================================================================
