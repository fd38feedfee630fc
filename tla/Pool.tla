-------------------------------- MODULE Pool --------------------------------
(***************************************************************************)
(* What the two allocators of block.c promise to the inode layer, with the *)
(* on-disk lists left out: a pool of Items.  An allocation hands out any   *)
(* item that nobody holds, fails only when there is none, and a release    *)
(* returns an item somebody holds.  "count" is the number statfs(2)        *)
(* reports, "got" the result of the last allocation.                       *)
(***************************************************************************)
EXTENDS Integers, FiniteSets

CONSTANTS
  Items,  \* what is handed out: data blocks, or inode numbers
  None    \* the result of a failed allocation

VARIABLES
  free,   \* the items nobody holds
  count,  \* the free counter kept beside them
  got     \* the result of the last allocation

pool == <<free, count, got>>

Init ==
  /\ free = Items
  /\ count = Cardinality(Items)
  /\ got = None

(* An allocation that succeeds takes an item that was free. *)
Take ==
  \E x \in free :
    /\ free' = free \ {x}
    /\ got' = x
    /\ count' = count - 1

(* An allocation fails only when nothing is free. *)
TakeNone ==
  /\ free = {}
  /\ got' = None
  /\ UNCHANGED <<free, count>>

(* A release of an item that is held. *)
Give ==
  \E x \in Items \ free :
    /\ free' = free \cup {x}
    /\ count' = count + 1
    /\ UNCHANGED got

Next == Take \/ TakeNone \/ Give

Spec == Init /\ [][Next]_pool

=============================================================================
