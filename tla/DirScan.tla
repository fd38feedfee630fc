------------------------------- MODULE DirScan -------------------------------
(***************************************************************************)
(* A program that lists a directory, entry by entry (dir_enumerate, as     *)
(* candy_readdir calls it), while others change the directory between its  *)
(* calls.  All that it keeps is the offset the last call returned: the     *)
(* number of the block times the entries in a block, plus the place of the *)
(* next entry.                                                             *)
(***************************************************************************)
EXTENDS Dir

VARIABLES
  offset,   \* what the last dir_enumerate returned
  seen,     \* history: the names the listing reported, of those in steady
  steady,   \* history: the names that were there throughout the listing
  twice,    \* history: whether it reported one of them again
  shrunk,   \* history: whether a name was removed during the listing
  done      \* whether dir_enumerate returned 0, the end

scanVars == <<offset, seen, steady, twice, shrunk, done>>

NamesIn(es) == {e.name : e \in es}

ScanInit ==
  /\ Init
  /\ offset = 0
  /\ seen = {}
  /\ steady = {}
  /\ twice = FALSE
  /\ shrunk = FALSE
  /\ done = TRUE

opendir ==
  /\ done
  /\ offset' = 0
  /\ seen' = {}
  /\ twice' = FALSE
  /\ steady' = NamesIn(entries)
  /\ shrunk' = FALSE
  /\ done' = FALSE
  /\ UNCHANGED dirVars

(* Changed: in the later blocks, too, starts at the place of the offset. *)
ToLookAtSamePlace ==
  {m \in (DOMAIN blocks) \X Slots :
     /\ m[1] >= offset \div E + 1 /\ m[2] = offset % E
     /\ blocks[m[1]].numbers[m[2]] # INO_EOF}

(* The places dir_enumerate looks at: the one the offset names, and the    *)
(* first of every block after it.                                          *)
ToLookAt ==
  {m \in (DOMAIN blocks) \X Slots :
     /\ \/ m = <<offset \div E + 1, offset % E>>
        \/ m[1] > offset \div E + 1 /\ m[2] = 0
     /\ blocks[m[1]].numbers[m[2]] # INO_EOF}

(* Changed: returns the place of the entry, not of the next one. *)
dir_enumerateSame ==
  /\ ~done
  /\ IF ToLookAt = {}
     THEN done' = TRUE /\ UNCHANGED <<offset, seen, twice>>
     ELSE LET m == First(ToLookAt)
              name == NameAt(blocks[m[1]], m[2])
          IN  /\ offset' = m[2] + (m[1] - 1) * E
              /\ seen' = seen \cup ({name} \cap steady)
              /\ twice' = (twice \/ name \in seen)
              /\ UNCHANGED done
  /\ UNCHANGED <<dirVars, steady, shrunk>>

dir_enumerate ==
  /\ ~done
  /\ IF ToLookAt = {}
     THEN done' = TRUE /\ UNCHANGED <<offset, seen, twice>>
     ELSE LET m == First(ToLookAt)
              name == NameAt(blocks[m[1]], m[2])
          IN  /\ offset' = m[2] + (m[1] - 1) * E + 1
              /\ seen' = seen \cup ({name} \cap steady)
              /\ twice' = (twice \/ name \in seen)
              /\ UNCHANGED done
  /\ UNCHANGED <<dirVars, steady, shrunk>>

(* Somebody else's operation on the directory.  Those that change nothing  *)
(* are left out while the listing is going on, and after its end nothing   *)
(* of it is kept.                                                          *)
Change ==
  /\ Next
  /\ ~done => <<blocks, dead>>' # <<blocks, dead>>
  /\ seen' = IF done THEN {} ELSE seen \cap NamesIn(entries')
  /\ steady' = IF done THEN {} ELSE steady \cap NamesIn(entries')
  /\ shrunk' = (~done /\ (shrunk \/ NamesIn(entries) \ NamesIn(entries') # {}))
  /\ offset' = IF done THEN 0 ELSE offset
  /\ UNCHANGED <<twice, done>>

ScanNext == opendir \/ dir_enumerate \/ Change

ScanSpec == ScanInit /\ [][ScanNext]_<<dirVars, scanVars>>

-----------------------------------------------------------------------------
(* A listing during which nothing is removed reports everything that was   *)
(* there throughout, also across blocks that are full, empty or new.       *)
ScanComplete == done /\ ~shrunk => seen = steady

(* Whatever the others do, an entry that stays is not reported twice:      *)
(* removals move entries towards the front of their block, and insertions  *)
(* go behind the others.                                                   *)
NoneTwice == ~twice

(* dir.c:276-277: the offset "should be passed into the offset parameter   *)
(* next call in order to retrieve the next entry".  The next call returns  *)
(* the next entry, so that a listing misses none that stays.               *)
NextEntryIsNext == done => seen = steady

=============================================================================
