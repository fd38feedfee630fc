----------------------------- MODULE Directory ------------------------------
(***************************************************************************)
(* What dir.c promises of one directory: a map from names to inode         *)
(* numbers that always has "." and "..", which can be destroyed only while *)
(* it has nothing else, and then takes no changes any more.  An insertion  *)
(* that fails changes nothing.                                             *)
(***************************************************************************)
EXTENDS Integers

CONSTANTS
  Names, Inodes,
  dot, dotdot,   \* two of the names
  self, root     \* the directory, and its parent when it is created

VARIABLES
  entries,  \* the set of entries, [name, ino]
  dead,     \* whether the directory was destroyed
  ret       \* what the last operation returned

directory == <<entries, dead, ret>>

ENOENT == -2
EEXIST == -17
EINVAL == -22
ENOSPC == -28
ENOTEMPTY == -39

Entry(name, ino) == [name |-> name, ino |-> ino]
Has(name) == \E e \in entries : e.name = name

Init ==
  /\ entries = {Entry(dotdot, root), Entry(dot, self)}
  /\ dead = FALSE
  /\ ret = 0

Lookup(name) ==
  /\ ret' = IF Has(name) THEN (CHOOSE e \in entries : e.name = name).ino
                         ELSE ENOENT
  /\ UNCHANGED <<entries, dead>>

Insert(name, ino) ==
  /\ ~dead /\ ~Has(name)
  /\ entries' = entries \cup {Entry(name, ino)}
  /\ ret' = 0
  /\ UNCHANGED dead

InsertFails(name) ==
  /\ ret' \in IF dead THEN {ENOENT}
              ELSE IF Has(name) THEN {EEXIST} ELSE {ENOSPC}
  /\ UNCHANGED <<entries, dead>>

Remove(name) ==
  /\ ~dead /\ name \notin {dot, dotdot}
  /\ \E e \in entries :
       /\ e.name = name
       /\ entries' = entries \ {e}
       /\ ret' = e.ino
  /\ UNCHANGED dead

RemoveFails(name) ==
  /\ dead \/ name \in {dot, dotdot} \/ ~Has(name)
  /\ ret' = IF dead THEN ENOENT
            ELSE IF name = dot THEN EINVAL
            ELSE IF name = dotdot THEN ENOTEMPTY ELSE ENOENT
  /\ UNCHANGED <<entries, dead>>

Destroy ==
  LET empty == \A e \in entries : e.name \in {dot, dotdot}
  IN  /\ dead' = (dead \/ empty)
      /\ ret' = IF dead THEN ENOENT ELSE IF empty THEN 0 ELSE ENOTEMPTY
      /\ UNCHANGED entries

Reparent(ino) ==
  /\ IF dead
     THEN ret' = ENOENT /\ UNCHANGED entries
     ELSE /\ ret' = 0
          /\ entries' = {e \in entries : e.name # dotdot} \cup {Entry(dotdot, ino)}
  /\ UNCHANGED dead

Next ==
  \/ \E name \in Names :
       \/ Lookup(name) \/ InsertFails(name) \/ Remove(name) \/ RemoveFails(name)
       \/ \E ino \in Inodes : Insert(name, ino)
  \/ Destroy
  \/ \E ino \in Inodes : Reparent(ino)

Spec == Init /\ [][Next]_directory

=============================================================================
