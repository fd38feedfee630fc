-------------------------------- MODULE Tree ---------------------------------
(***************************************************************************)
(* What a program that uses the file system sees of its names: each        *)
(* request takes place at once, and one that fails changes nothing.  Names *)
(* are added where there is none, a directory goes only when it is empty,  *)
(* and a rename puts the new name in place of the old one and of what had  *)
(* it before; a rename to the same name succeeds, whatever is there.  The  *)
(* one exception is a rename that fails for want of room after its target  *)
(* is gone.                                                                *)
(***************************************************************************)
EXTENDS Integers

CONSTANTS Inodes, None

VARIABLES
  names,  \* the entries, [dir, name, ino]
  asked,  \* the request, [op, src, dst], src and dst with a directory and a name
  ok      \* whether the last request succeeded

tree == <<names, asked, ok>>

Nothing == [op |-> "none", src |-> None, dst |-> None]

At(p) == {e \in names : e.dir = p.dir /\ e.name = p.name}
Entry(p, i) == [dir |-> p.dir, name |-> p.name, ino |-> i]

(* Nothing is left in what these entries name. *)
Empty(es) == \A e \in es : \A f \in names : f.dir # e.ino

Init == names = {} /\ asked = Nothing /\ ok = TRUE

Ask == asked = Nothing /\ asked' # Nothing /\ UNCHANGED <<names, ok>>

End(ops, success) ==
  asked.op \in ops /\ asked' = Nothing /\ ok' = success

Add ==
  /\ End({"mkdir", "create", "symlink", "link"}, TRUE)
  /\ At(asked.dst) = {}
  /\ \E i \in Inodes : names' = names \cup {Entry(asked.dst, i)}

Remove ==
  /\ End({"unlink", "rmdir"}, TRUE)
  /\ At(asked.dst) # {} /\ Empty(At(asked.dst))
  /\ names' = names \ At(asked.dst)

Move ==
  LET old == At(asked.src)
      target == At(asked.dst)
  IN  /\ End({"rename"}, TRUE)
      /\ IF asked.src = asked.dst
         THEN UNCHANGED names
         ELSE /\ old # {} /\ Empty(target)
              /\ names' = (names \ (old \cup target)) \cup
                            {Entry(asked.dst, e.ino) : e \in old}

Look == End({"attributes"}, TRUE) /\ UNCHANGED names

Fail ==
  /\ asked # Nothing
  /\ End({asked.op}, FALSE)
  /\ UNCHANGED names

MoveLosesTarget ==
  /\ End({"rename"}, FALSE)
  /\ At(asked.dst) # {} /\ Empty(At(asked.dst))
  /\ names' = names \ At(asked.dst)

Next == Ask \/ Add \/ Remove \/ Move \/ Look \/ Fail \/ MoveLosesTarget

Spec == Init /\ [][Next]_tree

=============================================================================
