-------------------------------- MODULE Namei --------------------------------
(***************************************************************************)
(* The resolution of one path (namei and namei_rec, path.c): the recursion *)
(* through symbolic links, the directory it leaves in *curdir, and the     *)
(* references to inodes it takes and gives back on the way.  Nothing else  *)
(* runs meanwhile (the file system is mounted with -s), so the tree stays  *)
(* as it is.                                                               *)
(*                                                                         *)
(* A path is what strchr makes of it: the strings between its slashes.  It *)
(* is absolute when it starts with a slash, which makes the first of them  *)
(* empty; slashes in a row, and one at its end, make other empty ones.     *)
(***************************************************************************)
EXTENDS Integers, Sequences, SequencesExt

CONSTANTS
  Inodes, root,
  Dirs, Links,  \* the inodes of these types; the others are files
  Entries,      \* the entries of the directories, [dir, name, ino]
  Empty,        \* the empty string
  Targets,      \* what the links may contain, paths
  Paths,        \* the paths the kernel sends
  MaxLevel,     \* how deep the recursion goes: 8 (path.c:58)
  Longest       \* bound: the components of a path

INO_EOF == -1000
ENOENT == -2
EACCES == -13
ENOTDIR == -20
ELOOP == -40

Has(d, name) == \E e \in Entries : e.dir = d /\ e.name = name
Child(d, name) == (CHOOSE e \in Entries : e.dir = d /\ e.name = name).ino

(* What the components of paths are. *)
Strings == UNION {Range(p) : p \in Targets \cup Paths}

ASSUME NameiAssumption ==
  /\ Inodes \subseteq Nat /\ root \in Dirs
  /\ Dirs \subseteq Inodes /\ Links \subseteq Inodes \ Dirs
  /\ \A e \in Entries : e.dir \in Dirs /\ e.ino \in Inodes
  /\ \A d \in Dirs : Has(d, "..") /\ Child(d, "..") \in Dirs
  /\ MaxLevel \in Nat /\ Longest \in Nat
  /\ \A p \in Targets \cup Paths :
       p \in Seq(Strings) /\ p # <<>> /\ p # <<Empty>> /\ Len(p) <= Longest

(* The inodes that the first components of a path lead to, one by one, if  *)
(* no link is followed.                                                    *)
Leads(s, path) ==
  \A k \in DOMAIN s :
    LET d == IF k = 1 THEN root ELSE s[k - 1]
    IN  IF path[k] = Empty THEN s[k] = d
        ELSE d \in Dirs /\ Has(d, path[k]) /\ s[k] = Child(d, path[k])

(* The kernel resolves a path component by component, so that the ones it  *)
(* sends have no link but at the end.                                      *)
ASSUME KernelAssumption ==
  \A path \in Paths : \A n \in 1 .. Len(path) - 1 : \A s \in [1 .. n -> Inodes] :
    Leads(s, path) => s[n] \notin Links

VARIABLES
  target,      \* what each link contains
  searchable,  \* the directories the user may search
  call,        \* the arguments: the path, deref, and whether curdir is NULL
  refs,        \* the references to each inode that the call holds
  curdir,      \* *curdir
  stack,       \* the activations of namei_rec
  at,          \* where the program is
  value,       \* what a function has just returned
  aborted,     \* whether an assertion has failed
  leaked       \* history: the references that the return of ENOTDIR leaves behind

tree == <<target, searchable>>
vars == <<target, searchable, call, refs, curdir, stack, at, value, aborted, leaked>>

(* The variables of an activation: the rest of the path at token, current, *)
(* deref and level.                                                        *)
Frame(todo, deref, level) ==
  [todo |-> todo, current |-> INO_EOF, deref |-> deref, level |-> level]
top == Last(stack)
SetTop(frame) == stack' = Append(Front(stack), frame)

token == Head(top.todo)
IsLast == Len(top.todo) = 1
Absolute(path) == Len(path) > 1 /\ Head(path) = Empty

(* refs_open and refs_close, on the counts; a close of what is not open is *)
(* refused, and no caller here lets that pass.                             *)
NoReferences == [i \in Inodes |-> 0]
Opened(r, i) == [r EXCEPT ![i] = @ + 1]
CanClose(r, i) == i \in Inodes /\ r[i] > 0
Closed(r, i) == [r EXCEPT ![i] = @ - 1]

Abort == aborted' = TRUE /\ UNCHANGED <<refs, curdir, stack, at, value, leaked>>

-----------------------------------------------------------------------------
(* namei: curdir is NULL, or holds INO_EOF (path_resolve, path_open); both *)
(* start at the root, and both hold it twice.                              *)
Call ==
  /\ at = "idle"
  /\ \E path \in Paths, deref \in BOOLEAN, null \in BOOLEAN :
       /\ ~null => ~deref
       /\ call' = [path |-> path, deref |-> deref, null |-> null]
       /\ stack' = <<Frame(path, deref, 0)>>
  /\ curdir' = root
  /\ refs' = Opened(Opened(refs, root), root)
  /\ at' = "enter"
  /\ UNCHANGED <<tree, value, aborted, leaked>>

Return(v) ==
  /\ value' = v
  /\ stack' = Front(stack)
  /\ at' = IF Len(stack) = 1 THEN "end" ELSE "reload"

TooDeep ==
  /\ at = "enter" /\ top.level > MaxLevel
  /\ Return(ELOOP)
  /\ UNCHANGED <<refs, curdir, aborted, leaked>>

(* Changed: an absolute path starts where the link is. *)
EnterThere ==
  /\ at = "enter" /\ top.level <= MaxLevel
  /\ refs' = Opened(refs, curdir)
  /\ SetTop([top EXCEPT !.current = curdir,
                        !.todo = IF Absolute(@) THEN Tail(@) ELSE @])
  /\ at' = "walk"
  /\ UNCHANGED <<curdir, value, aborted, leaked>>

(* namei_rec: current is *curdir, held a second time; an absolute path     *)
(* gives both back for the root.                                           *)
Enter ==
  /\ at = "enter" /\ top.level <= MaxLevel
  /\ IF Absolute(top.todo)
     THEN /\ refs' = Opened(Opened(Closed(refs, curdir), root), root)
          /\ curdir' = root
          /\ SetTop([top EXCEPT !.current = root, !.todo = Tail(@)])
     ELSE /\ refs' = Opened(refs, curdir)
          /\ SetTop([top EXCEPT !.current = curdir])
          /\ UNCHANGED curdir
  /\ at' = "walk"
  /\ UNCHANGED <<value, aborted, leaked>>

(* Changed: does not move on. *)
SkipEmptyStays ==
  /\ at = "walk" /\ token = Empty
  /\ IF IsLast THEN Return(top.current) ELSE UNCHANGED <<stack, at, value>>
  /\ UNCHANGED <<refs, curdir, aborted, leaked>>

(* Part 2 skips an empty component; part 3 does nothing for one. *)
SkipEmpty ==
  /\ at = "walk" /\ token = Empty
  /\ IF IsLast
     THEN Return(top.current)
     ELSE SetTop([top EXCEPT !.todo = Tail(@)]) /\ UNCHANGED <<at, value>>
  /\ UNCHANGED <<refs, curdir, aborted, leaked>>

(* perm_check and refs_dir_lookup_open, with the directory in *curdir. *)
Looked(d) ==
  IF d \notin searchable THEN EACCES
  ELSE IF Has(d, token) THEN Child(d, token) ELSE ENOENT

Follows(i) == i \in Links /\ (top.deref \/ ~IsLast)

(* Changed: the call for a link starts at level 0. *)
DescendAfresh ==
  LET i == Looked(top.current)
  IN  /\ at = "walk" /\ token # Empty
      /\ curdir' = top.current
      /\ IF i \in Inodes /\ Follows(i)
         THEN /\ stack' = Append(stack, Frame(target[i], TRUE, 0))
              /\ refs' = Closed(refs, curdir)
              /\ at' = "enter"
              /\ UNCHANGED value
         ELSE /\ value' = i
              /\ refs' = IF i \in Inodes THEN Opened(Closed(refs, curdir), i)
                         ELSE Closed(refs, curdir)
              /\ at' = "found"
              /\ UNCHANGED stack
      /\ UNCHANGED <<aborted, leaked>>

(* Changed: forgets to close the link. *)
DescendHoldingLink ==
  LET i == Looked(top.current)
      r == IF i \in Inodes THEN Opened(Closed(refs, curdir), i)
           ELSE Closed(refs, curdir)
      level == top.level + 1
  IN  /\ at = "walk" /\ token # Empty
      /\ curdir' = top.current
      /\ refs' = r
      /\ IF i \in Inodes /\ Follows(i)
         THEN /\ stack' = Front(stack) \o <<[top EXCEPT !.level = level],
                                           Frame(target[i], TRUE, level)>>
              /\ at' = "enter"
              /\ UNCHANGED value
         ELSE value' = i /\ at' = "found" /\ UNCHANGED stack
      /\ UNCHANGED <<aborted, leaked>>

(* The next component: *curdir goes on to current, and                     *)
(* namei_internal_single looks the name up there, closes a link again and  *)
(* calls namei_rec for what it contains.                                   *)
Descend ==
  LET r == Closed(refs, curdir)
      i == Looked(top.current)
      level == top.level + 1
  IN  /\ at = "walk" /\ token # Empty
      /\ IF ~CanClose(refs, curdir) THEN Abort
         ELSE /\ curdir' = top.current
              /\ IF i \in Inodes /\ Follows(i)
                 THEN /\ stack' = Front(stack) \o <<[top EXCEPT !.level = level],
                                                   Frame(target[i], TRUE, level)>>
                      /\ refs' = r
                      /\ at' = "enter"
                      /\ UNCHANGED value
                 ELSE /\ value' = i
                      /\ refs' = IF i \in Inodes THEN Opened(r, i) ELSE r
                      /\ at' = "found"
                      /\ UNCHANGED stack
              /\ UNCHANGED <<aborted, leaked>>

(* namei_internal_single reloads the information on what the recursion     *)
(* returned.  When that is an error, inode_getinfo reads a number beyond   *)
(* the disk, disk_read leaves the block as it was on the C stack, and what *)
(* is found there says whether this is ENOENT or the error itself.         *)
Reload ==
  /\ at = "reload"
  /\ value' \in IF value \in Inodes THEN {value} ELSE {value, ENOENT}
  /\ at' = "found"
  /\ UNCHANGED <<refs, curdir, stack, aborted, leaked>>

(* Changed: *curdir keeps the directory that was closed. *)
GiveUpKeeping(v) ==
  /\ refs' = Closed(refs, curdir)
  /\ Return(v)
  /\ UNCHANGED <<curdir, aborted>>

(* Part 2 fails: *curdir is given back, unless the recursion has done so. *)
GiveUp(v) ==
  IF CanClose(refs, curdir)
  THEN /\ refs' = Closed(refs, curdir)
       /\ curdir' = INO_EOF
       /\ Return(v)
       /\ UNCHANGED aborted
  ELSE aborted' = TRUE /\ UNCHANGED <<refs, curdir, stack, at, value>>

(* The component in the middle of the path: no such thing, no directory,   *)
(* or the directory to go on in.                                           *)
Lost ==
  /\ at = "found" /\ ~IsLast /\ value \notin Inodes
  /\ GiveUp(value)
  /\ UNCHANGED leaked

NoDirectory ==
  /\ at = "found" /\ ~IsLast /\ value \in Inodes \ Dirs
  /\ GiveUp(ENOTDIR)
  /\ leaked' = Opened(leaked, value)

GoOn ==
  /\ at = "found" /\ ~IsLast /\ value \in Dirs
  /\ SetTop([top EXCEPT !.current = value, !.todo = Tail(@)])
  /\ at' = "walk"
  /\ UNCHANGED <<refs, curdir, value, aborted, leaked>>

(* Changed: part 3, too, gives *curdir back when it fails. *)
FinalGivesUp ==
  /\ at = "found" /\ IsLast
  /\ IF value \in Inodes
     THEN Return(value) /\ UNCHANGED <<refs, curdir, aborted>>
     ELSE GiveUp(INO_EOF)
  /\ UNCHANGED leaked

(* Part 3: whatever went wrong, the answer is INO_EOF. *)
Final ==
  /\ at = "found" /\ IsLast
  /\ Return(IF value \in Inodes THEN value ELSE INO_EOF)
  /\ UNCHANGED <<refs, curdir, aborted, leaked>>

(* The end of namei. *)
End ==
  LET r == Closed(refs, root)
  IN  /\ at = "end"
      /\ IF ~call.null
         THEN refs' = r /\ at' = "done" /\ UNCHANGED <<curdir, aborted>>
         ELSE IF CanClose(r, curdir)
         THEN /\ refs' = Closed(r, curdir)
              /\ curdir' = INO_EOF
              /\ at' = "done"
              /\ UNCHANGED aborted
         ELSE aborted' = TRUE /\ UNCHANGED <<refs, curdir, at>>
      /\ UNCHANGED <<stack, value, leaked>>

(* The caller gives back what it was given: path_resolve hands the inode   *)
(* to a handler, which closes it; path_open closes the inode, and the      *)
(* directory with the handle, unless it was told of an error.              *)
Release ==
  LET r == IF value \in Inodes THEN Closed(refs, value) ELSE refs
  IN  /\ at = "done"
      /\ refs' = IF ~call.null /\ value \in Inodes \cup {INO_EOF} /\ CanClose(r, curdir)
                 THEN Closed(r, curdir) ELSE r
      /\ at' = "over"
      /\ UNCHANGED <<curdir, stack, value, aborted, leaked>>

Step ==
  /\ ~aborted
  /\ \/ TooDeep \/ Enter \/ SkipEmpty \/ Descend \/ Reload
     \/ Lost \/ NoDirectory \/ GoOn \/ Final
     \/ End \/ Release
  /\ UNCHANGED <<tree, call>>

Init ==
  /\ target \in [Links -> Targets]
  /\ searchable \in SUBSET Dirs
  /\ call = [path |-> <<>>, deref |-> FALSE, null |-> FALSE]
  /\ refs = NoReferences
  /\ curdir = INO_EOF
  /\ stack = <<>>
  /\ at = "idle"
  /\ value = INO_EOF
  /\ aborted = FALSE
  /\ leaked = NoReferences

Next == Call \/ Step

(* The program does not stop in the middle of a request. *)
Spec == Init /\ [][Next]_vars /\ WF_vars(Step)

-----------------------------------------------------------------------------
(* The reference: path_resolution(7), which path.c:124 refers to.  A link  *)
(* is followed by putting what it contains in its place in the path.       *)
Walk(path) ==
  [dir |-> root, cur |-> root, todo |-> path, links |-> 0, status |-> "going"]

Stop(w, status) == [w EXCEPT !.status = status]

WalkStep(w) ==
  LET name == Head(w.todo)
      last == Len(w.todo) = 1
      i == Child(w.cur, name)
      path == target[i]
      start == IF Absolute(path) THEN root ELSE w.cur
  IN  IF w.status # "going" THEN w
      ELSE IF w.todo = <<>> THEN Stop(w, "found")
      ELSE IF w.cur \notin Dirs THEN Stop(w, "notdir")
      ELSE IF name = Empty THEN [w EXCEPT !.todo = Tail(@)]
      ELSE IF w.cur \notin searchable \/ ~Has(w.cur, name)
      THEN Stop([w EXCEPT !.dir = w.cur], IF last THEN "missing" ELSE "lost")
      ELSE IF i \in Links /\ (call.deref \/ ~last)
      THEN [w EXCEPT !.dir = start, !.cur = start, !.todo = path \o Tail(@),
                     !.links = @ + 1]
      ELSE [w EXCEPT !.dir = w.cur, !.cur = i, !.todo = Tail(@)]

(* The steps in which the reference takes the code's own path: an          *)
(* activation with no level left goes through the components of its path;  *)
(* one with more levels takes twice as many with each of them, for what it *)
(* calls has one level less, and so has it itself from then on.            *)
Steps[levels \in 0 .. MaxLevel] ==
  IF levels = 0 THEN Longest ELSE 2 * Steps[levels - 1]

Fuel == Steps[MaxLevel] + 1

Walked[n \in 0 .. Fuel] ==
  IF n = 0 THEN Walk(call.path) ELSE WalkStep(Walked[n - 1])

Reference == Walked[Fuel]

TooManyLinks == Reference.links > MaxLevel

-----------------------------------------------------------------------------
(* Every variable holds a value of the type the code gives it. *)
TypeOK ==
  /\ refs \in [Inodes -> Nat] /\ leaked \in [Inodes -> Nat]
  /\ curdir \in Dirs \cup {INO_EOF}
  /\ at \in {"idle", "enter", "walk", "reload", "found", "end", "done", "over"}
  /\ value \in Inodes \cup {INO_EOF, ENOENT, EACCES, ENOTDIR, ELOOP}
  /\ Len(stack) <= MaxLevel + 2
  /\ \A k \in DOMAIN stack :
       /\ stack[k].current \in Dirs \cup {INO_EOF}
       /\ stack[k].level \in 0 .. MaxLevel + 1

(* "refs_dir_lookup_open -> refs_close" (notes:34): when the caller has    *)
(* given back what it was given, nothing is held any more.  The return of  *)
(* ENOTDIR (path.c:102) leaves a reference behind.                         *)
ReferencesGivenBack == at = "over" => refs = NoReferences

(* All the other returns do: a resolution that does not take this one, at  *)
(* whatever depth, gives back each reference once; and this one is taken   *)
(* only where what comes before the end of the path is no directory.       *)
OthersGiveBack ==
  at = "over" /\ (leaked = NoReferences \/ Reference.status # "notdir") =>
    refs = NoReferences

(* What the recursion through links finds, and the directory it leaves in  *)
(* *curdir, is what putting the links into the path would find.  It fails  *)
(* only where that fails, or follows too many links.                       *)
FindsTheFile ==
  at = "end" =>
    /\ value \in Inodes =>
         Reference.status = "found" /\ value = Reference.cur /\ curdir = Reference.dir
    /\ value \notin Inodes => Reference.status # "found" \/ TooManyLinks

(* path.c:127: "only valid if the return value is >= 0 OR it's INO_EOF.    *)
(* INO_EOF indicates that the traversal succeeded until the final lookup,  *)
(* i.e. suitable for create or mkdir."  So the callers that ask for the    *)
(* directory, all with deref false, find in it the one that the name is    *)
(* missing from.                                                           *)
CurdirForCreate ==
  at = "done" /\ ~call.null =>
    /\ curdir = INO_EOF <=> value \notin Inodes \cup {INO_EOF}
    /\ value = INO_EOF => Reference.status = "missing" /\ curdir = Reference.dir

(* An assertion fails only where a component in the middle, of the path or *)
(* of what a link contains, leads nowhere, and only for a caller without a *)
(* curdir (path.c:157) or inside the recursion (path.c:98).                *)
AbortsOnlyWhenLost ==
  aborted => /\ Reference.status \in {"lost", "notdir"} \/ TooManyLinks
             /\ curdir = INO_EOF
             /\ call.null

(* Every resolution comes to an end, whatever the links contain. *)
Returns == at = "enter" ~> at = "over" \/ aborted

(* path.c:94, 98, 157: "assert(refs_close(disk, *curdir) == 0)".  The      *)
(* directory in *curdir is open wherever the program gives it back.        *)
CurdirStillOpen == ~aborted

=============================================================================
