------------------------------ MODULE Namespace ------------------------------
(***************************************************************************)
(* The requests that change names (path.c, and the handlers of candyfs.c   *)
(* that call it), one at a time as the mount option -s has it, over        *)
(* directories as Directory promises them and an open file table as        *)
(* OpenInodes does.  Each request runs in the steps between its changes to *)
(* the disk, and a crash may come between any two of them.                 *)
(*                                                                         *)
(* A path is the directory it leads to and its last name.  The kernel      *)
(* sends no request whose last name is "." or "..", and no rename of a     *)
(* directory into itself.  Whether the user has a permission, a directory  *)
(* the room, and whether a path resolves, is left open.                    *)
(***************************************************************************)
EXTENDS Integers, FiniteSets

CONSTANTS
  Inodes, root,
  Names,
  Handles,   \* bound: the files that programs have open at a time
  None,
  MaxLeaks   \* bound: the references to an inode that failed requests leave behind

ASSUME NamespaceAssumption ==
  /\ root \in Inodes /\ None \notin Inodes /\ None \notin [dir : Inodes, name : Names]
  /\ IsFiniteSet(Handles)
  /\ MaxLeaks \in Nat

VARIABLES
  kind,      \* the type of each inode, "free" when it is not allocated
  links,     \* the links it counts
  entries,   \* the entries of the directories, [dir, name, ino]
  parent,    \* ".." of each directory, None once it is marked destroyed
  refs,      \* the references to each inode (the open file table)
  fd,        \* the inode of each open file or directory
  paths,     \* the places in open_path_table
  pc,        \* where the program is
  req,       \* the request: what it does, and its variables
  ok,        \* whether the last request succeeded
  before,    \* history: the entries when the request began
  leaked,    \* history: the references that path.c:102 and path.c:333 drop
  stranded   \* history: what a crash left with neither link nor reference

disk == <<kind, links, entries, parent>>
hist == <<before, leaked, stranded>>
vars == <<disk, refs, fd, paths, pc, req, ok, hist>>

Place == [dir : Inodes, name : Names]
Entry(p, i) == [dir |-> p.dir, name |-> p.name, ino |-> i]
EntriesAt(p) == {e \in entries : e.dir = p.dir /\ e.name = p.name}
At(p) == {e.ino : e \in EntriesAt(p)}
EntriesFor(i) == {e \in entries : e.ino = i}

IsDir(i) == kind[i] = "dir"
Live(d) == IsDir(d) /\ parent[d] # None
IsEmpty(d) == \A e \in entries : e.dir # d

(* What paths from the root lead to: the least set with the root and what  *)
(* its directories name.                                                   *)
ReachableIn(es) ==
  LET closed == {S \in SUBSET Inodes :
                   root \in S /\ \A e \in es : e.dir \in S => e.ino \in S}
  IN  {i \in Inodes : \A S \in closed : i \in S}
Reachable == ReachableIn(entries)

PathsIn(dirs) == [dir : {d \in dirs : IsDir(d)}, name : Names]
Paths == PathsIn(Reachable)

(* The paths that do not lead through a name: into what it names, if that  *)
(* is a directory, the kernel renames nothing.                             *)
PathsAround(p) == PathsIn(ReachableIn(entries \ EntriesAt(p)))

-----------------------------------------------------------------------------
(* How many references some places hold: each one to its directory. *)
PathRefs(ps, i) == Cardinality({p \in ps : p.dir = i})
Bit(b) == IF b THEN 1 ELSE 0

(* refs_open. *)
Opened(r, i) == [r EXCEPT ![i] = @ + 1]

(* refs_close of some inodes and of the directories of some places.  An    *)
(* inode that counts no links and loses its last reference is freed.       *)
Closing(held, ps, lk, up) ==
  LET left == [i \in Inodes |-> refs[i] - Bit(i \in held) - PathRefs(ps, i)]
      gone == {i \in Inodes : left[i] = 0 /\ left[i] # refs[i] /\ lk[i] = 0}
  IN  /\ refs' = left
      /\ kind' = [i \in Inodes |-> IF i \in gone THEN "free" ELSE kind[i]]
      /\ parent' = [i \in Inodes |-> IF i \in gone THEN None ELSE up[i]]

Request(op, inode, src, dst) ==
  [op |-> op, inode |-> inode, current |-> None, src |-> src, dst |-> dst]
Idle == Request("none", None, None, None)

(* The end of a request: it gives back inodes (I of candyfs.c) and paths   *)
(* (P), and with each path its directory.                                  *)
Finish(held, lk, up, success) ==
  /\ Closing(held, paths, lk, up)
  /\ paths' = {}
  /\ pc' = "idle"
  /\ req' = Idle
  /\ ok' = success
  /\ UNCHANGED before

Fail(held) ==
  /\ Finish(held, links, parent, FALSE)
  /\ UNCHANGED <<links, entries, fd, leaked, stranded>>

Continue(where) == pc' = where /\ UNCHANGED <<fd, paths, ok, hist>>

Abort == Continue("aborted") /\ UNCHANGED <<disk, refs, req>>

(* dir_remove, where the program asserts that it removes what it found. *)
RemoveEntry(p, i, where) ==
  IF Live(p.dir) /\ At(p) = {i}
  THEN entries' = entries \ EntriesAt(p) /\ Continue(where)
  ELSE pc' = "aborted" /\ UNCHANGED <<entries, fd, paths, ok, hist>>

-----------------------------------------------------------------------------
(* How the requests begin: the paths they open, the inodes they hold. *)
Begin(request, opened, where) ==
  /\ pc = "idle"
  /\ req' = request
  /\ paths' = opened
  /\ refs' = [i \in Inodes |-> refs[i] + Bit(i = request.inode) + PathRefs(opened, i)]
  /\ before' = entries
  /\ pc' = where
  /\ UNCHANGED <<entries, fd, ok, leaked, stranded>>

(* Bound: requests drop a reference only while no inode has lost MaxLeaks  *)
(* of them.                                                                *)
LeaksLeft == \A i \in Inodes : leaked[i] < MaxLeaks

AskPath ==
  \E op \in {"mkdir", "unlink", "rmdir"}, p \in Paths :
    /\ op = "unlink" /\ (\E i \in At(p) : IsDir(i)) => LeaksLeft
    /\ Begin(Request(op, None, None, p), {p}, op)
    /\ UNCHANGED disk

(* candy_rename: the second path_open returns EWOULDBLOCK when it finds    *)
(* the first path in the table, and that is a success.                     *)
AskRename ==
  \E src \in Paths : \E dst \in PathsAround(src) :
    /\ Begin(Request("rename", None, src, dst),
             {src, dst},
             IF src = dst THEN "same" ELSE "rename")
    /\ UNCHANGED disk

(* candy_create and candy_symlink: a new inode, opened, before the path.   *)
(* It counts no links, so that the close of a request that fails frees it. *)
AskCreate ==
  \E op \in {"create", "symlink"}, p \in Paths, i \in Inodes :
    /\ kind[i] = "free"
    /\ op = "create" => \E h \in Handles : fd[h] = None
    /\ Begin(Request(op, i, None, p), {}, "path_open")
    /\ kind' = [kind EXCEPT ![i] = IF op = "create" THEN "file" ELSE "link"]
    /\ links' = [links EXCEPT ![i] = 0]
    /\ UNCHANGED parent

(* candy_link: path_resolve of the old name. *)
AskLink ==
  \E i \in Reachable, p \in Paths :
    /\ Begin(Request("link", i, None, p), {}, "path_open")
    /\ UNCHANGED disk

(* path_open of a request that fails because its path leads through what   *)
(* is no directory (path.c:102): what it had opened is given back, but not *)
(* the reference to what is no directory.                                  *)
NotADirectory ==
  /\ pc = "idle" /\ LeaksLeft
  /\ \E i \in Reachable :
       /\ ~IsDir(i)
       /\ refs' = Opened(refs, i)
       /\ leaked' = Opened(leaked, i)
  /\ UNCHANGED <<disk, fd, paths, pc, req, ok, before, stranded>>

(* The handlers that resolve a path, look at the inode or change its mode, *)
(* owner, times or size, and close it.                                     *)
AskAttributes ==
  \E i \in Reachable :
    /\ Begin(Request("attributes", i, None, None), {}, "attributes")
    /\ UNCHANGED disk

(* candy_open and candy_opendir when they succeed, and candy_release. *)
OpenHandle(h) ==
  /\ pc = "idle" /\ fd[h] = None
  /\ \E i \in Reachable :
       /\ kind[i] # "link"
       /\ fd' = [fd EXCEPT ![h] = i]
       /\ refs' = Opened(refs, i)
  /\ UNCHANGED <<disk, paths, pc, req, ok, hist>>

Release(h) ==
  /\ pc = "idle" /\ fd[h] # None
  /\ Closing({fd[h]}, {}, links, parent)
  /\ fd' = [fd EXCEPT ![h] = None]
  /\ UNCHANGED <<links, entries, paths, pc, req, ok, hist>>

-----------------------------------------------------------------------------
Attributes ==
  /\ pc = "attributes"
  /\ \E success \in BOOLEAN : Finish({req.inode}, links, parent, success)
  /\ UNCHANGED <<links, entries, fd, leaked, stranded>>

Same ==
  /\ pc = "same"
  /\ Finish({}, links, parent, TRUE)
  /\ UNCHANGED <<links, entries, fd, leaked, stranded>>

(* The path of candy_create, candy_symlink and candy_link. *)
PathOpen ==
  /\ pc = "path_open"
  /\ \/ /\ paths' = {req.dst}
        /\ refs' = Opened(refs, req.dst.dir)
        /\ pc' = "path_link"
        /\ UNCHANGED <<disk, fd, req, ok, hist>>
     \/ Fail({req.inode})

(* path_mkdir: dir_create, and the new directory is opened. *)
Mkdir ==
  /\ pc = "mkdir"
  /\ \/ \E i \in Inodes :
          /\ kind[i] = "free"
          /\ kind' = [kind EXCEPT ![i] = "dir"]
          /\ links' = [links EXCEPT ![i] = 0]
          /\ parent' = [parent EXCEPT ![i] = req.dst.dir]
          /\ refs' = Opened(refs, i)
          /\ req' = [req EXCEPT !.inode = i]
          /\ Continue("path_link")
          /\ UNCHANGED entries
     \/ Fail({})

(* What path_link checks, and dir_insert. *)
CanLink ==
  /\ IsDir(req.inode) => req.op = "mkdir"
  /\ Live(req.dst.dir) /\ At(req.dst) = {}

(* path_link, and the same in path_mkdir: the name comes before the link   *)
(* is counted.                                                             *)
PathLink ==
  /\ pc = "path_link"
  /\ \/ /\ CanLink
        /\ entries' = entries \cup {Entry(req.dst, req.inode)}
        /\ Continue("linking")
        /\ UNCHANGED <<kind, links, parent, refs, req>>
     \/ Fail({req.inode})

(* Changed: no refs_link. *)
LinkingNot ==
  /\ pc = "linking"
  /\ IF req.op = "create"
     THEN /\ \E h \in Handles : fd[h] = None /\ fd' = [fd EXCEPT ![h] = req.inode]
          /\ Finish({}, links, parent, TRUE)
     ELSE Finish({req.inode}, links, parent, TRUE) /\ UNCHANGED fd
  /\ UNCHANGED <<links, entries, leaked, stranded>>

(* refs_link.  The file that candy_create made stays open. *)
Linking ==
  LET more == [links EXCEPT ![req.inode] = @ + 1]
  IN  /\ pc = "linking"
      /\ links' = more
      /\ IF req.op = "create"
         THEN /\ \E h \in Handles : fd[h] = None /\ fd' = [fd EXCEPT ![h] = req.inode]
              /\ Finish({}, more, parent, TRUE)
         ELSE Finish({req.inode}, more, parent, TRUE) /\ UNCHANGED fd
      /\ UNCHANGED <<entries, leaked, stranded>>

(* path_get of path_unlink and path_rmdir opens the inode. *)
PathGet ==
  /\ pc \in {"unlink", "rmdir"}
  /\ \/ /\ At(req.dst) = {}
        /\ Fail({})
     \/ \E i \in At(req.dst) :
          /\ refs' = Opened(refs, i)
          /\ req' = [req EXCEPT !.current = i]
          /\ Continue("got")
          /\ UNCHANGED disk

(* A directory is not closed again (path.c:333). *)
UnlinkDirectory ==
  /\ pc = "got" /\ req.op = "unlink" /\ IsDir(req.current)
  /\ Finish({}, links, parent, FALSE)
  /\ leaked' = Opened(leaked, req.current)
  /\ UNCHANGED <<links, entries, fd, stranded>>

Unlink ==
  /\ pc = "got" /\ req.op = "unlink" /\ ~IsDir(req.current)
  /\ \/ /\ RemoveEntry(req.dst, req.current, "unlinking")
        /\ UNCHANGED <<kind, links, parent, refs, req>>
     \/ Fail({req.current})

(* dir_destroy. *)
CanDestroy(i) == Live(i) /\ IsEmpty(i)

(* path_rmdir. *)
Rmdir ==
  /\ pc = "got" /\ req.op = "rmdir"
  /\ \/ /\ CanDestroy(req.current)
        /\ parent' = [parent EXCEPT ![req.current] = None]
        /\ Continue("crippled")
        /\ UNCHANGED <<kind, links, entries, refs, req>>
     \/ Fail({req.current})

(* path_rename: path_get of the old name. *)
RenameSource ==
  /\ pc = "rename"
  /\ \/ /\ At(req.src) = {}
        /\ Fail({})
     \/ \E i \in At(req.src) :
          /\ refs' = Opened(refs, i)
          /\ req' = [req EXCEPT !.inode = i]
          /\ Continue("source")
          /\ UNCHANGED disk

(* The permissions, and path_get of the new name. *)
RenameTarget ==
  /\ pc = "source"
  /\ \/ Fail({req.inode})
     \/ /\ At(req.dst) = {}
        /\ Continue("insert")
        /\ UNCHANGED <<disk, refs, req>>
     \/ \E j \in At(req.dst) :
          /\ refs' = Opened(refs, j)
          /\ req' = [req EXCEPT !.current = j]
          /\ Continue("target")
          /\ UNCHANGED disk

(* What becomes of the target: a directory has to be empty and is          *)
(* destroyed, anything else is removed at once; either only for its like.  *)
RenameOver ==
  /\ pc = "target"
  /\ \/ /\ IsDir(req.inode) /\ CanDestroy(req.current)
        /\ parent' = [parent EXCEPT ![req.current] = None]
        /\ Continue("crippled")
        /\ UNCHANGED <<kind, links, entries, refs, req>>
     \/ /\ ~IsDir(req.inode) /\ ~IsDir(req.current)
        /\ RemoveEntry(req.dst, req.current, "unlinking")
        /\ UNCHANGED <<kind, links, parent, refs, req>>

(* Changed: closes the target only. *)
RenameRefusedForgets ==
  /\ pc = "target"
  /\ IF IsDir(req.current)
     THEN ~(IsDir(req.inode) /\ CanDestroy(req.current))
     ELSE IsDir(req.inode)
  /\ Fail({req.current})

(* Both are closed; they are two, for a directory has one name. *)
RenameRefused ==
  /\ pc = "target"
  /\ IF IsDir(req.current)
     THEN ~(IsDir(req.inode) /\ CanDestroy(req.current))
     ELSE IsDir(req.inode)
  /\ Fail({req.inode, req.current})

(* Changed: a rename puts the new name in the place of the old one. *)
CrippledReplaces ==
  /\ pc = "crippled"
  /\ entries' = (entries \ EntriesAt(req.dst)) \cup
                  (IF req.op = "rename" THEN {Entry(req.dst, req.inode)} ELSE {})
  /\ Continue("unlinking")
  /\ UNCHANGED <<kind, links, parent, refs, req>>

(* path_rmdir and path_rename: the name of what was destroyed goes. *)
Crippled ==
  /\ pc = "crippled"
  /\ RemoveEntry(req.dst, req.current, "unlinking")
  /\ UNCHANGED <<kind, links, parent, refs, req>>

(* Changed: path_unlink and refs_unlink both take the link away. *)
UnlinkingTwice ==
  /\ pc = "unlinking"
  /\ links' = [links EXCEPT ![req.current] = @ - 2]
  /\ Continue("unlinked")
  /\ UNCHANGED <<kind, entries, parent, refs, req>>

(* refs_unlink. *)
Unlinking ==
  /\ pc = "unlinking"
  /\ links' = [links EXCEPT ![req.current] = @ - 1]
  /\ Continue("unlinked")
  /\ UNCHANGED <<kind, entries, parent, refs, req>>

(* refs_close, which frees what has lost its last name. *)
Unlinked ==
  /\ pc = "unlinked"
  /\ IF req.op = "rename"
     THEN /\ Closing({req.current}, {}, links, parent)
          /\ req' = [req EXCEPT !.current = None]
          /\ Continue("insert")
     ELSE /\ Finish({req.current}, links, parent, TRUE)
          /\ UNCHANGED <<fd, leaked, stranded>>
  /\ UNCHANGED <<links, entries>>

(* Changed: the error is lost. *)
InsertAnyway ==
  /\ pc = "insert"
  /\ \/ /\ Live(req.dst.dir) /\ At(req.dst) = {}
        /\ entries' = entries \cup {Entry(req.dst, req.inode)}
        /\ Continue("moved")
        /\ UNCHANGED <<kind, links, parent, refs, req>>
     \/ /\ Finish({req.inode}, links, parent, TRUE)
        /\ UNCHANGED <<links, entries, fd, leaked, stranded>>

(* path_rename: the new name comes before the old one goes. *)
Insert ==
  /\ pc = "insert"
  /\ \/ /\ Live(req.dst.dir) /\ At(req.dst) = {}
        /\ entries' = entries \cup {Entry(req.dst, req.inode)}
        /\ Continue("moved")
        /\ UNCHANGED <<kind, links, parent, refs, req>>
     \/ Fail({req.inode})

Moved ==
  /\ pc = "moved"
  /\ RemoveEntry(req.src, req.inode, "reparent")
  /\ UNCHANGED <<kind, links, parent, refs, req>>

(* Changed: moves a directory without telling it. *)
ReparentNot ==
  /\ pc = "reparent"
  /\ Finish({req.inode}, links, parent, TRUE)
  /\ UNCHANGED <<links, entries, fd, leaked, stranded>>

(* dir_reparent, if it is a directory. *)
Reparent ==
  /\ pc = "reparent"
  /\ IF ~IsDir(req.inode)
     THEN /\ Finish({req.inode}, links, parent, TRUE)
          /\ UNCHANGED <<links, entries, fd, leaked, stranded>>
     ELSE IF Live(req.inode)
     THEN /\ Finish({req.inode}, links,
                    [parent EXCEPT ![req.inode] = req.dst.dir], TRUE)
          /\ UNCHANGED <<links, entries, fd, leaked, stranded>>
     ELSE Abort

-----------------------------------------------------------------------------
(* The process ends, and the device is mounted again: the tables in memory *)
(* are empty.  What becomes of the disk when this was in the middle of a   *)
(* request is looked at right then, not further on.                        *)
Crash ==
  /\ refs' = [i \in Inodes |-> 0]
  /\ fd' = [h \in Handles |-> None]
  /\ paths' = {}
  /\ leaked' = [i \in Inodes |-> 0]
  /\ stranded' = stranded \cup
                   {i \in Inodes : kind[i] # "free" /\ links[i] = 0 /\ refs[i] > 0}
  /\ pc' = IF pc = "idle" THEN "idle" ELSE "torn"
  /\ UNCHANGED <<disk, req, ok, before>>

(* mkfs_path. *)
Init ==
  /\ kind = [i \in Inodes |-> IF i = root THEN "dir" ELSE "free"]
  /\ links = [i \in Inodes |-> IF i = root THEN 1 ELSE 0]
  /\ entries = {}
  /\ parent = [i \in Inodes |-> IF i = root THEN root ELSE None]
  /\ refs = [i \in Inodes |-> 0]
  /\ fd = [h \in Handles |-> None]
  /\ paths = {}
  /\ pc = "idle"
  /\ req = Idle
  /\ ok = TRUE
  /\ before = {}
  /\ leaked = [i \in Inodes |-> 0]
  /\ stranded = {}

Next ==
  \/ AskPath \/ AskRename \/ AskCreate \/ AskLink \/ AskAttributes \/ NotADirectory
  \/ \E h \in Handles : OpenHandle(h) \/ Release(h)
  \/ Attributes \/ Same
  \/ PathOpen \/ Mkdir \/ PathLink \/ Linking
  \/ PathGet \/ UnlinkDirectory \/ Unlink
  \/ Rmdir \/ RenameSource \/ RenameTarget \/ RenameOver \/ RenameRefused
  \/ Crippled \/ Unlinking \/ Unlinked
  \/ Insert \/ Moved \/ Reparent
  \/ pc # "torn" /\ Crash

Spec == Init /\ [][Next]_vars

-----------------------------------------------------------------------------
(* Every variable holds a value of the type the code gives it; no close of *)
(* what is not open, no unlink of what has no links.                       *)
TypeOK ==
  /\ kind \in [Inodes -> {"free", "dir", "file", "link"}]
  /\ links \in [Inodes -> Nat] /\ refs \in [Inodes -> Nat]
  /\ entries \subseteq [dir : Inodes, name : Names, ino : Inodes]
  /\ \A i \in Inodes : parent[i] # None => IsDir(i) /\ parent[i] \in Inodes
  /\ fd \in [Handles -> Inodes \cup {None}]
  /\ paths \subseteq Place
  /\ req.inode \in Inodes \cup {None} /\ req.current \in Inodes \cup {None}

(* Between requests every inode counts as many links as there are names    *)
(* for it (the root one more), and one that has neither a name nor a       *)
(* reference is free, unless a crash took the reference.                   *)
NamesFor(i) == Cardinality(EntriesFor(i)) + IF i = root THEN 1 ELSE 0

LinksMatchNames ==
  pc = "idle" =>
    \A i \in Inodes :
      /\ kind[i] = "free" => EntriesFor(i) = {} /\ refs[i] = 0
      /\ kind[i] # "free" => links[i] = NamesFor(i)
      /\ kind[i] # "free" /\ links[i] = 0 /\ refs[i] = 0 => i \in stranded

(* "path_get -> refs_close" (notes, static verifications): a request that  *)
(* got an inode from path_get, and has it still when it ends, closes it.   *)
PathGetClosed ==
  [][pc' = "idle" /\ req.current # None => refs'[req.current] < refs[req.current]]_vars

HeldBy(i) == Cardinality({h \in Handles : fd[h] = i})

(* "refs_open -> refs_close", "path_open -> P()" (notes): all returns but  *)
(* the two that drop a reference (path.c:102, path.c:333) close what their *)
(* request opened, once.  Between requests no path is open, and the        *)
(* references are those of the open files and the dropped ones, no more    *)
(* and no fewer.  So what a file handle names is the file that was opened, *)
(* also when all its names are gone.                                       *)
OthersAccounted ==
  /\ pc = "idle" => paths = {} /\ \A i \in Inodes : refs[i] = HeldBy(i) + leaked[i]
  /\ \A h \in Handles : fd[h] # None => kind[fd[h]] \in {"file", "dir"}

(* Between requests the names are a tree: they lie in directories that can *)
(* be reached from the root, a directory has one of them, which is in its  *)
(* "..", none leads to a destroyed directory, and no two are the same.     *)
(* Nor does an assertion fail.                                             *)
IsTree ==
  /\ pc = "idle" =>
       LET dirs == Reachable
       IN
       /\ \A e, f \in entries : e.dir = f.dir /\ e.name = f.name => e = f
       /\ \A e \in entries : e.dir \in dirs /\ Live(e.dir)
       /\ \A e \in entries :
            IsDir(e.ino) => EntriesFor(e.ino) = {e} /\ parent[e.ino] = e.dir
  /\ pc # "aborted"

(* A crash in the middle of a request leaves one thing wrong at most: an   *)
(* inode that counts one link too many or too few, a destroyed directory   *)
(* that still has its name, a directory whose ".." is not where its name   *)
(* is, or an inode of the request that nothing names and nothing frees.    *)
(* No name leads to a free inode, and only names that the request is about *)
(* are gone.                                                               *)
Damage ==
  LET named == {i \in Inodes : EntriesFor(i) # {}}
      badLinks == {i \in Inodes : kind[i] # "free" /\ links[i] # NamesFor(i)}
      badDirs == {i \in named : IsDir(i) /\ parent[i] \notin {e.dir : e \in EntriesFor(i)}}
      orphans == {i \in {req.inode, req.current} \ {None} :
                    kind[i] # "free" /\ links[i] = 0 /\ NamesFor(i) = 0}
  IN  ({"links"} \X badLinks) \cup ({"parent"} \X badDirs) \cup ({"orphan"} \X orphans)

TornByOne ==
  pc = "torn" =>
    /\ \A x, y \in Damage : x = y
    /\ \A i \in Inodes :
         kind[i] # "free" => links[i] - NamesFor(i) \in {-1, 0, 1}
    /\ \A e \in entries : kind[e.ino] # "free" /\ IsDir(e.dir)
    /\ \A e \in before \ entries :
         \E p \in {req.src, req.dst} \ {None} : e.dir = p.dir /\ e.name = p.name

(* Each request takes place at once, at its end. *)
Visible == INSTANCE Tree WITH
  names <- IF pc = "idle" THEN entries ELSE before,
  asked <- [op |-> req.op, src |-> req.src, dst |-> req.dst]

ImplementsTree == Visible!Spec

=============================================================================
