------------------------------ MODULE ByteFiles ------------------------------
(***************************************************************************)
(* What the inode layer is for: files that are sequences of bytes.  A      *)
(* write or a truncation does all of what it was asked, or, when the disk  *)
(* has no room, what the code does then: the bytes before the write stay,  *)
(* and everything from there on is zero, up to a length that is not below  *)
(* the old one.  (A comment in inode_write promises more.)  A growth that  *)
(* fails may also destroy the file it was to grow, see Lose; no operation  *)
(* ever changes the bytes of another file.                                 *)
(***************************************************************************)
EXTENDS Integers, Sequences

CONSTANTS
  Inodes,
  NoFile,  \* the value of an inode that is not allocated
  Lost     \* the contents of a file that cannot be read any more

VARIABLES
  file,    \* the bytes of each inode
  nlinks,  \* its links
  ret      \* the last operation: [op, ino, want, n]

fileVars == <<file, nlinks, ret>>

Files == {f \in Inodes : file[f] # NoFile}
Readable == {f \in Files : file[f] # Lost}

(* The first n bytes of s, with zeros after its end. *)
Resize(s, n) == [i \in 1 .. n |-> IF i <= Len(s) THEN s[i] ELSE 0]

(* s with data from offset pos on, and zeros between its end and pos. *)
Splice(s, pos, data) ==
  LET end == pos + Len(data)
  IN  [i \in 1 .. (IF end > Len(s) THEN end ELSE Len(s)) |->
         IF i \in pos + 1 .. end THEN data[i - pos] ELSE Resize(s, i)[i]]

(* What is left of s when a write at pos finds no room. *)
NoRoom(s, pos, length) ==
  Resize(SubSeq(s, 1, IF pos < Len(s) THEN pos ELSE Len(s)), length)

Offset(f, pos) == IF pos = -1 THEN Len(file[f]) ELSE pos

-----------------------------------------------------------------------------
Init ==
  /\ file = [f \in Inodes |-> NoFile]
  /\ nlinks = [f \in Inodes |-> 0]
  /\ ret = [op |-> "none", ino |-> 0, want |-> 0, n |-> 0]

Answer(op, f, want, n) == ret' = [op |-> op, ino |-> f, want |-> want, n |-> n]

Create ==
  \E f \in Inodes \ Files :
    /\ file' = [file EXCEPT ![f] = <<>>]
    /\ Answer("allocate", f, 0, f)
    /\ UNCHANGED nlinks

Delete(f) ==
  /\ nlinks[f] = 0
  /\ file' = [file EXCEPT ![f] = NoFile]
  /\ Answer("free", f, 0, 0)
  /\ UNCHANGED nlinks

Relink(f) ==
  \E n \in {nlinks[f] + 1, nlinks[f] - 1} :
    /\ nlinks' = [nlinks EXCEPT ![f] = n]
    /\ Answer("link", f, 0, n)
    /\ UNCHANGED file

WriteAll(f, pos, data) ==
  /\ file' = [file EXCEPT ![f] = Splice(@, Offset(f, pos), data)]
  /\ Answer("write", f, Len(data), Len(data))
  /\ UNCHANGED nlinks

(* A write past the end that finds no room keeps what was before it. *)
WriteShort(f, pos, data) ==
  /\ Offset(f, pos) + Len(data) > Len(file[f])
  /\ \E length \in Len(file[f]) .. Offset(f, pos) + Len(data) - 1 :
       file' = [file EXCEPT ![f] =
                  IF length = Len(@) /\ Offset(f, pos) >= length
                  THEN @ ELSE NoRoom(@, Offset(f, pos), length)]
  /\ Answer("write", f, Len(data), 0)
  /\ UNCHANGED nlinks

TruncateAll(f, size) ==
  /\ file' = [file EXCEPT ![f] = Resize(@, size)]
  /\ Answer("truncate", f, size, size)
  /\ UNCHANGED nlinks

TruncateShort(f, size) ==
  \E length \in Len(file[f]) .. size - 1 :
    /\ file' = [file EXCEPT ![f] = Resize(@, length)]
    /\ Answer("truncate", f, size, length)
    /\ UNCHANGED nlinks

(* A growth that fails has freed blocks of the file it was growing.        *)
(* Afterwards the file holds anything, until it is deleted.                *)
Lose(f) ==
  /\ file' = [file EXCEPT ![f] = Lost]
  /\ \/ ret' = ret
     \/ ret'.op \in {"write", "truncate"} /\ ret'.ino = f
  /\ UNCHANGED nlinks

Fail(f) ==
  /\ Answer("none", f, 0, -1)
  /\ UNCHANGED <<file, nlinks>>

NextWith(payloads, offsets) ==
  \/ Create
  \/ \E f \in Inodes : Fail(f)
  \/ \E f \in Files : Delete(f) \/ Relink(f) \/ Lose(f)
  \/ \E f \in Readable, n \in offsets : TruncateAll(f, n) \/ TruncateShort(f, n)
  \/ \E f \in Readable, pos \in offsets \cup {-1}, data \in payloads :
       WriteAll(f, pos, data) \/ WriteShort(f, pos, data)

=============================================================================
