----------------------------- MODULE MCDirScan ------------------------------
(***************************************************************************)
(* Names of lengths one, three and five, besides the two names every       *)
(* directory has, over blocks of three entries with room for nine bytes of *)
(* names.  The first block is full by its numbers with the shortest name,  *)
(* and to the last byte with the next; the longest goes into a block of    *)
(* its own, where the shortest may join it.  Blocks in the middle run      *)
(* empty, one or two in a row, since no insertion uses them again.  The    *)
(* listing crosses the borders between them.                               *)
(***************************************************************************)
EXTENDS DirScan
MCdot == <<1>>
MCdotdot == <<1, 1>>
MCNames == {<<1>>, <<1, 1>>, <<2>>, <<3, 3, 3>>, <<4, 4, 4, 4, 4>>}
MCEOF == -1
=============================================================================
