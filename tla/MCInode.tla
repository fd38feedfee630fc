------------------------------- MODULE MCInode -------------------------------
(***************************************************************************)
(* Blocks of two bytes, one direct block, two under the single indirect    *)
(* block, four under the double and eight under the triple one.            *)
(*                                                                         *)
(* Trees: one file, truncated to every size up to ten blocks.  With all of *)
(* them it holds 19 blocks of 19; for every smaller pool the growth runs   *)
(* out somewhere else.                                                     *)
(*                                                                         *)
(* OneFile: three bytes written at offsets aligned or not, inside the      *)
(* file, across its end, beyond it and at it (O_APPEND), and truncations   *)
(* between them, with three to ten blocks free.                            *)
(*                                                                         *)
(* TwoFiles: two files that compete for seven blocks: the deletion of one  *)
(* gives the other its blocks, which are not clean.                        *)
(***************************************************************************)
EXTENDS Inode
MCEOF == -1
MCJunk == 9
MCBlocks == 1 .. 19
Data == {<<1, 2, 3>>}

Trees ==
  {[others |-> k .. 19, files |-> {0}, offsets |-> 0 .. 20, payloads |-> {},
    size |-> 20, links |-> 1] : k \in 1 .. 20}
OneFile ==
  {[others |-> k .. 19, files |-> {0}, offsets |-> {0, 1, 2, 3, 5, 7, 8},
    payloads |-> Data, size |-> 10, links |-> 0] : k \in 4 .. 11}
TwoFiles ==
  {[others |-> 8 .. 19, files |-> {0, 1}, offsets |-> {0, 3},
    payloads |-> Data, size |-> 5, links |-> 0]}

MCUses == Trees \cup OneFile \cup TwoFiles
=============================================================================
