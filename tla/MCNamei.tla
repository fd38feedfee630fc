------------------------------ MODULE MCNamei -------------------------------
(***************************************************************************)
(* The root with a directory, a file and a link; the directory with a file *)
(* and a link.  Each link may contain any of the targets: one of the       *)
(* files, itself or the other link, directly or through a directory,       *)
(* relative or from the root, or a path that leads nowhere at its end or   *)
(* before.  Paths are those the kernel sends: absolute, with a link only   *)
(* at the end, though a name may be gone or a directory closed by then.    *)
(***************************************************************************)
EXTENDS Namei
MCEntry(d, name, ino) == [dir |-> d, name |-> name, ino |-> ino]
MCEntries ==
  {MCEntry(0, "..", 0), MCEntry(0, "d", 1), MCEntry(0, "f", 2), MCEntry(0, "l", 4),
   MCEntry(1, "..", 0), MCEntry(1, "f", 3), MCEntry(1, "l", 5)}
MCTargets ==
  {<<"f">>, <<"d", "">>, <<"l">>, <<"..", "l">>, <<"", "d", "l">>, <<"l", "f">>,
   <<"f", "l">>, <<"x">>, <<"d", "x">>, <<"x", "f">>,
   <<"d", "", "f">>, <<"", "">>}
MCPaths ==
  {<<"", "">>, <<"", "f">>, <<"", "l">>, <<"", "d", "f">>, <<"", "d", "l">>,
   <<"", "d", "x">>, <<"", "x", "f">>, <<"", "f", "x">>}
=============================================================================
