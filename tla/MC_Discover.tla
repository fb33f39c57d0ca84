------------------------------ MODULE MC_Discover ------------------------------
(* A tree with an ignored directory, a directory whose name only contains an *)
(* ignored name, links, and files with and without a known extension.        *)
EXTENDS Discover

MCDirs == {<<>>, <<"src">>, <<"src", "builder">>, <<"build">>, <<"build", "sub">>, <<"top.c">>}
MCRegular == {<<"src", "a.c">>, <<"src", "notes">>, <<"src", "builder", "b.c">>,
              <<"build", "gen.c">>, <<"build", "sub", "s.c">>, <<"top.c">>}
MCLinks == {<<"src", "l.c">>, <<"src", "builder">>}

(* Someone else makes or removes a directory with its file, or puts a link   *)
(* in its place, and replaces a file by a directory.                         *)
MCChanging == {<<"src", "builder">>, <<"src", "builder", "b.c">>, <<"top.c">>}

(* The working directory is the root of the tree. *)
MCCwd == <<>>

(* The walk of ".", then a part of it again, twice spelled the same, then a  *)
(* place below an ignored component, then nothing at all.                    *)
MCRoots ==
  <<[path |-> Dot, node |-> MCCwd],
    [path |-> <<".", "src">>, node |-> <<"src">>],
    [path |-> <<".", "src">>, node |-> <<"src">>],
    [path |-> <<"build", "sub">>, node |-> <<"build", "sub">>],
    [path |-> <<"gone">>, node |-> <<"gone">>]>>
===============================================================================
