------------------------------ MODULE MC_KWayMerge ------------------------------
(* One worker with the lines of four of the tags of corpus/typescript.ts.     *)
EXTENDS KWayMerge

(* The lines 55, 56, 62 and 63 of corpus/expected/typescript.ts.tags.  The    *)
(* first is greater than the second, whose pattern begins with "abstract",    *)
(* and the last two are the same line.                                        *)
Foo == 2
FooMethod == 1
Inner == 3
Expected == <<Foo, FooMethod, Inner, Inner>>

(* docs/ARCHITECTURE.md compares what tsag writes with corpus/expected.  A    *)
(* worker that made these lines would have to deliver them as they are there. *)
ExpectedOutput ==
  at = "uniq" /\ read = Len(vec) /\ made \in Permuted(Expected) => SubSeq(vec, 1, kept) = Expected
===============================================================================
