----------------------------- MODULE MC_ParseFile -----------------------------
(* ParseFile on a few ranges, one of them with bytes that do not print.      *)
EXTENDS ParseFile, TLC

RangeSymmetry == Permutations(Printable)
===============================================================================
