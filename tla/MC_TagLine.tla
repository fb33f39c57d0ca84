------------------------------ MODULE MC_TagLine ------------------------------
(* Every short source over all classes of characters, and longer ones over   *)
(* few of them, so that a line can be cut at both ends and be too long.      *)
(* "t" is any character that prints, and the one that means a tab behind a   *)
(* backslash.                                                                *)
EXTENDS TagLine

MCChars == {LF, CR, TAB, NUL, "e'", "\\", "/", "$", "t"}
MCSources == BoundedSeq(MCChars, 4) \cup BoundedSeq({LF, "/", "t"}, 6)

(* Lines of one character class, for the shortest disagreement.              *)
MCPlainSources == BoundedSeq({LF, "t"}, 4)
===============================================================================
