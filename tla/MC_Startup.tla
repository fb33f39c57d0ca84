------------------------------ MODULE MC_Startup ------------------------------
(* A long of 6 bits, an int of 4, a size_t of 6 and words of 4 bytes: 15     *)
(* jobs fit into memory, 16 wrap the product to 0, and 8 do not fit an int.  *)
EXTENDS Startup

MCCores == {-1, 1, 3, 6}
MCTexts ==
  [value : {-1, 0, 1, 2, 7, 8, 15, 16, 17, 31, 32}, rest : {FALSE}]
    \cup [value : {0, 2}, rest : {TRUE}]
===============================================================================
