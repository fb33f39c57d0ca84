-------------------------------- MODULE MC_Tsag --------------------------------
(* The pipeline on three files.  The first and the last have the same line,  *)
(* as when a directory is named twice on the command line, and the second    *)
(* has it too.                                                               *)
EXTENDS Tsag

CONSTANTS f1, f2, f3

MCLinesOf == [f \in Files |-> IF f = f2 THEN {1, 2} ELSE {2}]
===============================================================================
