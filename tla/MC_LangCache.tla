----------------------------- MODULE MC_LangCache -----------------------------
(* LangCache with a few extensions, two of which share a language as "h" and *)
(* "cc" do in EXT_LANG.                                                      *)
EXTENDS LangCache

CONSTANTS
  lit_c, lit_cpp, lit_py,    \* literals of EXT_LANG
  first                      \* one of the workers

MCLiteral == [e \in Exts |->
  CASE e \in {"h", "cc"} -> lit_cpp [] e = "c" -> lit_c [] e = "py" -> lit_py]
MCName == [p \in {lit_c, lit_cpp, lit_py} |->
  CASE p = lit_c -> "c" [] p = lit_cpp -> "cpp" [] p = lit_py -> "python"]

(* The first worker gets two files, the others one; or every worker two.     *)
MCGets == [w \in Workers |-> IF w = first THEN 2 ELSE 1]
TwoEach == [w \in Workers |-> 2]
===============================================================================
