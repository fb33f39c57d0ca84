------------------------------- MODULE TagLine -------------------------------
(***************************************************************************)
(* How a match becomes a line of the tags file: has_long_line, line_range, *)
(* escape_pattern and make_line of src/parse.c.  The line of a name is     *)
(*   name TAB file TAB /^pattern$/;" TAB kind                              *)
(* and a reader finds the name by searching for the pattern, so what the   *)
(* escapes mean to the reader must be the line of the source.              *)
(*                                                                         *)
(* A source is a sequence of characters, one of each class that the code   *)
(* tells apart; an offset is the number of characters before it.  One turn *)
(* of a loop is a step.                                                    *)
(***************************************************************************)
EXTENDS Naturals, SequencesExt, FiniteSetsExt

CONSTANTS
  Chars,
  Sources,            \* the sources looked at
  MAX_LINE_LEN,
  MAX_SRC_LINE_LEN

LF == "LF"  CR == "CR"  TAB == "TAB"  NUL == "NUL"
Unprintable == {LF, CR, TAB, NUL, "e'"}       \* e': a byte of a UTF-8 sequence

ASSUME TagLineAssumption ==
  Sources \subseteq Seq(Chars) /\ MAX_LINE_LEN \in Nat /\ MAX_SRC_LINE_LEN \in Nat

VARIABLES
  src,       \* source[0..src_len-1]
  at,        \* the loop, or how it ended, see Finished
  i,         \* its counter
  run,       \* characters since the last newline
  name,      \* offsets [start, end] of the name, and [kind], where the node
             \* begins whose capture gives the kind
  line,      \* offsets [start, end] of what line_range found so far
  width,     \* w: what escape_pattern allocates, less the terminating NUL
  filled,    \* what it has written
  reader     \* what a reader has made of the pattern, see ReadChar

vars == <<src, at, i, run, name, line, width, filled, reader>>

Nowhere == [start |-> 0, end |-> 0]
Unnamed == [kind |-> 0, start |-> 0, end |-> 0]

Init ==
  /\ src \in Sources /\ at = "count" /\ i = 0 /\ run = 0
  /\ name = Unnamed /\ line = Nowhere
  /\ width = 0 /\ filled = <<>>
  /\ reader = [text |-> <<>>, raw |-> {}, escape |-> FALSE]

-------------------------------------------------------------------------------
(* Mistakes that are easy to make in this code.  The specification uses     *)
(* none of them; substituted for the definition named in the comment, each  *)
(* breaks a property below.                                                 *)
ForgetDollar(k) == src[line.start + k] \in {TAB, "\\", "/"}         \* for TwoWide
SlashAsIs(k) == LET c == src[line.start + k] IN
                IF c \in {TAB, "\\"} THEN <<"\\", c>> ELSE <<c>>    \* for Escaped
BackTooFar == 0                                                     \* for BackLimit
NeverReset(r, c) == r + 1                                           \* for Count

-------------------------------------------------------------------------------
(* has_long_line; parse_file_lines skips the file.                          *)
Count(r, c) == IF c = LF THEN 0 ELSE r + 1

CountChar ==
  /\ at = "count" /\ i < Len(src)
  /\ run' = Count(run, src[i + 1])
  /\ i' = i + 1
  /\ at' = IF run' > MAX_SRC_LINE_LEN THEN "skipped" ELSE "count"
  /\ UNCHANGED <<src, name, line, width, filled, reader>>

(* extract_match: any name that is not empty.  The node captured as         *)
(* @kind.* has the name in it (queries.h) and may begin lines before it: it *)
(* is the whole class for a method's name.  The code keeps the capture's    *)
(* name only, so nothing below reads where that node begins.                *)
Match(kind, start, end) ==
  /\ at = "count" /\ i = Len(src)
  /\ kind <= start /\ start < end
  /\ src[kind + 1] \notin {LF, CR, TAB}
  /\ name' = [kind |-> kind, start |-> start, end |-> end]
  /\ at' = "matched"
  /\ UNCHANGED <<src, i, run, line, width, filled, reader>>

(* No match, or one without a name or a kind.                               *)
NoMatch ==
  /\ at = "count" /\ i = Len(src)
  /\ at' = "unmatched"
  /\ UNCHANGED <<src, i, run, name, line, width, filled, reader>>

Printable == \A k \in (name.start + 1)..name.end : src[k] \notin Unprintable

(* make_line gives NULL for a name with bytes that do not print, and for    *)
(* want of memory: escape_pattern's, or its own for the whole line.         *)
Refuse ==
  /\ \/ at = "matched" /\ ~Printable
     \/ at \in {"fill", "print"} /\ i = 1
  /\ at' = "refused"
  /\ UNCHANGED <<src, i, run, name, line, width, filled, reader>>

MakeLine ==
  /\ at = "matched" /\ Printable
  /\ line' = [start |-> name.start, end |-> name.start]
  /\ at' = "back"
  /\ UNCHANGED <<src, i, run, name, width, filled, reader>>

-------------------------------------------------------------------------------
(* line_range: both ends of the line, unless a limit is nearer.             *)
BackLimit == IF name.start > MAX_LINE_LEN THEN name.start - MAX_LINE_LEN ELSE 0
FwdLimit ==
  IF Len(src) - name.start > MAX_LINE_LEN THEN name.start + MAX_LINE_LEN ELSE Len(src)

Back ==
  /\ at = "back"
  /\ IF line.start > BackLimit /\ src[line.start] # LF
     THEN line' = [line EXCEPT !.start = @ - 1] /\ UNCHANGED at
     ELSE at' = "forward" /\ UNCHANGED line
  /\ UNCHANGED <<src, i, run, name, width, filled, reader>>

Forward ==
  /\ at = "forward"
  /\ IF line.end < FwdLimit /\ src[line.end + 1] # LF
     THEN line' = [line EXCEPT !.end = @ + 1] /\ UNCHANGED <<at, i>>
     ELSE at' = "measure" /\ i' = 1 /\ UNCHANGED line
  /\ UNCHANGED <<src, run, name, width, filled, reader>>

-------------------------------------------------------------------------------
(* escape_pattern: the first loop measures, the second writes.              *)
Length == line.end - line.start
Char(k) == src[line.start + k]
More == i <= Length /\ Char(i) \notin {LF, CR}

TwoWide(k) == Char(k) \in {TAB, "\\", "/"} \/ (Char(k) = "$" /\ k = Length)

Escaped(k) ==
  CASE Char(k) = TAB -> <<"\\", "t">>
    [] Char(k) \in {"\\", "/"} -> <<"\\", Char(k)>>
    [] Char(k) = "$" /\ k = Length -> <<"\\", "$">>
    [] OTHER -> <<Char(k)>>

Measure ==
  /\ at = "measure"
  /\ IF More
     THEN width' = width + (IF TwoWide(i) THEN 2 ELSE 1) /\ i' = i + 1 /\ UNCHANGED at
     ELSE at' = "fill" /\ i' = 1 /\ UNCHANGED width
  /\ UNCHANGED <<src, run, name, line, filled, reader>>

Fill ==
  /\ at = "fill"
  /\ IF More
     THEN filled' = filled \o Escaped(i) /\ i' = i + 1 /\ UNCHANGED at
     ELSE at' = "print" /\ i' = 1 /\ UNCHANGED filled
  /\ UNCHANGED <<src, run, name, line, width, reader>>

-------------------------------------------------------------------------------
(* What a reader makes of the pattern: a backslash takes the next character *)
(* with it, "\t" is a tab, and what is not escaped stands for itself.       *)
ReadChar(r, c) ==
  CASE r.escape -> [r EXCEPT !.text = Append(@, IF c = "t" THEN TAB ELSE c), !.escape = FALSE]
    [] ~r.escape /\ c = "\\" -> [r EXCEPT !.escape = TRUE]
    [] OTHER -> [r EXCEPT !.text = Append(@, c), !.raw = @ \cup {c}]

(* make_line's "%s" prints the pattern up to the first NUL.                 *)
Read ==
  /\ at = "print"
  /\ IF i <= Len(filled) /\ filled[i] # NUL
     THEN reader' = ReadChar(reader, filled[i]) /\ i' = i + 1 /\ UNCHANGED at
     ELSE at' = "line" /\ UNCHANGED <<i, reader>>
  /\ UNCHANGED <<src, run, name, line, width, filled>>

Finished == at \in {"skipped", "unmatched", "refused", "line"} /\ UNCHANGED vars

Next ==
  \/ CountChar \/ NoMatch
  \/ \E kind, start, end \in 0..Len(src) : Match(kind, start, end)
  \/ Refuse \/ MakeLine \/ Back \/ Forward \/ Measure \/ Fill \/ Read \/ Finished

Spec == Init /\ [][Next]_vars

-------------------------------------------------------------------------------
(* Properties.                                                              *)

(* The characters of the line around the offset o, and what is shown of a   *)
(* part of a line: it ends at the first carriage return or NUL.             *)
LineOf(o) ==
  {k \in 1..Len(src) : \A j \in (IF k <= o THEN k..o ELSE (o + 1)..k) : src[j] # LF}
Upto(s, stops) ==
  LET ends == {k \in DOMAIN s : s[k] \in stops} IN
  IF ends = {} THEN s ELSE SubSeq(s, 1, Min(ends) - 1)
Shown(K) == IF K = {} THEN <<>> ELSE Upto(SubSeq(src, Min(K), Max(K)), {CR, NUL})

(* escape_pattern writes as many bytes as it allocated for, neither more    *)
(* (an overflow) nor fewer (its terminating NUL goes to dst[w], and bytes   *)
(* before that would be left uninitialised).                                *)
FitsBuffer ==
  /\ at = "fill" => Len(filled) <= width
  /\ at \in {"print", "line"} => Len(filled) = width

(* docs/ARCHITECTURE.md, "Output format": the pattern is one field.  No tab *)
(* or newline splits it, and nothing ends it early: the first slash that is *)
(* not escaped is make_line's, after whole escapes only.                    *)
OneField ==
  /\ {LF, CR, TAB, NUL, "/"} \cap reader.raw = {}
  /\ at = "line" => ~reader.escape

(* parse.c:160: the reader's text is the line on which the name begins,     *)
(* without the ends that are more than MAX_LINE_LEN away from the start of  *)
(* the name, and up to the first carriage return or NUL.  That it is this   *)
(* line is the code's choice; the documentation and the expected outputs    *)
(* want another one, see KindLineShown.                                     *)
ReadsBack ==
  at = "line" =>
    LET o == name.start
        near(k) == IF k <= o THEN o < k + MAX_LINE_LEN ELSE k <= o + MAX_LINE_LEN
    IN reader.text = Shown({k \in LineOf(o) : near(k)})

(* parse.c:14: a file is skipped exactly if one of its lines is over        *)
(* MAX_SRC_LINE_LEN characters, wherever the line is.                       *)
LongLinesSkipped ==
  at # "count" =>
    (at = "skipped" <=>
       \E k \in 0..Len(src) : /\ k + MAX_SRC_LINE_LEN < Len(src)
                              /\ \A j \in 1..(MAX_SRC_LINE_LEN + 1) : src[k + j] # LF)

(* docs/ARCHITECTURE.md:168-169: the pattern is the "escaped source line of *)
(* the kind node"; the expected outputs agree (typescript.ts.tags:40 has    *)
(* the line of the class for a method).  The code shows the line of the     *)
(* name, and cuts that.                                                     *)
KindLineShown == at = "line" => reader.text = Shown(LineOf(name.kind))
===============================================================================
