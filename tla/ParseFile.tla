------------------------------ MODULE ParseFile ------------------------------
(***************************************************************************)
(* How a worker collects lines: parse_file_lines and read_file of          *)
(* src/parse.c with the Dedup table and the LineVec of src/linevec.c.      *)
(* The LineVec lives as long as the worker and holds the lines of all its  *)
(* files; the table is fresh for each file and remembers, by absolute      *)
(* index into the LineVec, where the line of a byte range went.            *)
(*                                                                         *)
(* Tree-sitter decides which matches come and in which order, so any match *)
(* may come next.  A line is abstracted to what tells lines apart: file,   *)
(* byte range of the name, and pattern that matched.  Nothing here is      *)
(* shared, so what a file needs before its first match is a few actions    *)
(* with the failures between them, not one action per system call.         *)
(***************************************************************************)
EXTENDS Integers, Sequences, FiniteSets

CONSTANTS
  Ranges,                \* byte ranges of names
  Printable,             \* those whose bytes pass name_is_printable
  Patterns,              \* pattern indices of the query
  NFiles,                \* bound: files this worker parses
  DEDUP_CAP,
  MAX_MATCHES_PER_FILE,
  VecCap,                \* capacity worker.c gives to line_vec_new
  MayFail                \* TRUE: malloc and realloc may fail

ASSUME ParseFileAssumption ==
  /\ Printable \in SUBSET Ranges
  /\ Patterns \in SUBSET Nat
  /\ VecCap \in Nat \ {0}
  /\ NFiles \in Nat /\ DEDUP_CAP \in Nat /\ MAX_MATCHES_PER_FILE \in Nat
  /\ MayFail \in BOOLEAN

VARIABLES
  file,       \* how many files have been opened; 0 before the first
  at,         \* where parse_file_lines stands, "idle" between files
  held,       \* how often it has acquired each resource more than released
  examined,   \* matches looked at in this file
  seen,       \* the Dedup table: Seq([range, pattern, idx])
  vec,        \* the LineVec: Seq([file, range, pattern])
  cap,        \* its capacity
  strings,    \* how many lines are allocated
  offered,    \* history: complete printable matches of this file
  failed      \* history: an allocation has failed in this file

lines == <<vec, cap, strings>>
vars == <<file, at, held, examined, seen, lines, offered, failed>>

Resources == {"fd", "FILE", "buf", "tree"}
Nothing == [x \in Resources |-> 0]

Init ==
  /\ file = 0 /\ at = "idle" /\ held = Nothing /\ examined = 0
  /\ seen = <<>> /\ vec = <<>> /\ cap = VecCap /\ strings = 0
  /\ offered = {} /\ failed = FALSE

-------------------------------------------------------------------------------
(* Mistakes that are easy to make in this code.  The specification uses     *)
(* none of them; substituted for the definition named in the comment, each  *)
(* breaks a property below.                                                 *)
LowerWins(p, e) == p >= e.pattern                       \* for Loses
KeepTable == seen                                       \* for FreshTable
SlotFromZero == Len(vec)                                \* for NextSlot
OneMoreEntry == Len(seen) <= DEDUP_CAP                  \* for TableHasRoom
KeepReplaced == strings + 1                             \* for AfterReplace
CloseAgain(x) == IF x = "malloc" THEN <<{"fd", "FILE"}, {"fd"}>>        \* for CleanUp
                 ELSE IF x = "open" THEN <<>> ELSE <<{"fd"}>>

-------------------------------------------------------------------------------
Entry(r) == {k \in DOMAIN seen : seen[k].range = r}     \* at most one
Loses(p, e) == p <= e.pattern
NextSlot == Len(vec) + 1
TableHasRoom == Len(seen) < DEDUP_CAP
FreshTable == <<>>

Line(r, p) == [file |-> file, range |-> r, pattern |-> p]

-------------------------------------------------------------------------------
(* parse_file_lines asks for the language, which may be unavailable. *)
StartFile ==
  /\ at = "idle" /\ file < NFiles
  /\ file' = file + 1
  /\ at' \in {"idle", "read"}
  /\ examined' = 0 /\ seen' = FreshTable
  /\ offered' = {} /\ failed' = FALSE
  /\ UNCHANGED <<held, lines>>

(* The calls release what is given for each; fclose closes fd as well.      *)
Exchange(acquired, calls) ==
  held' = [x \in Resources |-> held[x] + (IF x \in acquired THEN 1 ELSE 0)
                                       - Cardinality({k \in DOMAIN calls : x \in calls[k]})]

Close == {"fd"}
Fclose == {"fd", "FILE"}

(* read_file: the step that fails (the file may be irregular or too large   *)
(* by then), what has been acquired, and what is called before NULL is      *)
(* returned.                                                                *)
Failing == {"open", "fstat", "size", "fdopen", "malloc"}
Acquired(x) == CASE x = "open" -> {} [] x = "malloc" -> {"fd", "FILE"} [] OTHER -> {"fd"}
CleanUp(x) == CASE x = "open" -> <<>> [] x = "malloc" -> <<Fclose>> [] OTHER -> <<Close>>

(* Or the bytes that are there are read, as many as fstat saw or fewer.     *)
ReadFile ==
  /\ at = "read"
  /\ \/ /\ \E x \in Failing : Exchange(Acquired(x), CleanUp(x))
        /\ at' = "idle"
     \/ /\ Exchange({"fd", "FILE", "buf"}, <<Fclose>>)
        /\ at' = "source"
  /\ UNCHANGED <<file, examined, seen, lines, offered, failed>>

(* A line is too long, or tree-sitter gives no tree: the source is freed.   *)
Skip ==
  /\ at = "source"
  /\ Exchange({}, <<{"buf"}>>)
  /\ at' = "idle"
  /\ UNCHANGED <<file, examined, seen, lines, offered, failed>>

StartMatching ==
  /\ at = "source"
  /\ Exchange({"tree"}, <<>>)
  /\ at' = "match"
  /\ UNCHANGED <<file, examined, seen, lines, offered, failed>>

-------------------------------------------------------------------------------
(* The LineVec.  Push doubles a full array; it fails when realloc does. *)
VecFull == Len(vec) = cap

Push(line) ==
  /\ vec' = Append(vec, line)
  /\ cap' = IF VecFull THEN 2 * cap ELSE cap
  /\ strings' = strings + 1

(* The new line is made before the old one is freed. *)
AfterReplace == (strings + 1) - 1

Replace(idx, line) ==
  /\ vec' = [vec EXCEPT ![idx] = line]
  /\ strings' = AfterReplace
  /\ UNCHANGED cap

-------------------------------------------------------------------------------
(* The match loop. *)
Examine ==
  /\ at = "match" /\ examined < MAX_MATCHES_PER_FILE
  /\ examined' = examined + 1

(* A match without @name or @kind. *)
Incomplete ==
  /\ Examine
  /\ UNCHANGED <<file, at, held, seen, lines, offered, failed>>

(* dedup_claim turns the match down: the range has a line of this or a      *)
(* later pattern already.                                                   *)
Duplicate(r, p) ==
  /\ Examine
  /\ \E k \in Entry(r) : Loses(p, seen[k])
  /\ offered' = IF r \in Printable THEN offered \cup {<<r, p>>} ELSE offered
  /\ UNCHANGED <<file, at, held, seen, lines, failed>>

(* dedup_claim accepts a range it does not know: make the line, append it,  *)
(* enter it in the table while the table has room.                          *)
New(r, p) ==
  /\ Examine
  /\ Entry(r) = {} /\ r \in Printable
  /\ Push(Line(r, p))
  /\ seen' = IF TableHasRoom
             THEN Append(seen, [range |-> r, pattern |-> p, idx |-> NextSlot])
             ELSE seen
  /\ offered' = offered \cup {<<r, p>>}
  /\ UNCHANGED <<file, at, held, failed>>

(* dedup_claim accepts a higher pattern for a range it knows: the table     *)
(* takes the pattern first, then the line is made and replaces the old one. *)
Better(r, p) ==
  /\ Examine
  /\ \E k \in Entry(r) :
       /\ ~Loses(p, seen[k])
       /\ seen' = [seen EXCEPT ![k].pattern = p]
       /\ Replace(seen[k].idx, Line(r, p))
  /\ offered' = offered \cup {<<r, p>>}
  /\ UNCHANGED <<file, at, held, failed>>

(* make_line gives no line for an accepted match: the name is not           *)
(* printable, or an allocation failed.  The claim stands.                   *)
NoLine(r, p) ==
  /\ Examine
  /\ r \notin Printable \/ MayFail
  /\ \/ Entry(r) = {} /\ UNCHANGED seen
     \/ \E k \in Entry(r) :
          /\ ~Loses(p, seen[k])
          /\ seen' = [seen EXCEPT ![k].pattern = p]
  /\ failed' = (failed \/ r \in Printable)
  /\ offered' = IF r \in Printable THEN offered \cup {<<r, p>>} ELSE offered
  /\ UNCHANGED <<file, at, held, lines>>

(* The line was made and line_vec_push could not grow the array: the line   *)
(* is freed and the range is not entered in the table.                      *)
NoRoom(r, p) ==
  /\ Examine
  /\ Entry(r) = {} /\ r \in Printable
  /\ VecFull /\ MayFail
  /\ failed' = TRUE
  /\ offered' = offered \cup {<<r, p>>}
  /\ UNCHANGED <<file, at, held, seen, lines>>

(* No match is left, or there are more than MAX_MATCHES_PER_FILE.           *)
CloseFile ==
  /\ at = "match"
  /\ at' = "idle"
  /\ Exchange({}, <<{"tree"}, {"buf"}>>)
  /\ UNCHANGED <<file, examined, seen, lines, offered, failed>>

Match(r, p) == Duplicate(r, p) \/ New(r, p) \/ Better(r, p) \/ NoLine(r, p) \/ NoRoom(r, p)

Next ==
  \/ StartFile \/ ReadFile \/ Skip \/ StartMatching \/ CloseFile
  \/ Incomplete
  \/ \E r \in Ranges, p \in Patterns : Match(r, p)

Spec == Init /\ [][Next]_vars

-------------------------------------------------------------------------------
(* Properties.                                                              *)

(* Every variable keeps its range; the table never outgrows its array.      *)
TypeOK ==
  /\ file \in 0..NFiles /\ failed \in BOOLEAN
  /\ at \in {"idle", "read", "source", "match"}
  /\ held \in [Resources -> Int]
  /\ examined \in 0..MAX_MATCHES_PER_FILE
  /\ seen \in Seq([range : Ranges, pattern : Patterns, idx : Nat])
  /\ Len(seen) <= DEDUP_CAP
  /\ vec \in Seq([file : 1..NFiles, range : Printable, pattern : Patterns])
  /\ cap \in Nat /\ Len(vec) <= cap /\ strings \in Nat
  /\ offered \in SUBSET (Printable \X Patterns)

(* Every entry of the table points at the line of its range, which is a     *)
(* line of the file being parsed (so linevec.c's assertion that the replace *)
(* index is in range holds), and no two entries are about the same range.   *)
TableAgrees ==
  /\ \A k \in DOMAIN seen :
       /\ seen[k].idx \in DOMAIN vec
       /\ vec[seen[k].idx].file = file
       /\ vec[seen[k].idx].range = seen[k].range
       /\ vec[seen[k].idx].pattern <= seen[k].pattern
       /\ ~failed => vec[seen[k].idx].pattern = seen[k].pattern
  /\ \A j, k \in DOMAIN seen : seen[j].range = seen[k].range => j = k

(* docs/ARCHITECTURE.md: "same byte range keeps HIGHER pattern_index".      *)
(* While the table has had room for every range and allocations succeeded,  *)
(* each range that was offered has exactly one line, that of the highest    *)
(* pattern offered.                                                         *)
KeepsHighest ==
  ~failed /\ Cardinality({o[1] : o \in offered}) <= DEDUP_CAP =>
    \A r \in Ranges :
      LET mine == {i \in DOMAIN vec : vec[i].file = file /\ vec[i].range = r}
          offers == {o \in offered : o[1] = r} IN
      /\ Cardinality(mine) = (IF offers = {} THEN 0 ELSE 1)
      /\ \A i \in mine : \A o \in offers : o[2] <= vec[i].pattern

(* Between files a worker has released what it acquired for the file, each  *)
(* once, whichever step failed; and every line that is allocated is in the  *)
(* LineVec: none leaks when it is replaced or cannot be stored.             *)
OwnsOnlyLines ==
  /\ at = "idle" => held = Nothing
  /\ strings = Len(vec)

(* The lines of earlier files stay as they are: replacing by index never    *)
(* reaches below the file's first line, and no line is ever removed here.   *)
EarlierFilesKept ==
  [][/\ Len(vec') >= Len(vec)
     /\ \A i \in DOMAIN vec : vec'[i] # vec[i] =>
          /\ vec[i].file = file
          /\ vec'[i].range = vec[i].range
          /\ vec'[i].pattern > vec[i].pattern]_vec

(* With every complete match of a printable name, the file gets a line for  *)
(* the name, unless an allocation failed.                                   *)
NoNameLost ==
  ~failed => \A o \in offered :
    \E i \in DOMAIN vec : vec[i].file = file /\ vec[i].range = o[1]
===============================================================================
