------------------------------- MODULE Discover -------------------------------
(***************************************************************************)
(* How main finds the files: enqueue_path of src/discover.c with the stack *)
(* of src/strstack.c, called for each path of the command line or for ".". *)
(*                                                                         *)
(* The file system is a tree of nodes; a node is the sequence of names on  *)
(* the way to it from the root of the tree.  What the program handles is a *)
(* path as it is spelled, the sequence of its components (the first one is *)
(* empty if it starts at the root of the system), with the node to which   *)
(* the system follows it.  Others may create and remove the nodes in       *)
(* Changing while main walks the tree, so each look at one of these may or *)
(* may not find it; one that is of several kinds is replaced by something  *)
(* else meanwhile, so each look may find it of another kind.  readdir      *)
(* lists a directory in any order, and with MayFail any lstat, opendir or  *)
(* allocation may fail.                                                    *)
(***************************************************************************)
EXTENDS Naturals, SequencesExt

CONSTANTS
  Dirs, Regular, Links,   \* the nodes, by kind
  Changing,               \* those that may come, go or be replaced during the walk
  Cwd,                    \* the working directory
  Named,                  \* names with an extension in EXT_LANG
  IGNORED_FILES,          \* component names that are ignored
  Roots,                  \* the arguments: Seq([path, node])
  MayFail

Nodes == Dirs \cup Regular \cup Links
Dot == <<".">>
Args == IF Roots = <<>> THEN <<[path |-> Dot, node |-> Cwd]>> ELSE Roots
Names == UNION {ToSet(p) : p \in Nodes \cup {<<".">>, Cwd}}
           \cup UNION {ToSet(Roots[i].path) \cup ToSet(Roots[i].node) : i \in DOMAIN Roots}

ASSUME DiscoverAssumption ==
  /\ "." \notin IGNORED_FILES
  /\ MayFail \in BOOLEAN
  /\ Nodes \subseteq Seq(Names) /\ IsFiniteSet(Nodes)
  /\ (Regular \cap Dirs) \cup (Regular \cap Links) \cup (Dirs \cap Links) \subseteq Changing
  /\ \A p \in Nodes : \A i \in DOMAIN p : p[i] # "."
  /\ \A p \in Nodes : \A k \in 0..(Len(p) - 1) : SubSeq(p, 1, k) \in Dirs
  /\ \A p \in Nodes : \A k \in 0..(Len(p) - 1) : SubSeq(p, 1, k) \in Changing => p \in Changing
  /\ Cwd \in Seq(Names)
  /\ Roots \in Seq([path : Seq(Names) \ {<<>>}, node : Seq(Names)])

VARIABLES
  todo,      \* arguments not yet walked, the current one first
  stack,     \* StrStack: paths owned by enqueue_path
  put,       \* paths handed to the work queue, in order
  missed     \* history: something failed

vars == <<todo, stack, put, missed>>

Init ==
  /\ todo = Args
  /\ \/ stack = <<Head(todo)>> /\ missed = FALSE
     \/ MayFail /\ stack = <<>> /\ missed = TRUE
  /\ put = <<>>

-------------------------------------------------------------------------------
(* Mistakes that are easy to make in this code.  The specification uses     *)
(* none of them; substituted for the definition named in the comment, each  *)
(* breaks a property below.                                                 *)
LastOnly(e) == Last(e.path) \in IGNORED_FILES                        \* for IsIgnored
KeepDot(e, n) == [path |-> Append(e.path, n), node |-> Append(e.node, n)]  \* for Child

-------------------------------------------------------------------------------
(* is_ignored: some whole component, but for ".", is an ignored name.       *)
IsIgnored(e) == \E i \in DOMAIN e.path : e.path[i] # "." /\ e.path[i] \in IGNORED_FILES

(* find_extension and ext_to_lang know the name.                            *)
Wanted(e) == Last(e.path) \in Named

(* How the path of an entry is spelled: "." leaves no "./" prefix.          *)
Child(e, n) ==
  [path |-> IF e.path = Dot THEN <<n>> ELSE Append(e.path, n), node |-> Append(e.node, n)]

(* What readdir gives, but for "." and "..".                                *)
Entries(e) == {Child(e, Last(q)) : q \in {q \in Nodes \ {<<>>} : Front(q) = e.node}}

Top == Last(stack)
Visit == stack # <<>> /\ UNCHANGED todo
Discard == stack' = Front(stack)
Pushed(order) == Front(stack) \o order

(* enqueue_path returned; the next argument, whose strdup or push may fail. *)
NextRoot ==
  /\ stack = <<>> /\ todo # <<>>
  /\ todo' = Tail(todo)
  /\ \/ stack' = (IF Tail(todo) = <<>> THEN <<>> ELSE <<todo[2]>>) /\ UNCHANGED missed
     \/ MayFail /\ Tail(todo) # <<>> /\ stack' = <<>> /\ missed' = TRUE
  /\ UNCHANGED put

Ignore ==
  /\ Visit /\ IsIgnored(Top)
  /\ Discard
  /\ UNCHANGED <<put, missed>>

(* lstat or opendir failed, or there is no such file, or no longer.         *)
Fail ==
  /\ Visit /\ ~IsIgnored(Top)
  /\ IF Top.node \in Nodes \ Changing
     THEN MayFail /\ missed' = TRUE
     ELSE UNCHANGED missed
  /\ Discard
  /\ UNCHANGED put

(* Every entry that is there is pushed, in the order readdir gives; an      *)
(* allocation that fails loses one entry and goes on.                       *)
ListDir ==
  /\ Visit /\ ~IsIgnored(Top) /\ Top.node \in Dirs
  /\ \E kept \in SUBSET Entries(Top) :
       LET lost == {e \in Entries(Top) \ kept : e.node \notin Changing} IN
       /\ lost = {} \/ MayFail
       /\ \E order \in SetToSeqs(kept) : stack' = Pushed(order)
       /\ missed' = (missed \/ lost # {})
  /\ UNCHANGED put

(* A regular file goes to the queue, which owns the path from then on, or   *)
(* is dropped for its name.                                                 *)
TakeFile ==
  /\ Visit /\ ~IsIgnored(Top) /\ Top.node \in Regular
  /\ put' = IF Wanted(Top) THEN Append(put, Top) ELSE put
  /\ Discard
  /\ UNCHANGED missed

(* lstat does not follow links.                                             *)
DropOther ==
  /\ Visit /\ ~IsIgnored(Top) /\ Top.node \in Links
  /\ Discard
  /\ UNCHANGED <<put, missed>>

Finished == todo = <<>> /\ UNCHANGED vars

Next == NextRoot \/ Ignore \/ Fail \/ ListDir \/ TakeFile \/ DropOther \/ Finished
Spec == Init /\ [][Next]_vars

-------------------------------------------------------------------------------
(* Properties.                                                              *)

(* How a node q at or below the argument r is spelled when r is walked.     *)
Rest(r, q) == SubSeq(q, Len(r.node) + 1, Len(q))
Spell(r, q) == (IF r.path = Dot /\ q # r.node THEN <<>> ELSE r.path) \o Rest(r, q)
Under(r, q) == [path |-> Spell(r, q), node |-> q]

(* The files that should be found under r: those below it with a known      *)
(* extension and no ignored component anywhere in the spelled path.         *)
Expected(r) ==
  {e \in {Under(r, q) : q \in {q \in Regular : IsPrefix(r.node, q)}} :
     Wanted(e) /\ \A i \in DOMAIN e.path : e.path[i] \notin IGNORED_FILES}

Found(e) == Cardinality({i \in DOMAIN put : put[i] = e})
Due(e, n) == Cardinality({i \in 1..n : e \in Expected(Args[i])})
Walked == Len(Args) - Len(todo)
Begun == IF todo = <<>> THEN Walked ELSE Walked + 1

(* At every moment each path that was put is due under an argument already  *)
(* begun, and was put at most once for each such argument.                  *)
PutRight == \A e \in ToSet(put) : Found(e) <= Due(e, Begun)

(* When the walk ends and nothing failed, nothing that is due and was there *)
(* all the time is missing, in whatever order the directories were listed   *)
(* and whatever else came and went.                                         *)
PutComplete ==
  todo = <<>> /\ ~missed =>
    \A i \in DOMAIN Args : \A e \in Expected(Args[i]) :
      e.node \notin Changing => Found(e) = Due(e, Len(Args))
===============================================================================
