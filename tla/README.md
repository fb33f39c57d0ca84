# tsag in TLA+

tsag indexes source trees with tree-sitter and writes a sorted tags file. This
directory holds TLA+ specifications of its parts, the TLC configurations that
check them on small instances, and proofs checked by TLAPS. References such as
`lang.c:190` are to `src/` of the repository. `PROJECT.json` lists components,
runs, mutants, the map from definitions to source lines, findings, hazards and
theorems.

## The program

One process: `main`, N worker threads and one merge thread, connected by two
queues.

| part | code | state | operations | correct when |
|---|---|---|---|---|
| options and resources | options.c, main.c, the constructors | `Options`, the parser directory, `jobs`, what is acquired | getopt, strtol, acquire, release | every path releases what it acquired, once; arrays are large enough |
| discovery | discover.c, strstack.c | a stack of paths | ignore, stat, list, take | puts the files due, once per argument, and nothing else |
| queue | ioqueue.c | ring buffer (`buf head tail count`), `closed`, a mutex, two condition variables | put, get, close | a bounded FIFO; nobody sleeps beside work; NULL only when closed and drained |
| language cache | lang.c | `entries[]`, `loading[]`, a mutex, a condition variable | get (hit, wait, refuse, mark and load, publish), free | one load of a language at a time; pointers handed out stay right; nothing leaks; every get returns |
| line collection | parse.c, linevec.c | the source, a Dedup table per file, a LineVec per worker | read, claim, push, replace, track; cut, escape, print a line | one line per name, that of the highest pattern; other files' lines untouched; a pattern that reads back as the line |
| pipeline | main.c, worker.c, merge.c | threads, both queues, LineVecs, the output | create, enqueue, close, join, free; worker loop; collect and write | sorted output of all that was collected whatever the schedule; ends; frees only what nobody uses |
| k-way merge | merge.c, heap.c, linevec.c | LineVecs, heap of batch positions | sort, uniq, push, pop | heap order; sorted output; nothing lost |
| embedded queries | queries.h | data | - | not modelled |
| tools, corpus | tools/, corpus/ | - | - | not part of the program |

Interaction: `main` walks the paths and *puts* each file on the work queue
(512 slots); workers *get* files, ask the shared language cache for the
grammar, and collect lines in a private LineVec; when the work queue is closed
and drained a worker sorts its LineVec and *puts* it on the merge queue (N
slots); `main` *joins* the workers and closes the merge queue; the merge thread
then writes everything.

What is hard: wake-ups of single sleepers, wrap-around, close against put;
loads without the lock; failing threads and failing initialisation; the order
in which batches arrive; a table that remembers absolute positions in a vector
that outlives it; a file system that changes during the walk; a dozen clean-up
paths; writes whose failure nobody looks at. The hazards in `PROJECT.json` list
each with its line and the properties that would catch it.

## Modules

    TagsFile             what a run promises the reader of its output
    Tsag                 main, workers, merge thread over two BoundedQueues;
                         implements TagsFile
    Tsag_proofs          theorems about Tsag, and that it implements TagsFile
    BoundedQueue         what a queue promises
    IoQueue              src/ioqueue.c; implements BoundedQueue
    IoQueue_proofs       theorems about IoQueue
    LangCache            src/lang.c
    LangCache_proofs     theorems about LangCache
    ParseFile            one worker's files: reading, match loop, Dedup, LineVec
    ParseFile_proofs     theorems about ParseFile
    TagLine              from a match to the text of its line
    TagLine_proofs       theorems about TagLine
    KWayMerge            line_vec_sort, line_vec_uniq, the heap and the merge loop
    KWayMerge_proofs     theorems about KWayMerge
    Discover             the walk
    Discover_proofs      theorems about Discover
    Startup              options, and what main acquires and releases
    Startup_proofs       theorems about Startup
    MC_*                 constants for TLC that a .cfg cannot write, symmetry

How they fit together:

                    TagsFile
                       |  implemented by
    Startup  <->     Tsag     -- Put of paths: Discover
                    /  |  \
       BoundedQueue x2 |   Write: KWayMerge
             |         |
          IoQueue    Parse: ParseFile (lines: TagLine), LangCache

`Tsag` uses two instances of `BoundedQueue`; that the code's queue implements
`BoundedQueue` is checked by run `queue` and proved in `IoQueue_proofs`, so
`Tsag` need not repeat the ring buffer. One `Parse` step of `Tsag` stands for
`lang_cache_get` and the match loop, which `LangCache` and `ParseFile` have in
full; its one-step choice of the least line in `Write` is justified by
`KWayMerge`. `Startup` covers main before the first thread and after the last.

### Granularity

All shared fields of the queue and of the cache are accessed with the mutex
held. The code from taking the mutex to releasing it, or to sleeping in
`pthread_cond_wait`, is therefore one action, and a thread that contends for
the mutex is `ready` (queue) or `scan` (cache). Which of the contenders goes
next, which sleeper a signal wakes, and whether a wait returns without a signal
are left open. Code that runs without a lock on private data is one action per
call, or a few where failures between its steps are told apart.

### BoundedQueue and IoQueue

`Put`, `Get`, `GetNull` and `Close` of `BoundedQueue` are the visible effects
of the three functions. `IoQueue` has `PutSleep`/`PutStore` for the two
branches of `io_queue_put`, `GetSleep`/`GetNull`/`GetTake` for those of
`io_queue_get`, `Close`, the arrival of a thread (`Call`) and a bounded number
of spurious wake-ups. The refinement mapping reads the contents off the ring:
`Contents[i] = buf[(head + i - 1) % Cap]`. The variable `early`, chosen at the
start, says whether the closer closes after the puts, as main does, or at any
time, as main's error paths do; properties of the orderly case name it.

### LangCache

`Get` is a request, `Hit`, `Wait`, `Refuse` and `Mark` the four ways out of the
locked scan, `Load` is `load_lang` with failure after any of its steps and its
cleanup, `Publish` the second locked section with what follows it. The parts a
load acquires (the LangEntry on the heap, library, query, name) are tracked
until released; `Publish` copies a loaded LangEntry into `entries[]` and frees
it, or releases all of it; `Free` is `lang_cache_free`. Names are pointers to literals in `loading[]` and are
compared by spelling in `entries[]`, as in the code. That equal literals are
one object (`LiteralsMerged`) is not assumed: compilers see to it within a
file, the C standard does not, and the properties that need it name it.
`tried` is a history variable. Out of memory in the first malloc of
`load_lang`, which the code does not check, is left out.

### Tsag and TagsFile

`mpc` follows main through creating threads, enqueuing, closing, joining,
freeing and returning. If a worker cannot be created main goes to `abort`
without joining; if the merge thread cannot, it closes the work queue, joins
and goes to `giveUp`. Once main has returned nothing runs. A worker may end for
lack of a parser or cursor (`dead`) or drain for lack of a LineVec (`drain`,
`drop`). `Parse` collects the lines of a file: all of them; with
`MemoryMayFail` any part of them, as the match loop drops single lines
(parse.c:236, 240-243) and still returns 0; or none, when the file is gone, too
large, generated, or its language does not load. `collected[f]` keeps which. A
line is its rank in `strcmp` order; a LineVec is the set of its lines, which is
what sort and uniq leave of it (`KWayMerge`).

Output is buffered. `output` is what was given to `fputs`, `flushed` how many of
these lines have left the buffer, `lost` those that are not, or not whole, in
the file because the flush that should have written them failed (`FlushFails`,
with `WriteMayFail`). The merge thread ignores the result of `fputs`, so an
earlier flush that fails changes nothing else; `fclose` sees the last flush,
and its failure is the exit status unless the output is stdout (`CloseOut`).
`TagsFile` promises what is left under that: only collected lines are written,
in order, none more often than there are files with it, none while files are
still indexed; and success means that every collected line was given to
`fputs` and, unless the output is stdout, that none that was still in the buffer
was lost. It does not mean that the file is complete: a line for which there
was no memory, and a line that an earlier flush lost, may be missing, which is
what the code does.

### ParseFile

Tree-sitter's matches may come in any order and number. A line is (file, range
of the name, pattern). `New`, `Better`, `Duplicate`, `NoLine` and `NoRoom` are
the outcomes of `dedup_claim`, of making the line and of storing it; `cap` and
`strings` are the LineVec's capacity and the lines it owns. `held` counts for
the descriptor, the stream, the buffer and the tree how often each was acquired
more than released, so that a release too many shows as well as one too few.
`ReadFile` has one alternative for each exit of `read_file`: `Failing` names
the call that fails, `Acquired` what there is by then, `CleanUp` the calls made
before NULL is returned (`close`, or `fclose`, which closes the descriptor
too). The assertion `replace index out of range` of
`linevec.c:37` is part of `TableAgrees`.

### TagLine

A source is a sequence of characters, one of each class the code tells apart,
an offset the number of characters before it. Each turn of a loop is a step:
`CountChar` (`has_long_line`), `Back` and `Forward` (`line_range`), `Measure`
and `Fill` (the two loops of `escape_pattern`), with `Refuse` for every way in
which `make_line` gives NULL. `Read` is the reader of what `make_line` prints,
who takes a backslash with the character behind it. `Match` gives the name and
where the node captured as `@kind.*` begins, which has the name in it and may
begin lines before it; `make_line` looks at the start of the name only.
`ReadsBack` says what the code does with that; `KindLineShown` is what the
documentation says, and fails.

### KWayMerge

Indices start at 1. A worker makes its lines in any order (`Push`), `Sort` is
`line_vec_sort`, and each turn of the loop of `line_vec_uniq` is a step (`Uniq`)
on the array itself: `read` and `kept` are its r and w, and an item that is not
`Repeated` moves down over one that was looked at already. `Receive` is the
LineVec coming through the merge queue. Each call
of the two heapify functions, which call themselves last, is a step: `hole` is
the index they were called with, `Rises` and `Sinks` their conditions. Ties go
to the left child, as in the code. `Populate` and `Write` push, `Pop` pops, and
none of them happens before the heapify of the one before is through.

### Discover

A path is the sequence of its components as spelled, with the node it leads to
(`Cwd` for "."); the way to a node consists of directories, and nobody can
change one of these without changing what is below it. Directories are listed
in any order; lstat, opendir, strdup, malloc and the stack's realloc may fail.
The nodes in `Changing` may come and go at any time, so that each look at one
may or may not find it. One that is of two kinds is replaced meanwhile: lstat
may see either, and what it saw as a directory may fail to open.

### Startup

One action per option, per acquisition and per failure. `MainUndo`,
`LangCacheNewUndo` and `IoQueueNewUndo` are the release lists of the error
paths, in the code's order, down to the buffer, mutex and two condition
variables of each queue; `misused` records a release of something not owned,
or of something whose holder is gone. Sizes wrap as in C (`Product`, `ToInt`)
with small widths. `MaxThreads <= INT_MAX` (no system runs more threads
than an int counts) and that `sysconf` returns -1 or a long are the only
assumptions on the system.

## Runs

Every instance is small enough for TLC to finish in seconds to half a minute;
the bounds are the constants of the .cfg files.

| run | what it checks | bounds, and why they do |
|---|---|---|
| queue | no item lost or repeated, no lost wake-up, NULL means drained, refinement of the FIFO, getters are released, all calls return | 2 putters, 3 getters, 2 slots, 4 items, 1 spurious wake-up, close after the puts or at any time: slots are used twice, sleepers on both sides, more sleepers than signals |
| cache | single flight, stable pointers, no leaks, no stranded waiters, refused only when really full, each get returns | 3 workers, 4 files, 3 languages for 2 slots, 2 extensions of one language as h and cc: a load loses the last slot |
| cache_load_once | finding, see below | 2 languages, 2 requests each |
| pipeline | implements TagsFile; capacity of the merge queue, no early writes, no early free, paths; it ends | 3 workers, any of which may fail to start or to initialise, failing merge thread, failing writes, 3 files of which two have the same lines, work queue of 1 slot; any line may find no memory, any flush may fail, to a file or to stdout |
| pipeline_abort | finding, see below | 2 workers |
| line_collection | one line per name with the highest pattern, table and vector agree, earlier files untouched, nothing stays acquired | 3 names and one that does not print, 3 patterns (so that one may lie between two), a table of 2, a LineVec that grows from 1, 2 files, 4 matches a file, failing allocations: overflow, replacement and stale positions occur |
| merge_heap | the heap is in order when heapify is through and fits its array; the output is sorted at every moment and complete in the end | up to 5 LineVecs of up to 3 lines out of 3, made in any order: three levels of heap, so that entries rise and sink by two, equal lines within and across batches, empty batches; the same line three times in a LineVec |
| merge_expected | finding, see below | 1 worker, 4 lines |
| discover_walk | nothing wrong or twice is put; everything due is, if it stayed and nothing failed | a tree with an ignored directory, a similar name, links; repeated, overlapping, ignored and missing arguments; three nodes that come and go, one of them a directory or a link, one a file or a directory |
| tag_line | the buffer fits, the pattern is one field and reads back as what was kept of the name's line; long lines are skipped | all sources up to 4 characters over 9 classes, and up to 6 over 3; lines are cut at 2 and skipped over 5 |
| tag_line_doc | finding, see below | all sources up to 4 characters, of newlines and letters |
| startup | every exit releases everything, each queue's mutex and condition variables included, once and in order; thread and batch arrays fit | long of 6 bits, int of 4, size_t of 6, words of 4: products wrap, jobs does not fit an int |

Deadlock is checked where the system should always be able to go on or has
ended in a `Finished` state. It is off in `line_collection`, where the model
stops at its bound on files; in `queue`, where an early close leaves putters
asleep (the code has no wake-up for putters on close, and no caller puts after
it); and in `pipeline` and `pipeline_abort`, where main really hangs if every
worker died before more files than the queue holds were put; `Terminates` says
so.

Each property of a passing run has a mutant: a plausible mistake, defined
beside the operator it replaces, with which TLC finds the property violated;
`OwnsOnlyLines` and `ImplementsTagsFile` have two.

### Fairness

Weak fairness of each thread's own steps: the operating system runs threads
that can run, and a mutex that is free again and again is obtained in the end.
The sections are short and no thread spins, so a contender that is never
served would have to be passed over for ever although the number of calls is
finite. Nothing is assumed of spurious wake-ups, of which sleeper is woken, or
of failures.

## Findings

- `pipeline_abort` (main.c:90-98): if a later worker cannot be created, the
  queues and the cache are freed while earlier workers run. `FreedAfterJoin`
  shows that this is the only path on which it happens.
- `cache_load_once` (lang.c:203): failed loads are repeated; the architecture
  document says "load once".
- `tag_line_doc` (parse.c:160): the pattern is the line on which the name
  begins, cut at MAX_LINE_LEN beside it. The architecture document (:168-169)
  says "escaped source line of the kind node", and the expected outputs have
  that line: `typescript.ts.tags:40` gives `/^class MyClass {$/` for the method
  `am`, which stands at `typescript.ts:74`. Where the line is cut, what is left
  still stands between `^` and `$`, where no line matches it.
- `merge_expected` (linevec.c:48): lines are sorted as whole lines by `strcmp`,
  and equal lines of a worker become one. The architecture document (:178)
  compares the output with `corpus/expected/*.tags`, which are in another order
  (for example `typescript.ts.tags:55-56`, `cpp.cpp.tags:3-4`) and repeat lines
  of one file (`typescript.ts.tags:62-63`, `78-80`, `96-97`). The run has a
  worker make four of these lines: no order of making them gives the expected
  text. `OutputSorted` and `OutputComplete` say what the code does; whoever
  holds the expected files to be right has to change the code, and then these
  two properties. The document adds that nothing runs the comparison.

Also noted: `assert(base_dir)` (main.c:28) checks the environment and is compiled
out of the release build; a size that wraps at main.c:76 is caught only because
an earlier `calloc` refuses the same product; the architecture document (:129)
says "substring match on .git, build" where `is_ignored` (discover.c:28)
compares whole components, as the comment at discover.c:18 says.

## Proofs

Every theorem holds for all values of the constants that satisfy the module's
assumption. Each module's argument is an inductive invariant stronger than the
properties; TLC checked its parts on the runs above before they were proved.

`IoQueue_proofs`, for every capacity and every finite set of threads:

- `TypeCorrect`: it needs `PutsLeft` (a putter that is still in the game has an
  item left), without which `nput` could outgrow its range.
- `WakeupsNotLost`: the key lemma `SignalCounts` says that a signal takes one
  ready thread from the caller's side and gives the other side one, unless
  nobody sleeps there: the number of ready getters never falls below the
  number of items while a getter sleeps.
- `RingCorrect`: `tail = (head + count) % Cap`. `SlotArithmetic` collects the
  modular arithmetic and reduces every index by at most one turn (`WrapOnce`).
- `ExactlyOnceHolds`: the items given to getters and those in the slots between
  head and tail are what was put, and none is at two of these places
  (`OnceOnly`); so the set of places the property counts has one member.
- `NullTellsDrained`: `CloseOrder` ties `closed` to the closer's progress and
  that to the putters'.
- `Refinement`: `Spec => ImplementsBoundedQueue`. `StoreAppends` and
  `TakeRemovesOldest` show what put and get do to `Contents`; all other steps
  leave the ring alone.

`LangCache_proofs`, for any workers, extensions, literals and MAX_LANGS:

- `TypeCorrect` and `SingleFlightHolds` go together: `loading[]` cannot
  overflow because its members are the distinct wishes of the workers that
  load (`SingleFlight`), and room was seen under the lock. `UnmarkRemoves` is
  the swap with the last element.
- `HeldStaysRightHolds` and `AppendOnlyHolds`: entries are only added at the
  end, so an index that was right stays right.
- `WaitersHaveLoaderHolds`: a waiter's language is in flight, and the end of a
  load wakes all waiters.
- `NothingLeaksHolds`: loads have handles of their own (`Fresh`), so what is
  open belongs to one entry or one worker.
- `RefusedOnlyWhenFullHolds`: a full `loading[]` or `entries[]` and the wish
  itself are MAX_LANGS + 1 different languages (`MoreThan`). This one and part
  of `SingleFlight` hold under `LiteralsMerged`, which they name.

`Tsag_proofs`, for any number of workers and files and whatever may fail:

- `OrderHolds`: where main, the workers and the merge thread can be together.
  `NothingPrintsEarlyHolds` and `FreedAfterJoinHolds` follow from it.
- `BatchesFit`: the LineVecs in the merge queue and in `batches[]` are at most
  as many as workers that are `done`. A worker that is about to put is not
  one of them, so it finds a slot (`OutqNeverFullHolds`) even when nobody
  takes from the queue. With it, `TypeCorrect`.
- `PathsFreedHolds`: a path is in one place only among those to be enqueued,
  the work queue and what each worker took (`NoneTwice`), none gets lost on
  the way (`NoneLost`), and a worker holds at most the one it took last
  (`FreedButLast`). `Feeding` says that a worker that has seen NULL leaves an
  empty queue that nothing is added to any more.

`Tsag_proofs` goes on to `ImplementsTagsFileHolds`, on top of these invariants:

- `Delivered`: the LineVecs collected and those still in the merge queue
  (`Deliveries`) are those of different workers that are done, and such a
  worker has delivered if it has any line. Collecting leaves `Deliveries` alone
  (`CollectMoves`), a put adds one (`PutAdds`).
- `LinesKept`: every line of a worker is of a file it took and was collected
  from there, and every collected line is in some worker's LineVec; a file is
  collected by a worker that took it, once (`Once`). With `NoneTwice` no line
  is in more batches than files have it (`BatchSources`, an injection from
  batches to files), which is what lets a write be one of `TagsFile`.
- `InOrder`: nothing unwritten is less than what was written, and the merge
  thread ends only when nothing is unwritten, so that after the joins every
  collected line is in the output (`AllWritten`). Flushes and their failures are
  steps of `TagsFile` as they are (`FlushFails` in both); exit 0 with a file as
  output is possible only when the last flush lost nothing.

What the theorem does not say: that the file is complete. It says which lines
may be missing after exit 0, see `Tsag and TagsFile` above.

`Startup_proofs`, for every width of the integers: `ThreadsFitHolds` and
`MergeArrayFitsHolds` from `SizedHolds`. The number of jobs is settled before
the first array; `calloc` has refused a product that does not fit before
`malloc` is given the same product, so what `malloc` was given did not wrap;
and there are never more threads than jobs, hence at most `INT_MAX`.
`CleanExitHolds` from `OwnsHolds`, which says for each place of main exactly
what is owned there; the lemmas `MainFrees`, `UndoFrees` and `ListsFree` say
that each release list, taken one release after the other, frees just that and
frees a holder after what it holds. With the widths, `TypeCorrect`.

`KWayMerge_proofs`, for any number of workers, lines and lengths:

- `Invariant`: the entries on the heap and the one in hand (`Standing`) stand for
  all that is not written, one for each batch at most (`Progress`); nothing that
  stands is before what is written (`Merged`); and the heap is in order but at
  `hole` (`InOrder`). `UpOrdered` and `DownOrdered` say what that means while
  an entry rises or sinks: its children are not before its parent either, or
  one exchange would not repair one level (`UpStep`, `DownStep`, `Settled`).
- `HeapOrderHolds`: one entry for a batch, so that the heap never has more than
  N entries (an injection into the batches). `TopLeast` gives `OutputSortedHolds`:
  were an entry less than the top, the first such entry would have a parent
  that is not.
- `InPlace`: what `line_vec_uniq` has kept increases strictly and has the same
  lines as what it has looked at, and what it has not looked at is still in
  place and not less (`UniqEffect`). So a batch increases and has just the
  lines its worker made (`UniqKeeps`).
- `OutputCompleteHolds`: when nothing stands all lines of all batches are
  written, so the entries written with a line and the LineVecs that had it are
  as many (a bijection).

`Discover_proofs`, for every tree (deep or wide, with any names), all arguments
and all sets of ignored and known names, whatever fails, comes or goes:

- `Invariant` counts. `Passed(e)` is how often the walk has passed a place where
  e is due: once for each argument already walked, and for the current one if
  no path on the stack lies on the way to e. `NoneWrong`: e was never put more
  often than that; `NoneMissed`: if nothing failed and e stayed, not less often.
- Two facts make it inductive: no path on the stack lies below another
  (`Apart`), so that a popped path takes away what was below it and no more
  (`PopEffect`), and every path on it is spelled as the argument prescribes
  (`Placed`), so that a file can be reached under one spelling only.
- `WayDown`: what is below a directory is below one of its entries, so listing
  loses nothing; `IgnoredBelow`: what is below an ignored component is ignored,
  so dropping a directory loses nothing due; `ChildIsUnder` is the one about
  "." and its missing "./".
- `PutRightHolds` and `PutCompleteHolds` follow by what is due up to the
  argument reached (`DueCounts`).

`ParseFile_proofs`, for any ranges, patterns and limits, with failures:

- `Inductive`: table and LineVec agree, and each place of `parse_file_lines`
  holds just what it should, once (`HeldAt`). `Taken`, `GivenBack` and
  `CleanedUp` compute what each exit of `read_file` adds to and takes from the
  counts. It gives `TypeCorrect`,
  `TableAgreesHolds`, `NoNameLostHolds`, `OwnsOnlyLinesHolds`, and
  `EarlierFilesKeptHolds` as an action property: the replaced line is always
  one of the current file.
- `KeepsHighestHolds`: while the table has had room it has an entry for just
  the ranges that were offered and for every line of the file (`AllEntered`).
  That it has room is counted: its length is the number of different ranges
  in it (`Counted`), and the new one is not among those offered before.

`TagLine_proofs`, for every source over any characters and all limits. What a
loop has computed is written as a function of the characters before its
counter, which needs neither a fold nor induction over the source:

- `Offset(k)` is where the k-th character of the line stands in the pattern:
  k - 1 and one more for each earlier character that takes two bytes
  (`OffsetSteps`). `Measure` has counted `Offset(i)`; `Fill` has filled that
  many, each character at its place (`Written`). Both loops stop at the same
  character (`StopsAt`), so `FitsBufferHolds`.
- A reader is at the start of what stands for some character (`Before`) or
  between its two bytes (`Within`), and has the characters before it
  (`TextIs`). With what each escape means (`EscapedIs`) this gives
  `OneFieldHolds`.
- `Spanned`: how far the line has grown, and that a newline or a limit ended
  it. Those are the characters the property asks for (`KeptIs`), and `Through`
  says that the reader has them up to the first carriage return or NUL:
  `ReadsBackHolds`.
- `Counted`: `run` is the distance to the last newline, and no line that ended
  so far was too long: `LongLinesSkippedHolds`.

Only model-checked: liveness and everything that needs fairness (`Completes`,
`CloseReleasesGetters`, `EveryGetReturns`, `Terminates`), which is out of the
prover's reach.

## Not modelled

- queries.h: the texts of tree-sitter queries, and tree-sitter itself. Any
  match may come in any order.
- The tools and the corpus: not part of the program.
- `load_lang` without memory for its entry (unchecked malloc, lang.c:37): the
  process crashes. A thread's stack, on which merge.c puts two arrays.
- Failures of `pthread_join`, of mutex and condition variable operations: main
  joins only threads it created and has not joined, and the others cannot fail
  as the code uses them.
- Wording of messages, and names of files that contain a tab or newline.

## Plan

Done, in this order: BoundedQueue, IoQueue and its proofs, LangCache, Tsag,
ParseFile, KWayMerge, Discover; then the tags file as an abstract
specification, failing writes, reading a file, the text of a line, changing
trees, Startup, the proofs about LangCache, Tsag, ParseFile, Startup, KWayMerge,
Discover and TagLine, and the refinement of TagsFile. Every safety property
that a run checks is now a theorem; when the code changes, the module named in
the map comes first, then its run, then its proof.
