# irregex: a TLA+ development

This directory models the stateful core of irregex: the Zig engine's resident
session and parallel walk (under `src/src/`), the Python binding, and the Python
programs that build, release, measure, attest and triage. The models are checked
with TLC on small instances and the central invariants are proved with TLAPS. `PROJECT.json` lists components, runs, the
mapping from every definition to the lines it models, the hazards the properties
are aimed at, and the theorems.

## 1. The system

irregex is a search engine toolkit: regular-expression kernels, the corpus they
are run over, and two runtimes that put the two together.

| part | state | operations | talks to |
|---|---|---|---|
| `exec/session/reconcile/seqlock.zig` freshness seqlock | `active`, `seq`, `clean`, `poison` (atomics) | `markDirty`, `markDoubtForever`, `arm`, `disarm`, `skip`, `enter`, `commit`, `provenClean` | written by watcher threads and by queries, read by both |
| `reconcile/dirty.zig` dirty log | set of paths, `doubt`, `exact` | `note`, `noteDoubt`, `drain`, `armExact`, `disarmExact` | filled by the watcher, drained by the barrier |
| `reconcile/reconcile.zig`, `delta.zig` barrier | cursor `fresh_ns`, `full_pass_done`, overlay, index generation | `barrier`, `maybeReload`, `full`, `scoped`, `one`, `applySubtree`, `applyGones`, extras | runs under the write lease of the session's `Ward` |
| `reconcile/annals.zig` | per-path change ledger, horizon, blindness | `note`, `since`, `epoch`, `lapse`, `goBlind`, `poison` | filled by the watcher, asked by clients that hold an answer |
| `warm/` resident session | base corpus, overlay, scope | `init`, `beginRead`, `armWatcher`, `disarmWatcher` | owns all of the above |
| `watch/` front end and three backends (inotify, kqueue, Windows) | kernel streams, watch index, coverage, budget | `start`, `held`, `shed`, `stop`, `flushSync`, loop thread | the kernel on one side, the session on the other |
| `answer/keep.zig` held answers | LRU map key -> (epoch, bytes) | `recall`, `retain`, `surrender`, `clear` | pool workers, the memory warden |
| `kernel/math/lease.zig` | `Latch`, `Ward` | `read`, `write`, `downgrade`, `readReconciled`, `reconcileHeld` | every session query |
| `exec/cold/engine/swarm/` | work queue, crew, ordered sink | fused parallel walk, read and match | the cold runtime |
| `corpus/fresh`, `corpus/index` | persisted artifacts, amend journal, build anchor | build, amend, load, sweep | file system; both runtimes |
| `corpus/tree`, `scope`, `read` | walk policy, ignore rules, charter | walk, admit, decode | everything that opens a file |
| `kernel/regex`, `scan`, `query`, `slate`, `math`, `rank`, `codex` | compiled programs, lazy DFA caches, pools | compile, match, prefilter, rank | pure except for caches |
| `surface/` | C ABI handles, CLI | create, use, free | bindings |
| `bindings/python/irgx` | pattern cache, a handle per thread, open walks, trees, sieves, engines per directory, loaded libraries | the verbs of `re`, the lexer, analytic questions, sieves, the self-index | the C ABI, and the CLI where a library is missing |
| `bindings/*/scripts`, `hatch_build.py`, `tools/`, `quality/parity` | `dist/`, committed archives and headers, a crate at a registry | build, vendor, mint, check, upload, recover | compilers, git, registries |
| `bench/certificate`, `bench/apparatus/provenance.py` | scratch and published directories, the mint ledger, manifests | mint, gate, publish, verify | a corpus other people edit |
| `research/crest/mutation`, `bench/rungs/crest/evidence`, `research/crest/evidence` | private copies, packages, receipts, a sealed directory | capture, mutate, stage, package, promote, seal, verify | a checkout and an output directory other people write to |
| `.github/scripts/triage.py` | a forge's labels | sync, triage | people, two forges' event queues |

What is hard in it: a resident session answers from memory while other processes
edit the tree. It may do so only while a watcher thread, a dirty log, a clock
cursor and a lock-free witness together prove that memory and tree agree. Those
four are updated by different threads, each step can fail, and every failure must
fall on the side of walking again.

The cold runtime is the other place where threads meet: a work-stealing walk
whose workers list directories, search files and write to one output, and whose
crew may grow while it runs. There the questions are whether every directory is
visited, whether everybody stops, and what happens when the reader hangs up.

The Python side is hard for other reasons. A `Pattern` promises to be shareable
between threads although the engine's compiled handle is not; a handle may be
closed by four different hands while an iterator over it sleeps; the engine
counts bytes and the caller characters; an answer crosses the C seam in two calls
and its failure in a third; the same question may be answered in process or by a
command line. And the tools read trees, directories and label sets that somebody
else is writing, file by file, and must say afterwards which instant they saw.

## 2. Modules

| module | models | extends |
|---|---|---|
| `Seqlock` | `reconcile/seqlock.zig`, every atomic access a step | |
| `SeqlockProofs` | theorems about `Seqlock` | `Seqlock`, TLAPS |
| `Reconcile` (`MCReconcile`) | tree, inotify queue, dirty log, barrier, overlay, lease and answers of a resident session | |
| `ReconcileProofs` | theorems about `Reconcile` | `Reconcile`, TLAPS |
| `Annals` | change ledger and what the inotify records do to it | |
| `Keep` (`MCKeep`) | held answers, recalled and retained by concurrent workers | `Annals` |
| `KeepProofs` | theorems about `Annals` and `Keep` | `Keep`, TLAPS |
| `Swarm` (`MCSwarm`), `Traversal` | queue, workers, crew and sink of the parallel walk, and the abstract promise it implements | `Swarm` instantiates `Traversal` |
| `SwarmProofs` | theorems about `Swarm` | `Swarm`, FiniteSetTheorems, TLAPS |
| `Pool` | `_pool.py`, the cache of `__init__.py`: Patterns, threads, handles | |
| `Lend` | `_shape.py`, `_walk.py`, `_tree.py`: handles closed and iterated | |
| `Loader`, `Once` | `runtime/loader.py`, and the abstract promise it implements | `Loader` instantiates `Once` |
| `Verbs` | `_engine.py`, `_pattern.py`, `_match.py`: search and rewriting against `re` | |
| `Captures` | `_match.py`: the accessors of a Match and `lastindex` | |
| `Lexer` | `_munch.py`, `_anchored.py` | |
| `Ladder` | `runtime/analytic.py`: engines per directory, `Rows` | |
| `Abi`, `Seam` | `_abi.py`: the library and its planes; statuses, faults, two-pass answers (`_set.py`, `_needles.py`, `_shape.py`) | |
| `Template` | `_replace.py` | |
| `Decode` | `runtime/decode.py`, `cold.py` | |
| `Shell` | `runtime/shell.py` | |
| `Asking` | `runtime/params.py`, `_flags.py`, `request.py`, and the engine's reading of them | |
| `Narrow` | `_sieve.py`, `_literals.py` with `surface/ffi/sieve.zig` | |
| `Codex` | `_codex.py` with `kernel/codex/codex.zig` | |
| `Grades` | `contract/grades.py` | |
| `Wheels` | `build_wheels.py`, `hatch_build.py`, `accel/toolchain.py` | |
| `Release` | `mint_artifacts.py`, `archives.py`, both `vendor_libraries.py`, the parity checks | |
| `Crate` | `recover_crate.py` | |
| `Certificate` | `bench/certificate`: mint, gates, ledger | |
| `Provenance` | `bench/apparatus/provenance.py` | |
| `Snapshot`, `Mutants` | `research/crest/mutation` | |
| `Staging`, `Evidence` | `bench/rungs/crest/evidence` | |
| `Publication` | `research/crest/evidence` | |
| `Triage` | `.github/scripts/triage.py` | |
| `MCPython` | all Python models side by side, for one run | the 25 above and `Triage` |
| `BindingProofs` | the binding's models: inductive invariants of `Pool`, `Loader` (with its refinement), `Captures`, `Lend`, `Ladder`, `Seam`, `Shell`, `Narrow`, `Abi`, `Decode`, `Grades` | those, TLAPS |
| `ProgramProofs` | the same for `Triage`, `Certificate`, `Provenance`, `Wheels`, `Release`, `Crate` | those, TLAPS |
| `EvidenceProofs` | the same for `Snapshot`, `Mutants`, `Staging`, `Evidence`, `Publication` | those, TLAPS |
| `PythonProofs` | the properties of the run `python`, from the three above | `MCPython` and the three |

### Seqlock

Three actors: the watch side (`markDirty`, `markDoubtForever`, serialised by the
watcher's `read_lock`), one query thread (the barrier runs under the exclusive
lease), and a controller that arms and sheds. The variables `active`, `seq`,
`clean`, `poison` are the four atomics; `watch`, `query` and `control` say
between which two accesses each actor stands. `Bump`/`ClearClean` are the two
stores of `markDirty`, `CommitEligible`/`CommitSeq`/`CommitStore` the two reads
and the store of `commit`. The counter wraps at `SeqSize`. History variables
count the changes there have been (`changes`), those a pass accounts for
(`covered`), and the events that fall inside a pass (`laps`) or inside `commit`
itself (`slip`).

### Reconcile

A file's content is a number unique to the write that made it; `stamp` is the
later of its two clocks; `hidden` is what the ignore rules exclude. `mirror` is
base corpus and overlay together. A write posts its events inside the syscall;
the queue may overflow. The loop thread and a query's `flushSync` drain the queue
under `read_lock` (`reader`), one record per step, and mark the session dirty at
the end of the batch. A query goes through `flush`, `check` (read lease),
`upgrade` (write lease), `gate`, `load`, `enter`, `drain`, then a scoped pass (one
path per step) or a full one (a walk, then one file per step, then tombstones),
then `commit`, `downgrade` and `answer`. Every early return of the source is a
disjunct: a walk error, the budget ceiling, a failed allocation. Memory failures
inside scoping are enabled by `AllocFails`. The seqlock is taken at its promise
here: `raced` forbids `clean`. What it keeps of that promise is the subject of
module `Seqlock`; the two are composed by that assumption, not by a refinement
(see the plan).

Four history variables say what an answer may be excused for, and no guard reads
them. `since` collects, for each query under way, what every file has held since it
arrived. `overtaken` has the files whose clock the cursor passed while the mirror
held older bytes; `dropped` those a declining pass had drained; `returned` those a
scoped pass took for gone and then found back (`applyGones` leaves the mirror as it
was). Reading a file takes it out of all three.

### Annals and Keep

`Annals` has the ledger's fields under their own names (`prefix`, `floor_ns`,
`doubt`, `blind`, `stamp`, `map`). A record leaves the queue and is noted in one
step, since `read_lock` hides what lies between. Evicting takes the median
instant of the map, as the source sorts it out. `RecordFails` is every allocation
of `note` and `evictOldest` failing, with the exact number of times the stamp
moves. `MoveDir` renames a directory of files in or out: one record, about the
directory. `carried` remembers the files that last changed that way.

`Keep` adds the map of held answers, the byte count and the recency order, and
workers that flush, read the epoch, recall, or compute and offer. An answer is
what it found in each file. The keep's operations are one step each (they run
under its mutex); a recalled answer is being written from then until `Serve`. The
worker's protocol and the client that computes are not in the package (the
daemon lives elsewhere): they are modelled from the contract in `keep.zig`,
`annals.zig` and `vouch_test.zig`, and are marked external. `Quiescent` is the
daemon's promise to arm and shed only with no connection open; a client that is
computing has none.

### Swarm

A directory is its name under the root it was reached from, so that the tree is a
forest (`SwarmAssumption`): a task of the queue is one arrival at a directory, and
overlapping roots arrive twice. Its files are one emit when it holds a match. Every
access to an atomic outside a lock is a step; the queue's mutex is a variable
where it is held over such a step (parking re-reads its predicate under it), and
so is the sink's (an abort wakes the parked workers while holding it). `live` is
the count of unfinished directories, `local` a worker's stack, `items` the shared
queue, `pending` what a worker holds back until the elision oracle has loaded.
`Unlisted` directories cannot be opened, or break off at any point of their
listing. Muster is a process of its own, because its spawn loop runs beside the
workers it has already started.

`Traversal` is the walk as whoever started it sees it, with no worker, queue or
counter: a directory is opened (once, meeting its children once) and done with, a
match is printed, a write is refused, the walk returns. The refinement maps what is
still to do to everything queued, stacked or in a hand (`Outstanding`), and a
directory is opened when its worker has listed it, before it is counted.

### The Python binding

*Pool.* A compile, and every call into the engine, runs without the interpreter
lock and so is a begin and an end with other threads between; what happens under
the lock (a dictionary operation, parking a handle in the thread's own slot) is
one step. Threads start and end, the cache evicts and is purged, the collector
drops a Pattern nobody reaches. `pats` are the Patterns, `handles` the live engine
handles, each of the thread and the Pattern it was compiled for.

*Lend* lets `close`, the end of a `with`, the collector and an exhausted iterator
race over one handle, with iterators that stop between two pulls. What a pull has
left in its buffer lies in the handle's arena: resumed while the handle stands, an
iterator yields it (`owned` counts what it took so), and resumed after the close it
yields whatever is in the freed memory, any entry or none. *Loader* splits
`load` where another thread can come in: the unlocked look, the lock, the second
look, the opening, the release. Its abstract side is `Once`: asking is one
indivisible step, the first question about a name settles it, and the work is
done at most once. The refinement maps the loader's memo to what is settled, and
an asker that has its answer to one that was told.

*Verbs* takes a pattern as the set of spans it may match in a text (chosen, not
computed) and follows `search`, `match`, `fullmatch`, `finditer`, `findall`, `sub`
and `split` from characters to bytes and back over a window of spans; the
reference is `re`'s definition over the same spans. *Lexer*, *Template*, *Codex*
and *Grades* do the same for their algorithms: one step asks, another answers, and
the property compares the answer with a reference definition; a template's letters
include one that is no escape, which both refuse. *Asking* follows a question across
the seam, an ordinal the contract does not name being refused and an unknown `by`
setting no bit. *Decode* follows a row: natively it is a value at every position, a
zero where nothing was measured, and the bits of a presence mask; from the CLI it is
an object with keys left out; the tags are those of the contract, `str` and `bool`
taking whatever comes. *Seam* follows a failure. *Shell* and
*Ladder* are the two tiers an analytic question may be answered on. In *Ladder* a
call may be inside an engine, or rows open, while the cache closes it: the call may
then make anything, and rows that were made keep their own arena. *Captures* enters and leaves groups in
any order their nesting allows, keeps the mark `re` keeps beside the spans the
engine reports, and then asks the Match anything in any order, with a capture arm
that may refuse the pattern or disagree. *Narrow* has a
tree that changes, an index rebuilt in several steps, a sieve that stays open over
both, and a searcher that opens only the documents the sieve lists. An edit stamps
its document with the clock; a directory renamed into the tree brings documents with
whatever clocks they had (`CarryIn`), which the walk beside the sieve cannot date.

### The programs around it

Each of these models one program whose environment moves while it works: an edit
(`Provenance`, `Snapshot`), a rival run (`Staging`, `Evidence`), a writer that
renames over a directory being captured (`Publication`), a failed step (`Wheels`,
`Release`, `Mutants`, `Certificate`), a lost answer (`Crate`), people and cancelled
jobs (`Triage`). The mint's shell script runs without `-e`: in `Certificate` a copy
that fails leaves an older file, none, or part of one, and the script goes on to the
gate and the ledger; the files and the sidecars are copied one at a time. What
`Evidence` can harm in a kept package is a file's content, a run together with its
csv, what nothing reads of a csv, and the date, the commit or a hash in the manifest;
the monograph is then written again and the manifest sealed again from what it says.
Hashes are the content they are of; what a compiler, a test or
a registry says is chosen.

### MCPython

The Python models share no state, and TLC is asked about them in one run: `part` is
chosen at the start and only that model moves, the variables of the others being
`Idle`. The pool and the loader always start in their initial state, so that
what is proved of them is said of the very definitions the run checks. Each
property of the run names its part, and is the conjunction of what that model
promises.

## 3. Runs

Bounds are constants of the modules: `MaxChanges`, `MaxClock`, `KernelCap`,
`SeqSize`, the caps. They are as small as they can be with every branch still
taken: two changes overflow a queue of one or two, three are what a file takes to
be edited, to go and to come back (two files at once are in `reconcile_cursor`, any
number in the theorems), three files overfill a ledger of two, four instants separate a change before, at and after an eviction.

| run | question | instance, distinct states |
|---|---|---|
| `seqlock` | is the clean bit a witness, across arming, shedding, doubt, and the counter's wrap; does the fast path reopen | `SeqSize` 4, six changes (more than a lap), 77 thousand |
| `reconcile` | read-your-writes when the backend promises no exact paths (every pass full), and exactly which files can be stale when it does | 1 file, 1 query, three changes (the third only while watched), 1.5M |
| `reconcile_two` | the same with two queries racing for lease and queue | 1 file, 2 queries, 2.2M |
| `swarm_walk` | completeness, no early leaver | 4 directories, 3 workers, 2.7M |
| `swarm_hire` | growing the crew against closing it | 7 roots, third worker hired, 0.9M |
| `swarm_live` | termination; `Swarm` implements `Traversal` | 4 directories, 3 workers, 0.5M |
| `annals_since` | is a vouched `since` complete | 3 files, cap 2, 3.5M |
| `keep` | is a recalled answer the corpus of one instant since the question, and does the byte count hold | 2 files, 2 workers, 2 questions, 3 sizes, 1.6M |
| `python` | the twenty-seven Python models, one property for each or for a few that belong together; `Loader` implements `Once` | 1.12M |
| `reconcile_cursor`, `python_limit`, `narrow_current` | each checks one sentence of the source against the code, and fails: section 5 | |

Symmetry is used over queries, workers, questions, leaf directories and files
where no constant tells them apart, and never in a run with a liveness property.
`reconcile` and `reconcile_two` leave out of their fingerprints (`VIEW`) a race outside a
pass, the names beside a doubt, the clock of a file that is not there and what a
pass that commits, or gave way to a walk, has used up; `keep` the ledger's history and instants, what a
doubted ledger has noted, and the instants of a worker that is not going to be served
a held answer: no later step and no property of the run reads them. In `keep` the clock
moves only when a watcher arms; `annals_since` is where it matters.
`CHECK_DEADLOCK FALSE` stands in the runs of `Annals` and `Keep`, where a
quiet tree with its clock at the bound may simply stop, and in those of the Python
models, where a program that has answered ends. The three runs of `Swarm`
check for deadlock: a walk whose workers are all asleep is one, so a lost wake-up
shows in `swarm_walk` and `swarm_hire` too.

What each part of `python` is given: two threads, two sources, a cache of one and
two Patterns (one eviction while the other thread is inside the engine); two
handles with one iterator over three entries in batches of two; two askers, two
faces of which one has drifted, two registrations; texts of up to three
characters, some of two bytes, with a window of two spans and limits up to it
(a limit above it is `python_limit`); one engine and two openings over two
directories; templates of up to five characters; texts of four bytes and
words of three for the self-index, at the sampling rates 0, 1, 2 and one
beyond the text; every ordinal score around the four bars of a channel; three build
targets and an earlier run; two platforms, two mirrors and one move of the header;
two uploads; two mints over three corpora, with one failed copy; two files with two edits; two tracked
files and an untracked one with two moves; two mutants sharing a test; three
archives (one that fits, one with a member too many, one too large) and two rival
writes; two commits, moves and damages, and an output directory that may hold an earlier run; six evidence files and one foreign write;
two taxonomies, one of them citing an undeclared label; three groups, one inside
another, entered three times over two characters. Each bound is the least at
which every action of the part fires and its mutant is caught.

**Fairness.** `Seqlock`'s `FairSpec` assumes that a `markDirty` that has begun finishes
and that the query thread keeps going (both are straight-line code in scheduled
threads), that queries keep being asked (otherwise nobody would publish), and
that a pass which is again and again about to end does not decline every time:
strong fairness of `PassDone`, since walk errors are the environment's choice.
No event is ever owed. `Swarm`'s assumes weak fairness of each worker and of
the mustering thread: they are operating-system threads. Lock acquisition needs
no more, as no lock is held for ever.

Every property of a passing run has a mutant, an operator beside the definition
it replaces (`... Mutant: ...`), that breaks that property.

## 4. Proofs

`SeqlockProofs` proves for every counter width and every number of changes:

* `SeqlockTypeOK`;
* `SeqlockWitnessSound`: when no `markDirty` is half done, a clean bit means that
  the last pass accounts for every change, unless that pass was fooled (an event
  inside `commit`, or a whole lap of the counter);
* `SeqlockDoubtShutsWitness`: after `markDoubtForever` the bit is down for good.

None of these is inductive alone. The invariant adds what the arm and disarm
orders keep (`StreamInv`), how far the counter has moved from the pass's snapshot
(`PassInv`, with `Advanced` as modular arithmetic), and that doubt raised while a
commit is under way is still to be counted or has been (`DoubtInv`). Assumptions:
`SeqSize` is a positive natural, `MaxChanges` a natural.

`KeepProofs` proves `AnnalsSinceComplete` for any finite set of files, any cap
and any queue, given that the wall clock can be read when a watcher arms
(`~ClockFails`; without it the property is false, see section 5). The inductive
invariant `ChangesAccounted` follows a change from the syscall to the ledger:
while watched, armed and undoubted, a file changed at or after the floor is still
queued, lost to a flagged overflow, or noted at or after its change. Eviction
keeps it because the floor passes everything evicted; arming because it passes
everything so far. `LedgerTyped` supplies that no instant lies in the future.

It also proves, for any files, workers, questions, sizes and ceilings:

* `KeepAnswersCurrent`: a recalled answer is the whole corpus as it was at one
  instant since the question, given that no directory is renamed (`~DirMoves`:
  a moved directory's record never advances the epoch, section 5);
* `KeepRunsAnnals`: the ledger under the keep takes only steps of `AnnalsSpec`;
* `KeepBytesBalanced`: the byte count is the bytes held, each answer is within the
  entry ceiling, the recency list names each held answer once, and the keep is over
  its ceiling only while it holds one answer.

An answer is right at three places far apart (where it is computed, where it is
retained, where it is recalled), and the epoch is all that ties them together. The
invariant says what an epoch stands for: what was read under it is the corpus
whenever the kernel's queue is empty, for as long as the epoch stands
(`WorkFaithful`, `HeldFaithful`), since a change that spoils it is either still
queued or has moved the stamp; without coverage there is no epoch and nothing is held
under one (`NothingUncovered`). `HeldExpected` and `OfferExpected` carry this to the
asker: an answer held under the epoch it reads after its flush, or one another worker
is about to retain under that epoch, is among the instants it may answer with.

The sum of the sizes is written as the cardinality of a set of numbered bytes
(`BytesOf`), since a fold can only be reasoned about by an induction over data: what
an insertion adds and an eviction takes away then follows from the theorems on
finite sets (`BytesAdd`, `BytesOne`, `BytesSame`). The eviction loop is the least
number of evictions after which the keep is within bounds; `BytesInv` carries the
typing of held sizes that the three facts need.

`ReconcileProofs` proves for any finite set of files, any queries, caps and bounds:

* `TypeCorrect`;
* `AnswersFresh`: while no pass is scoped, whatever an answer says of a file was
  true at an instant since the query arrived;
* `StalenessAccounted`: with scoped passes, an answer is stale only about a file that
  is overtaken, dropped or returned;
* `CleanCurrent`: a clean session with nothing left to report mirrors the tree, save
  for the files overtaken or dropped.

All three speak of moments (an answer, a quiet queue) that a pass of many steps
leads up to, so the invariant has to say for every step in between where the news
of a change is. Per file, the mirror is current or the news is on its way: in the
kernel's queue, in the log, in the batch a pass has drained, or spent in one of the
three histories (`PresentStage`; `PresentBase` where no pass is scoped). Per query and
file, the mirror is an instant the query may answer with, or the news that it is
not is ahead of the query, never behind it (`QueryStage`, `QueryBase`, `Served`). Under
them lie who may hold a lease or the queue (`Locks`), what a pass is entitled to
by being scoped (`PassScoped`: covered, eligible, undoubted), that what was noted but
not marked is still somebody's (`LogMarked`), and the account of the cursor
(`CursorSound`, `ClocksPast`): a file held with older bytes whose clock is behind
`fresh_ns` is overtaken, and one the running pass is about to leave behind is
unlisted or still to be read. `Stages` splits the
pass by program counter; the lemmas `...Kept`, one for each conjunct, then have one
case for each group of actions.

The attempt found what the runs at two changes had not: a file hidden by the rules
can be overtaken too, and a file that is edited, goes and comes back during one
scoped pass keeps its old bytes until the next. Both are in the model now, and the
run has the third change.

`SwarmProofs` proves for any forest, any set of matches, unreadable directories,
any number of seats and workers, with or without the loader, a reader that hangs up
and failing allocations:

* `SwarmTypeCorrect`: the types, and that the three counters stay in range;
* `NobodyQuitsEarly`: a worker leaves an uncancelled walk only when no directory is
  queued, stacked or in anybody's hand;
* `WalkIsComplete`: such a walk has listed every directory the tree leads to, and has
  printed and counted every match once;
* `EveryThreadJoined`, and `NoWriteAfterARefusal` (`OneBrokenWrite`, which no run lists:
  `swarm_live` checks it as part of the refinement);
* `WalkIsOneTraversal`, the refinement `Spec => Promise!TraversalSpec`.

`LeaveMeansDone` rests on `live = 0` and nothing else, so the proof is about what
`live` counts: every directory outstanding, but those a worker has just found and
not yet noted (`LiveCounts`). At zero there is none of the latter either, since their
finder's own directory is still counted (`ZeroMeansDone`): `noteDiscovered` before
`done` is what the walk's end rests on. Under it lie that a directory is in one place
(`InOnePlace`), that it is seen once the one above it is opened and not before
(`FromAbove`), and what a worker owes for the directory in its hand at each of its
labels (`Duty`, `Postures`). `OnceEach` follows a match from the listing to the
output, through what is held back; `Begun` gives the refinement its last
case: a walk that returns uncancelled with something opened has a worker that saw its
end. `Seating` says who has a seat while the muster, a
hire and the closing of the roster race. The lemma `Flow` sorts every step by what
it does with directories (`Took`, `Balked`, `Listed`, `Noted`, `Finished`, `Gave`,
or nothing); the conjuncts about them are then proved over these seven, and a
step's effect on every other worker once (`Bystanders`). TLC had checked both
invariants on the instances of `keep`, `swarm_walk` and `swarm_hire` first.

`BindingProofs` proves about the pool, for any set of threads and sources, any cache size and any
number of Patterns and handles:

* `PoolHandleConfined`: the handle a thread is inside the engine with is alive and
  was compiled by that thread for that Pattern;
* `PoolHandlesParked`: every live handle is the one parked for its Pattern in its
  own live thread, and every parked address is alive, so none leaks;
* `PoolCacheSound`: the cache never exceeds its size, names a source at most once,
  and holds compiled Patterns only;
* `PoolTyped`.

`HandleConfined` says nothing of a thread that is not inside the engine, and so is
not inductive. `PoolInv` adds what a thread holds at each point of a call
(`CallsAccounted`, `HandleInHand`), that parked and live handles correspond
(`HandlesParked`, `ParkedAtHome`), that a Pattern being made is known to its maker
alone (`MadeInPrivate`) and that what the program keeps exists (`RetainedExist`):
the collector is then seen to take only Patterns no thread is using.

About the loader it proves `LoaderPairHonest` and `LoaderIsAtomic`, the refinement
`LoaderSpec => Promise!OnceSpec`, for any askers and faces. Its invariant says that
at most one thread is past the lock and the lock is its (`OneInside`), and what a
thread on its way knows of the memo (`OnTheWay`): the second look is what makes
the opening happen once. The mapping keeps every step but the one that settles a
name, and the one that reads a settled name, a stutter.

About a Match it proves `CapturesLastIndex` for any number of groups, any nesting and
any match: `lastindex`, worked out from where the spans end, is the group `re` left
last unless that group matched nothing. The invariant says that open groups are
nested in the order of their numbers (`Nested`), that nothing lies ahead of the
position (`Behind`) and that what ended since a group was entered has a higher
number (`InsideIsHigher`); so when a group that is not empty is left, whatever
else ends there is inside it (`LastEndsLast`), and ties go to the lower number.

The other models of the Python code are proved part by part, each of its own `Init`
and `Next` (`...InitInv`, `...StepInv`, `...InvImplies`), and then of the specification
the run `python` checks. `PythonProofs` needs one lemma for that, `OnePartMoves`: a
step of `MCPython` is a step of the part chosen at the start, or leaves that
part's variables alone. From it, for every value of every constant:

| theorem | what its inductive invariant adds |
|---|---|
| `HandlesAreLent` | `LendInv`: what a generator has yielded and what it still holds are the entries between where it began and where the engine's cursor is, as long as nobody disturbed it and the handle stands; after the close, how many it took before (`InStep`) |
| `LibraryIsHonest` | `AbiInv`: which library was bound and who declared each symbol, with `PairHonest` of the loader |
| `LadderIsHonest` | `LadderInv`: an engine of the cache stands for its key and is open (`EnginesTrue`), the cache is the engines opened last, in order (`CacheIsLatest`), so that an engine is closed only when a cache-full was opened after it, and what each caller has found out on its way down (`OnItsWay`) |
| `SeamIsHonest`, `ShellIsHonest` | the two promises are inductive with the type of a count, and with where the running binary came from |
| `NarrowingMissesNothing` | `NarrowInv`: an index is of an instant that has passed (`Snapped`), and no document that answers a question under way is beyond the reading list, unless a directory brought it since the build (`Shows`) |
| `RowsAreDecodedAlike` | `DecInv`: the class of a schema is decided once and stays; `GradesInv`: scores are of the channel that is asked |
| `LabelsDoSettle` | `TriInv`: what is on a thread and what is still to be written make up what its facts earn, at every step of a run (`PullJob`, `IssueJob`); a sync spares what the robot or a hand may put on (`SyncSpares`) |
| `AttestationsAreTrue` | `CertInv`: a mint's number is its own (`MintsKnown`), what is published so far is the scratch bundle's unless a copy failed (`CopiedSoFar`), the bundle of a row is whole wherever it lies and no copy is missing (`RecordedWhole`, `LedgerWhole`). `ProvInv`: the versions one read sees go upward (`ReadUpward`), so equal looks mean one version |
| `ReleasesAreWhole` | `WheelsInv`: what is owed at every moment of a build (`WheelsOwed`). `ReleaseInv`: a green check holds of the tree as it stands (`GreenHolds`). `CrateInv`: what the registry took is what was inspected |
| `MutationsAreTrue` | `SnapInv`: one instant lies between the first pass of hashing and the second (`OneInstant`). `MutInv`: the copy holds a mutation only while its test runs (`OneMutation`), and a row that tells of a kill stems from a run that told the difference, through merging and tampering (`FairRows`, `FairReport`) |
| `EvidenceIsTrue` | `StgInv`: one state of the directory held every artifact that may still pass its last look (`HeldTogether`). `EviInv`: an output is of a tree that stood while it was measured (`Measured`), and however a package is harmed, sealed again or written anew, it is accepted only as the evidence that was published (`EviKept`). `PubInv`: see below |

`EnvelopeBinds` of `Publication` is the one with the longest way from the code to the
promise. A capture opens and reads entry after entry and looks at all of them again
at the end, in reverse; the envelope is to be of one instant. That instant is when
the closing look begins. What carries the argument is that an entry which would
pass its look *now* agrees with what stood *then* (`LookedAgain`): every write moves a
stamp that only grows, so an entry that passes later was not touched in between, and the
directory, looked at last, has by its own stamp the names it was listed with
(`ClosingLook`). `StgInv` makes the same argument for three files hashed one after
the other.

**Assumptions.** Each module names its own, and TLC evaluates all of them for the
instances of the runs. Proving needed more of them than checking had; all say what the
constants are in the code: labels the robot owns are no labels kept for hands and
are declared (`TriageAssumption`, the committed taxonomy); the matrix of targets is not
empty and the word for "no target" is not in it (`WheelsAssumption`); the walk of a
checkout and the catalogue are sequences (`SnapshotAssumption`, `MutantsAssumption`);
there is a corpus report and it is no other file of the envelope
(`PublicationAssumption`); there is a directory (`LadderAssumption`); a batch is of at
least one entry, and the words for a reference that holds nothing are the name of no
variable of the program (`LendAssumption`).

**What stays with TLC.** Liveness and whatever needs fairness: `QuietReopens` of
`Seqlock`, `Terminates` of `Swarm`. What a recursion computes for every input, since an
induction over data is out of the provers' reach: `TemplatesAreRe`, `LexingIsRe` and
`CodexIsItsText`, compared with their references on bounded inputs. `SearchIsRe` and
`RewriteIsRe`: the window and its limits are a sequential algorithm over a list of
spans of any length, the same induction again. `QuestionsKept`: bits packed into a word and taken out
again, arithmetic on powers of two the provers do not have. Everything else a passing run
checks is a theorem of this development, `SinceComplete` and `HeldAnswerCurrent` under
the condition named with them, which the run has too.

**What the proofs changed.** Four attempts failed for a reason.

* `IdentityOfOneInstant` was false in its first form for a tree that moves more often
  than the run's `MaxTreeMoves` of two: it had the missing files too missing at the one
  instant, but a file that comes and goes can be away whenever it is looked
  for. It now says of each missing file that it was missing at some instant.
* `Staging` numbered a benchmark's writes from a hundred, and a rival's hundredth write
  would have passed for this one's. The two are now told apart by sign.
* `Publication` compared the names of the directory at the closing look; the source
  compares its stamps (`snapshot.py`, `_assert_stable`). With two foreign writes, a file
  created and removed between two looks went by unseen in the model, though not
  in the code; the run's bound of one had hidden it. The directory has its
  stamp now (`dirStamp`). The property has been checked once with two writes.
* Alternatives of a `CASE` that overlapped (TLC takes the first, the logic any) have
  become a choice in order.

## 5. Findings

Three runs fail as expected; `PROJECT.json` quotes the sentence each contradicts.
Definitions named below as violated stand in their modules and are listed by no run.

1. `reconcile_cursor`: a scoped pass takes its cursor before it drains, so a write
   older than the cursor whose event is still queued is passed over for good.
2. `python_limit`: a `count` or `maxsplit` above the first window of spans is cut to
   the window.
3. `narrow_current`: without an anchor the reading list is the table as built, and
   a document born since is not on it.

**Observations without a run, in the engine.** The passing properties except these
by name, or a named assumption excludes them:

* one event between `commit`'s re-read and its store is enough to leave the clean
  bit set over an unseen change; `seqlock.zig:53-55` speaks of a full wrap only
  (`WitnessSound` names both ways);
* a path that `delta.resolve` found gone and that is back when `applyGones` looks keeps
  its old bytes in the overlay for this answer (`reconcile.zig:325`; the event of its
  return is still queued, so the next pass reads it): `returned`;
* a full pass that declines loses the batch it drained (`reconcile.zig:163`, against
  `:176-179`): `StaleOnlyIfPassedOver` names those files;
* directories that move do not advance the epoch (`inotify.zig:261`, against
  `annals.zig:281-282` and `vouch_test.zig:30-31`): `keep` runs without moves,
  `SinceComplete` excepts carried files;
* re-arming when the clock cannot be read keeps the retired floor (`ClockFails`);
* if no worker of a walk can allocate its buffer, the walk returns empty and
  signals no error (`Worked` in `WalkComplete`);
* muster spawns without the lock that hiring takes; should patience run out during
  the spawns, two threads may take one seat (guard of `PatienceSpent`);
* recalled bytes may be freed by another worker while they are written, and
  `surrender` runs inside a failing allocation of a thread that may already be
  inside `retain` (`keep.zig:104`, `:178`; an answer is a value in `Keep`);
* watcher life cycle, not modelled: a session stays armed when the loop thread
  cannot be spawned (`inotify.zig:66`); `stop` closes the descriptor before it
  joins the thread that reads it (`watch.zig:333`); a rename can reach kqueue's
  directory before its old vnode (`kqueue.zig:150`); the ledger's clock may be set
  back (`stamp.zig:22`); `extendCoverage` can lower a floor that an eviction raised
  (`annals.zig:144`).

**In the Python binding.**

* A `Corpus` can be collected while its `Cursor` is open (`CorpusOutlives` of
  `Lend` is violated; `irgx.h:1008`, `_tree.py:224`).
* Iterators of one walk share its cursor. One resumed after `close` raises, but only
  once its buffer is used up: until then it decodes entries lazily
  (`_walk.py:274-275`, `_tree.py:202-203`) from the arena the close has freed
  (`walk.zig:495-503`), where `_shape.py:26-33` promises that borrowed bytes are
  copied before the call that produced them returns (`CopiedAtTheBoundary` of `Lend`
  is violated; `IterationWhole` excepts those entries).
* `lastindex` is 1 for `(a)()` on `'a'` where `re` says 2: the tie goes to the lowest
  number, and the docstring names a lookaround as "the one corner" where the two
  can differ (`_match.py:293-295`). `LastIndexIsRe` excepts it; without the exception
  a run of it stops there (`()()` will do).
* A fifth corpus closes the oldest engine while another thread is inside a call on it
  or has rows of it open (`CursorsFirst` of `Ladder` is violated;
  `analytic.py:363-364`, against `irgx.h:1008`). `EngineStands` has what is left of
  that rule: four others were opened since. What such a call answers is excepted in
  `CorpusRight` and `RowsWhole`. A `chdir` between key and opening files an
  engine under another directory (excepted through `raced`).
* `Scanner.__init__` builds a refused terminal's report from `r.index`, a tuple's
  method (`_anchored.py:203-206`); `fullmatch` from a position with some
  alternatives anchored by `^` may differ from `re` (excepted in `FullIsRe`).
* A face asked for before it is registered is remembered as missing (excepted in
  `PairHonest`). `mixin` after the first row is ignored and `bind` after `mixin`
  drops it.
* `MemoryError` from `check` drops the pattern's index; a `find_all` of needles over
  a growing count truncates; `shell._resolve` remembers a binary that has gone;
  `str.splitlines` splits rows at separators JSON leaves unescaped.
* `to_argv` drops `-C` if either side is set where the engine folds per side
  (`request.py:158-164`), and a `max_depth` of 0.
* The sentinel row the codex docs name (`_codex.py:245`, `surface/ffi/codex.zig:313`)
  is not the one `sais.zig:68` makes; the grades' docstring names two files that do
  not exist.
* While an anchor is re-read at every call, an open sieve keeps the artifacts it
  opened.
* Documents that come in with a renamed directory keep clocks older than the anchor
  and are on no reading list, with an anchor as without (`sweep.zig:157`, `:172-178`;
  `fresh.zig:416-418` says so), although `sieve.zig:41-45` and `:315` promise every
  document of the current tree. `NothingMissed` excepts them.
* A native row whose BOOL or STR value is of another type is not refused: `_coerce`
  takes `bool(value)` and `str(value)` (`decode.py:300-301`). A sweep whose `by` is
  neither `pattern` nor `file` is a sweep without one (`params.py:176-177`).

**In the programs.**

* `Taxonomy.sorts` counts a stale machine-given type label as a classification
  (`UnreadIsMarked` of `Triage` is violated; `triage.py:404-421`); on Forgejo the
  twin issue event shares a pull request's concurrency group.
* The corpus digest is computed over a second read of each file (`DigestOverRows`
  of `Provenance` is violated; `provenance.py:201`). An untracked file that changes
  and changes back escapes the snapshot's looks.
* `accel_shortfall` looks at all of the output directory, earlier runs included
  (`build_wheels.py:277`, `:310`); `reuse_archive` accepts an older export; parity
  strips `#...` before it compares and so never compares `#define`s
  (`quality/parity/check.py:283-285`).
* `ledger.load` skips a torn line and `save` rewrites without it, not atomically;
  the publish gate runs after copying; `record` by hand passes no gate.
* `mint.sh` has no `-e` (line 42) and its copies (253-264) no `|| die`: after a copy
  that failed, the gate may pass over a directory of files of two mints and the ledger
  records it. `ReleaseAttested` excepts such a place until a mint publishes there whole.
* A package of evidence that is accepted need not be the one that was published, file
  for file (`AcceptedAsPublished` of `Evidence` is violated). The csv is compared by
  figures, within tolerances, without its later comments and added columns
  (`verify.py:346-427`), and nothing checks `created_at_utc`; a harmed csv or manifest
  is sealed again with the report (`crest_evidence.py:464-480`). `EvidenceBinds` says
  the rest: every figure, log, source, commit and machine is the published one.
  A benchmark command that exits 0 and writes nothing has an earlier run's files
  packaged for its own (`crest_evidence.py:327-330`; excepted through `foreign`).
* Benchmark outputs are read from a shared path; a tree dirtied and restored is not
  seen; nothing compares the corpus manifest with the staged members.
* After a crash between its two writes `seal` refuses for ever, while `verify` says
  the envelope is missing.

## 6. Not modelled

The matching kernels (bytes, vectors and tables), the index formats, rendering
and request decoding, the serial engine, the Go and Rust bindings and the
vendored libraries. In the modelled parts of the engine: memory reclamation, the
key algebra of `delta.zig` and `annals.zig` (paths are names), coalesced and sorted
output of the walk, phantom listings, elision verdicts, clocks that run
backwards, weak memory (the atomics that matter are acquire/release and are taken
as sequentially consistent), and the kqueue and Windows backends.

Of the Python code: the benchmark reports and bounds (floating-point arithmetic
over finished measurements), the table generators (one input, one output, no
state), the CREST oracle and training programs (pure; the oracle is a reference
implementation, of use once the regex front end is modelled), the ratchets and
surface checks (text scans against a baseline), the demonstration and timing
scripts. What the engine computes for a verb, a question or a row is external to
the binding's models: they choose it. `PROJECT.json` lists every component with
its status, and under `hazards` those no property covers, each with the reason.

## 7. Plan

1. Extend the session: the `Ward` lease at the level of its words; inotify
   registration (`addWatchesRecursive`, `coverNewDir`) against a growing tree;
   the kqueue backend with its index, rescans and retirements; the Windows
   backend's life cycle; extras and their guard in `reconcile.zig`.
2. Extend the walk: coalesced and sorted delivery, the elision loader, phantom
   listings; `collectFileSet` as the full pass's walk (composing `Swarm`'s
   promise with `Reconcile`'s walk error).
3. Persistence below the sieve: the postings' commit order, the shelf, the amend
   journal, with crashes between the steps (`Narrow` has them as two artifacts).
4. Caches: the lazy DFA's bounded cache, the glean pool. Pure algorithms against
   reference definitions: globs, ignore precedence, varints, budget arithmetic.
5. Abstract specifications: a read-your-writes store that `Reconcile` (coarse)
   implements; an atomic freshness witness between `Seqlock` and `Reconcile`.
6. Proofs: the self-index and the templates, once an induction over data can be
   cited; the words of the requests, with a theory of bits.
