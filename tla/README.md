# TLA+ models of the snf_asyncio repository

The repository argues that asyncio programs can be verified with a simple,
"schedule-normal-form" (SNF) encoding, because CPython's event loop is far more
deterministic than an arbitrary scheduler. It holds benchmark programs, their
SMT encodings, a Lean formalisation of the central claims, a pipeline that turns
Python source into SMT queries, and a study of a corpus of repositories.

The models here are in three parts. The first is about the behaviour the whole
argument rests on: what the benchmark programs do on an event loop that has
exactly the four facts the repository assumes (SNF-1 to SNF-4), and what the Lean
file's interpreter accepts. The second is the pipeline, from the syntax tree of a
file to the rows and the report of a sweep. The third is the corpus study and
the build that runs it, over and over, on the files it left. Paths are relative
to the root of the repository.

## 1. Inventory

| Component | State | Operations | Interacts with |
|---|---|---|---|
| Event-loop facts (`cpython_version_diff.py`, CHECKS, lines 34-48) | `_ready`, the snapshot `ntodo`, `_scheduled`, waiter queues of locks and queues | one iteration: poll, snapshot, run the handles | everything below runs on it |
| Benchmarks b1-b7 (`benchmarks.py`) | local variables, an asyncio primitive each | tasks that suspend at `await` | the loop, `TaskGroup`, `Task.cancel`, `Lock`, `Event`, `wait_for`, `Queue`, `gather` |
| Lean formalisation (`snf-lean/SNFClaim3.lean`) | schedules, ready sets, rendezvous, the interpreter's flags | resolvedAt, EncConsistent, dispatch, run | states about Worked Example 2 what the loop should do |
| Pipeline: extractor (`snf-pipeline/extractor.py`, `ir.py`) | scopes, symbol table, the Program: ops per coroutine, wait_for sites, spawn multiplicities | two builders and one visitor over the tree of a file; chains of callees afterwards | hands the Program on |
| Pipeline: encoder (`encoder.py`) | none | check_lock, check_queue, check_event, check_wait_for | counts in the Program, asks the solver |
| Pipeline: driver and scripts (`pipeline.py`, `smt2_export.py`, `sweep_corpus.sh`, `inspect_gaps.py`) | results.csv, the smt2 directory, inspect.txt | run on each file, public-concurrency assumption, export, report | one process per file, the shell reads what it prints |
| Corpus study (`corpus-study/scan.py`, `refine.py`, `branch_check.py`) | one JSON file per repository and step | find accesses, put names into buckets, split the destructive ones | each step reads the files of the one before |
| Figures and side checks (`corpus-study/`) | two figures | sums, plots | read the summaries |
| Solver sweeps (`z3-solver/`, `cvc5-solver/`) | mutants of a benchmark encoding, verdicts, times | rename, permute, run with a timeout | SMT benchmarks in, results out |
| Build (`Makefile`) | directories that do or do not exist | corpus, pipeline, sweeps, plots | runs all of the above |
| Lean build output, stored results, figures | generated | | not modelled |

What is hard here:

* **interleaving**: the read-sleep-write of b3 and the read-write conflict of
  Lean Part 4;
* **hand-over of a resource**: a released lock is free before the waiter it woke
  has run (b3); an item or slot announced to a woken task may be taken by a task
  that was ready before it (b6);
* **cancellation against completion**: `cancel()` on a task whose wait has ended
  already (b2), on siblings in different states (b1), by a timeout that races
  the answer (b5);
* **callbacks that come too late**: timers that are in the ready queue when
  their race is over (b5), a loop that stalls and polls several timers at once;
* **order**: of dispatch, of wake-ups, of the iterations in which coroutines run
  (Worked Example 2), and whether results depend on it;
* **liveness**: everybody waits through `gather` or `__aexit__`, a single lost
  wake-up stops the program;
* **names**: the analyses identify objects and functions by scoped or bare names;
  namesakes, closures and nested functions decide what is counted together;
* **counting once**: nested functions, nested tries and calls on attributes are
  reached on several ways;
* **exceptions and interruptions**: a check that raises loses its file, a make
  that stops in the middle leaves files that the next one believes.

What makes each component correct:

* b1: a failed group counts nothing, the abort reaches every worker in whatever
  state it is, nobody outlives the group, and the group ends;
* b2: a cancelled job never sets the flag; the caller returns after the job;
* b3: mutual exclusion, no lost update, no lost wake-up, FIFO, the result;
* b4: one `set()` releases all, in order, and nobody passes it before;
* b5: which races have a certain outcome, and that races do not disturb each other;
* b6: each item once and in order, nobody asleep for whom there is an item or slot;
* Worked Example 2: feasible = encoded, the same final state, the ready sets;
* extractor: every statement visited once, operations put down to the right
  object, handlers found exactly where they can be reached;
* encoder: a gap exactly where two contend (lock, queue), or where something both
  waits and sets (event);
* driver: what is assumed apart from what was found, a row for every object, an
  exported file for every row, a report with every use;
* corpus study: a bucket that errs on the safe side, each access counted once,
  slices that sum up;
* build: what an incomplete run leaves does not go unnoticed;
* sweeps: see section 7.

## 2. The modules

    EventLoop --+---------------- MutexContention --- AtomicCounter (abstract)
                +-- Selection --+-- ProducerConsumer -- BoundedChannel (abstract)
                |               +-- EventBroadcast
                +---------------- WE2Loop ----------- WorkedExample2 (abstract for it)
                +-- AsyncTask --+-- FireAndForget
                                +-- TaskGroup
                                +-- RaceTimeout

    EventLoopProofs --+-- MutexContentionProofs
                      +-- ProducerConsumerProofs
                      +-- EventBroadcastProofs
                      +-- TaskGroupProofs
                      +-- WorkedExample2Proofs (WorkedExample2, WE2Loop)
                      +-- CancellationProofs (FireAndForget, RaceTimeout)

    SourceTree --- Extractor ---+
        |          Encoder -----+-- Pipeline -----+
        |                                         +-- SourceAnalysisProofs
        +--------- CorpusStudy ---- CorpusBuild --+

A module `XProofs` extends `X` and holds the theorems about it. Three proof modules
are about two models each: `CancellationProofs` about b2 and b5, which share most
of their lemmas, as do the pipeline and the corpus study in
`SourceAnalysisProofs`; `WorkedExample2Proofs` about both models of that program.
For their sake the second model of each pair names its own operators apart
(`RaceSpec`, `BuildSpec`, `WE2Spec`). `MC...` modules only give constants their values.

**EventLoop** is the loop: `ready` is a FIFO; `StartIteration` moves the timers
that are due behind it and takes the snapshot `todo` (SNF-1); `RunHandle` runs
exactly the handles of the snapshot, and what they schedule waits for the next
iteration (SNF-2). One action of a program module is one handle, that is the
code between two suspension points (SNF-3); only in ProducerConsumer is a
handle a series of actions, because a task that need not wait goes on, and
`running` keeps everybody else out in the meantime. A timer is kept as the time
it still has to wait. `Tick` lets time pass while the loop sleeps in `select()`
and, up to the bound `MaxLate`, while it is busy: this is the stall of a real
process. Two timers that are due in the same poll are run by deadline, and in
either order if the deadlines are equal.

**AsyncTask** adds what `Task.cancel()` does: a pending future is cancelled and
schedules the task; a future that is done leaves only the mark `must_cancel`,
which the step on its way turns into a `CancelledError`.

**Selection** is a filter on sequences, written as a recursive function because
the prover can unfold one; b4 and b6 state the order of what they record with it.

| Module | Code | State and actions |
|---|---|---|
| MutexContention | b3, lines 67-86 | `locked`, `waiters`, `woken` are the lock; `current`, `shared_resource` the program. `AcquireFree`, `AcquireWait`, `AcquireWoken` are the paths of `acquire`, `Leave` writes, releases and wakes. |
| FireAndForget | b2, 42-64 | the job's sleep, the caller's sleep, `cancel`, `await task` |
| TaskGroup | b1, 9-39 | workers; `ChildDone` and `ChildFailed` are the group's callback, `MainWaitsOn` is `while self._tasks` of `__aexit__`; the abort takes the group's set in any order |
| EventBroadcast | b4, 89-107 | `Wait`, `MainSets`, `Continue` |
| RaceTimeout | b5, 110-140 | `wait_for` of CPython 3.12 and later (the versions before ran the service in a task of its own): `SleepExpires` and `TimeoutExpires` race, `Stale` are timers of races that are over |
| ProducerConsumer | b6, 143-172 | `Put`, `PutWait`, `Get`, `GetWait`; `Resume` tests the `while` of `put` and `get` again |
| WorkedExample2 | Lean Part 7, 804-995 | `run` as a machine that reads its schedule; `Sets` is phaseStep, `EncConsistent` the encoding |
| WE2Loop | the program of Lean 607-610 on EventLoop | one action per coroutine segment, `trace` records the iterations |

**The pipeline.** `SourceTree` is a Python file as the analyses see it: the
statements in source order, each with its depth, so that a nested list of blocks
needs no recursive type and an index is the identity of a node. A try holds its
body, then an "except" block for each handler, then a "finally" and what belongs
to it; a comprehension is a "for". A name is a sequence of identifiers. What a
file *says* is data, chosen by the MC module; what the code *does* with it is the
model.

Calls are finer than statements. A call may be awaited, and others may be nested in
its arguments or in the head of a block: those are the statement's `inner` calls,
in the order of `ast.walk` and each with its level (`CallsOf`, `CallAt`).
`ast.walk` is breadth first over nodes, and an await is a node, so the first
wait_for of a block is the one with the least level, not the one written first:
in `with suppress(E): await wait_for(..); wait_for(..)` it is the second
(`WaitLevel`, `FirstWaitFor`). What is in a handler counts at any depth
(`InHandler`), calls in arguments and an `async with suppress()` included.

The exported files are told apart as far as the code does it. `SafeComponent` is the
replacement of characters in the path, after which two files of one sweep may be
written the same; `ObjectFile` that in an object's name, where `f::x` becomes
`f__x`; `WaitForFile` is the name for a wait_for, with its coroutine and line.

| Module | Code | State and actions |
|---|---|---|
| SourceTree | `ast` as both analyses use it | `Inside`, `Around`, `WalkedBefore` (statements, breadth first) |
| Extractor | `extractor.py`, `ir.py` | `node` and `frames` are the visitor's place in the tree; one action per `visit_` method. `Symbols`, `TaskRef` and `SpawnTargets` are the passes before, `ResolveChain` and `CoroNameCollisions` those after. |
| Encoder | `encoder.py` | no state: each query is the existence of an assignment that meets its assertions |
| Pipeline | `pipeline.py`, `smt2_export.py`, `sweep_corpus.sh`, `inspect_gaps.py` | `stage` walks through the run on a file: `NextFile`, `VisitFile`, `Extracted`, `ApplyPublicConcurrentAssumption`, `CheckRaises` or `CheckAndExport`; `InspectGaps` at the end |
| CorpusStudy | `scan.py`, `refine.py`, `branch_check.py` | no state: `Accesses` of a statement, `BucketOf` a name, `SplitOf` it |
| CorpusBuild | `corpus` of the `Makefile`, `corpus_import.sh`, `make_sankey.py`, `corpus_pie.py` | the files on the disk, and `line`, the line of the recipe; `Interrupt` may come in any |

The depth-first search of the public-concurrency assumption iterates a set of
strings, whose order Python draws anew in each process: `Descendants5` is the set
of all coroutines it may end at, and the action chooses one for each start.
`AssumedIsApart` holds of whatever it chooses; that the choice, and with it the
gaps of a file, may differ from one process to the next is so in the code and in
the model, and no property forbids it.
`LockHinted` and `SyncHinted` stand for the tests on substrings of names
(`name_hints_lock`, `name_hints_sync_primitive`). `BUILTINS` and
`DICT_ATTRIBUTES` are two sets because `dir(__builtins__)` is one thing in the
script that is run and another in a module that is imported. A clone fails or
succeeds as a whole; so does the export of the Sankey figure, which make_sankey.py
does not report to make (lines 103-107), so that the pie may be drawn without it; the copy of the fastapi examples and the four side checks,
whose output nothing reads, are left out.

asyncio itself is not in the repository: locks, queues, events, task groups and
timeouts are modelled from how the benchmarks use them and marked external.
Where `cpython_version_diff.py` names the line of CPython it relies on, the
definition is mapped to that check.

Definitions headed "Mutant of" change the definition that follows them the way
a plausible bug would. They are used by nothing; each property was seen to fail
with one of them in place, so none holds by the shape of the model.

## 3. What is checked

| Run | Question | Bounds |
|---|---|---|
| mutex | b3 loses no update and no wake-up, grants in creation order, returns `num_tasks`, and implements AtomicCounter | 6 tasks, sleep 2, `MaxLate` 2 |
| queue | b6 consumes every item once and in order, loses no wake-up, ends, and implements BoundedChannel with each put and get weakly fair | the benchmark's own numbers: 2 + 2 tasks, 4 items each, maxsize 3; all 24 orders of creation |
| fire_and_forget | a cancelled job never sets the flag; caller and job both end | 3 and 6 ticks for 0.1 s and 0.2 s, `MaxLate` 7, so both may be polled together |
| task_group | a failure counts nothing, the abort reaches all, no orphan, the right count | 4 workers with delays 1-4, `MaxLate` 5: any set of timers may be due together |
| race | outcomes are the listed ones where they are decided by more than the lateness; races do not disturb each other | the five races in units of 10 ms and three close ones, `MaxLate` 3 |
| broadcast | one `set()` releases all twelve in order | 12 waiters, `MaxLate` 6 |
| interpreter | `run` accepts exactly the encoding | 5 532 schedules: every first iteration of four entries with every second of at most two, repetitions included, and schedules with too few, too many entries or iterations |
| we2_loop | ready sets {c0..c3}, {c1, c3}, ..., {c2}, everybody finishes; the loop implements the interpreter | all 24 orders of creation |
| pipeline | each statement visited once; operations at the right object; handlers found exactly where calls lead; gaps exactly where two contend; what is assumed kept apart; rows and exported files for everything; every use in the report | 2 371 sweeps (100 823 states) of sources from twelve families, each with and without the assumption: two classes with an attribute of one name, a wait_for in and around all handlers, chains of 1 to 7 calls and cycles, locals and closures, forks of calls, a suppress around a try, a wait_for in two coroutines or in none, two of them in one block, each awaited, nested in an argument, in the head of a block or in a handler, twelve ways to write a handler, two assignments to an awaited name, spawns in loops, heads and arguments, names that are exported alike, a class in a method and one called like a function; sweeps of one and of two files, also two whose exported names are written the same |
| pipeline_rows | violation, section 5 | the same |
| corpus | names in the bucket READ_ONLY are not written; the split errs on the safe side; the slices sum up; nothing lost is made up for | 500 worlds (57 607 states): repositories of one and two files, 18 ways to use a name that is an attribute, a global or a variable of an enclosing function, namesakes in two files; any interruption, any clone or export of the figure failing, any number of runs |
| corpus_counts | violation, section 5 | the same |

The type invariants of the other modules (`TypeOK`) hold in these runs too but are
no listed property: `mutex` checks the one of the loop that all share, and those
of b1, b4, b6, WorkedExample2, WE2Loop and CorpusBuild are proved.

Why the bounds are enough. The tasks of b3 and the waiters of b4 are alike, and
no behaviour needs more than a holder, a woken waiter, one that waits and one
that is to start; six and twelve are there to let the order go wrong. In b1
the abort always finds the siblings asleep (section 4 proves it), so three workers
would do for what it meets; the fourth makes orders. The lateness bounds are at
least the difference of the delays that race, so that every order of "due" and
"polled" occurs, except in `race`, where staying below the margins of the
benchmark's races is the point. `MaxLate` 0 in b6 and Worked Example 2 loses
nothing: they have no timers. The files of `pipeline` hold every shape a visitor
or a resolution step tests for, alone and in the pairs that meet (a try in a
try, a function in a try, a class next to one of the same attribute); a file is
processed on its own, so two files are enough for what one leaves behind for the
next. Written out as Python, the single files of this run were also given to
extractor.py: its operations, sites (callee, handled, line), multiplicities,
objects and collisions are the model's. The chains are two longer than the bound of five that the code names. A
bucket is decided by the uses of one name: one use under test and one in
another function or file reach each case.

**Fairness** is WF of the whole next-state relation: `asyncio.run` drives the
loop in one thread until the main task is done, so some step is taken as long as
one is possible; nothing is assumed of a particular task. That each task gets
its turn is a consequence, of the FIFO, and the liveness properties check it.
AtomicCounter's and BoundedChannel's own fairness (of each put and each get) is
shown to follow. Deadlock checking is on in all runs: the only states without a
further step are those in which the program has returned (`Finished`). The
pipeline and corpus models have no fairness and need none: their properties
are about what has been done when a step is reached. Make may be started for ever.

## 4. What is proved

Theorems of the form `Spec => ...` are about the specification that TLC runs,
with nothing assumed but the ASSUMEs on its constants, which the runs evaluate.
The proofs about benchmarks have one shape: a lemma per action says that the
action keeps `IInv`, and the theorems follow from `IInv`.

`EventLoopProofs`: lemmas on the ready queue. What is in it after a handle has
run, as a set (`RunNothing`, `RunOne`, `RunKeeps`) and by position
(`RunPositions`); what a poll puts behind it, whatever the timers (`Poll`,
`PollAll`: each due handle once, and nothing else); that no handle is in it
twice. The other half is about selections from a sequence (`SelectAppend`: what
is appended to a log is appended to one producer's part of it, or to nobody's).
Induction over the length is made over sets of numbers (`NatSetInduction`, from
the least element of a set), because the rule that takes a predicate cannot be
instantiated by the provers.

`MutexContentionProofs`, for every number of tasks, every delay and every
lateness (assumptions: `NumTasksAssumption`, `DelayAssumption`,
`MaxLateAssumption`, all positive or natural numbers):

* `TypeCorrect`, `LockExcludes`, `CounterCounts`, `WaiterIsWoken`: the
  invariants TypeOK, MutualExclusion, NoLostUpdate, NoLostWakeup;
* `ReturnIsRight`: nothing but `num_tasks` is ever returned;
* `LockIsFair`: FifoGrant;
* `RefinesAtomicCounter`: the safety part of the refinement.

The argument: mutual exclusion is not inductive, because a woken waiter takes the
lock without a test. `IInv` adds why that is safe: a woken waiter is the head
of the FIFO, the lock is free and its step is queued (`WokenIsFirst`), the fast
path requires an empty FIFO, and no handle is queued twice or in two places
(`Queues`, `HandlesMakeSense`), so nobody is resumed twice. With exclusion, the
value read before the sleep is still the counter's (`NothingStale`), and every
`Leave` is an increment. FIFO needs a second invariant, `CreationOrder`: the
tasks that have not started are in the ready queue in the order of creation and
come after all that have, so they join the FIFO in that order.

`TaskGroupProofs`, for every number of workers (at least two), any delays and
every lateness:

* `TypeCorrect`; `NobodyOutlivesTheGroup` (NoOrphan);
* `FailureCountsNobody` (FailureCountsNothing): a group that is to fail counts
  no worker, on a loop however late;
* `AbortReachesEveryWorker` (AbortReachesAll);
* `ReturnIsRight`: what is returned is 0 after a failure and the number of
  workers otherwise, the safety part of ReturnsCount;
* `NeverStuck`: when nothing is ready and no timer left, the benchmark has
  returned.

The argument for the second is about positions in the ready queue. All workers
are created in one step and take their first steps in one iteration; worker 1 is
the first of them and fails at once, so its callback is queued in that
iteration. No timer can be polled before, and those polled later come behind it.
`AbortIsFirst` says so: until the abort the queue is first steps of workers, then
the callback of worker 1, then nothing but timers. So the abort finds all other
workers begun and asleep (`AbortFindsAllAsleep`), each with a pending future, and
cancels them all; `must_cancel` is never needed here. It also needs that the
group waits exactly as long as it has children (`MainWaits`) and where the step,
the timer and the callback of a worker are in each of its states (`WorkerState`).

`EventBroadcastProofs`, for every number of waiters, delay and lateness:
`TypeCorrect`, `AllReleased` (SetReleasesAll) and `PassedInOrder`
(ReleasedInOrder). Here tasks run in the order of creation throughout, so the
invariant is a description of the whole state in each of four phases:
`Starting`, `Sleeping(k)` when k waiters have queued, `Gathering(r, g)` when r
have passed the event and the caller has heard of g of them, `Over`. The caller's
timer may be polled while waiters still have to start (a loop that is late): it
is behind all of them, which is why `set()` finds everybody in the queue.

`ProducerConsumerProofs`, for every number of producers and consumers, of items
and of places, and for every order of creation that is a permutation of the
tasks (`SizeAssumption`, `BalanceAssumption`: as many items are consumed as are
produced, `OrdersAssumption`):

* `TypeCorrect`, `ExactlyOnce` (ExactlyOnceInOrder), `WakeupsKept` (NoLostWakeup);
* `RefinesChannel`: the safety part of the refinement of BoundedChannel;
* `NeverStuck`: when nothing is ready all producers and consumers are done and
  the caller has returned or is about to, so no size of the queue deadlocks.

The invariant says that a task which is not done is in exactly one place: about
to run, running, or in one of the two lists of waiters (`OnePlace`, `SomePlace`).
NoLostWakeup is inductive with it: a task that took a wake-up and then runs into
a full or an empty queue has been overtaken by one of its own kind, and the item
or place that was announced to it is gone. NeverStuck needs arithmetic besides:
`Balanced`, the rounds made by the producers less those by the consumers are the
items in the queue. If all were asleep or done, with producers asleep the queue
would be full, hence no consumer asleep, hence all consumed and the sum of the
rounds could not come out; likewise for consumers.

`WorkedExample2Proofs`, for every set of schedules: `TypeCorrect`; `Claim2Forward`
and `Claim2Backward`, the interpreter runs to the end exactly the schedules of the
encoding (FeasibleIsEncoded, InfeasibleIsNotEncoded); `Claim3`, all of them end
in the same state. The Lean file evaluates the 48 pairs of
permutations and says of the step to arbitrary lists that it is still to be
proved (lines 1162-1198). The invariant says that what was read so far are the
coroutines missing from the ready set, each once, and what the flags are in
terms of them.

The same module about the program on the event loop: `LoopTypeCorrect`,
`ReadySetsAreFixed` (ReadySets) and `LoopIsInterpreter` (ImplementsInterpreter).
There are only 24 orders of creation, and TLC takes each; the proof takes none of
them by itself and shows what of an order matters, that is, whether c1 comes
before c0 (`Late`). `Turns` describes the loop iteration by iteration: whose
handles are in the snapshot and behind it, where each coroutine is, what is in
the queues and who waits. `OrderInv` says in which order the handles are: of
creation in the first iteration, and c1 and c3 in that order (`SecondOrder`) in
the second. With it, the handle at the head is the entry that the interpreter
reads next (`EntryIs`), the flag it sets is the one `phaseStep` sets
(`DispatchIs`), the poll is the step to the next iteration or the end. If c1 is
late, the loop stands on the interpreter's side from where c1 starts to wait.

`CancellationProofs`, about b2 for all delays with `MainDelay < JobDelay`, and about
b5 for every list of races with positive timeouts, both for every lateness:

* `CancelledJobSetsNothing` (CancelWins);
* `FasterSideWins` (FastEnoughSucceed): a timeout that is shorter than the sleep
  always wins, a sleep that is shorter by more than the lateness always does;
* `CancelStaysInItsRace` (NoLeakedCancel).

In b2 the caller starts its sleep before the job does and sleeps less. Until it
cancels it is ahead of the job at each stage (first steps, timers, handles in
the queue), also when both timers are due in one poll. From then on the job is
bound to throw, by its cancelled future or by its mark.
In b5 the two timers of a race are started in one step, so the difference
between what is left of them does not change, and what is left is never less
than minus the lateness. When the service's timer is polled, the timeout's has
been polled already, or is polled with it and comes first, if it is the shorter;
and it is not due yet if it is longer by more than `MaxLate`. Every timer handle
in the queue is in the snapshot of the iteration that runs, so no poll comes
between a handle and the step it schedules, and what `Stale` finds is of a race
that is over.

`SourceAnalysisProofs`, first part: every sweep over parsed files, with and without
`--assume-public-concurrent`. `CorporaAssumption` is all that is assumed of the
files: each path is listed once, blocks nest (`WellFormed`: each has its end, so
the depth of a statement follows from the one before), inner calls are in the
order of their levels and arguments that are calls are among them (`WellCalled`),
no name is empty. `NamesAssumption` is what an identifier being made of letters,
digits and underscores comes to, since the prover knows nothing of characters:
`A.x`, `x` and `waitfor_f_L3` are different names, except that a variable of the
module may itself be called `waitfor_f_L3`; of locals of functions it says nothing.
Nothing else is known of `ToString`.

* `StatementsCountOnce` (EachCallOnce): no two operations come from one statement,
  although a nested function is reached by the visit of the outer one and by the
  loop over all functions;
* `OperationsKeepTheirScope` (ScopesKeptApart);
* `AssumptionsStayApart` (AssumedIsApart);
* `GapsAreContentions` (GapIffContended): from the spawns in the source through
  multiplicities, counts of contenders and the solver's verdicts to the row;
* `ChainsAreFollowed` (ChainIsReachability): a wait_for that nothing handles on
  the spot is handled exactly if calls lead from it to a handler, however many
  and through whatever cycles;
* `EveryRowIsAccounted` (RowsAccounted): which rows and exported files a file has,
  which of its rows may overwrite each other's export (`MayShare`), and that it has
  none exactly if a lock or queue is never waited for;
* `ReportShowsUses` (InspectShowsUses): the report has all lines in which the object
  of a gap is used, and which of them it puts down to something else;
* for every number of contenders and releases, `StructuredNeverShares` (the
  structured lock and queue queries can never be satisfied: `Distinct` rules out
  what they ask for), `SharedIffTwo` (a gap exactly with two contenders; the
  number of puts plays no part) and `EventIffSet` (a gap exactly if there are a
  waiter and a set). These are about the existence of assignments: a witness for
  one direction (every `conn` is 1, every `holds` is true), distinctness against
  equality for the other.

`PipelineInvariant` is the inductive invariant, `PInv`. EachCallOnce alone is not
inductive: that a statement has not been counted before follows only from where
the visitor is. `Stack` says that the frames are exactly the blocks around `node`,
from the function the visit began with, one per level of depth. `Covered` says
of the functions that have been visited that those around them have been too,
and those in them unless the visitor is still before them; so a visit begins
only at a function none of whose statements has been met. `Ops` says that every
operation is in a visited function, behind the visitor (`Placed`), and of its own
scope (`Scoped`); for a `RELEASE`, written when the visitor leaves an async with,
that needs that the lock on the stack is of the function the block is in
(`Locks`), which the functions visited in between do not change.

The rest of `PInv` follows the program through the run. `FoundOrAssumed` says that
the multiplicities are those of the source, with 2 for what was assumed where the
source shows less than two; `Clashes` that the collisions are reported when the
visits are over; `RowsCounted` that the rows of the last file carry the verdicts
of its own counts, which needs that all earlier rows are of other paths. The
search for descendants is a recursive function over at most five rounds, whose
finitely many values are unfolded one by one and compared with those of
`CalledByPublic`. GapIffContended then takes finite sets: a coroutine with
multiplicity two is two pairs of the set that is counted, two coroutines are two,
and otherwise the set has at most one element.

`ChainsAreFollowed` is about a search that carries the set of the functions it has
entered. What it finds from a function is put as `Unavoidable`: each set that has
the function in it, none of the entered ones, and the callees of its members but
for the entered ones, has a handler in it. `UnavoidableStep` shows that this meets
the same equation as the search: where no callee finds a handler, the union of
the sets that show it is one for the caller. That the two are the same follows
from a smallest set of functions not entered yet for which they differ
(`MinimalSet`). With nothing entered the least such set are the functions that
calls lead to.

`EveryRowIsAccounted` needs an invariant of its own, `RInv`. While the visitor walks,
`Met` is the set of statements whose wait_for it has recorded or is about to,
`Seen` what the extractor remembers so as to record none twice, and `Accounted`
that the list of sites is an injective map onto the statements of `Recorders`
that have been met. When the file is done, the rows after the last file's are
in bijection with objects and recorders (`AccountIsRows`), and what is exported is
the objects and the pairs of wait_for and coroutine (`ExportedFiles`); two rows
with one export are of the kinds that `MayShare` lists (`SharedExports`). The
walk over the files of a sweep adds that the exported names of earlier
files are only those of their paths.

`ReportShowsUses` says of the operations that each is in a line with the bare name of
its object (`InItsLine`), of the report that it is about the file that was
extracted last (`ReadAgain`), and the rest is about the names around a line: the
class around a line is that of its function unless a class is in between
(`ClassesAround`), and the scope of a local ends with the name of a function
(`LastName`, `KeyForms`).

Second part: the corpus study and its build, for every set of repositories with
any contents (`WorldsAssumption`: finitely many
repositories of finitely many parsed files):

* `TypeCorrect`;
* `NothingIsMadeUpFor`, the temporal property LostForGood, from two facts that once
  true stay true: a figure is missing and the recipe is before the line that
  fails for it, and a repository is missing and the import is over. It makes no
  difference whether a figure is missing because a run stopped before it, or
  because its export failed and the run went on to the pie;
* `FiguresOfOneRun`: when the pie is drawn, results, buckets and split are of
  exactly the clones;
* `ReadOnlyIsNotWritten` (ReadOnlyIsUnwritten), `SplitErrsOnTheSafeSide`
  (SplitIsConservative) and `PieSumsUp` (SlicesAreCounts).

The invariant `Progress` says line by line which file has caught up: it is inductive
because each line comes only after the one before, and needs nothing to be known
of the contents. With it, the last three theorems are about one file: a write
that scan.py classifies as such puts the name into another bucket, and the proof
goes through the kinds of statement and of name to show that what is left is in
`Overlooked`; the names that branch_check finds in conditions are all names but
the builtins it takes out. The slices are sums over the clones of counts over
their files. Sums are folds, and the proof unfolds them over a finite set in any
order: each interaction is in one bucket, and each destructive one in one part
of the split.

## 5. Where the repository's texts and code differ

Runs show two of them:

* `pipeline_rows`: README_pipeline.md:125-126 promises a row for every object and
  every wait_for site. A lock or queue that is referred to but never waited for
  makes `Distinct()` of no arguments raise (encoder.py:74, :127); check_all comes
  before the first line of output, so the whole file is lost. results.log holds
  six such tracebacks. `RowsAccounted` says exactly when it happens.
* `corpus_counts`: the comment at scan.py:546 says the return avoids a double
  count. The walk goes on into the call (lines 430-431) and counts `self.x` once
  more, as an unmediated read, also when the call itself was mediated. `CountedOnce`
  is about attributes (`SELF_ATTR`); the return for names, line 557, does no better.

Others were met while modelling and are part of what the properties say:

* `benchmarks.py:115` says "exactly the services with sleep <
  timeout return SUCCESS" and line 140 "should always be 3". On a loop that
  stalls for longer than timeout - sleep, both timers are polled together, the
  timeout's callback finds the caller scheduled but not yet run, and marks it:
  TIMEOUT. `FastEnoughSucceed` is what holds instead.
* `SNFClaim3.lean:762-764` says of the feasible schedules that they
  are those of actual executions and that the encoding captures them exactly. An
  execution whose tasks are created with c1 before c0 is complete and correct,
  and not in the encoding, which fixes c0 before c1 (line 830).
  `ImplementsInterpreter` shows the rest: with c0 first loop and interpreter
  agree step by step, with c1 first the interpreter gives up where c1 waits.
* The comment at `SNFClaim3.lean:523-530` says the predicate
  means that a's value persists, a having written last; the definition is that a
  is dispatched first. The theorem of that part (the outcome depends on the
  order) does not depend on the direction.
* README_pipeline.md:178-179 and 240 and the comment at extractor.py:793 limit a
  chain to five hops; the loop around `_resolve_chain` is left after one call,
  and that recurses as far as the calls lead (`ChainIsReachability`).
* README_pipeline.md:124-125 speaks of one smt2 file pair per check; wait_for in
  nested tries is several sites with one file name (`RowsAccounted`: one
  file per wait_for and coroutine, fewer than rows). The sweep's log says 236 were
  written, 230 exist.
* inspect_gaps.py:153 compares the class around a line with the scope of the
  object; for an object local to a function the two never agree, and all of its
  own lines are marked DIFFERENT SCOPE, unless a class has the name of a function;
  neither do they in a class inside of a method (`InspectShowsUses`).
* A method's own local lock is not resolved in the method itself, because its
  scope begins with its bare name, while a method named like a free function
  sees that function's locals (`ScopesKeptApart`).
* refine.py:11 says READ_ONLY names are never written. Some kinds of write are not
  seen (`Overlooked` in CorpusBuild): a name declared global or nonlocal, the
  `as` of a with, `del x[k]`, a variable of an enclosing plain function, a name
  bound by an import, one of the module that nothing at its top level binds, or
  that an enclosing function declares or is called. There are no others
  (`ReadOnlyIsNotWritten`).
* branch_check.py:33 and 360-364 say it only over-flags. It imports BUILTINS from
  scan.py, which is the dir of a dict there, so names like `items` or `get` are
  never found in conditions and count as data (`SplitIsConservative`). A
  `while True` with an `if ...: break` counts as bounded; the model takes the
  condition of an if for what it is and does not look for break.
* The comment at corpus_pie.py:89-95 says branch_check counts mediated
  interactions too; it no longer does, and `SlicesAreCounts` shows that the
  ratios are the counts themselves.

## 6. Only model-checked

* Every liveness property, and the liveness part of the refinements of
  AtomicCounter and BoundedChannel: fairness is out of the prover's reach. For b1
  and b6 `NeverStuck` is the part of it that is a state property.

All other properties of the passing runs are proved. The two that
`pipeline_rows` and `corpus_counts` show to be false (section 5) are false for
the code too.

The numbers of tasks in those runs are the benchmarks' own or smaller, as in
section 3.

## 7. Not modelled, and the plan

Not to be modelled: b7 (readers of a constant, no step can change what they
read), the two functions that format a description, plots, downloads, the solver
processes, generated files, the Lean statements about formulas (havoc,
quantifier freedom) and Lean Part 4 (two orders and a comparison, section 5), the
four side checks of the corpus study (they count, and nothing reads their
output), the tests and the hop benchmark of the pipeline (they say what it
should do).

Left out of what is modelled: the extractor's list of unresolved references and
its fuzzy hints (lines 194-210, 603-621, 852-864; text for a reader, nothing
depends on it), the breakdowns that only refine printed tables, decoding and
syntax errors of source files, `fastapi_examples`.

The order of what is left, most important first:

1. **Build**: `make -j` of sweeps and plots (Makefile:49); **MutateSweep**:
   renamings must stay injective, a timeout against an answer.
2. **ScheduleInvariance** (Lean Parts 1-3): the generic interpreter, Lemma 2a and
   Claim 3 for any program without write conflicts, with proofs; **EagerTask**
   (Lean 1208-1330).
