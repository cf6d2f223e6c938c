# kv_bench: TLA+ models, checks and proofs

kv_bench drives six key-value stores (LevelDB, RocksDB, SILK, MatrixKV, NoveLSM,
PebblesDB) through one interface with several benchmark programs. This directory
holds its formal models: TLA+ modules translated from the code, TLC
configurations that check them on small instances, and TLAPS proofs for every
value of the parameters. Paths below are relative to the repository.

## 1. Inventory

| part | code | state | operations | hard part | status |
|---|---|---|---|---|---|
| DB adapters | `include/db.h`, `db/*/*.cc` | handle of the store | Put, Update, Delete, Get (Scan, Print empty) | same answer for a miss and an error; caller's buffer half written | modelled |
| YCSB sizing and keys | `benchmark/ycsb/ycsb.h`, `main.cc` (`start_workload`), `workload_ycsb.c` | `sequential_key_id_`, static `items`, per-thread seed | slice per thread, `get_kv_pair`, `random_get_put`, counts | truncating divisions, 0- and 1-based generators, a static shared by all objects, `uint64_t` into `int` | modelled |
| YCSB runner | `benchmark/ycsb/workload_generator.cc`, `main.cc` | `thread_param_t[32]`, `g_queue[16]`, result files | `thread_task`, `Run`, `result_output`, `result_output2` | threads share the store and the queues; report is ordered only by the joins | modelled |
| smoke test | `benchmark/test.cc` | one key, one value buffer | 10^6 Put, 10^6 Get, `assert(__v == i)` | value length kept from one Get to the next | its reader is the client of `DbContract` |
| go-ycsb replayer | `benchmark/go-ycsb/main.cc` | `g_vec_opt[8]`, `_num_opt` | parse a trace, dispatch round robin, replay by 8 threads | vectors not cleared between load and run; only joins between the phases | modelled |
| db_bench runner | `benchmark/dbbench/*` | per-thread Lehmer generator, `thread_param_t[32]`, result files | PUT phase, GET phase | GET replays PUT's seeds; reduction without division; file names without the thread | modelled |
| facebook runner | `benchmark/facebook/{main,workload_generator,rocksdb_benchmark_tool,distributions}.cc` | a `Benchmark` per thread: generator, key ranges; `thread_param_t[32]`, result files | `GetSingleQuery`, `DistGetKeyID`, `QueryDecider`, runner | binary search over ranges of which some are empty; signed remainders; seeds that are dropped | modelled |
| facebook counters | `benchmark/facebook/rocksdb_benchtools.h`, `other/test/rocksdb_benchtest.cc` | counts in total and per range of keys, a mutex | `InitiateCounter`, `AddOpRecord`, `StatusReport` | two threads on one `Benchmark`; a key past the last range | modelled |
| tail latencies | `benchmark/ycsb/detail.cc` | a latency file | windows, averages, tails | first and last window; index of a tail | modelled |
| other facebook drivers | `benchmark/facebook/other/test/{benchmark,db_bench,qtest}.cc` | - | - | - | not modelled: pmemkv's own, not on the DB interface |
| timers, flags, makefiles | `timer.h`, `options.h`, `Makefile` | - | - | - | not modelled: no state a property tells apart |
| vendored code | `benchmark/ycsb/tbb`, `concurrentqueue.h`, `db/*/rocksdb` ... | - | - | - | not modelled: third party; what is used of it is an external definition |

How the parts interact: a tester process parses its flags, opens one adapter
(`DB::Open`, chosen at link time), makes one `YCSB` object per thread and calls
`WorkloadGenerator::Run`. Run spawns the threads; each draws an operation and a
key from its own object, calls the shared adapter, pushes the latency into a
queue all threads share and books it in its own vector. Run joins the threads in
order, writes a file per thread and operation, drains the queues into a total
file per operation, and the process ends. The next process (`run_warmup.sh`, then
`run_test.sh`) opens the same database.

The go-ycsb replayer and db_bench use the same interface in another way: each is
one process with two phases on one database, and what separates the phases is
that the first one joins all its threads. The replayer's threads take their operations
from vectors the main thread has filled; db_bench's threads draw their keys from
generators of their own, the same in both phases.

facebook's runner is one phase of one process. What a thread sends to the store
comes from its own `Benchmark`, which counts each query before it returns it; in
`rocksdb_benchtest.cc` two threads share one `Benchmark`, and its counters are
the result. `detail` is a program that runs later, on the `.lat` files.

What makes these parts correct:

* adapters: a Get answers what the writes before it allow; a miss does not
  disturb the caller's bytes;
* sizing: slices of a warm up are disjoint and inside the key range; the keys a
  warm up writes are the keys a test draws; counts are what the flags ask for;
* runner: records are never torn or exchanged between keys by interleaved
  read-modify-writes; everything executed is counted and timed once; the report
  is complete; the run ends;
* go-ycsb replayer: every operation of a trace goes to one thread, once and in
  order; the store follows the trace whatever the threads' order; the phases do
  not overlap;
* db_bench: the generator is the one it claims to be; the GET phase asks for
  what the PUT phase wrote; the report holds the counts of all threads;
* facebook: the search ends in the range the draw chose; no query is lost by the
  counters, whichever threads count; a range counts its keys and no others;
* tail latencies: a line is about the window its label ends, and a tail has the
  rank its factor asks for.

## 2. Plan

In order of importance. All but the last are done.

1. `DbAdapter`, `DbContract`: the interface all programs use, and its client.
2. `YcsbSizing`: pure arithmetic, an operator per formula.
3. `WorkloadGenerator`, `WorkloadProperties`, `MCWorkload`: the main harness.
4. `BenchmarkRun`, `WorkloadRefinement`: the abstract run, *every thread performs
   its quota, then the report; only whole records enter the store*, and the
   harness shown to implement it.
5. `WorkloadProofs`, `ContractProofs`.
6. `GoYcsb`, `GoYcsbProperties`, `MCGoYcsb`, `GoYcsbProofs`: dispatch and replay
   of traces.
7. `LehmerRandom`, `DbBench`, `DbBenchProperties`, `MCDbBench`, `DbBenchProofs`: the
   generator, the two phases, the result files.
8. `Distributions`, `PerformanceCounter`, `FbBench`, `FbBenchProperties`, `MCFbBench`,
   `FbBenchProofs`: facebook's arithmetic, its counters, and the two programs that use
   them.
9. `TailLatency`, `MCTailLatency`, `TailLatencyProofs`: windows against a partition
   of the file.
10. `Counting`: lemmas about division, sums, iterated steps and the sizes of sets that
   the proofs of several programs need.
11. Left: `DbBench` and `GoYcsb` as implementations of `BenchmarkRun`; the abstract
    run refined with fairness; the bytes of facebook's values.

## 3. Modules and the code

`DbAdapter` is a module of operators: a call maps the store, the key and the
caller's buffer to the set of its outcomes. The store is a function from keys to
values; of a value only the eight byte head (which every benchmark sets to the
key's number) and the length are kept. `Faults` names the calls a store may fail:
a refused write may or may not be in the store, a failed read looks to the caller
as a miss does. `Emptied`/`CopyOut` are the two lines
`value_length = _value.size(); memcpy(...)`: after a miss the length is 0 and the
bytes are the caller's own.

`DbContract` lets a client call the four operations in any order on one adapter.
`may` is a history variable: what the answers so far allow each key to hold.

`YcsbSizing` is the arithmetic: `KeyRange`, `EachRange`, `BaseKey`, `YcsbRange`
from `start_workload`; `Items` from the static that the last constructor sets;
`KeyChoices` is the support of the three generators (SEQ, zipfian, uniform);
`OpChoices` is what `random_get_put` can make of the rolls `uniform_next() % 100`
can show; `OpCount` is the two divisions and the conversion to `int`.

`WorkloadGenerator` has a program counter per thread and one for the main
thread. Its actions are the atomic steps between which other threads can be seen:

| action | code |
|---|---|
| `GetKvPair` | loop test and `get_kv_pair` |
| `DoPut`, `DoGet`, `DoScan` | the branch of the operation, its call and its counts |
| `RmwRead`, `RmwWrite` | the two calls of the RMW branch, apart |
| `PushLatency`, `BookLatency` | push into the shared queue; own vector and `i++` |
| `Finish` | end of `thread_task` |
| `Spawn`, `Join`, `Report`, `DrainPop`, `DrainNext` | one iteration of each loop of `Run` |
| `NextJob` | the process exits, the next one starts on the same store |

The counts of an operation are part of the action of its call because only the
thread itself touches them until it is joined. A latency is its identity, (thread,
iteration), so that losing, doubling or reordering one is visible.

`WorkloadProperties` states what must hold; `MCWorkload` holds the campaigns.

`BenchmarkRun` is the abstract run: its state is the phase of the job, the number
of operations each thread has performed, and the store. `WorkloadRefinement` maps
the harness to it: an operation is performed when `BookLatency` ends its
iteration, a job reports when the last join returns. A write-back of a
read-modify-write must map to a stutter: F is a workload that writes nothing new.

As written, the last statement of `benchmark/ycsb/main.cc` calls `Close()` without
an argument, for which `db.h` declares no overload; the model takes a job as over
when `Run` has returned, and what a process wrote as being in the store.

`GoYcsb` is the replayer. A trace is a sequence of words: an operation with the rest
of its line, or a word the loop of `read_ycsb_file` skips, among them go-ycsb's
own summary, whose lines start with the name of an operation too. Text that
distinguishes nothing is gone; keys are sequences of digits, because their
length is what `generator_kv` cuts or fills.

| action | code |
|---|---|
| `ReadWord`, `EndOfFile` | one iteration of the loop of `read_ycsb_file`; its end |
| `ReplayPut`, `ReplayRead`, `ReplayScan` | one iteration of the loop of `run_thread` |
| `ReadIsFatal` | the same, for a Get that copies a value to the null pointer it was given |
| `Finish` | end of `run_thread` |
| `Spawn`, `Join`, `JoinLast` | the loops of `run_workload`; `JoinLast` is also its return |

Operations of a vector are known by the place they come from, which stands for
the address of the code's object: `EachOnceInOrder` and `DealtEvenly` speak of
the dealing, `InPhase` of the joins, `StoreIsReplay` of the store. `g_vec_opt` is
not cleared, so the run phase performs the load once more. `JoinLast` keeps it, and
`CountsCoverTrace` says what that does to the counts.

`LehmerRandom` is `random.h` with the widths of its integers: the product as a
`uint64_t`, the sum as a `uint32_t`, one subtraction. `DbBench` is one process
of `benchmark/dbbench`:

| action | code |
|---|---|
| `DoPut`, `DoGet` | one iteration of `thread_task`, in SINGLE_PUT and in SINGLE_GET |
| `Finish` | end of `thread_task` |
| `Spawn`, `Join`, `Report` | one iteration of each loop of `Run` |
| `StartGet` | `main` calls `start_workload` again: new objects, new parameters |

An iteration is one step because all it touches besides the store is the
thread's own until the join, and it calls the store once. `KeyOf` takes as many bytes of
the number as --key_length says. `lat` has one file per phase since the
file's name has no thread in it: each `Report` writes over the one before.

`Distributions` is the arithmetic of facebook's queries. `GenerateKeyFromInt` and
`ConvertKeyToInt` keep the width and the sign of their 64-bit integers; `CRemainder`
truncates as C does, so that a number from `Random64` read as an `int64_t` can leave a
negative offset. `Shuffled` and `Starts` are steps 4 and 5 of `InitiateExpDistribution`;
the shares of the ranges, which step 3 computes with `exp`, are a field of the option
set, any order the shuffle can leave is allowed, and the power law between a draw and its seed is a function, `Hash`. `GetType`
is `QueryDecider` with its rounded-up bounds. `PerformanceCounter` is the class of
that name: sizes and bounds of its ranges, and what `AddOpRecord` adds where.

`FbBench` composes the two with two programs:

| action | code |
|---|---|
| `MixGraph`, `MixGraphPrefix`, `ReadRandom`, `MixRandom` | the loop test and the draws of `GetSingleQuery` |
| `Search`, `ChooseKey` | one iteration of the search of `DistGetKeyID`; what follows it |
| `Lock`, `ReadCounters`, `WriteCounters`, `Unlock` | `AddOpRecord`, its increments as a read and a write |
| `DoPut`, `DoGet`, `DoSeek` | the branch of the query in `thread_task`, its call and its counts |
| `Finish` | the thread's loop ends |
| `Spawn`, `Join`, `Report` | one iteration of each loop of `Run` |
| `StatusReport` | the test prints the counters |

"runner" is `main.cc` with a `Benchmark` for each thread, "test" is
`rocksdb_benchtest.cc` with one for both. `main` asks for ZippyDB; `FBBench` takes
the name of any option set, and so does the model. Threads that share a `Benchmark`
race for its generator too (`Random64::Next` without a lock), so a draw of the test is
any number. `FBBench` ignores its seed: all objects start at `FreshStart`.
`Recorded` drops what is added for an index past the last range: `range_list` has grown
by doubling, so that element 30 of 30 lies in the vector's spare memory.

`TailLatency` is `detail_handler` for one file. `Push` and `Close` are an
iteration of the loop of `tail_latency_handler`, without and with the end of a window;
`Output` writes a file and `Totals` sorts and prints. `Sorted` is any ordering that puts
no latency after a larger one: which of two equal ones comes first cannot be seen.

Each component's proofs are in a module of their own; `Counting` has the lemmas they
share, which speak of no component.

## 4. Runs

| run | asks | result |
|---|---|---|
| `adapters` | `ReadsWhatWasWritten` on five adapters, failing writes, 2 keys | holds |
| `novelsm_delete` | the same on novelsm | violated: Delete answers true and does nothing |
| `ycsb_faults` | twelve properties of the runner, any read or write may fail | hold |
| `ycsb_healthy` | what a warm up leaves, hits of a zipfian test, termination | hold |
| `full_size` | `main.cc:55,59`: the flags' bytes of operations are performed | violated with two threads |
| `replay_faults` | dealing, counts and end of a replay, any call may fail, two threads | hold |
| `replay_healthy` | phases, store and reads of a replay on three threads | hold |
| `read_kills` | `db.h:37`: a READ gets its pair, and so returns | violated: `memcpy` to a null pointer |
| `dbbench` | six properties of db_bench, reads may fail | hold |
| `facebook` | seven properties of facebook's programs, reads may fail | hold |
| `counter_range` | `rocksdb_benchtools.h:172`: a range counts its interval | violated: a truncated range size |
| `tail_latency` | windows and tails of every short file | hold |

What the properties of the runner say:

* `StoredWhole`: no interleaving of read-modify-writes, no miss and no error
  leaves a record that is truncated or carries another key.
* `BuffersOwnKey`: the assertion of `test.cc`, for all workloads.
* `KeysInRange`, `LoadIsFresh`, `WarmLoadExact`: slices stay in range, do not meet,
  and are filled from their start; with a store that works nothing is missing.
* `CountsMatchLatencies`, `ReportIsComplete`, `TotalFileIsMerge`: operations, counts,
  per-thread files and total files agree; a total file is an interleaving of
  the threads' files. `InInt` says what a thread's share of the work becomes in the
  `int` that `Run` stores it into, without computing the conversion: the share if it fits,
  nothing if the sign bit is set.
* `ReadOnlyJobsPreserve` (action property): C and F never change the store.
* `ZipfTestHits`: after a single-threaded warm up every operation of a zipfian
  test of the same size succeeds. The uniform generator draws one key lower and
  can miss the first, which is why the property names zipf.
* `Terminates`: every campaign ends.
* `KeepsPromise`: the runner implements `BenchmarkRun`.
* `SafetyInv`, `ReportInv`: the inductive invariants of the proofs, checked before
  they were proved.

What the properties of the replayer say:

* `EachOnceInOrder`: no operation is lost, doubled or reordered within a thread,
  and no word of go-ycsb's head or summary becomes an operation.
* `StoreIsReplay`: under every interleaving the store holds exactly what the
  operations performed so far wrote, each record under its own key.
* `InPhase`: no thread runs while a file is read; a phase starts after all
  threads of the one before have reached the end of their vectors.
* `HitsAreFatal`: no READ is ever counted as answered, and one that returned was
  of a key the load does not write.
* `CountsCoverTrace`: the counts printed at the end are those of both files
  together; a SCAN is in none.
* `TextsKeepApart`: keys of at most `kKeySize` digits do not meet.
* `Ends`: both phases end, or the process dies.

What the properties of db_bench say:

* `PutPhaseExact`: the store holds the first numbers of the sequence
  `seed_ = (seed_ * A) % M`, computed by division, and nothing else.
* `FullPeriod`: a single thread overwrites nothing until it has been through
  all of 1 .. M - 1, as `random.h` promises.
* `GetPhaseFinds`: SINGLE_GET asks only for keys SINGLE_PUT has put.
* `ReportMatches`: a line per thread with its full count, which is the thread's share
  of the work as far as that fits an `int` (`InInt`), and a `.lat` file that is the last
  thread's, whole and in order.
* `Ends`: both workloads end, also with counts of 0 or below.

What the properties of facebook's programs say:

* `CountersExact`: under every interleaving of two threads in `AddOpRecord` the
  totals are the numbers of queries, and each range has counted its own, if the
  option set's ranges share the keys out (`Spanned`) and no remainder is negative.
* `RangesHoldTheirs`: the same for all option sets, which `counter_range` refutes.
* `KeyInChosenRange`: the search ends at the one key range whose part of the draws
  holds the draw, never at an empty one; the key is one of the range's keys, except for a
  draw whose hash is negative (`Strayed`): that key may be in the range before, or among
  the largest 64-bit numbers where there is none, and is less than one range off.
* `ThreadsRepeat`: since the seed is dropped, the n-th queries of all threads are
  the same, and the store holds what one thread alone would have put.
* `RandomGetsMiss`: in a run without distributions the draw decides both whether a key
  is read or written and which one it is, so no Get is ever answered.
* `ReportMatches`: full counts of all threads (`InInt` as for db_bench), `.lat` files
  whole and in order, and the counters the test prints are those of all its queries.
* `Ends`: both programs end; no thread keeps the mutex.

What the properties of the tail latencies say:

* `WindowsAligned`: a line labelled `interval * i` is about the window that latency
  ends, whole; the first window is one latency, and those after the last full one
  are in none.
* `TailsRanked`: no more than p of the window's latencies are smaller than its tail, and
  more than p are not larger.

### Bounds

`ValueLength = 2`, so that divisions truncate; `IntMax = 7` (a four bit int), so
that a count wraps negative in `LoadWraps`; `Percent = 2`, a die of two sides, so
that both outcomes of `random_get_put` exist with two keys (the program has 100
sides and never fewer than thousands of keys, --dbsize being in GB);
`MaxThreads = 3` with jobs of one, two and three threads, so that array slots
beyond the job's threads exist. Two keys and two threads put two
read-modify-writes on one key, and a warm up that leaves gaps makes reads miss.
Each campaign has one or two jobs: a third sees nothing a second does not, since
only the store survives a job. In `adapters`, lengths 0 and 2 cover the empty
value, for which nothing is copied.

The replayer's keys are cut or filled to 2 bytes (20 in the program), and the traces
have keys shorter, as long and longer than that. Files have two to six words, so
that with two and with three threads words that are no operations shift the
dealing; each load is paired with each run file, and with files that cannot be
opened. Threads have at most six operations, more than it takes for two of them
to write one key in either order.

db_bench runs with `M = 7` and `A = 3`, a prime and one of its primitive roots, as
2^31 - 1 and 16807 are; `FirstSeed = 6` gives three threads the seeds 6, 7 and 8,
of which the last two are the bad ones, so that two threads draw the same numbers.
One thread goes through all six numbers and meets the first one again; keys that
hold 4 values make different numbers share a key; a count of 9 is -7 in four bits.

facebook's integers have four bits (`Half = 8`), seven keys, and hashes of which some are
negative, so that keys wrap; and one run has a count that wraps. Three key ranges, the middle one possibly without a part,
take two steps of the search; the option sets have the shapes of the predefined ones (with
and without prefixes, with and without a power law, Gets only, random). The six
runs of one or two threads perform up to three queries each, and the test two by each
thread, which is what it takes to lose one between a read and a write. Streams of
draws repeat after five or six. `counter_range` is the smallest case of a division
that truncates: 4 keys in 3 ranges, as the program has 1000000 in 30.

Files of one to five latencies of three values, with intervals of 1, 2, 3 and 7: windows
that end with the file, before it, and none but the first.

### Fairness

`FairSpec` gives weak fairness to the main thread and to each worker: they are
operating system threads without locks or priorities of their own. It assumes
that a call into the store returns. No step needs strong fairness: nothing a
thread waits for is taken back once it holds. `GoYcsb` and `DbBench` state the
same fairness for the same reason: one main thread that waits in joins only,
and threads that wait for nothing. `FbBench` has a mutex, whose step `Lock` is enabled
now and again while others take it. Weak fairness is enough nevertheless: each thread
takes the mutex a bounded number of times, so from some point on nobody else does.

## 5. Proofs

All theorems are for every value of the constants that satisfies the named
assumptions (`SizingAssumption`, `CampaignsAssumption`, `FaultsAssumption`,
`ContractAssumption`, `GoYcsbAssumption`, `LehmerAssumption`, `DbBenchAssumption`,
`PrimitiveRootAssumption`, `DistributionsAssumption`, `CounterAssumption`,
`FbBenchAssumption`, `TailLatencyAssumption`): any number of threads, sizes, jobs and
fault sets. Every safety property and every action property that a passing run checks is
the statement of a theorem.


* `WorkloadProofs`, first part: arithmetic. `SlicesDisjoint`: keys of different warm-up threads
  differ. `LoadFitsSlice`: a thread's count never exceeds its slice, because the
  second division by the threads can only lower it. `KeyChoicesBounds`,
  `OpChoicesBounds`: what the generators can return.
* `WorkloadProofs`, second part: `TypeCorrect`, one lemma for worker steps, one for main steps.
* `WorkloadProofs`, third part: `Safety`, that `SafetyInv` is invariant, and from it
  `StoreStaysWhole`, `BuffersStayOwn`, `KeysStayInRange`, `LoadStaysFresh`,
  `ReadOnlyJobs`.
* `WorkloadProofs`, fourth part: `Reporting`, that `ReportInv` is invariant, and from it
  `CountsStayMatched` and `ReportsAreComplete`; then `Implementation`, that
  `WorkloadGenerator` implements `BenchmarkRun`, from all of the above.
* `WorkloadProofs`, last part: `WarmupLoads` and `ZipfTestsHit`, from `HealthyRuns`, that
  `HealthyInv` is invariant; `TotalFilesMerge`, from `Merging`, that `MergeInv` is.
* `ContractProofs`: `ContractTypeCorrect` and `ReadsAnswerWrites`, both from one
  invariant, under the assumption that novelsm is not in use; `novelsm_delete` shows
  that the second needs it.
* `GoYcsbProofs`: `ReplayTypeCorrect`, `PhasesApart`, `DealtOnce`, `StoreFollowsTrace`,
  `HitsKill`, all from `Replaying`, that `ReplayInv` is invariant; `TextsApart`;
  `CountsCover`, from `CountsKept`.
* `DbBenchProofs`: `NextIsRemainder`, that `Random::Next` computes a remainder and
  never M; `BenchTypeCorrect`, `GetsFind` and `BenchReports`, from `Benching`;
  `PutsAreExact`, from `Recording`, and from it `PeriodIsFull`.
* `FbBenchProofs`: `FbTypeCorrect`; `KeysInRange`, from `KeysHold`; `GetsMiss`;
  `CountersHold`; `ReportHolds`; `RunsRepeat`.
* `TailLatencyProofs`: `LinesMatchWindows`, from `WindowsHold`; `TailsAreRanked`, from it
  and `PrintedHold`.
* `Counting`: among others `Quotient` and `QuotientIs` (truncating division), `SumOfParts`
  (a total over threads is the size of what they have apart), `Iterated` (a step can be
  repeated any number of times: the functions recursion defines exist), `ImageSize`,
  `WrappedRounds` (what comes of a count in an `int`).

Why an invariant is needed: `StoredWhole` alone is not inductive, since a step that
writes a buffer keeps it only if the buffer is whole. `OperationOK` says so
between `get_kv_pair` and the call, and between the two halves of a
read-modify-write, where in addition the key is still in the store (nothing deletes in these
workloads). `LoadIsFresh` needs `SequenceOK` (a warm-up thread draws one key per
iteration and never leaves its slice) and `LoadedSoFar` (what is in the store has
been drawn by its slice's owner before), which `SlicesDisjoint` makes into
freshness.

`ReportIsComplete` needs `LoopOK` (a thread books one latency per iteration and
finishes only after the last) and `JoinedFinished` (what has been joined has
finished); that the iterations of a thread are what `InInt` says of its share is
`WrappedRounds`, about two's complement, which the reports of db_bench and facebook rest on
too. `CountsMatchLatencies` needs from `SafetyInv` that the second half of
a read-modify-write is still one, since the thread counts it as one.

`HealthyInv` follows the load while it grows. On a store that works a warm-up thread that
has made n iterations has put the first n keys of its slice (`StoredSoFar`), so that the
joins leave `LoadedKeys`; those stay, since nothing deletes (`LoadKept`); and a thread's
successes equal its counts as long as its keys are among them (`HitsOK`), for which
`DrawsFromLoad` says which pairs of jobs have one size.

`MergeInv` looks at a queue and at the total file it is drained into as one sequence,
`Pushed`. Its entries are what the threads have booked and what they are about to book,
and those of one thread are in its order; a pop at the one end and an append at the other
leave it as it is. `DrainedOK` says which queues are empty already.

`ReplayInv` is the conjunction of the five properties proved, `HitsAreFatal` as its
two halves `NoneCounted` and `AllMissed`. `StoreIsReplay` is not inductive alone: that the load is complete when the run file is read
needs `InPhase`, and that the operation a thread performs belongs to the files
read so far needs `EachOnceInOrder`.

`CountsCover` is an argument about sizes. `CountsMatch` is inductive: a counter is the
number of a thread's replays of its type. When the threads have been joined each is at the
end of its vector, so by `EachOnceInOrder` the replays of all threads together are the
operations of the trace; `SumOfParts` adds up what the threads have apart.
`TextsApart` is about an operator only: what `generator_kv` fills up a short key with is
no digit, so the key can be read off again.

`GetsFind` does without the recursive sequence `Lehmer`. Its invariant
says instead that there is a path for each thread (`OnPath`): a function from 0
up that starts at the thread's seed, follows `NextSeed`, and of which all numbers have
been put as far as the thread's Puts go. A Put extends the path; in SINGLE_GET the
generator starts from the same seed and walks it again, so what it asks for next is on it, as the
counts are the same. `BookOK` relates tally, latencies and iterations; `ReportOK` keeps
what has been written of a phase.

`NextIsRemainder` uses of M and A only that no seed times A is a multiple of M
(`LehmerAssumption`), which M's being prime gives; it needs that neither the product nor the
sum overflows, which follows from the bounds of both. `PutsAreExact` names the numbers:
`Remainders`, the sequence by division, is shown to exist and to be what `NextSeed` steps
through, so that the path of a thread is an initial part of it. `PeriodIsFull` needs in
addition that A is a primitive root of M (`PrimitiveRootAssumption`, which 16807 and
2^31 - 1 satisfy): two equal numbers among the first M - 1 would bring a seed back too
early, and M - 1 different ones are all there are.

`KeysInRange` is the correctness of a binary search. `KeyInv` says that what is left of
the key ranges is `Bracketed`: it starts at or before the draw and ends after it. When one
range is left the draw is in it. That the bracket exists at first needs that the starts
grow (`StartsGrow`), an induction over the number of ranges.

`CountersHold` needs mutual exclusion: `MutexInv` says that a thread between lock and
unlock holds the mutex, and that what it has read is what the counters still are.
`HistoryInv` says that what a thread counts now it has not counted before, so that
the sets of queries grow by one as the counters do (`Grown`); and `KeySpanned` and
`RangeOfKey`, that the index of a key is the one range whose interval holds it.

`ReportHolds` is put together from what each phase keeps: `QuotaInv` (where a thread is
tells how far it has come, and where the main thread is who has ended), `BookInv`
(tallies, latencies and iterations agree), `WriteInv` (what has been written) and `DoneInv`
(one query counted in each iteration), from which the number the test prints follows by a bijection
between its queries and pairs of a thread and an iteration. `RunsRepeat` needs that a
query depends on its number only: `RepeatInv` ties the draws a thread has made to its
iterations, and `AskedOnce` says that a draw leaves a search one end only. `StoreInv` then says
whose Puts the store holds.

`WindowsHold` keeps that the lines written so far are the windows closed so far, and
that `vec_tmp` is what has been read since. `TailsAreRanked` adds what a sort leaves: in
an ascending order as many latencies are smaller than the k-th as come before it at most,
and as many are not larger as come up to it at least (`PlaceOf`); an ascending order exists
(`OrderExists`), and an index that truncates a product lies where `AtFactor` says
(`ProductBounds`).

In `ContractProofs` the invariant is `Explained`: a key of the store holds a value
the answers allow, and a key that is not there may be gone.

Only model-checked: `Terminates` and the three properties called `Ends`. They are liveness
under fairness, which the prover does not reason about, as it does not about `ENABLED`.
The counterexamples of section 6 are TLC's.

The library's induction theorems take a predicate as a parameter, which the installed
provers cannot instantiate; where an induction over the natural numbers is needed,
`Induction` in `Counting` does it with a set instead of a predicate, and `Iterated` gives
the recursive functions of the models from it.

## 6. Disagreements between documentation and code

`full_size`, `novelsm_delete`, `read_kills` and `counter_range` each end in a
counterexample; PROJECT.json quotes the lines. `read_kills` is a defect of the code rather than of a
comment: `run_thread` initialises `__value` to null (`go-ycsb/main.cc:243`), passes
it to Get (`:258`), and the adapters copy what they find to it. `counter_range` is
another: MixRandom, ReadRandom and AllRandom have keys past the ranges that the
truncated size gives their counters, and PrefixDist's negative offsets can leave
the ranges on the other side.

Disagreements that need no run to be seen, since they restate one line:

* `db.h:24,29`: Put of a key that exists and Update of one that does not "will return
  false". Every adapter forwards both to the store's Put, which overwrites.
* `ycsb.h:31`: workload E is "95% scans (50 items)". The SCAN branch is empty
  (`workload_generator.cc:142`): a scan leaves a latency, executes nothing and is
  counted as nothing.
* `dbbench/db_bench.h:25` and `facebook/fb_bench.h:37`: "key range is [base_key,
  base_key + key_range]". Both `start_workload` compute a range and hand it to nobody.

## 7. Not modelled

Rates, averages and the text of the reports; file system errors; CPU affinity; the
shape of the zipfian, uniform, exponential and power distributions and the pseudo-random
generators behind them (db_bench's is modelled); the stores below the adapters,
including what a crash would lose; `Options`. Lines of a trace that are cut short, and
the `delete` of arrays in `run_thread`; thread counts of 0 or above 32 and values above
65535 bytes, for which the arrays of db_bench and of facebook's runner have no room.

Of facebook's `Benchmark`: the bytes of a value and the length `ParetoCdfInversion` draws
for it, the lengths of scans, the sums of bytes, the clock; `read_random_exp_range`,
`keys_per_prefix` and multi-read strides, which no predefined option set uses; the
drivers of pmemkv in `other/test`. The products of a factor and a length in
`detail.cc` are taken exactly, where the program rounds a double.

Most of the repository's lines are vendored: the headers of six stores under `db/*/`,
and queues under `benchmark/ycsb`. Nothing in them is code of this system's own; what it uses of
them enters as external definitions (`DbAdapter`). Of the system's own programs every
one that goes through `include/db.h` is modelled.
