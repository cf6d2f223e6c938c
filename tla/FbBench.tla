------------------------------ MODULE FbBench ------------------------------
(***************************************************************************)
(* benchmark/facebook: a Benchmark makes queries and counts them, and two  *)
(* programs whose threads call it.  "runner" (main.cc) gives each thread a *)
(* FBBench, and so a Benchmark, of its own, sends the queries to the store *)
(* and writes a report; "test" (other/test/rocksdb_benchtest.cc) lets two  *)
(* threads share one Benchmark and prints its counters.  Benchmarks differ *)
(* in nothing: FBBench ignores its seed, key and value length.             *)
(***************************************************************************)
EXTENDS PerformanceCounter, DbAdapter

CONSTANTS MaxThreads,   \* the 32 slots of _threads and _params
          IntMax,       \* the largest int
          Streams,      \* sequences of draws the seed may stand for
          Jobs          \* programs to consider

\* size: bytes for the runner, max_times for the test; valueLength: the runner's
\* --value_length, which only its count depends on.
Job == [prog : {"runner", "test"}, opt : Options, threads : 1 .. MaxThreads,
        size : Nat, valueLength : Nat \ {0}]

\* The test draws no key ranges; there is one counter range at least, and key
\* ranges are no smaller than the counter's.
Sound(o) ==
    /\ o.access # <<>> => o.bench = "MixGraph" /\ Len(o.access) <= o.num
                          /\ o.monitor \in 1 .. Len(o.access)
                          /\ \E i \in DOMAIN o.access : o.access[i] > 0
    /\ o.monitor <= o.num

ASSUME FbBenchAssumption ==
    /\ MaxThreads \in Nat \ {0}
    /\ IntMax \in Nat
    /\ Streams \subseteq Seq(Nat) \ {<<>>}
    /\ Jobs \subseteq Job
    /\ \A j \in Jobs : Sound(j.opt)

VARIABLES
    job,      \* what is run
    stream,   \* the draws of a Benchmark, over and over
    weight,   \* keyrange_access of keyrange_set_, in its final order
    start,    \* keyrange_start of keyrange_set_, and where the last one ends
    main,     \* where the main thread is
    mi,       \* its loop index
    pc,       \* where each thread is
    iter,     \* its i, or its time
    at,       \* the draws its own Benchmark has made
    query,    \* its query under way, with the start and end of the search
    mtx,      \* the thread that holds a Benchmark's mutex, or Nobody
    counter,  \* a Benchmark's counters
    reg,      \* the counters as the thread has read them
    done,     \* history: the queries a Benchmark has counted
    tally,    \* result_count and result_success of each kind
    vec,      \* vec_latency: a latency is known by thread and iteration
    db,       \* the contents of the store
    result,   \* the lines of the .result file, one per thread
    lat       \* the .lat file of each kind

benchVars == <<at, query, mtx, counter, reg, done>>
runVars == <<tally, vec, db>>
vars == <<job, stream, weight, start, main, mi, pc, iter, benchVars, runVars, result, lat>>

Thread == 0 .. MaxThreads - 1
Nobody == MaxThreads

Opt == job.opt
KeyrangeNum == Len(Opt.access)
KeyrangeRandMax == start[KeyrangeNum]

\* uint64_t to int, in two's complement; main divides before Run does.
Count ==
    LET span == 2 * (IntMax + 1)
        low  == ((job.size \div job.threads) \div (job.valueLength * job.threads)) % span
    IN  IF low <= IntMax THEN low ELSE low - span

Quota == IF job.prog = "test" THEN job.size ELSE Count

\* The Benchmark thread t calls.
Own(t) == IF job.prog = "test" THEN 0 ELSE t

PerThread(x) == [t \in Thread |-> x]
PerKind(x) == [k \in Kind |-> x]

NoQuery == [ini |-> 0, lo |-> 0, hi |-> 0, type |-> "Get", text |-> 0]

\* Mutation: each Benchmark starts where its seed says.
SeededStart == [t \in Thread |-> t]

FreshStart == PerThread(0)

Init ==
    /\ job \in Jobs
    /\ stream \in Streams
    /\ weight \in Shuffled(Opt.access)
    /\ start \in Starts(weight, KeyrangeNum)
    /\ main = "spawn"
    /\ mi = 0
    /\ pc = PerThread("unborn")
    /\ iter = PerThread(0)
    /\ at = FreshStart
    /\ query = PerThread(NoQuery)
    /\ mtx = PerThread(Nobody)
    /\ counter = PerThread(NewCounter(Opt))
    /\ reg = PerThread(NewCounter(Opt))
    /\ done = PerThread({})
    /\ tally = PerThread(PerKind([count |-> 0, success |-> 0]))
    /\ vec = PerThread(PerKind(<<>>))
    /\ db = << >>
    /\ result = <<>>
    /\ lat = PerKind(<<>>)
-----------------------------------------------------------------------------
(***************************************************************************)
(* GetSingleQuery.                                                         *)
(***************************************************************************)
\* GetRandomKey: the n-th draw from now.  Threads that share a Benchmark race
\* for its generator, and any draw may come out.
RandomKey(t, n) ==
    IF job.prog = "test" THEN 0 .. Opt.num - 1
    ELSE {stream[((at[t] + n - 1) % Len(stream)) + 1] % Opt.num}

\* Thread t goes on with query q after n draws.
Ask(t, n, q, next) ==
    /\ pc[t] = "loop"
    /\ iter[t] < Quota
    /\ at' = [at EXCEPT ![t] = @ + n]
    /\ query' = [query EXCEPT ![t] = q]
    /\ pc' = [pc EXCEPT ![t] = next]
    /\ UNCHANGED <<job, stream, weight, start, main, mi, iter, mtx, counter, reg, done, runVars, result, lat>>

Query(type, key) == [NoQuery EXCEPT !.type = type, !.text = GenerateKeyFromInt(key)]

\* Mutation: the key has a draw of its own.
MixGraphTwoDraws(t) ==
    /\ Opt.bench = "MixGraph"
    /\ KeyrangeNum = 0
    /\ \E ini \in RandomKey(t, 1), k \in RandomKey(t, 2) :
        Ask(t, 2, Query(GetType(Opt, ini), GraphKey(Opt, k)), "lock")

\* One draw decides both the kind of a query and its key.
MixGraph(t) ==
    /\ Opt.bench = "MixGraph"
    /\ KeyrangeNum = 0
    /\ \E ini \in RandomKey(t, 1) :
        Ask(t, 1, Query(GetType(Opt, ini), GraphKey(Opt, ini)), "lock")

MixGraphPrefix(t) ==
    /\ Opt.bench = "MixGraph"
    /\ KeyrangeNum > 0
    /\ \E ini \in RandomKey(t, 1) :
        Ask(t, 1, [NoQuery EXCEPT !.ini = ini, !.hi = KeyrangeNum, !.type = GetType(Opt, ini)], "search")

ReadRandom(t) ==
    /\ Opt.bench = "ReadRandom"
    /\ \E k \in RandomKey(t, 2) : Ask(t, 2, Query("Get", k), "lock")

MixRandom(t) ==
    /\ Opt.bench = "MixRandom"
    /\ \E ini \in RandomKey(t, 1), k \in RandomKey(t, 3) :
        Ask(t, 3, Query(GetType(Opt, ini), k), "lock")

\* Thread t changes its query only, and is then at next.
Think(t, q, next) ==
    /\ query' = [query EXCEPT ![t] = q]
    /\ pc' = [pc EXCEPT ![t] = next]
    /\ UNCHANGED <<job, stream, weight, start, main, mi, iter, at, mtx, counter, reg, done, runVars, result, lat>>

KeyrangeRand(t) == query[t].ini % KeyrangeRandMax

\* Mutation: a start belongs to the key range before it.
SearchClosed(t) ==
    LET q == query[t]
        mid == q.lo + ((q.hi - q.lo) \div 2)
    IN  /\ pc[t] = "search"
        /\ q.lo + 1 < q.hi
        /\ Think(t, IF KeyrangeRand(t) <= start[mid] THEN [q EXCEPT !.hi = mid]
                                                     ELSE [q EXCEPT !.lo = mid], "search")

\* DistGetKeyID: one iteration of the binary search.
Search(t) ==
    LET q == query[t]
        mid == q.lo + ((q.hi - q.lo) \div 2)
    IN  /\ pc[t] = "search"
        /\ q.lo + 1 < q.hi
        /\ Think(t, IF KeyrangeRand(t) < start[mid] THEN [q EXCEPT !.hi = mid]
                                                    ELSE [q EXCEPT !.lo = mid], "search")

\* DistGetKeyID after the search.
ChooseKey(t) ==
    LET q == query[t]
    IN  /\ pc[t] = "search"
        /\ q.lo + 1 >= q.hi
        /\ Think(t, [q EXCEPT !.text = GenerateKeyFromInt(DistGetKeyID(Opt, q.ini, q.lo))], "lock")
-----------------------------------------------------------------------------
(***************************************************************************)
(* AddOpRecord.  Between lock and unlock the counters are read and then    *)
(* written: ++ is not atomic, the mutex makes it so.                       *)
(***************************************************************************)
\* Mutation: there is no lock.
LockNothing(t) ==
    /\ pc[t] = "lock"
    /\ pc' = [pc EXCEPT ![t] = "read"]
    /\ UNCHANGED <<job, stream, weight, start, main, mi, iter, benchVars, runVars, result, lat>>

Lock(t) ==
    /\ pc[t] = "lock"
    /\ mtx[Own(t)] = Nobody
    /\ mtx' = [mtx EXCEPT ![Own(t)] = t]
    /\ pc' = [pc EXCEPT ![t] = "read"]
    /\ UNCHANGED <<job, stream, weight, start, main, mi, iter, at, query, counter, reg, done, runVars, result, lat>>

ReadCounters(t) ==
    /\ pc[t] = "read"
    /\ reg' = [reg EXCEPT ![t] = counter[Own(t)]]
    /\ pc' = [pc EXCEPT ![t] = "write"]
    /\ UNCHANGED <<job, stream, weight, start, main, mi, iter, at, query, mtx, counter, done, runVars, result, lat>>

WriteCounters(t) ==
    LET key == ConvertKeyToInt(query[t].text)
    IN  /\ pc[t] = "write"
        /\ counter' = [counter EXCEPT ![Own(t)] = Recorded(Opt, reg[t], query[t].type, key)]
        /\ done' = [done EXCEPT ![Own(t)] = @ \cup
                        {[by |-> t, n |-> iter[t], type |-> query[t].type, key |-> key]}]
        /\ pc' = [pc EXCEPT ![t] = "unlock"]
        /\ UNCHANGED <<job, stream, weight, start, main, mi, iter, at, query, mtx, reg, runVars, result, lat>>

\* And GetSingleQuery returns: the runner calls the store, the test goes on.
Unlock(t) ==
    /\ pc[t] = "unlock"
    /\ mtx' = [mtx EXCEPT ![Own(t)] = Nobody]
    /\ IF job.prog = "test"
       THEN pc' = [pc EXCEPT ![t] = "loop"] /\ iter' = [iter EXCEPT ![t] = @ + 1]
       ELSE pc' = [pc EXCEPT ![t] = "call"] /\ iter' = iter
    /\ UNCHANGED <<job, stream, weight, start, main, mi, at, query, counter, reg, done, runVars, result, lat>>
-----------------------------------------------------------------------------
(***************************************************************************)
(* The rest of an iteration of the runner's thread_task.                   *)
(***************************************************************************)
\* The query of thread t is counted and timed, and the loop goes on.
Book(t, ok) ==
    LET type == query[t].type
    IN  /\ pc[t] = "call"
        /\ tally' = [tally EXCEPT ![t][type] = [count |-> @.count + 1, success |-> @.success + Bit(ok)]]
        /\ vec' = [vec EXCEPT ![t][type] = Append(@, <<t, iter[t]>>)]
        /\ iter' = [iter EXCEPT ![t] = @ + 1]
        /\ pc' = [pc EXCEPT ![t] = "loop"]
        /\ UNCHANGED <<job, stream, weight, start, main, mi, benchVars, result, lat>>

Value0(n) == [head |-> 0, len |-> n]

DoPut(t) ==
    /\ query[t].type = "Put"
    /\ \E out \in PutOutcomes(db, query[t].text, Value0(Opt.value)) : Book(t, out.ok) /\ db' = out.db

DoGet(t) ==
    /\ query[t].type = "Get"
    /\ \E out \in GetOutcomes(db, query[t].text, Value0(0)) : Book(t, out.ok) /\ db' = db

\* The branch of SeekForPrev counts and calls nothing.
DoSeek(t) ==
    /\ query[t].type = "SeekForPrev"
    /\ Book(t, FALSE)
    /\ db' = db

Finish(t) ==
    /\ pc[t] = "loop"
    /\ iter[t] >= Quota
    /\ pc' = [pc EXCEPT ![t] = "finished"]
    /\ UNCHANGED <<job, stream, weight, start, main, mi, iter, benchVars, runVars, result, lat>>

ThreadStep(t) ==
    \/ MixGraph(t) \/ MixGraphPrefix(t) \/ ReadRandom(t) \/ MixRandom(t)
    \/ Search(t) \/ ChooseKey(t)
    \/ Lock(t) \/ ReadCounters(t) \/ WriteCounters(t) \/ Unlock(t)
    \/ DoPut(t) \/ DoGet(t) \/ DoSeek(t) \/ Finish(t)
-----------------------------------------------------------------------------
(***************************************************************************)
(* The main threads: both start their threads and join them; then one      *)
(* writes the report and the other prints the counters.                    *)
(***************************************************************************)
\* One iteration of a loop over the threads.
Advance(here, next) ==
    /\ main = here
    /\ IF mi + 1 < job.threads THEN mi' = mi + 1 /\ main' = here
                               ELSE mi' = 0 /\ main' = next

Spawn ==
    /\ Advance("spawn", "join")
    /\ pc' = [pc EXCEPT ![mi] = "loop"]
    /\ UNCHANGED <<job, stream, weight, start, iter, benchVars, runVars, result, lat>>

\* Mutations: the threads are not waited for; every slot of the array is.
JoinWithoutWaiting ==
    /\ Advance("join", "report")
    /\ UNCHANGED <<job, stream, weight, start, pc, iter, benchVars, runVars, result, lat>>

JoinEverySlot ==
    /\ main = "join"
    /\ pc[mi] = "finished"
    /\ IF mi + 1 < MaxThreads THEN mi' = mi + 1 /\ main' = "join"
                              ELSE mi' = 0 /\ main' = "report"
    /\ UNCHANGED <<job, stream, weight, start, pc, iter, benchVars, runVars, result, lat>>

Join ==
    /\ Advance("join", "report")
    /\ pc[mi] = "finished"
    /\ UNCHANGED <<job, stream, weight, start, pc, iter, benchVars, runVars, result, lat>>

\* The lines of a thread; its .lat files have the names of every other thread's.
Report ==
    /\ job.prog = "runner"
    /\ Advance("report", "exited")
    /\ result' = Append(result, tally[mi])
    /\ lat' = [k \in Kind |-> IF vec[mi][k] = <<>> THEN lat[k] ELSE vec[mi][k]]
    /\ UNCHANGED <<job, stream, weight, start, pc, iter, benchVars, runVars>>

\* What it prints is counter[0].
StatusReport ==
    /\ job.prog = "test"
    /\ main = "report"
    /\ main' = "exited"
    /\ UNCHANGED <<job, stream, weight, start, mi, pc, iter, benchVars, runVars, result, lat>>

MainStep == Spawn \/ Join \/ Report \/ StatusReport

Terminated == main = "exited" /\ UNCHANGED vars

Next == MainStep \/ (\E t \in Thread : ThreadStep(t)) \/ Terminated

Spec == Init /\ [][Next]_vars

\* Threads of an operating system, and a store whose calls return.  The mutex
\* need not be fair: it is taken a bounded number of times.
FairSpec == Spec /\ WF_vars(MainStep) /\ \A t \in Thread : WF_vars(ThreadStep(t))
=============================================================================
