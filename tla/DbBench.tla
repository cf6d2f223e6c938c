------------------------------- MODULE DbBench -------------------------------
(***************************************************************************)
(* benchmark/dbbench: one process that runs two workloads on one database, *)
(* first Puts only, then Gets only.  Each workload makes a DBBench object  *)
(* per thread, with a generator of its own, and a WorkloadGenerator, whose *)
(* Run starts the threads, joins them and writes the results.  Threads     *)
(* share nothing but the store, which an iteration of thread_task calls    *)
(* once: an iteration is one step.  DELETE and SCAN are never chosen.      *)
(***************************************************************************)
EXTENDS Integers, Sequences, DbAdapter, LehmerRandom

CONSTANTS FirstSeed,    \* _seed = 1000
          ValueLength,  \* --value_length
          MaxThreads,   \* the 32 slots of _threads and _params
          IntMax,       \* the largest int
          Jobs          \* command lines to consider

\* dbsize and work are bytes, --dbsize and _psize * _dbsize; keys is how many
\* different keys --key_length bytes can hold.
Job == [threads : 1 .. MaxThreads, dbsize : Nat, work : Nat, keys : Nat \ {0}]

ASSUME DbBenchAssumption ==
    /\ FirstSeed \in Nat
    /\ ValueLength \in Nat \ {0}
    /\ MaxThreads \in Nat \ {0}
    /\ IntMax \in Nat
    /\ Jobs \subseteq Job

VARIABLES
    job,      \* the command line
    phase,    \* 1 for SINGLE_PUT, 2 for SINGLE_GET
    main,     \* where the main thread is
    mi,       \* its loop index
    pc,       \* where each thread_task is
    iter,     \* its i
    seed,     \* the seed_ of its generator
    tally,    \* its result_count and result_success
    vec,      \* its vec_latency: a latency is known by thread and iteration
    db,       \* the contents of the store
    result,   \* the lines of the .result file of each phase, one per thread
    lat       \* the .lat file of each phase

vars == <<job, phase, main, mi, pc, iter, seed, tally, vec, db, result, lat>>

Thread == 0 .. MaxThreads - 1

\* uint64_t to int, in two's complement.
Count ==
    LET span == 2 * (IntMax + 1)
        low  == (job.work \div (ValueLength * job.threads)) % span
    IN  IF low <= IntMax THEN low ELSE low - span

\* generate_kv_pair: the first --key_length bytes of the number are the key.
KeyOf(uid) == uid % job.keys

NewBenchmarks == [t \in Thread |-> Random(FirstSeed + t)]

NewTally == [t \in Thread |-> [count |-> 0, success |-> 0]]

Init ==
    /\ job \in Jobs
    /\ phase = 1
    /\ main = "spawn"
    /\ mi = 0
    /\ pc = [t \in Thread |-> "unborn"]
    /\ iter = [t \in Thread |-> 0]
    /\ seed = NewBenchmarks
    /\ tally = NewTally
    /\ vec = [t \in Thread |-> <<>>]
    /\ db = << >>
    /\ result = [p \in 1 .. 2 |-> <<>>]
    /\ lat = [p \in 1 .. 2 |-> <<>>]
-----------------------------------------------------------------------------
(***************************************************************************)
(* thread_task.                                                            *)
(***************************************************************************)
\* The loop goes on for thread t: its generator moves to a number, and the
\* call made with it is counted and timed.
Iterate(t, ok) ==
    /\ pc[t] = "loop"
    /\ iter[t] < Count
    /\ seed' = [seed EXCEPT ![t] = NextSeed(seed[t])]
    /\ tally' = [tally EXCEPT ![t] = [count |-> tally[t].count + 1,
                                      success |-> tally[t].success + (IF ok THEN 1 ELSE 0)]]
    /\ vec' = [vec EXCEPT ![t] = Append(vec[t], <<t, iter[t]>>)]
    /\ iter' = [iter EXCEPT ![t] = iter[t] + 1]
    /\ UNCHANGED <<job, phase, main, mi, pc, result, lat>>

\* The number the generator of t moves to, and the buffers made of it.
Uid(t) == NextSeed(seed[t])
Buffer(t) == [head |-> Uid(t), len |-> ValueLength]

\* Mutation: the number is the one the generator stood at.
DoPutOldSeed(t) ==
    /\ phase = 1
    /\ \E out \in PutOutcomes(db, KeyOf(seed[t]), [head |-> seed[t], len |-> ValueLength]) :
        Iterate(t, out.ok) /\ db' = out.db

DoPut(t) ==
    /\ phase = 1
    /\ \E out \in PutOutcomes(db, KeyOf(Uid(t)), Buffer(t)) : Iterate(t, out.ok) /\ db' = out.db

DoGet(t) ==
    /\ phase = 2
    /\ \E out \in GetOutcomes(db, KeyOf(Uid(t)), Buffer(t)) : Iterate(t, out.ok) /\ db' = db

\* Mutation: the loop may stop one iteration early.
FinishEarly(t) ==
    /\ pc[t] = "loop"
    /\ iter[t] + 1 >= Count
    /\ pc' = [pc EXCEPT ![t] = "finished"]
    /\ UNCHANGED <<job, phase, main, mi, iter, seed, tally, vec, db, result, lat>>

Finish(t) ==
    /\ pc[t] = "loop"
    /\ iter[t] >= Count
    /\ pc' = [pc EXCEPT ![t] = "finished"]
    /\ UNCHANGED <<job, phase, main, mi, iter, seed, tally, vec, db, result, lat>>

ThreadStep(t) == DoPut(t) \/ DoGet(t) \/ Finish(t)
-----------------------------------------------------------------------------
(***************************************************************************)
(* WorkloadGenerator::Run, and main around it.                             *)
(***************************************************************************)
\* One iteration of a loop over the threads of the job.
Advance(here, next) ==
    /\ main = here
    /\ IF mi + 1 < job.threads THEN mi' = mi + 1 /\ main' = here
                               ELSE mi' = 0 /\ main' = next

Spawn ==
    /\ Advance("spawn", "join")
    /\ pc' = [pc EXCEPT ![mi] = "loop"]
    /\ UNCHANGED <<job, phase, iter, seed, tally, vec, db, result, lat>>

\* Mutations: the threads are not waited for; every slot of the array is.
JoinWithoutWaiting ==
    /\ Advance("join", "report")
    /\ UNCHANGED <<job, phase, pc, iter, seed, tally, vec, db, result, lat>>

JoinEverySlot ==
    /\ main = "join"
    /\ pc[mi] = "finished"
    /\ IF mi + 1 < MaxThreads THEN mi' = mi + 1 /\ main' = "join"
                              ELSE mi' = 0 /\ main' = "report"
    /\ UNCHANGED <<job, phase, pc, iter, seed, tally, vec, db, result, lat>>

Join ==
    /\ Advance("join", "report")
    /\ pc[mi] = "finished"
    /\ UNCHANGED <<job, phase, pc, iter, seed, tally, vec, db, result, lat>>

\* The lines of a thread; its .lat file has the name of every other thread's.
Report ==
    /\ Advance("report", IF phase = 1 THEN "next" ELSE "exited")
    /\ result' = [result EXCEPT ![phase] = Append(@, tally[mi])]
    /\ lat' = IF vec[mi] = <<>> THEN lat ELSE [lat EXCEPT ![phase] = vec[mi]]
    /\ UNCHANGED <<job, phase, pc, iter, seed, tally, vec, db>>

\* Mutation: the objects of the first workload are used again.
StartGetSameObjects ==
    /\ main = "next"
    /\ phase' = 2
    /\ main' = "spawn"
    /\ pc' = [t \in Thread |-> "unborn"]
    /\ iter' = [t \in Thread |-> 0]
    /\ tally' = NewTally
    /\ vec' = [t \in Thread |-> <<>>]
    /\ UNCHANGED <<job, mi, seed, db, result, lat>>

\* start_workload for SINGLE_GET, with objects and parameters of its own.
StartGet ==
    /\ main = "next"
    /\ phase' = 2
    /\ main' = "spawn"
    /\ pc' = [t \in Thread |-> "unborn"]
    /\ iter' = [t \in Thread |-> 0]
    /\ seed' = NewBenchmarks
    /\ tally' = NewTally
    /\ vec' = [t \in Thread |-> <<>>]
    /\ UNCHANGED <<job, mi, db, result, lat>>

MainStep == Spawn \/ Join \/ Report \/ StartGet

Terminated == main = "exited" /\ UNCHANGED vars

Next == MainStep \/ (\E t \in Thread : ThreadStep(t)) \/ Terminated

Spec == Init /\ [][Next]_vars

\* Threads of an operating system, and a store whose calls return.
FairSpec == Spec /\ WF_vars(MainStep) /\ \A t \in Thread : WF_vars(ThreadStep(t))
=============================================================================
