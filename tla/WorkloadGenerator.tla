------------------------- MODULE WorkloadGenerator -------------------------
(***************************************************************************)
(* benchmark/ycsb: a tester process opens a database, creates one YCSB     *)
(* object per thread, spawns the threads, joins them in order, writes the  *)
(* per-thread latency files, drains the global latency queues into the     *)
(* total files, and exits.  A campaign is a sequence of such processes on  *)
(* one database path, as run_warmup.sh followed by run_test.sh: the store  *)
(* survives from job to job, everything else is new.                       *)
(*                                                                         *)
(* A latency is modelled by its identity, the pair of the thread that      *)
(* measured it and the number of the iteration it was measured in.         *)
(***************************************************************************)
EXTENDS Naturals, Sequences, DbAdapter, YcsbSizing

CONSTANT Campaigns   \* the sequences of jobs to consider

ASSUME CampaignsAssumption == Campaigns \subseteq Seq(Job) \ {<<>>}

VARIABLES
    campaign,   \* the sequence of jobs, fixed at the start
    cur,        \* the job running
    main,       \* where the main thread is
    mi,         \* the main thread's loop index
    db,         \* the contents of the store
    pc,         \* where each thread_task is
    iter,       \* its loop variable i
    seq,        \* sequential_key_id_ of its YCSB object
    op,         \* __type
    key,        \* the number in _key
    buf,        \* _value and _value_length
    count,      \* result_count
    success,    \* result_success
    vec,        \* vec_latency
    queue,      \* g_queue, one per operation, shared by the threads
    threadLat,  \* the thread<i>_<name>_<op>.lat files
    totalLat    \* the total_<name>_<op>.lat files

threadVars == <<pc, iter, seq, op, key, buf, count, success, vec>>
mainVars   == <<campaign, cur, main, mi, threadLat, totalLat>>
vars == <<mainVars, db, threadVars, queue>>

J == campaign[cur]

\* YCSB_NUM_OPT_TYPE operation types, in the order of their codes.
OpOrder == <<"PUT", "UPDATE", "GET", "DELETE", "SCAN", "RMW">>

PerThread(x) == [t \in Thread |-> x]
PerOp(x) == [o \in Ops |-> x]

\* thread_param_t() zeroes the results, YCSB() the sequence, and thread_task
\* its buffers.
Init ==
    /\ campaign \in Campaigns
    /\ cur = 1
    /\ db = << >>
    /\ main = "spawn"
    /\ mi = 0
    /\ pc = PerThread("unborn")
    /\ iter = PerThread(0)
    /\ seq = PerThread(0)
    /\ op = PerThread("PUT")
    /\ key = PerThread(0)
    /\ buf = PerThread([head |-> 0, len |-> 0])
    /\ count = PerThread(PerOp(0))
    /\ success = PerThread(PerOp(0))
    /\ vec = PerThread(PerOp(<<>>))
    /\ queue = PerOp(<<>>)
    /\ threadLat = PerThread(PerOp(<<>>))
    /\ totalLat = PerOp(<<>>)
-----------------------------------------------------------------------------
(***************************************************************************)
(* thread_task.                                                            *)
(***************************************************************************)
At(t, from, to) == pc[t] = from /\ pc' = [pc EXCEPT ![t] = to]

\* i < _count: draw a key and an operation, write the key's number into the
\* key and into the head of the value, set the length of the value.
GetKvPair(t) ==
    /\ iter[t] < OpCount(J)
    /\ At(t, "loop", "issued")
    /\ \E k \in KeyChoices(J, t, seq[t]), o \in OpChoices(J) :
        /\ key' = [key EXCEPT ![t] = k]
        /\ buf' = [buf EXCEPT ![t] = [head |-> k, len |-> ValueLength]]
        /\ op' = [op EXCEPT ![t] = o]
    /\ seq' = IF IsWarmup(J) THEN [seq EXCEPT ![t] = @ + 1] ELSE seq
    /\ UNCHANGED <<mainVars, db, iter, count, success, vec, queue>>

\* Mutation: only successful operations are counted.
TallySuccesses(t, o, ok) ==
    /\ count' = IF ok THEN [count EXCEPT ![t][o] = @ + 1] ELSE count
    /\ success' = IF ok THEN [success EXCEPT ![t][o] = @ + 1] ELSE success

\* result_count[type]++, and result_success[type]++ if the call succeeded.
Tally(t, o, ok) ==
    /\ count' = [count EXCEPT ![t][o] = @ + 1]
    /\ success' = IF ok THEN [success EXCEPT ![t][o] = @ + 1] ELSE success

\* YCSB_PUT and YCSB_UPDATE both call DB::Put.
DoPut(t) ==
    /\ op[t] \in {"PUT", "UPDATE"}
    /\ At(t, "issued", "push")
    /\ \E out \in PutOutcomes(db, key[t], buf[t]) :
        /\ db' = out.db
        /\ Tally(t, op[t], out.ok)
    /\ UNCHANGED <<mainVars, iter, seq, op, key, buf, vec, queue>>

DoGet(t) ==
    /\ op[t] = "GET"
    /\ At(t, "issued", "push")
    /\ \E out \in GetOutcomes(db, key[t], buf[t]) :
        /\ buf' = [buf EXCEPT ![t] = out.buf]
        /\ Tally(t, "GET", out.ok)
    /\ UNCHANGED <<mainVars, db, iter, seq, op, key, vec, queue>>

\* Mutation: the result of the read is not looked at.
RmwReadUnchecked(t) ==
    /\ op[t] = "RMW"
    /\ At(t, "issued", "modify")
    /\ \E out \in GetOutcomes(db, key[t], buf[t]) : buf' = [buf EXCEPT ![t] = out.buf]
    /\ UNCHANGED <<mainVars, db, iter, seq, op, key, count, success, vec, queue>>

\* Read, modify, write is two calls: other threads may run between them, and
\* a failed read ends the operation.
RmwRead(t) ==
    /\ op[t] = "RMW"
    /\ \E out \in GetOutcomes(db, key[t], buf[t]) :
        /\ buf' = [buf EXCEPT ![t] = out.buf]
        /\ IF out.ok
           THEN At(t, "issued", "modify") /\ UNCHANGED <<count, success>>
           ELSE At(t, "issued", "push") /\ Tally(t, "RMW", FALSE)
    /\ UNCHANGED <<mainVars, db, iter, seq, op, key, vec, queue>>

RmwWrite(t) ==
    /\ At(t, "modify", "push")
    /\ \E out \in PutOutcomes(db, key[t], buf[t]) :
        /\ db' = out.db
        /\ Tally(t, "RMW", out.ok)
    /\ UNCHANGED <<mainVars, iter, seq, op, key, buf, vec, queue>>

\* The YCSB_SCAN branch is empty: no call, no count.
DoScan(t) ==
    /\ op[t] = "SCAN"
    /\ At(t, "issued", "push")
    /\ UNCHANGED <<mainVars, db, iter, seq, op, key, buf, count, success, vec, queue>>

PushLatency(t) ==
    /\ At(t, "push", "book")
    /\ queue' = [queue EXCEPT ![op[t]] = Append(@, <<t, iter[t]>>)]
    /\ UNCHANGED <<mainVars, db, iter, seq, op, key, buf, count, success, vec>>

BookLatency(t) ==
    /\ At(t, "book", "loop")
    /\ vec' = [vec EXCEPT ![t][op[t]] = Append(@, <<t, iter[t]>>)]
    /\ iter' = [iter EXCEPT ![t] = @ + 1]
    /\ UNCHANGED <<mainVars, db, seq, op, key, buf, count, success, queue>>

\* Mutation: the loop may stop one iteration early.
FinishEarly(t) ==
    /\ iter[t] + 1 >= OpCount(J)
    /\ At(t, "loop", "finished")
    /\ UNCHANGED <<mainVars, db, iter, seq, op, key, buf, count, success, vec, queue>>

Finish(t) ==
    /\ iter[t] >= OpCount(J)
    /\ At(t, "loop", "finished")
    /\ UNCHANGED <<mainVars, db, iter, seq, op, key, buf, count, success, vec, queue>>

ThreadStep(t) ==
    \/ GetKvPair(t) \/ DoPut(t) \/ DoGet(t) \/ RmwRead(t) \/ RmwWrite(t)
    \/ DoScan(t) \/ PushLatency(t) \/ BookLatency(t) \/ Finish(t)
-----------------------------------------------------------------------------
(***************************************************************************)
(* WorkloadGenerator::Run, and main around it.                             *)
(***************************************************************************)
\* Mutation: i <= bound.
AdvanceOneMore(here, bound, next) ==
    /\ main = here
    /\ IF mi + 1 <= bound THEN mi' = mi + 1 /\ main' = here
                          ELSE mi' = 0 /\ main' = next

\* One iteration of a loop `for (int i = 0; i < bound; i++)` of the main
\* thread at place `here`; after the last one it goes on to `next`.
Advance(here, bound, next) ==
    /\ main = here
    /\ IF mi + 1 < bound THEN mi' = mi + 1 /\ main' = here
                         ELSE mi' = 0 /\ main' = next

Spawn ==
    /\ Advance("spawn", J.threads, "join")
    /\ pc' = [pc EXCEPT ![mi] = "loop"]
    /\ UNCHANGED <<campaign, cur, threadLat, totalLat, db, iter, seq, op, key,
                   buf, count, success, vec, queue>>

\* Mutations: the threads are not waited for; every slot of the array is.
JoinWithoutWaiting ==
    /\ Advance("join", J.threads, "report")
    /\ UNCHANGED <<campaign, cur, threadLat, totalLat, db, threadVars, queue>>

JoinEverySlot ==
    /\ Advance("join", MaxThreads, "report")
    /\ pc[mi] = "finished"
    /\ UNCHANGED <<campaign, cur, threadLat, totalLat, db, threadVars, queue>>

Join ==
    /\ Advance("join", J.threads, "report")
    /\ pc[mi] = "finished"
    /\ UNCHANGED <<campaign, cur, threadLat, totalLat, db, threadVars, queue>>

\* A thread's file for an operation is written when it has latencies of it:
\* an absent file is the empty sequence.
Report ==
    /\ Advance("report", J.threads, "drain")
    /\ threadLat' = [threadLat EXCEPT ![mi] = vec[mi]]
    /\ UNCHANGED <<campaign, cur, totalLat, db, threadVars, queue>>

\* result_output2: while (!empty()) { try_pop(_lat); write _lat }
DrainPop ==
    LET o == OpOrder[mi + 1] IN
    /\ main = "drain"
    /\ queue[o] # <<>>
    /\ totalLat' = [totalLat EXCEPT ![o] = Append(@, Head(queue[o]))]
    /\ queue' = [queue EXCEPT ![o] = Tail(@)]
    /\ UNCHANGED <<campaign, cur, main, mi, threadLat, db, threadVars>>

DrainNext ==
    /\ Advance("drain", Len(OpOrder), "exit")
    /\ queue[OpOrder[mi + 1]] = <<>>
    /\ UNCHANGED <<campaign, cur, threadLat, totalLat, db, threadVars, queue>>

\* The next tester process starts on the same database.
NextJob ==
    /\ main = "exit"
    /\ cur < Len(campaign)
    /\ cur' = cur + 1
    /\ main' = "spawn"
    /\ mi' = 0
    /\ pc' = PerThread("unborn")
    /\ iter' = PerThread(0)
    /\ seq' = PerThread(0)
    /\ op' = PerThread("PUT")
    /\ key' = PerThread(0)
    /\ buf' = PerThread([head |-> 0, len |-> 0])
    /\ count' = PerThread(PerOp(0))
    /\ success' = PerThread(PerOp(0))
    /\ vec' = PerThread(PerOp(<<>>))
    /\ queue' = PerOp(<<>>)
    /\ threadLat' = PerThread(PerOp(<<>>))
    /\ totalLat' = PerOp(<<>>)
    /\ UNCHANGED <<campaign, db>>

MainStep == Spawn \/ Join \/ Report \/ DrainPop \/ DrainNext \/ NextJob

CampaignOver == main = "exit" /\ cur = Len(campaign)

Terminated == CampaignOver /\ UNCHANGED vars

Next == MainStep \/ (\E t \in Thread : ThreadStep(t)) \/ Terminated

Spec == Init /\ [][Next]_vars

\* Every thread is an operating system thread and keeps running; a call into
\* the store returns.
FairSpec == Spec /\ WF_vars(MainStep) /\ \A t \in Thread : WF_vars(ThreadStep(t))
=============================================================================
