------------------------ MODULE WorkloadProperties ------------------------
(***************************************************************************)
(* What a campaign of YCSB jobs must keep, stated over WorkloadGenerator.  *)
(***************************************************************************)
EXTENDS WorkloadGenerator, Integers

Token == Thread \X Nat

PlacesOfThread == {"unborn", "loop", "issued", "modify", "push", "book", "finished"}
PlacesOfMain == {"spawn", "join", "report", "drain", "exit"}

\* The threads the running job has.
Workers == 0 .. J.threads - 1

\* The value generate_kv_pair writes for a key.
Whole(k) == [head |-> k, len |-> ValueLength]

\* Type correctness of every variable; the main thread's index stays within
\* the loop it is in.
TypeOK ==
    /\ campaign \in Campaigns
    /\ cur \in 1 .. Len(campaign)
    /\ main \in PlacesOfMain
    /\ mi \in Nat
    /\ main \in {"spawn", "join", "report"} => mi < J.threads
    /\ main = "drain" => mi < Len(OpOrder)
    /\ DOMAIN db \subseteq Nat
    /\ db \in [DOMAIN db -> Value]
    /\ pc \in [Thread -> PlacesOfThread]
    /\ iter \in [Thread -> Nat]
    /\ seq \in [Thread -> Nat]
    /\ op \in [Thread -> Ops]
    /\ key \in [Thread -> Nat]
    /\ buf \in [Thread -> Value]
    /\ count \in [Thread -> [Ops -> Nat]]
    /\ success \in [Thread -> [Ops -> Nat]]
    /\ vec \in [Thread -> [Ops -> Seq(Token)]]
    /\ queue \in [Ops -> Seq(Token)]
    /\ threadLat \in [Thread -> [Ops -> Seq(Token)]]
    /\ totalLat \in [Ops -> Seq(Token)]

\* Every value in the store carries its own key in its head and has the full
\* length.  A read-modify-write writes back the buffer its read filled, and a
\* read that misses sets the length to 0: a write-back after a miss, or of
\* another thread's or another iteration's buffer, would break this.
StoredWhole == \A k \in DOMAIN db : db[k] = Whole(k)

\* A thread's buffer holds the key of the operation under way, whatever the
\* other threads store meanwhile: what test.cc asserts of a successful Get
\* (__v == i), for every workload.
BuffersOwnKey ==
    \A t \in Thread : pc[t] \in {"issued", "modify", "push", "book"} =>
        buf[t].head = key[t]

\* ycsb.h: "key range is [base_key, base_key + key_range]".  The generators
\* count from 1 (zipf, SEQ) or from 0 (uniform), and in a warm up the slices
\* of all threads together stay inside the keys a test can draw.
KeysInRange ==
    \A t \in Workers : pc[t] \in {"issued", "modify"} =>
        /\ key[t] \in BaseKey(J, t) .. BaseKey(J, t) + YcsbRange(J, t)
        /\ key[t] <= KeyRange(J) + 1

\* Of every operation the harness executes, what a thread counted is what it
\* recorded a latency of, but for the operation between its count and its
\* latency; successes never exceed operations.
CountsMatchLatencies ==
    \A t \in Thread, o \in Ops \ {"SCAN"} :
        /\ count[t][o] = Len(vec[t][o])
                         + (IF pc[t] \in {"push", "book"} /\ op[t] = o THEN 1 ELSE 0)
        /\ success[t][o] <= count[t][o]

Entries(s) == {s[n] : n \in DOMAIN s}

\* Of any one thread, the latencies are in the order it measured them in, and
\* none is there twice.
MeasuredInOrder(s) ==
    \A n, m \in DOMAIN s : n < m /\ s[n][1] = s[m][1] => s[n][2] < s[m][2]

\* When a job is over, each total file is an interleaving of the files of the
\* threads: every latency any thread measured is in it once, in that thread's
\* order, and nothing is left in the queues for a later job.
TotalFileIsMerge ==
    main = "exit" => \A o \in Ops :
        /\ queue[o] = <<>>
        /\ MeasuredInOrder(totalLat[o])
        /\ \A t \in Thread :
            /\ MeasuredInOrder(threadLat[t][o])
            /\ Entries(threadLat[t][o]) = {e \in Entries(totalLat[o]) : e[1] = t}

\* The number of latencies a thread has booked.
Booked(t) ==
    LET n(o) == Len(vec[t][o])
    IN  n("PUT") + n("UPDATE") + n("GET") + n("SCAN") + n("RMW")

\* for (int i = 0; i < _count; i++) with a negative _count does nothing.
Iterations(j) == IF OpCount(j) > 0 THEN OpCount(j) ELSE 0

\* What comes of n operations when n is stored into an int: all of them if it
\* fits, none if the sign bit is set, never more than an int holds.
InInt(n, made) ==
    /\ made \in 0 .. IntMax
    /\ n <= IntMax => made = n
    /\ n \in IntMax + 1 .. 2 * IntMax + 1 => made = 0

\* When the files are being written every thread has performed the number of
\* operations it was given, none of them with a latency missing: its share of
\* the work, unless that share does not fit the int it is stored into.
ReportIsComplete ==
    main \in {"report", "drain", "exit"} =>
        \A t \in Workers :
            /\ Booked(t) = Iterations(J)
            /\ InInt(DataSize(J) \div (ValueLength * J.threads), Booked(t))

\* A warm up of an empty store never writes a key twice: the slices of the
\* threads do not meet, so the store a key is about to be put into does not
\* have it yet.
LoadIsFresh ==
    cur = 1 /\ IsWarmup(J) =>
        \A t \in Thread : pc[t] = "issued" => key[t] \notin DOMAIN db

LoadedKeys(j) == UNION {BaseKey(j, t) + 1 .. BaseKey(j, t) + OpCount(j) :
                            t \in 0 .. j.threads - 1}

\* What a warm up leaves behind: a prefix of every thread's slice, all of it
\* unless the store failed.
WarmLoadExact ==
    cur = 1 /\ IsWarmup(J) /\ main = "exit" =>
        /\ DOMAIN db \subseteq LoadedKeys(J)
        /\ Faults = {} => DOMAIN db = LoadedKeys(J)

\* YCSB-C only reads and YCSB-F writes back what it read: neither changes the
\* store, although the two halves of a read-modify-write of one thread
\* interleave with those of another.
ReadOnlyJobsPreserve ==
    [][J.btype \in {"ycsb-c", "ycsb-f"} => db' = db]_vars

\* The running job draws zipfian keys from what one thread has loaded in full.
DrawsFromLoad ==
    /\ Faults = {} /\ J.zipf /\ IsWarmup(campaign[1]) /\ campaign[1].threads = 1
    /\ J.dbsize = campaign[1].dbsize /\ OpCount(campaign[1]) = KeyRange(campaign[1])

\* A single-threaded warm up loads exactly the keys a zipfian test of the same
\* --dbsize draws from, one past those of a uniform test: every operation of
\* such a test succeeds, unless the store fails.
ZipfTestHits ==
    DrawsFromLoad => \A t \in Thread : success[t] = count[t]

\* Every campaign comes to an end: no thread waits for another, the joins
\* return and the queues drain.
Terminates == <>CampaignOver

\* main.cc: "warm up size (B)" is --dbsize and "test size = g_psize * dbsize":
\* the threads together perform that many bytes of operations.
WorkloadIsFullSize ==
    main = "exit" =>
        LET done[n \in 0 .. MaxThreads] == IF n = 0 THEN 0 ELSE done[n - 1] + iter[n - 1]
        IN  done[J.threads] = WorkloadSize(J) \div ValueLength
-----------------------------------------------------------------------------
(***************************************************************************)
(* The inductive invariants behind the theorems.                           *)
(***************************************************************************)
\* Between get_kv_pair and the end of the iteration.
Busy(t) == pc[t] \in {"issued", "modify", "push", "book"}

\* Only the threads of the job are started, and each of them once.
OnlyWorkersRun == \A t \in Thread : pc[t] # "unborn" =>
    t \in Workers /\ (main = "spawn" => t < mi)

\* The operation under way is one of the workload's, on a key get_kv_pair can
\* draw, with the key's own value in the buffer until the call that reads or
\* writes it; the write of a read-modify-write finds what was read.
OperationOK(t) ==
    Busy(t) =>
        /\ op[t] \in OpChoices(J)
        /\ buf[t].head = key[t]
        /\ IsWarmup(J) => key[t] = BaseKey(J, t) + seq[t]
        /\ ~IsWarmup(J) => key[t] \in 1 .. KeyRange(J) + 1
        /\ pc[t] \in {"issued", "modify"} => buf[t] = Whole(key[t])
        /\ pc[t] = "modify" => op[t] = "RMW" /\ key[t] \in DOMAIN db

\* A warm-up thread has drawn one key per iteration, never past its slice.
SequenceOK(t) ==
    IsWarmup(J) =>
        /\ seq[t] = iter[t] + (IF Busy(t) THEN 1 ELSE 0)
        /\ seq[t] <= EachRange(J)

\* What a warm up of an empty store has stored: keys its threads have drawn,
\* save those they are about to put.
LoadedSoFar ==
    cur = 1 /\ IsWarmup(J) =>
        \A k \in DOMAIN db : \E t \in Workers : \E m \in 1 .. seq[t] :
            k = BaseKey(J, t) + m /\ (pc[t] = "issued" => m < seq[t])

\* One latency is booked in each iteration, and only the last one done lets the
\* thread finish.
LoopOK(t) ==
    /\ Booked(t) = iter[t]
    /\ iter[t] <= Iterations(J)
    /\ Busy(t) => iter[t] < OpCount(J)
    /\ pc[t] = "finished" => iter[t] = Iterations(J)

\* The threads the main thread has joined have finished.
JoinedFinished ==
    /\ main = "join" => \A t \in Thread : t < mi => pc[t] = "finished"
    /\ main \in {"report", "drain", "exit"} => \A t \in Workers : pc[t] = "finished"

\* What the report rests on: counts, latencies and iterations agree, and only
\* finished threads have been joined.
ReportInv ==
    /\ CountsMatchLatencies
    /\ \A t \in Thread : LoopOK(t)
    /\ JoinedFinished

\* What the store, the buffers and the slices rest on.
SafetyInv ==
    /\ OnlyWorkersRun
    /\ StoredWhole
    /\ \A t \in Thread : OperationOK(t) /\ SequenceOK(t)
    /\ LoadedSoFar

\* The key of every iteration a warm up that does not fail is past the Put of.
StoredSoFar ==
    Faults = {} /\ cur = 1 /\ IsWarmup(J) =>
        \A t \in Workers : \A m \in 1 .. seq[t] :
            m < seq[t] \/ pc[t] # "issued" => BaseKey(J, t) + m \in DOMAIN db

\* The later jobs take nothing of it away.
LoadKept ==
    Faults = {} /\ cur > 1 /\ IsWarmup(campaign[1]) =>
        LoadedKeys(campaign[1]) \subseteq DOMAIN db

\* Its keys start one past the base, as the load's do, and none was missed.
HitsOK(t) ==
    DrawsFromLoad =>
        /\ Busy(t) /\ ~IsWarmup(J) => key[t] \in 2 .. KeyRange(J) + 1
        /\ success[t] = count[t]

\* What the hits of a store that works rest on.
HealthyInv ==
    /\ StoredSoFar
    /\ LoadKept
    /\ \A t \in Thread : HitsOK(t)

\* What of one operation has left the threads, in the order of its total file.
Pushed(o) == totalLat[o] \o queue[o]

\* What a thread has pushed: what it has booked and what it is about to book.
PushedBy(t, o) ==
    Entries(vec[t][o]) \cup (IF pc[t] = "book" /\ op[t] = o THEN {<<t, iter[t]>>} ELSE {})

PushedOK(o) ==
    /\ MeasuredInOrder(Pushed(o))
    /\ Entries(Pushed(o)) = UNION {PushedBy(t, o) : t \in Thread}

\* A thread books its own latencies, one per iteration at most.
BookedOK(t, o) ==
    /\ MeasuredInOrder(vec[t][o])
    /\ \A e \in Entries(vec[t][o]) : e[1] = t /\ e[2] < iter[t]
    /\ pc[t] = "unborn" => vec[t][o] = <<>>

Reported(t) == t \in Workers /\ (main = "report" => t < mi) /\ main \in {"report", "drain", "exit"}

\* The file of a thread is its vector, once it has been written.
FileOK(t, o) == threadLat[t][o] = IF Reported(t) THEN vec[t][o] ELSE <<>>

\* A queue the main thread has passed stays empty.
DrainedOK ==
    /\ main = "drain" => \A k \in 1 .. mi : queue[OpOrder[k]] = <<>>
    /\ main = "exit" => \A o \in Ops : queue[o] = <<>>

\* What the total files rest on.
MergeInv ==
    /\ \A o \in Ops : PushedOK(o)
    /\ \A t \in Thread, o \in Ops : BookedOK(t, o) /\ FileOK(t, o)
    /\ DrainedOK
=============================================================================
