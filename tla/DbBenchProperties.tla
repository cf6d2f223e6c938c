-------------------------- MODULE DbBenchProperties --------------------------
(***************************************************************************)
(* What must hold of db_bench.                                             *)
(***************************************************************************)
EXTENDS DbBench, FiniteSets

Phases == 1 .. 2

\* Every variable has its type; a generator never stands at 0 or M.
TypeOK ==
    /\ job \in Jobs
    /\ phase \in Phases
    /\ main \in {"spawn", "join", "report", "next", "exited"}
    /\ mi \in 0 .. job.threads - 1
    /\ pc \in [Thread -> {"unborn", "loop", "finished"}]
    /\ iter \in [Thread -> Nat]
    /\ seed \in [Thread -> 1 .. M - 1]
    /\ tally \in [Thread -> [count : Nat, success : Nat]]
    /\ vec \in [Thread -> Seq(Thread \X Nat)]
    /\ db \in [DOMAIN db -> Value]
    /\ result \in [Phases -> Seq([count : Nat, success : Nat])]
    /\ lat \in [Phases -> Seq(Thread \X Nat)]

\* The numbers of thread t's generator, by the remainders they are to be.
Lehmer(t) == Remainders(Random(FirstSeed + t))

\* The iterations of a thread of the job, none if their count is negative.
Quota == IF Count > 0 THEN Count ELSE 0

\* How many Puts thread t has performed.
Puts(t) == IF phase = 1 THEN iter[t] ELSE IF t < job.threads THEN Quota ELSE 0

\* What the store holds is a number some generator has come to, as a whole record
\* under its own key.
RecordsOfPaths ==
    \A k \in DOMAIN db :
        /\ k = KeyOf(db[k].head) /\ db[k].len = ValueLength
        /\ \E t \in Thread : \E n \in 1 .. Puts(t) : db[k].head = Lehmer(t)[n]

\* SINGLE_PUT: the store holds the first numbers of the threads' sequences, each
\* as a whole record under its own key, and on a store that works all of them.
PutPhaseExact ==
    /\ RecordsOfPaths
    /\ "write" \notin Faults =>
        \A t \in Thread : \A n \in 1 .. Puts(t) : KeyOf(Lehmer(t)[n]) \in DOMAIN db

\* SINGLE_GET looks for keys SINGLE_PUT has put, although it makes generators of
\* its own and the threads run in another order: same seeds, same counts, and
\* all Puts done before.
GetPhaseFinds ==
    /\ "write" \notin Faults /\ phase = 2 =>
        \A t \in Thread : pc[t] = "loop" /\ iter[t] < Count => KeyOf(Uid(t)) \in DOMAIN db
    /\ Faults = {} => \A t \in Thread : tally[t].success = tally[t].count

\* random.h: "seed_ will end up cycling through every number in [1,M-1]": the
\* Puts of a single thread overwrite nothing until they have.
FullPeriod ==
    job.threads = 1 /\ job.keys >= M /\ phase = 1 /\ "write" \notin Faults =>
        Cardinality(DOMAIN db) = IF iter[0] < M THEN iter[0] ELSE M - 1

ReportedPhases == (1 .. phase - 1) \cup (IF main \in {"next", "exited"} THEN {phase} ELSE {})

\* What comes of n operations when n is stored into an int: all of them if it
\* fits, none if the sign bit is set, never more than an int holds.
InInt(n, made) ==
    /\ made \in 0 .. IntMax
    /\ n <= IntMax => made = n
    /\ n \in IntMax + 1 .. 2 * IntMax + 1 => made = 0

\* Run: the lines of a phase are those of all threads, each with its full count,
\* which is its share of the work unless that does not fit the int it is stored
\* into; and the .lat file, which each thread writes over the one before, is
\* whole: the latencies of the last thread, in order.
ReportMatches ==
    \A p \in ReportedPhases :
        /\ Len(result[p]) = job.threads
        /\ \A l \in DOMAIN result[p] :
            /\ result[p][l].count = Quota
            /\ InInt(job.work \div (ValueLength * job.threads), result[p][l].count)
            /\ result[p][l].success <= Quota
            /\ p = 1 /\ "write" \notin Faults => result[p][l].success = Quota
        /\ lat[p] = [n \in 1 .. Quota |-> <<job.threads - 1, n - 1>>]

\* Both workloads end.
Ends == <>(main = "exited")
=============================================================================
