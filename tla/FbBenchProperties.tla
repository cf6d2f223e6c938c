------------------------- MODULE FbBenchProperties -------------------------
(***************************************************************************)
(* What must hold of facebook's Benchmark and of the programs that use it. *)
(***************************************************************************)
EXTENDS FbBench, FiniteSets

Text == 0 .. 2 * Half - 1

QueryType == [ini : 0 .. Opt.num - 1, lo : 0 .. KeyrangeNum, hi : 0 .. KeyrangeNum,
              type : Kind, text : Text]

Recording == [by : Thread, n : Nat, type : Kind, key : -Half .. Half - 1]

\* Every variable has its type; in particular a key is a 64-bit number, and the
\* search stays inside the vector of key ranges.
TypeOK ==
    /\ job \in Jobs /\ stream \in Streams
    /\ weight \in [0 .. KeyrangeNum - 1 -> Nat]
    /\ start \in [0 .. KeyrangeNum -> Nat]
    /\ main \in {"spawn", "join", "report", "exited"}
    /\ mi \in 0 .. job.threads - 1
    /\ pc \in [Thread -> {"unborn", "loop", "search", "lock", "read", "write",
                          "unlock", "call", "finished"}]
    /\ iter \in [Thread -> Nat]
    /\ at \in [Thread -> Nat]
    /\ query \in [Thread -> QueryType]
    /\ \A t \in Thread : pc[t] = "search" => query[t].lo < query[t].hi
    /\ mtx \in [Thread -> Thread \cup {Nobody}]
    /\ counter \in [Thread -> Counters(Opt)]
    /\ reg \in [Thread -> Counters(Opt)]
    /\ done \in [Thread -> SUBSET Recording]
    /\ tally \in [Thread -> [Kind -> [count : Nat, success : Nat]]]
    /\ vec \in [Thread -> [Kind -> Seq(Thread \X Nat)]]
    /\ DOMAIN db \subseteq Text
    /\ result \in Seq([Kind -> [count : Nat, success : Nat]])
    /\ lat \in [Kind -> Seq(Thread \X Nat)]

OfKind(o, k) == {d \in done[o] : d.type = k}
InRange(o, i) == {d \in done[o] : Low(Opt, i) <= d.key /\ d.key < High(Opt, i)}

\* The counter of a range has counted the queries with a key in the range.
RangeHolds(o, i) ==
    LET c == counter[o].ranges[i]
    IN  /\ c.access = Cardinality(InRange(o, i))
        /\ c.read = Cardinality({d \in InRange(o, i) : d.type = "Get"})
        /\ c.write = Cardinality({d \in InRange(o, i) : d.type = "Put"})

\* rocksdb_benchtools.h: "a range bound equals interval [low, high)".
RangesHoldTheirs == \A o \in Thread : \A i \in RangeIndex(Opt) : RangeHolds(o, i)

\* The option sets whose counter ranges share all keys out: ranges of the
\* default size; ranges that divide the keys; or as many ranges as key ranges,
\* of which the prefix model draws whole ones only.
Spanned ==
    \/ Opt.monitor = 0 \/ Opt.num % Opt.monitor = 0
    \/ Opt.access # <<>> /\ Opt.monitor = KeyrangeNum

NeverNegative == Opt.access # <<>> => Opt.flat

Exact(o) ==
    /\ counter[o].total = Cardinality(done[o])
    /\ \A k \in Kind : counter[o].times[k] = Cardinality(OfKind(o, k))
    /\ Spanned /\ NeverNegative => \A i \in RangeIndex(Opt) : RangeHolds(o, i)

\* AddOpRecord: no query is lost or counted twice, whichever threads count at
\* the same time: the totals are the numbers of queries, and where the ranges
\* share the keys out each range has counted its own.
CountersExact == \A o \in Thread : Exact(o)

\* A hash below 0 carries the key down into the key range before the chosen
\* one, at most to its first key, or from the first key range, which has none
\* before it, among the largest numbers of 64 bits.
Strayed(q) ==
    LET s == KeyrangeSize(Opt)
    IN  \/ s * (q.lo - 1) < q.text /\ q.text <= s * q.lo
        \/ q.lo = 0 /\ 2 * Half - s < q.text

\* DistGetKeyID: "Select one key in the key-range".  The search ends at the one
\* key range whose part of [0, rand_max) the draw is in, never at one without
\* a part; and the key is one of its keys, but for a hash that is negative when
\* its remainder is taken, and then it is less than one key range off.
KeyInChosenRange ==
    KeyrangeNum > 0 => \A t \in Thread :
        pc[t] \in {"lock", "read", "write", "unlock", "call"} =>
            LET q == query[t]
                s == KeyrangeSize(Opt)
            IN  /\ q.lo < KeyrangeNum /\ weight[q.lo] > 0
                /\ start[q.lo] <= KeyrangeRand(t)
                /\ KeyrangeRand(t) < start[q.lo] + weight[q.lo]
                /\ IF Opt.flat \/ Hash[q.ini] >= 0
                   THEN s * q.lo <= q.text /\ q.text < s * (q.lo + 1)
                   ELSE Strayed(q)

\* The queries thread t has sent to the store.
Sent(t) == {d \in done[t] : d.n < iter[t]}
KeysPut(t) == {GenerateKeyFromInt(d.key) : d \in {e \in Sent(t) : e.type = "Put"}}

\* FBBench drops its seed, so the n-th queries of any two threads of a runner
\* are the same: the store holds what the thread that is furthest has put, as
\* if the others were not there.
ThreadsRepeat ==
    job.prog = "runner" =>
        /\ \A t, u \in Thread : \A d \in done[t], e \in done[u] :
            d.n = e.n => d.type = e.type /\ d.key = e.key
        /\ \A t \in Thread : (\A u \in Thread : iter[u] <= iter[t]) =>
            DOMAIN db \subseteq KeysPut(t) /\ ("write" \notin Faults => KeysPut(t) \subseteq DOMAIN db)

AllRandom == Opt.bench = "MixGraph" /\ Opt.access = <<>> /\ Opt.flat

\* MixGraph: where nothing but the draw makes the key, the draw that decides the
\* kind of a query is its key: a key is always read or always written, and no
\* Get of such a run is ever answered.
RandomGetsMiss == AllRandom => \A t \in Thread : tally[t]["Get"].success = 0

Booked(t) == tally[t]["Get"].count + tally[t]["Put"].count + tally[t]["SeekForPrev"].count

\* What was written last under a name is thread t's, whole and in order.
LastWords(k, t) ==
    /\ Len(lat[k]) = tally[t][k].count
    /\ \A i \in DOMAIN lat[k] : lat[k][i][1] = t
    /\ \A i, j \in DOMAIN lat[k] : i < j => lat[k][i][2] < lat[k][j][2]

\* What comes of n queries when n is stored into an int: all of them if it
\* fits, none if the sign bit is set, never more than an int holds.
InInt(n, made) ==
    /\ made \in 0 .. IntMax
    /\ n <= IntMax => made = n
    /\ n \in IntMax + 1 .. 2 * IntMax + 1 => made = 0

\* When the runner has ended its report has a line per thread with as many
\* queries as the thread was to make, which is its share of the work unless that
\* does not fit an int, and Seeks never a success; a .lat file is
\* that of the last thread with latencies of its kind.  When the test has ended
\* the counters it prints are those of all its threads' queries.
ReportMatches ==
    main = "exited" =>
        /\ job.prog = "runner" =>
            /\ Len(result) = job.threads
            /\ \A t \in 0 .. job.threads - 1 :
                /\ result[t + 1] = tally[t]
                /\ Booked(t) = (IF Quota > 0 THEN Quota ELSE 0)
                /\ InInt((job.size \div job.threads) \div (job.valueLength * job.threads), Booked(t))
                /\ tally[t]["SeekForPrev"].success = 0
            /\ \A k \in Kind : lat[k] = <<>> \/ \E t \in 0 .. job.threads - 1 :
                /\ LastWords(k, t)
                /\ \A u \in t + 1 .. job.threads - 1 : tally[u][k].count = 0
        /\ job.prog = "test" => counter[0].total = job.threads * job.size

\* Both programs end: no thread keeps the mutex.
Ends == <>(main = "exited")
=============================================================================
