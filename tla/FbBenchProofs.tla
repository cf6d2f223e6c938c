--------------------------- MODULE FbBenchProofs ---------------------------
(***************************************************************************)
(* Proofs about FbBench, for all option sets, seeds, distributions, word   *)
(* sizes, numbers of threads and faults of the store: its arithmetic and   *)
(* types, its counters, that what the programs write is what their threads *)
(* have done, and that the threads of a runner all do the same.            *)
(***************************************************************************)
EXTENDS FbBenchProperties, Counting
-----------------------------------------------------------------------------
LEMMA TableUpdate ==
    ASSUME NEW I, NEW S, NEW f \in [I -> S], NEW x \in I, NEW v \in S
    PROVE  /\ [f EXCEPT ![x] = v] \in [I -> S]
           /\ \A y \in I : [f EXCEPT ![x] = v][y] = IF y = x THEN v ELSE f[y]
    OBVIOUS

\* What the assumptions say of a program.
LEMMA JobType ==
    ASSUME job \in Jobs
    PROVE  /\ job.prog \in {"runner", "test"}
           /\ Opt \in Options /\ Sound(Opt)
           /\ job.threads \in 1 .. MaxThreads /\ job.threads \in Nat \ {0}
           /\ job.size \in Nat /\ job.valueLength \in Nat \ {0}
<1>1. job \in Job /\ Sound(job.opt)
    BY FbBenchAssumption
<1>2. /\ job.prog \in {"runner", "test"} /\ job.opt \in Options
      /\ job.threads \in 1 .. MaxThreads /\ job.size \in Nat /\ job.valueLength \in Nat \ {0}
    BY <1>1 DEF Job
<1> QED
    BY <1>1, <1>2, FbBenchAssumption, SMT DEF Opt

LEMMA OptionType ==
    ASSUME NEW o \in Options
    PROVE  /\ o.bench \in {"MixGraph", "ReadRandom", "MixRandom"}
           /\ o.num \in 1 .. MaxNum /\ o.access \in Seq(Nat) /\ o.flat \in BOOLEAN
           /\ o.ratio \in Seq(Nat) /\ o.monitor \in Nat
           /\ o.num \in Nat \ {0} /\ Half \in Nat \ {0} /\ o.num <= Half
<1>1. /\ o.bench \in {"MixGraph", "ReadRandom", "MixRandom"}
      /\ o.num \in 1 .. MaxNum /\ o.access \in Seq(Nat) /\ o.flat \in BOOLEAN
      /\ o.ratio \in Seq(Nat) /\ o.monitor \in Nat
    BY DEF Options
<1>2. MaxNum \in 1 .. Half /\ Half \in Nat \ {0}
    BY DistributionsAssumption
<1>3. o.num \in Nat \ {0} /\ o.num <= Half
    BY <1>1, <1>2, SMT
<1> QED
    BY <1>1, <1>2, <1>3

\* Ranges of the counters have a size, and there are some.
LEMMA RangeType ==
    ASSUME NEW o \in Options, Sound(o)
    PROVE  RangeSize(o) \in Nat \ {0} /\ RangeNum(o) \in Nat \ {0}
<1>1. o.num \in Nat \ {0} /\ o.monitor \in Nat /\ o.monitor <= o.num
    BY OptionType DEF Sound
<1>2. CASE o.monitor > 0
    <2>1. o.num \div o.monitor \in Nat
          /\ o.num = (o.num \div o.monitor) * o.monitor + (o.num % o.monitor)
          /\ o.num % o.monitor \in 0 .. o.monitor - 1
        <3>1. o.num \in Nat /\ o.monitor \in Nat \ {0}
            BY <1>1, <1>2, SMT
        <3> QED
            BY <3>1, Quotient
    <2>2. o.num \div o.monitor = 0 => (o.num \div o.monitor) * o.monitor = 0
        BY <1>1, SMT
    <2>3. o.num \div o.monitor # 0
        BY <1>1, <2>1, <2>2, SMT
    <2> QED
        BY <1>1, <1>2, <2>1, <2>3 DEF RangeSize, RangeNum
<1>3. CASE ~(o.monitor > 0)
    <2>1. DefaultRangeSize \in Nat \ {0} /\ o.num - 1 \in Nat
        BY <1>1, CounterAssumption, SMT
    <2>2. (o.num - 1) \div DefaultRangeSize \in Nat
        BY <2>1, Quotient
    <2>3. (o.num - 1) \div DefaultRangeSize + 1 \in Nat \ {0}
        BY <2>2, SMT
    <2> QED
        BY <1>3, <2>1, <2>3 DEF RangeSize, RangeNum
<1> QED
    BY <1>2, <1>3

LEMMA ToInt ==
    ASSUME NEW a \in Nat, NEW h \in Nat \ {0}
    PROVE  /\ a % (2 * h) \in 0 .. 2 * h - 1
           /\ a < 2 * h => a % (2 * h) = a
<1>1. 2 * h \in Nat \ {0}
    BY SMT
<1>2. a % (2 * h) \in 0 .. 2 * h - 1 /\ a = (a \div (2 * h)) * (2 * h) + (a % (2 * h))
    BY <1>1, Quotient
<1>3. ASSUME a < 2 * h PROVE a \div (2 * h) = 0
    <2>1. 0 * (2 * h) <= a /\ (0 + 1) * (2 * h) = 2 * h /\ 0 \in Nat
        BY SMT
    <2> QED
        BY <1>1, <1>3, <2>1, QuotientIs
<1>4. 0 * (2 * h) = 0
    BY SMT
<1> QED
    BY <1>2, <1>3, <1>4, SMT

LEMMA QuotaType ==
    ASSUME job \in Jobs
    PROVE  Quota \in Int
<1>1. /\ job.threads \in Nat \ {0} /\ job.size \in Nat /\ job.valueLength \in Nat \ {0}
    BY JobType
<1>2. job.valueLength * job.threads \in Nat \ {0} /\ IntMax + 1 \in Nat \ {0} /\ IntMax \in Nat
    <2>1. 1 * job.threads <= job.valueLength * job.threads
        BY <1>1, TimesMonotone, SMT
    <2> QED
        BY <1>1, <2>1, FbBenchAssumption, SMT
<1>3. (job.size \div job.threads) \div (job.valueLength * job.threads) \in Nat
    BY <1>1, <1>2, Quotient
<1>4. ((job.size \div job.threads) \div (job.valueLength * job.threads)) % (2 * (IntMax + 1)) \in Int
    BY <1>2, <1>3, ToInt, SMT
<1>5. Count \in Int
    BY <1>2, <1>4, SMT DEF Count
<1> QED
    BY <1>1, <1>5, SMT DEF Quota
-----------------------------------------------------------------------------
\* A key's bytes are a number of 64 bits, and the number read back has a sign.
LEMMA TextType ==
    /\ \A v \in Int : GenerateKeyFromInt(v) \in Text
    /\ \A v \in Nat : v < 2 * Half => GenerateKeyFromInt(v) = v
    /\ \A x \in Text : ConvertKeyToInt(x) \in -Half .. Half - 1
    /\ \A x \in Text : x < Half => ConvertKeyToInt(x) = x
    /\ \A x \in Text : GenerateKeyFromInt(ConvertKeyToInt(x)) = x
<1>1. Half \in Nat \ {0}
    BY DistributionsAssumption
<1> DEFINE h == Half
<1> HIDE DEF h
<1>2. h \in Nat \ {0}
    BY <1>1 DEF h
<1>3. ASSUME NEW v \in Int PROVE v % (2 * h) \in 0 .. 2 * h - 1
    <2>1. 2 * h \in Nat \ {0}
        BY <1>2, SMT
    <2> DEFINE d == 2 * h
    <2> HIDE DEF d
    <2> QED
        BY <2>1, SMT DEF d
<1>4. ASSUME NEW v \in Nat, v < 2 * h PROVE v % (2 * h) = v
    BY <1>2, <1>4, ToInt
<1>5. ASSUME NEW x \in 0 .. 2 * h - 1
      PROVE  /\ (IF x < h THEN x ELSE x - 2 * h) \in -h .. h - 1
             /\ (IF x < h THEN x ELSE x - 2 * h) % (2 * h) = x
    <2>1. (IF x < h THEN x ELSE x - 2 * h) \in -h .. h - 1
        BY <1>2, SMT
    <2>2. CASE x < h
        BY <1>2, <1>4, <2>2, SMT
    <2>3. CASE ~(x < h)
        <3> DEFINE d == 2 * h
        <3>1. d \in Nat \ {0} /\ x \in 0 .. d - 1
            BY <1>2, SMT
        <3> HIDE DEF d
        <3>2. (x - d) % d = x
            <4>1. x - d = d * ((x - d) \div d) + ((x - d) % d) /\ (x - d) % d \in 0 .. d - 1
                  /\ (x - d) \div d \in Int
                BY <3>1, SMT
            <4> DEFINE q == (x - d) \div d
                       r == (x - d) % d
            <4>2. q \in Int /\ r \in 0 .. d - 1 /\ x - d = d * q + r
                BY <4>1
            <4> HIDE DEF q, r
            <4>3. d * (q + 1) = x - r /\ d * (q + 1) = (q + 1) * d
                BY <3>1, <4>2, SMT
            <4>4. ~(q + 1 >= 1)
                <5> SUFFICES ASSUME q + 1 >= 1 PROVE FALSE
                    OBVIOUS
                <5>1. 1 * d <= (q + 1) * d
                    BY <3>1, <4>2, TimesMonotone, SMT
                <5> QED
                    BY <3>1, <4>2, <4>3, <5>1, SMT
            <4>5. ~(q + 1 <= -1)
                <5> SUFFICES ASSUME q + 1 <= -1 PROVE FALSE
                    OBVIOUS
                <5>1. (q + 1) * d <= (-1) * d
                    BY <3>1, <4>2, TimesMonotone, SMT
                <5> QED
                    BY <3>1, <4>2, <4>3, <5>1, SMT
            <4>6. q + 1 = 0
                BY <4>2, <4>4, <4>5, SMT
            <4>7. x = r
                BY <3>1, <4>2, <4>3, <4>6, SMT
            <4> QED
                BY <4>7 DEF r
        <3> QED
            BY <2>1, <2>3, <3>2 DEF d
    <2> QED
        BY <2>1, <2>2, <2>3
<1> QED
    BY <1>3, <1>4, <1>5 DEF h, GenerateKeyFromInt, ConvertKeyToInt, Text

\* The types a decided query can have.
LEMMA TypeOfQuery ==
    ASSUME NEW o, NEW draw
    PROVE  GetType(o, draw) \in Kind
<1>1. \A k \in 1 .. 3 : Kinds[k] \in Kind
    BY SMT DEF Kinds, Kind
<1> QED
    BY <1>1, SMT DEF GetType, Kind

\* A draw is the number of a key.
LEMMA DrawType ==
    ASSUME TypeOK, NEW t \in Thread, NEW n \in Nat \ {0}, NEW k \in RandomKey(t, n)
    PROVE  k \in 0 .. Opt.num - 1
<1>1. Opt.num \in Nat \ {0} /\ at[t] \in Nat
    BY JobType, OptionType DEF TypeOK
<1>2. CASE job.prog = "test"
    BY <1>2 DEF RandomKey
<1>3. CASE job.prog # "test"
    <2> DEFINE p == ((at[t] + n - 1) % Len(stream)) + 1
    <2>1. stream \in Seq(Nat) /\ Len(stream) \in Nat \ {0}
        BY FbBenchAssumption, SMT DEF TypeOK
    <2>2. at[t] + n - 1 \in Nat
        BY <1>1, SMT
    <2>3. (at[t] + n - 1) % Len(stream) \in 0 .. Len(stream) - 1
        BY <2>1, <2>2, Quotient
    <2>4. p \in 1 .. Len(stream)
        BY <2>1, <2>3, SMT
    <2> HIDE DEF p
    <2>5. stream[p] \in Nat
        BY <2>1, <2>4, SMT
    <2>6. stream[p] % Opt.num \in 0 .. Opt.num - 1
        BY <1>1, <2>5, Quotient
    <2>7. k = stream[p] % Opt.num
        BY <1>3 DEF RandomKey, p
    <2> QED
        BY <2>6, <2>7
<1> QED
    BY <1>2, <1>3

LEMMA NewCounterType == NewCounter(Opt) \in Counters(Opt)
    BY SMT DEF NewCounter, Counters, RangeCounter, Kind

LEMMA ShuffledType ==
    ASSUME NEW a \in Seq(Nat), NEW w \in Shuffled(a)
    PROVE  w \in [0 .. Len(a) - 1 -> Nat]
<1>1. PICK p \in [0 .. Len(a) - 1 -> 1 .. Len(a)] : w = [n \in 0 .. Len(a) - 1 |-> a[p[n]]]
    BY DEF Shuffled, Bijection, Injection, Surjection
<1>2. \A n \in 0 .. Len(a) - 1 : a[p[n]] \in Nat
    <2>1. \A k \in 1 .. Len(a) : a[k] \in Nat
        BY SMT
    <2>2. \A n \in 0 .. Len(a) - 1 : p[n] \in 1 .. Len(a)
        BY <1>1
    <2> QED
        BY <2>1, <2>2
<1> QED
    BY <1>1, <1>2

LEMMA StartsType ==
    ASSUME NEW a, NEW n \in Nat, NEW s \in Starts(a, n)
    PROVE  /\ s \in [0 .. n -> Nat] /\ s[0] = 0
           /\ \A k \in 0 .. n - 1 : s[k + 1] = s[k] + a[k]
<1>1. s \in [0 .. n -> 0 .. SumFunction(a)] /\ s[0] = 0
      /\ \A k \in 0 .. n - 1 : s[k + 1] = s[k] + a[k]
    BY DEF Starts
<1>2. \A k \in 0 .. n : s[k] \in Nat
    BY <1>1, SMT
<1> QED
    BY <1>1, <1>2

LEMMA InitType == Init => TypeOK
<1> SUFFICES ASSUME Init PROVE TypeOK
    OBVIOUS
<1>1. Thread = 0 .. MaxThreads - 1 /\ Nobody \in Thread \cup {Nobody} /\ 0 \in Thread
    BY FbBenchAssumption, SMT DEF Thread
<1>2. job \in Jobs /\ stream \in Streams /\ Opt \in Options
    BY JobType DEF Init
<1>3. KeyrangeNum \in Nat /\ Opt.access \in Seq(Nat)
    BY <1>2, OptionType, SMT DEF KeyrangeNum
<1>4. weight \in [0 .. KeyrangeNum - 1 -> Nat] /\ start \in [0 .. KeyrangeNum -> Nat]
    BY <1>3, ShuffledType, StartsType DEF Init, KeyrangeNum
<1>5. mi \in 0 .. job.threads - 1 /\ main \in {"spawn", "join", "report", "exited"}
    BY <1>2, JobType, SMT DEF Init
<1>6. NoQuery \in QueryType
    <2>1. Opt.num \in Nat \ {0} /\ 0 \in 0 .. Opt.num - 1 /\ 0 \in 0 .. KeyrangeNum /\ 0 \in Text
        BY <1>2, <1>3, OptionType, DistributionsAssumption, SMT DEF Text
    <2> QED
        BY <2>1 DEF NoQuery, QueryType, Kind
<1>7. /\ pc \in [Thread -> {"unborn", "loop", "search", "lock", "read", "write",
                            "unlock", "call", "finished"}]
      /\ iter \in [Thread -> Nat] /\ at \in [Thread -> Nat] /\ query \in [Thread -> QueryType]
      /\ \A t \in Thread : pc[t] = "unborn"
    BY <1>6, SMT DEF Init, PerThread, FreshStart
<1>8. /\ mtx \in [Thread -> Thread \cup {Nobody}]
      /\ counter \in [Thread -> Counters(Opt)] /\ reg \in [Thread -> Counters(Opt)]
      /\ done \in [Thread -> SUBSET Recording]
    BY <1>1, NewCounterType DEF Init, PerThread
<1>9. /\ tally \in [Thread -> [Kind -> [count : Nat, success : Nat]]]
      /\ vec \in [Thread -> [Kind -> Seq(Thread \X Nat)]]
      /\ lat \in [Kind -> Seq(Thread \X Nat)]
      /\ result \in Seq([Kind -> [count : Nat, success : Nat]])
    <2>1. \A S : <<>> \in Seq(S)
        BY SMT
    <2>2. [count |-> 0, success |-> 0] \in [count : Nat, success : Nat]
        OBVIOUS
    <2> QED
        BY <2>1, <2>2 DEF Init, PerThread, PerKind
<1>10. DOMAIN db \subseteq Text
    BY DEF Init
<1> QED
    BY <1>2, <1>4, <1>5, <1>7, <1>8, <1>9, <1>10 DEF TypeOK
-----------------------------------------------------------------------------
\* What the types are made of stays.
LEMMA TypesStay ==
    ASSUME UNCHANGED job
    PROVE  /\ Opt' = Opt /\ KeyrangeNum' = KeyrangeNum /\ QueryType' = QueryType
           /\ Counters(Opt)' = Counters(Opt) /\ Quota' = Quota
           /\ \A t \in Thread : Own(t)' = Own(t)
    BY DEF Opt, KeyrangeNum, QueryType, Counters, RangeIndex, RangeNum, RangeSize, Quota, Count, Own

LEMMA OwnType ==
    ASSUME NEW t \in Thread
    PROVE  Own(t) \in Thread
    BY FbBenchAssumption, SMT DEF Own, Thread

LEMMA AskType ==
    ASSUME TypeOK, NEW t \in Thread, NEW n \in Nat, NEW q \in QueryType,
           NEW next \in {"search", "lock"}, next = "search" => q.lo < q.hi,
           Ask(t, n, q, next)
    PROVE  TypeOK'
<1>1. UNCHANGED <<job, stream, weight, start, main, mi, iter, mtx, counter, reg, done,
                  tally, vec, db, result, lat>>
    BY DEF Ask, runVars
<1>2. /\ at' \in [Thread -> Nat] /\ query' \in [Thread -> QueryType]
      /\ pc' \in [Thread -> {"unborn", "loop", "search", "lock", "read", "write",
                             "unlock", "call", "finished"}]
      /\ \A u \in Thread : pc'[u] = "search" => query'[u].lo < query'[u].hi
    <2>1. at[t] + n \in Nat
        BY DEF TypeOK
    <2> QED
        BY <2>1, TableUpdate DEF TypeOK, Ask
<1> QED
    BY <1>1, <1>2, TypesStay DEF TypeOK

LEMMA QueryOf ==
    ASSUME TypeOK, NEW type \in Kind, NEW key \in Int
    PROVE  Query(type, key) \in QueryType
<1>1. Opt.num \in Nat \ {0} /\ KeyrangeNum \in Nat
    BY JobType, OptionType, SMT DEF TypeOK, KeyrangeNum
<1>2. 0 \in 0 .. Opt.num - 1 /\ 0 \in 0 .. KeyrangeNum /\ GenerateKeyFromInt(key) \in Text
    BY <1>1, TextType, SMT
<1> QED
    BY <1>2 DEF Query, NoQuery, QueryType

\* What MixGraph asks for without prefix modelling.
LEMMA GraphKeyType ==
    ASSUME NEW o \in Options, NEW k \in 0 .. o.num - 1
    PROVE  GraphKey(o, k) \in 0 .. o.num - 1
<1>1. o.num \in Nat \ {0} /\ k \in 0 .. MaxNum - 1
    <2>1. o.num \in 1 .. MaxNum /\ MaxNum \in Nat
        BY OptionType, DistributionsAssumption, SMT
    <2> QED
        BY <2>1, SMT
<1>2. Hash[k] \in Int
    BY <1>1, DistributionsAssumption, SMT
<1>3. Hash[k] % (2 * Half) \in Nat
    <2>1. GenerateKeyFromInt(Hash[k]) \in Text
        BY <1>2, TextType
    <2> QED
        BY <2>1, DistributionsAssumption, SMT DEF GenerateKeyFromInt, Text
<1>4. (Hash[k] % (2 * Half)) % o.num \in 0 .. o.num - 1
    BY <1>1, <1>3, Quotient
<1> QED
    BY <1>4 DEF GraphKey

LEMMA PrefixQuery ==
    ASSUME NEW a, NEW b, NEW c
    PROVE  [NoQuery EXCEPT !.ini = a, !.hi = b, !.type = c]
           = [ini |-> a, lo |-> 0, hi |-> b, type |-> c, text |-> 0]
<1>1. [NoQuery EXCEPT !.ini = a] = [ini |-> a, lo |-> 0, hi |-> 0, type |-> "Get", text |-> 0]
    BY SMT DEF NoQuery
<1>2. [[ini |-> a, lo |-> 0, hi |-> 0, type |-> "Get", text |-> 0] EXCEPT !.hi = b]
      = [ini |-> a, lo |-> 0, hi |-> b, type |-> "Get", text |-> 0]
    BY SMT
<1>3. [[ini |-> a, lo |-> 0, hi |-> b, type |-> "Get", text |-> 0] EXCEPT !.type = c]
      = [ini |-> a, lo |-> 0, hi |-> b, type |-> c, text |-> 0]
    BY SMT
<1> QED
    BY <1>1, <1>2, <1>3

LEMMA DrawsType ==
    ASSUME TypeOK, NEW t \in Thread,
           MixGraph(t) \/ MixGraphPrefix(t) \/ ReadRandom(t) \/ MixRandom(t)
    PROVE  TypeOK'
<1>1. /\ Opt \in Options /\ KeyrangeNum \in Nat /\ \A k \in 0 .. Opt.num - 1 : k \in Int
      /\ Opt.num \in Nat \ {0}
    BY JobType, OptionType, SMT DEF TypeOK, KeyrangeNum
<1>2. \A n \in {1, 2, 3} : n \in Nat \ {0}
    BY SMT
<1>3. CASE MixGraph(t)
    <2>1. PICK ini \in RandomKey(t, 1) :
            Ask(t, 1, Query(GetType(Opt, ini), GraphKey(Opt, ini)), "lock")
        BY <1>3 DEF MixGraph
    <2>2. GraphKey(Opt, ini) \in Int
        BY <1>1, <1>2, DrawType, GraphKeyType
    <2> QED
        BY <1>2, <2>1, <2>2, TypeOfQuery, QueryOf, AskType
<1>4. CASE MixGraphPrefix(t)
    <2>1. PICK ini \in RandomKey(t, 1) :
            Ask(t, 1, [NoQuery EXCEPT !.ini = ini, !.hi = KeyrangeNum, !.type = GetType(Opt, ini)], "search")
        BY <1>4 DEF MixGraphPrefix
    <2> DEFINE q == [NoQuery EXCEPT !.ini = ini, !.hi = KeyrangeNum, !.type = GetType(Opt, ini)]
    <2>2. ini \in 0 .. Opt.num - 1 /\ KeyrangeNum > 0
        BY <1>2, <1>4, DrawType DEF MixGraphPrefix
    <2>3. q = [ini |-> ini, lo |-> 0, hi |-> KeyrangeNum, type |-> GetType(Opt, ini), text |-> 0]
        BY PrefixQuery DEF q
    <2>4. 0 \in Text /\ 0 \in 0 .. KeyrangeNum /\ KeyrangeNum \in 0 .. KeyrangeNum
        BY <1>1, DistributionsAssumption, SMT DEF Text
    <2>5. q \in QueryType /\ q.lo < q.hi
        BY <2>2, <2>3, <2>4, TypeOfQuery DEF QueryType
    <2> HIDE DEF q
    <2>6. Ask(t, 1, q, "search")
        BY <2>1 DEF q
    <2> QED
        BY <1>2, <2>5, <2>6, AskType
<1>5. CASE ReadRandom(t)
    <2>1. PICK k \in RandomKey(t, 2) : Ask(t, 2, Query("Get", k), "lock")
        BY <1>5 DEF ReadRandom
    <2> QED
        BY <1>1, <1>2, <2>1, DrawType, QueryOf, AskType DEF Kind
<1>6. CASE MixRandom(t)
    <2>1. PICK ini \in RandomKey(t, 1), k \in RandomKey(t, 3) :
            Ask(t, 3, Query(GetType(Opt, ini), k), "lock")
        BY <1>6 DEF MixRandom
    <2> QED
        BY <1>1, <1>2, <2>1, DrawType, TypeOfQuery, QueryOf, AskType
<1> QED
    BY <1>3, <1>4, <1>5, <1>6

\* The middle of the part that is left lies inside it.
LEMMA Middle ==
    ASSUME NEW a \in Nat, NEW b \in Nat, a + 1 < b
    PROVE  /\ a + ((b - a) \div 2) \in Nat
           /\ a < a + ((b - a) \div 2) /\ a + ((b - a) \div 2) < b
    BY SMT

LEMMA ThinkType ==
    ASSUME TypeOK, NEW t \in Thread, NEW q \in QueryType,
           NEW next \in {"search", "lock"}, next = "search" => q.lo < q.hi,
           Think(t, q, next)
    PROVE  TypeOK'
<1>1. UNCHANGED <<job, stream, weight, start, main, mi, iter, at, mtx, counter, reg, done,
                  tally, vec, db, result, lat>>
    BY DEF Think, runVars
<1>2. /\ query' \in [Thread -> QueryType]
      /\ pc' \in [Thread -> {"unborn", "loop", "search", "lock", "read", "write",
                             "unlock", "call", "finished"}]
      /\ \A u \in Thread : pc'[u] = "search" => query'[u].lo < query'[u].hi
    BY TableUpdate DEF TypeOK, Think
<1> QED
    BY <1>1, <1>2, TypesStay DEF TypeOK

LEMMA QueryFields ==
    ASSUME TypeOK, NEW t \in Thread
    PROVE  /\ query[t] \in QueryType
           /\ query[t].ini \in 0 .. Opt.num - 1 /\ query[t].ini \in Nat
           /\ query[t].lo \in 0 .. KeyrangeNum /\ query[t].lo \in Nat
           /\ query[t].hi \in 0 .. KeyrangeNum /\ query[t].hi \in Nat
           /\ query[t].type \in Kind /\ query[t].text \in Text
<1>1. query[t] \in QueryType
    BY DEF TypeOK
<1>2. /\ query[t].ini \in 0 .. Opt.num - 1 /\ query[t].lo \in 0 .. KeyrangeNum
      /\ query[t].hi \in 0 .. KeyrangeNum /\ query[t].type \in Kind /\ query[t].text \in Text
    BY <1>1 DEF QueryType
<1>3. query[t].ini \in Nat /\ query[t].lo \in Nat /\ query[t].hi \in Nat
    BY <1>2, SMT
<1> QED
    BY <1>1, <1>2, <1>3

LEMMA SearchType ==
    ASSUME TypeOK, NEW t \in Thread, Search(t)
    PROVE  TypeOK'
<1> DEFINE q == query[t]
           mid == q.lo + ((q.hi - q.lo) \div 2)
<1>1. q.lo + 1 < q.hi
    BY DEF Search
<1>2. mid \in 0 .. KeyrangeNum /\ q.lo < mid /\ mid < q.hi
    <2>1. KeyrangeNum \in Nat
        BY JobType, OptionType, SMT DEF TypeOK, KeyrangeNum
    <2> QED
        BY <1>1, <2>1, QueryFields, Middle, SMT
<1> HIDE DEF mid
<1>3. /\ [q EXCEPT !.hi = mid] \in QueryType /\ [q EXCEPT !.lo = mid] \in QueryType
      /\ [q EXCEPT !.hi = mid].lo < [q EXCEPT !.hi = mid].hi
      /\ [q EXCEPT !.lo = mid].lo < [q EXCEPT !.lo = mid].hi
    BY <1>2, QueryFields DEF QueryType
<1>4. \/ Think(t, [q EXCEPT !.hi = mid], "search")
      \/ Think(t, [q EXCEPT !.lo = mid], "search")
    BY DEF Search, mid
<1> HIDE DEF q
<1> QED
    BY <1>3, <1>4, ThinkType

\* A remainder of C is smaller than the divisor, whatever its sign.
LEMMA CRemainderType ==
    ASSUME NEW a \in Int, NEW n \in Nat \ {0}
    PROVE  /\ CRemainder(a, n) \in -(n - 1) .. n - 1
           /\ a >= 0 => CRemainder(a, n) >= 0
           /\ a < 0 => CRemainder(a, n) <= 0
<1>1. CASE a >= 0
    BY <1>1, Quotient, SMT DEF CRemainder
<1>2. CASE ~(a >= 0)
    <2>1. -a \in Nat
        BY <1>2, SMT
    <2>2. (-a) % n \in 0 .. n - 1
        BY <2>1, Quotient
    <2> QED
        BY <1>2, <2>2, SMT DEF CRemainder
<1> QED
    BY <1>1, <1>2

LEMMA KeyrangeSizeType ==
    ASSUME NEW o \in Options, Sound(o), Len(o.access) > 0
    PROVE  /\ KeyrangeSize(o) \in Nat \ {0}
           /\ KeyrangeSize(o) * Len(o.access) <= o.num
<1>1. /\ o.num \in Nat \ {0} /\ Len(o.access) \in Nat \ {0} /\ Len(o.access) <= o.num
    <2>1. o.access # <<>> /\ Len(o.access) \in Nat
        BY OptionType, SMT
    <2> QED
        BY <2>1, OptionType DEF Sound
<1>2. /\ o.num \div Len(o.access) \in Nat
      /\ o.num = (o.num \div Len(o.access)) * Len(o.access) + (o.num % Len(o.access))
      /\ o.num % Len(o.access) \in 0 .. Len(o.access) - 1
    BY <1>1, Quotient
<1> DEFINE n == Len(o.access)
           z == o.num \div n
<1>3. z \in Nat /\ n \in Nat \ {0} /\ o.num = z * n + (o.num % n)
      /\ n <= o.num /\ o.num % n \in 0 .. n - 1
    BY <1>1, <1>2
<1> HIDE DEF z, n
<1>4. z = 0 => z * n = 0
    BY <1>3, SMT
<1>5. z # 0
    BY <1>1, <1>3, <1>4, SMT
<1>6. z * n <= o.num
    BY <1>1, <1>3, SMT
<1> QED
    BY <1>3, <1>5, <1>6 DEF KeyrangeSize, z, n

LEMMA DistKeyType ==
    ASSUME NEW o \in Options, Sound(o), Len(o.access) > 0,
           NEW ini \in 0 .. o.num - 1, NEW id \in Nat
    PROVE  /\ DistGetKeyID(o, ini, id) \in Int
           /\ o.flat \/ Hash[ini] >= 0 =>
                /\ KeyrangeSize(o) * id <= DistGetKeyID(o, ini, id)
                /\ DistGetKeyID(o, ini, id) < KeyrangeSize(o) * (id + 1)
           /\ ~(o.flat \/ Hash[ini] >= 0) =>
                /\ KeyrangeSize(o) * (id - 1) < DistGetKeyID(o, ini, id)
                /\ DistGetKeyID(o, ini, id) <= KeyrangeSize(o) * id
<1> DEFINE z == KeyrangeSize(o)
<1>1. z \in Nat \ {0}
    BY KeyrangeSizeType
<1>2. ini \in Nat /\ Hash[ini] \in Int
    <2>1. o.num \in 1 .. MaxNum /\ MaxNum \in Nat /\ Half \in Nat
        BY OptionType, DistributionsAssumption, SMT
    <2>2. ini \in Nat /\ ini \in 0 .. MaxNum - 1
        BY <2>1, SMT
    <2> QED
        BY <2>1, <2>2, DistributionsAssumption, SMT
<1> HIDE DEF z
<1> DEFINE x == IF o.flat THEN ini % z ELSE CRemainder(Hash[ini], z)
<1>3. /\ x \in Int /\ -z < x /\ x < z
      /\ o.flat \/ Hash[ini] >= 0 => x >= 0
      /\ ~(o.flat \/ Hash[ini] >= 0) => x <= 0
    <2>1. /\ CRemainder(Hash[ini], z) \in -(z - 1) .. z - 1
          /\ Hash[ini] >= 0 => CRemainder(Hash[ini], z) >= 0
          /\ Hash[ini] < 0 => CRemainder(Hash[ini], z) <= 0
        BY <1>1, <1>2, CRemainderType
    <2>2. ini % z \in 0 .. z - 1
        BY <1>1, <1>2, Quotient
    <2> QED
        BY <1>1, <1>2, <2>1, <2>2, SMT
<1>4. PICK y \in Nat : y = z * id
    BY <1>1, SMT
<1>5. DistGetKeyID(o, ini, id) = y + x
    BY <1>4 DEF DistGetKeyID, z
<1> HIDE DEF x
<1>6. PICK a \in Int : a = z * (id + 1) /\ a = y + z
    BY <1>1, <1>4, SMT
<1>7. PICK b \in Int : b = z * (id - 1) /\ b = y - z
    BY <1>1, <1>4, SMT
<1>8. PICK k \in Int : k = y + x
    BY <1>3
<1>9. /\ o.flat \/ Hash[ini] >= 0 => y <= k /\ k < a
      /\ ~(o.flat \/ Hash[ini] >= 0) => b < k /\ k <= y
    <2>1. x \in Int /\ -z < x /\ x < z /\ z \in Nat
        BY <1>1, <1>3
    <2>2. (x >= 0 => y <= k /\ k < a) /\ (x <= 0 => b < k /\ k <= y)
        BY <1>6, <1>7, <1>8, <2>1, SMT
    <2> QED
        BY <1>3, <2>2
<1>10. DistGetKeyID(o, ini, id) = k
    BY <1>5, <1>8
<1> QED
    BY <1>4, <1>6, <1>7, <1>9, <1>10 DEF z

LEMMA ChooseKeyType ==
    ASSUME TypeOK, NEW t \in Thread, ChooseKey(t)
    PROVE  TypeOK'
<1> DEFINE q == query[t]
           k == GenerateKeyFromInt(DistGetKeyID(Opt, q.ini, q.lo))
<1>1. Len(Opt.access) > 0
    <2>1. q.lo < q.hi /\ Len(Opt.access) \in Nat
        BY JobType, OptionType, SMT DEF TypeOK, ChooseKey
    <2> QED
        BY <2>1, QueryFields, SMT DEF KeyrangeNum
<1>2. k \in Text
    BY <1>1, QueryFields, JobType, DistKeyType, TextType DEF TypeOK
<1> HIDE DEF k
<1>3. [q EXCEPT !.text = k] \in QueryType
    BY <1>2, QueryFields DEF QueryType
<1>4. Think(t, [q EXCEPT !.text = k], "lock")
    BY DEF ChooseKey, k
<1> HIDE DEF q
<1> QED
    BY <1>3, <1>4, ThinkType
-----------------------------------------------------------------------------
PCType == [Thread -> {"unborn", "loop", "search", "lock", "read", "write",
                      "unlock", "call", "finished"}]

\* A thread moves on to anywhere but the search.
LEMMA MoveType ==
    ASSUME TypeOK, NEW t \in Thread,
           NEW next \in {"unborn", "loop", "lock", "read", "write", "unlock", "call", "finished"},
           pc' = [pc EXCEPT ![t] = next], query' = query
    PROVE  /\ pc' \in PCType
           /\ \A u \in Thread : pc'[u] = "search" => query'[u].lo < query'[u].hi
<1>1. pc \in PCType /\ next \in {"unborn", "loop", "search", "lock", "read", "write",
                                 "unlock", "call", "finished"}
    BY DEF TypeOK, PCType
<1>2. pc' \in PCType /\ \A u \in Thread : pc'[u] = IF u = t THEN next ELSE pc[u]
    BY <1>1 DEF PCType
<1>3. \A u \in Thread : pc'[u] = "search" => pc[u] = "search"
    BY <1>2
<1> QED
    BY <1>2, <1>3 DEF TypeOK

LEMMA RecordedType ==
    ASSUME NEW o, NEW c \in Counters(o), NEW type \in Kind, NEW key
    PROVE  Recorded(o, c, type, key) \in Counters(o)
<1>1. /\ c.times \in [Kind -> Nat] /\ c.total \in Nat
      /\ c.ranges \in [RangeIndex(o) -> RangeCounter]
    BY DEF Counters
<1>2. [c.times EXCEPT ![type] = @ + 1] \in [Kind -> Nat] /\ c.total + 1 \in Nat
    BY <1>1
<1>3. ASSUME NEW idx \in RangeIndex(o), NEW r \in BOOLEAN, NEW w \in BOOLEAN
      PROVE  [c.ranges EXCEPT ![idx] = [access |-> @.access + 1,
                                        read |-> @.read + Bit(r),
                                        write |-> @.write + Bit(w)]]
             \in [RangeIndex(o) -> RangeCounter]
    <2>1. c.ranges[idx] \in RangeCounter /\ Bit(r) \in Nat /\ Bit(w) \in Nat
        BY <1>1, <1>3, SMT DEF Bit
    <2>2. [access |-> c.ranges[idx].access + 1, read |-> c.ranges[idx].read + Bit(r),
           write |-> c.ranges[idx].write + Bit(w)] \in RangeCounter
        BY <2>1, SMT DEF RangeCounter
    <2> QED
        BY <1>1, <2>2
<1>4. (type = "Get") \in BOOLEAN /\ (type = "Put") \in BOOLEAN
    OBVIOUS
<1> QED
    BY <1>1, <1>2, <1>3, <1>4 DEF Recorded, Counters

LEMMA CountingType ==
    ASSUME TypeOK, NEW t \in Thread,
           Lock(t) \/ ReadCounters(t) \/ WriteCounters(t) \/ Unlock(t)
    PROVE  TypeOK'
<1>1. CASE Lock(t)
    <2>1. UNCHANGED <<job, stream, weight, start, main, mi, iter, at, query, counter, reg, done,
                      tally, vec, db, result, lat>>
        BY <1>1 DEF Lock, runVars
    <2>2. mtx' \in [Thread -> Thread \cup {Nobody}]
        BY <1>1, OwnType DEF TypeOK, Lock
    <2>3. pc' \in PCType /\ \A u \in Thread : pc'[u] = "search" => query'[u].lo < query'[u].hi
        BY <1>1, <2>1, MoveType DEF Lock
    <2> QED
        BY <2>1, <2>2, <2>3, TypesStay DEF TypeOK, PCType
<1>2. CASE ReadCounters(t)
    <2>1. UNCHANGED <<job, stream, weight, start, main, mi, iter, at, query, mtx, counter, done,
                      tally, vec, db, result, lat>>
        BY <1>2 DEF ReadCounters, runVars
    <2>2. reg' \in [Thread -> Counters(Opt)]
        <3>1. counter[Own(t)] \in Counters(Opt)
            BY OwnType DEF TypeOK
        <3> QED
            BY <1>2, <3>1 DEF TypeOK, ReadCounters
    <2>3. pc' \in PCType /\ \A u \in Thread : pc'[u] = "search" => query'[u].lo < query'[u].hi
        BY <1>2, <2>1, MoveType DEF ReadCounters
    <2> QED
        BY <2>1, <2>2, <2>3, TypesStay DEF TypeOK, PCType
<1>3. CASE WriteCounters(t)
    <2>1. UNCHANGED <<job, stream, weight, start, main, mi, iter, at, query, mtx, reg,
                      tally, vec, db, result, lat>>
        BY <1>3 DEF WriteCounters, runVars
    <2> DEFINE key == ConvertKeyToInt(query[t].text)
               c == Recorded(Opt, reg[t], query[t].type, key)
               d == [by |-> t, n |-> iter[t], type |-> query[t].type, key |-> key]
    <2>2. c \in Counters(Opt)
        BY QueryFields, RecordedType DEF TypeOK
    <2>3. d \in Recording
        BY QueryFields, TextType DEF TypeOK, Recording
    <2>4. /\ counter' = [counter EXCEPT ![Own(t)] = c]
          /\ done' = [done EXCEPT ![Own(t)] = @ \cup {d}]
        BY <1>3 DEF WriteCounters
    <2> HIDE DEF c, d
    <2>5. counter' \in [Thread -> Counters(Opt)] /\ done' \in [Thread -> SUBSET Recording]
        BY <2>2, <2>3, <2>4, OwnType DEF TypeOK
    <2>6. pc' \in PCType /\ \A u \in Thread : pc'[u] = "search" => query'[u].lo < query'[u].hi
        BY <1>3, <2>1, MoveType DEF WriteCounters
    <2> QED
        BY <2>1, <2>5, <2>6, TypesStay DEF TypeOK, PCType
<1>4. CASE Unlock(t)
    <2>1. UNCHANGED <<job, stream, weight, start, main, mi, at, query, counter, reg, done,
                      tally, vec, db, result, lat>>
        BY <1>4 DEF Unlock, runVars
    <2>2. mtx' \in [Thread -> Thread \cup {Nobody}]
        BY <1>4, OwnType DEF TypeOK, Unlock
    <2>3. iter' \in [Thread -> Nat]
        BY <1>4 DEF TypeOK, Unlock
    <2>4. pc' \in PCType /\ \A u \in Thread : pc'[u] = "search" => query'[u].lo < query'[u].hi
        BY <1>4, <2>1, MoveType DEF Unlock
    <2> QED
        BY <2>1, <2>2, <2>3, <2>4, TypesStay DEF TypeOK, PCType
<1> QED
    BY <1>1, <1>2, <1>3, <1>4

LEMMA BookType ==
    ASSUME TypeOK, NEW t \in Thread, NEW ok \in BOOLEAN, Book(t, ok), DOMAIN db' \subseteq Text
    PROVE  TypeOK'
<1>1. UNCHANGED <<job, stream, weight, start, main, mi, at, query, mtx, counter, reg, done,
                  result, lat>>
    BY DEF Book, benchVars
<1>2. iter' \in [Thread -> Nat]
    BY DEF TypeOK, Book
<1>3. pc' \in PCType /\ \A u \in Thread : pc'[u] = "search" => query'[u].lo < query'[u].hi
    BY <1>1, MoveType DEF Book
<1>4. query[t].type \in Kind
    BY QueryFields
<1>5. tally' \in [Thread -> [Kind -> [count : Nat, success : Nat]]]
    <2>1. tally[t] \in [Kind -> [count : Nat, success : Nat]]
        BY DEF TypeOK
    <2>2. [count |-> tally[t][query[t].type].count + 1,
           success |-> tally[t][query[t].type].success + Bit(ok)] \in [count : Nat, success : Nat]
        BY <1>4, <2>1, SMT DEF Bit
    <2> QED
        BY <1>4, <2>1, <2>2 DEF TypeOK, Book
<1>6. vec' \in [Thread -> [Kind -> Seq(Thread \X Nat)]]
    <2>1. vec[t] \in [Kind -> Seq(Thread \X Nat)] /\ <<t, iter[t]>> \in Thread \X Nat
        BY DEF TypeOK
    <2> DEFINE S == Thread \X Nat
               x == <<t, iter[t]>>
    <2>2. vec[t][query[t].type] \in Seq(S) /\ x \in S
        BY <1>4, <2>1
    <2> HIDE DEF S, x
    <2>3. Append(vec[t][query[t].type], x) \in Seq(S)
        BY <2>2, SMT
    <2> QED
        BY <1>4, <2>1, <2>3 DEF TypeOK, Book, S, x
<1> QED
    BY <1>1, <1>2, <1>3, <1>5, <1>6, TypesStay DEF TypeOK, PCType

LEMMA CallsBook ==
    ASSUME NEW t, DoPut(t) \/ DoGet(t) \/ DoSeek(t)
    PROVE  \E ok \in BOOLEAN : Book(t, ok)
<1>1. CASE DoPut(t)
    <2>1. PICK out \in PutOutcomes(db, query[t].text, Value0(Opt.value)) : Book(t, out.ok)
        BY <1>1 DEF DoPut
    <2>2. out.ok \in BOOLEAN
        <3>1. (\E e : out = [db |-> e, ok |-> TRUE]) \/ (\E e : out = [db |-> e, ok |-> FALSE])
            BY DEF PutOutcomes
        <3>2. ASSUME NEW e, NEW ok \in BOOLEAN, out = [db |-> e, ok |-> ok] PROVE out.ok = ok
            BY <3>2
        <3> QED
            BY <3>1, <3>2
    <2> QED
        BY <2>1, <2>2
<1>2. CASE DoGet(t)
    <2>1. PICK out \in GetOutcomes(db, query[t].text, Value0(0)) : Book(t, out.ok)
        BY <1>2 DEF DoGet
    <2>2. out.ok \in BOOLEAN
        <3>1. (\E e : out = [buf |-> e, ok |-> TRUE]) \/ (\E e : out = [buf |-> e, ok |-> FALSE])
            BY DEF GetOutcomes
        <3>2. ASSUME NEW e, NEW ok \in BOOLEAN, out = [buf |-> e, ok |-> ok] PROVE out.ok = ok
            BY <3>2
        <3> QED
            BY <3>1, <3>2
    <2> QED
        BY <2>1, <2>2
<1>3. CASE DoSeek(t)
    BY <1>3 DEF DoSeek
<1> QED
    BY <1>1, <1>2, <1>3

LEMMA CallsType ==
    ASSUME TypeOK, NEW t \in Thread, DoPut(t) \/ DoGet(t) \/ DoSeek(t)
    PROVE  TypeOK'
<1>1. \E ok \in BOOLEAN : Book(t, ok)
    BY CallsBook
<1>2. DOMAIN db' \subseteq Text
    <2>1. query[t].text \in Text /\ DOMAIN db \subseteq Text
        BY QueryFields DEF TypeOK
    <2>2. DOMAIN Stored(db, query[t].text, Value0(Opt.value)) \subseteq Text
        BY <2>1 DEF Stored
    <2>3. CASE DoPut(t)
        BY <2>1, <2>2, <2>3 DEF DoPut, PutOutcomes
    <2>4. CASE DoGet(t) \/ DoSeek(t)
        BY <2>1, <2>4 DEF DoGet, DoSeek
    <2> QED
        BY <2>3, <2>4
<1> QED
    BY <1>1, <1>2, BookType

LEMMA FinishType ==
    ASSUME TypeOK, NEW t \in Thread, Finish(t)
    PROVE  TypeOK'
<1>1. UNCHANGED <<job, stream, weight, start, main, mi, iter, at, query, mtx, counter, reg, done,
                  tally, vec, db, result, lat>>
    BY DEF Finish, runVars, benchVars
<1>2. pc' \in PCType /\ \A u \in Thread : pc'[u] = "search" => query'[u].lo < query'[u].hi
    BY <1>1, MoveType DEF Finish
<1> QED
    BY <1>1, <1>2, TypesStay DEF TypeOK, PCType

\* A loop over the threads stays inside them.
LEMMA AdvanceType ==
    ASSUME TypeOK, NEW here, NEW next \in {"join", "report", "exited"},
           here \in {"spawn", "join", "report"}, Advance(here, next)
    PROVE  /\ mi' \in 0 .. job.threads - 1
           /\ main' \in {"spawn", "join", "report", "exited"}
<1>1. job.threads \in Nat \ {0} /\ mi \in 0 .. job.threads - 1
    BY JobType DEF TypeOK
<1> QED
    BY <1>1 DEF Advance

LEMMA LoopThread ==
    ASSUME TypeOK
    PROVE  mi \in Thread /\ mi < job.threads
<1>1. job.threads \in 1 .. MaxThreads /\ MaxThreads \in Nat
    BY JobType, FbBenchAssumption DEF TypeOK
<1>2. mi \in 0 .. job.threads - 1
    BY DEF TypeOK
<1> QED
    BY <1>1, <1>2 DEF Thread

LEMMA MainType ==
    ASSUME TypeOK, MainStep
    PROVE  TypeOK'
<1>1. UNCHANGED <<job, stream, weight, start, iter, at, query, mtx, counter, reg, done,
                  tally, vec, db>>
    BY DEF MainStep, Spawn, Join, Report, StatusReport, benchVars, runVars
<1>2. mi' \in 0 .. job.threads - 1 /\ main' \in {"spawn", "join", "report", "exited"}
    <2>1. CASE Spawn
        BY <2>1, AdvanceType DEF Spawn
    <2>2. CASE Join
        BY <2>2, AdvanceType DEF Join
    <2>3. CASE Report
        BY <2>3, AdvanceType DEF Report
    <2>4. CASE StatusReport
        BY <2>4 DEF StatusReport, TypeOK
    <2> QED
        BY <2>1, <2>2, <2>3, <2>4 DEF MainStep
<1>3. pc' \in PCType /\ \A u \in Thread : pc'[u] = "search" => query'[u].lo < query'[u].hi
    <2>1. CASE Spawn
        BY <1>1, <2>1, LoopThread, MoveType DEF Spawn
    <2>2. CASE Join \/ Report \/ StatusReport
        BY <1>1, <2>2 DEF TypeOK, PCType, Join, Report, StatusReport
    <2> QED
        BY <2>1, <2>2 DEF MainStep
<1>4. /\ result' \in Seq([Kind -> [count : Nat, success : Nat]])
      /\ lat' \in [Kind -> Seq(Thread \X Nat)]
    <2>1. CASE Report
        <3> DEFINE S == [Kind -> [count : Nat, success : Nat]]
        <3>1. tally[mi] \in S /\ result \in Seq(S)
            BY LoopThread DEF TypeOK
        <3> HIDE DEF S
        <3>2. result' \in Seq(S)
            BY <2>1, <3>1, SMT DEF Report
        <3>3. vec[mi] \in [Kind -> Seq(Thread \X Nat)] /\ lat \in [Kind -> Seq(Thread \X Nat)]
            BY LoopThread DEF TypeOK
        <3>4. lat' \in [Kind -> Seq(Thread \X Nat)]
            BY <2>1, <3>3 DEF Report
        <3> QED
            BY <3>2, <3>4 DEF S
    <2>2. CASE Spawn \/ Join \/ StatusReport
        BY <2>2 DEF TypeOK, Spawn, Join, StatusReport
    <2> QED
        BY <2>1, <2>2 DEF MainStep
<1> QED
    BY <1>1, <1>2, <1>3, <1>4, TypesStay DEF TypeOK, PCType

LEMMA NextType == TypeOK /\ [Next]_vars => TypeOK'
<1> SUFFICES ASSUME TypeOK, [Next]_vars PROVE TypeOK'
    OBVIOUS
<1>1. CASE MainStep
    BY <1>1, MainType
<1>2. ASSUME NEW t \in Thread, ThreadStep(t) PROVE TypeOK'
    <2>1. CASE MixGraph(t) \/ MixGraphPrefix(t) \/ ReadRandom(t) \/ MixRandom(t)
        BY <2>1, DrawsType
    <2>2. CASE Search(t) \/ ChooseKey(t)
        BY <2>2, SearchType, ChooseKeyType
    <2>3. CASE Lock(t) \/ ReadCounters(t) \/ WriteCounters(t) \/ Unlock(t)
        BY <2>3, CountingType
    <2>4. CASE DoPut(t) \/ DoGet(t) \/ DoSeek(t)
        BY <2>4, CallsType
    <2>5. CASE Finish(t)
        BY <2>5, FinishType
    <2> QED
        BY <1>2, <2>1, <2>2, <2>3, <2>4, <2>5 DEF ThreadStep
<1>3. CASE UNCHANGED vars
    <2>1. UNCHANGED <<job, stream, weight, start, main, mi, pc, iter, at, query, mtx, counter, reg,
                      done, tally, vec, db, result, lat>>
        BY <1>3 DEF vars, benchVars, runVars
    <2> QED
        BY <2>1, TypesStay DEF TypeOK
<1> QED
    BY <1>1, <1>2, <1>3 DEF Next, Terminated

\* Every variable of both programs keeps its type, the search stays inside the
\* vector of key ranges, and every key is a number of 64 bits.
THEOREM FbTypeCorrect == Spec => []TypeOK
    BY InitType, NextType, PTL DEF Spec
-----------------------------------------------------------------------------
(***************************************************************************)
(* The keys.                                                               *)
(***************************************************************************)
Counting == {"lock", "read", "write", "unlock", "call"}

\* The key ranges are those of the constructor.
Laid == weight \in Shuffled(Opt.access) /\ start \in Starts(weight, KeyrangeNum)

\* A search keeps the draw between its two ends.
Bracketed(q) ==
    /\ start[q.lo] <= q.ini % KeyrangeRandMax
    /\ q.ini % KeyrangeRandMax < start[q.hi]

Chosen(q) ==
    /\ q.lo < KeyrangeNum
    /\ start[q.lo] <= q.ini % KeyrangeRandMax
    /\ q.ini % KeyrangeRandMax < start[q.lo + 1]
    /\ q.text = GenerateKeyFromInt(DistGetKeyID(Opt, q.ini, q.lo))

KeyInv ==
    /\ Laid
    /\ \A t \in Thread :
        /\ pc[t] = "search" => KeyrangeNum > 0 /\ Bracketed(query[t])
        /\ pc[t] \in Counting =>
            /\ KeyrangeNum > 0 => Chosen(query[t])
            /\ KeyrangeNum = 0 => query[t].text \in 0 .. Opt.num - 1
            /\ AllRandom => query[t].type = GetType(Opt, query[t].text)

LEMMA LengthType ==
    ASSUME TypeOK
    PROVE  KeyrangeNum \in Nat /\ (KeyrangeNum = 0 <=> Opt.access = <<>>)
    BY JobType, OptionType, SMT DEF TypeOK, KeyrangeNum

\* Later key ranges start no earlier: by induction on their distance.
LEMMA StartsGrow ==
    ASSUME NEW n \in Nat, NEW w \in [0 .. n - 1 -> Nat], NEW s \in [0 .. n -> Nat],
           \A k \in 0 .. n - 1 : s[k + 1] = s[k] + w[k],
           NEW a \in 0 .. n, NEW b \in 0 .. n, a <= b
    PROVE  s[a] <= s[b]
<1> DEFINE S == {m \in Nat : a + m <= n => s[a] <= s[a + m]}
<1>1. 0 \in S
    BY SMT
<1>2. ASSUME NEW m \in S PROVE m + 1 \in S
    <2> SUFFICES ASSUME a + (m + 1) <= n PROVE s[a] <= s[a + (m + 1)]
        BY SMT
    <2>1. a + m \in 0 .. n - 1 /\ a + m \in 0 .. n /\ (a + m) + 1 = a + (m + 1) /\ a + m <= n
        BY SMT
    <2>2. s[a] <= s[a + m]
        BY <1>2, <2>1
    <2>3. s[a + (m + 1)] = s[a + m] + w[a + m]
        BY <2>1
    <2>4. s[a] \in Nat /\ s[a + m] \in Nat /\ w[a + m] \in Nat
        BY <2>1
    <2> QED
        BY <2>2, <2>3, <2>4, SMT
<1>3. S \in SUBSET Nat
    OBVIOUS
<1> HIDE DEF S
<1>4. S = Nat
    BY <1>1, <1>2, <1>3, Induction
<1>5. b - a \in Nat /\ a + (b - a) = b
    BY SMT
<1>6. b - a \in S
    BY <1>4, <1>5
<1> QED
    BY <1>5, <1>6, SMT DEF S

LEMMA StartFacts ==
    ASSUME TypeOK, Laid
    PROVE  /\ start[0] = 0
           /\ \A k \in 0 .. KeyrangeNum - 1 : start[k + 1] = start[k] + weight[k]
           /\ \A k \in 0 .. KeyrangeNum : start[k] \in Nat
           /\ \A k \in 0 .. KeyrangeNum - 1 : weight[k] \in Nat
           /\ \A a, b \in 0 .. KeyrangeNum : a <= b => start[a] <= start[b]
           /\ KeyrangeNum > 0 => KeyrangeRandMax \in Nat \ {0}
<1>1. KeyrangeNum \in Nat
    BY LengthType
<1>2. /\ start \in [0 .. KeyrangeNum -> Nat] /\ start[0] = 0
      /\ \A k \in 0 .. KeyrangeNum - 1 : start[k + 1] = start[k] + weight[k]
    BY <1>1, StartsType DEF Laid
<1>3. weight \in [0 .. KeyrangeNum - 1 -> Nat]
    BY DEF TypeOK
<1>4. \A a, b \in 0 .. KeyrangeNum : a <= b => start[a] <= start[b]
    BY <1>1, <1>2, <1>3, StartsGrow
<1>5. ASSUME KeyrangeNum > 0 PROVE KeyrangeRandMax \in Nat \ {0}
    <2>1. PICK i \in DOMAIN Opt.access : Opt.access[i] > 0
        BY <1>5, LengthType, JobType, SMT DEF TypeOK, Sound
    <2>2. PICK p \in Surjection(0 .. KeyrangeNum - 1, 1 .. KeyrangeNum) :
            weight = [k \in 0 .. KeyrangeNum - 1 |-> Opt.access[p[k]]]
        BY DEF Laid, Shuffled, Bijection, KeyrangeNum
    <2>3. i \in 1 .. KeyrangeNum
        BY <2>1, JobType, OptionType, SMT DEF TypeOK, KeyrangeNum
    <2>4. PICK k \in 0 .. KeyrangeNum - 1 : p[k] = i
        BY <2>2, <2>3 DEF Surjection
    <2>5. weight[k] > 0
        BY <2>1, <2>2, <2>4
    <2>6. k \in 0 .. KeyrangeNum /\ k + 1 \in 0 .. KeyrangeNum /\ KeyrangeNum \in 0 .. KeyrangeNum
          /\ k + 1 <= KeyrangeNum
        BY <1>1, <2>4, SMT
    <2>7. start[k + 1] = start[k] + weight[k] /\ start[k + 1] <= start[KeyrangeNum]
        BY <1>2, <1>4, <2>4, <2>6
    <2>8. start[k] \in Nat /\ start[k + 1] \in Nat /\ start[KeyrangeNum] \in Nat /\ weight[k] \in Nat
        BY <1>2, <1>3, <2>4, <2>6
    <2> QED
        BY <2>5, <2>7, <2>8, SMT DEF KeyrangeRandMax
<1> QED
    BY <1>2, <1>3, <1>4, <1>5

LEMMA InitKeys == Init => KeyInv
<1> SUFFICES ASSUME Init PROVE KeyInv
    OBVIOUS
<1>1. Laid
    BY DEF Init, Laid
<1>2. \A t \in Thread : pc[t] = "unborn"
    BY DEF Init, PerThread
<1> QED
    BY <1>1, <1>2 DEF KeyInv, Counting

\* Key ranges stay where they are, and so does what is said of a query.
LEMMA KeysStay ==
    ASSUME UNCHANGED <<job, weight, start>>
    PROVE  /\ Laid => Laid'
           /\ \A q : Bracketed(q)' = Bracketed(q) /\ Chosen(q)' = Chosen(q)
           /\ Opt' = Opt /\ KeyrangeNum' = KeyrangeNum /\ AllRandom' = AllRandom
    BY DEF Laid, Bracketed, Chosen, KeyrangeRandMax, Opt, KeyrangeNum, AllRandom

\* Steps that leave the queries alone.
LEMMA RestKeys ==
    ASSUME KeyInv, UNCHANGED <<job, weight, start, query>>,
           \A u \in Thread : /\ pc'[u] = "search" => pc[u] = "search"
                             /\ pc'[u] \in Counting => pc[u] \in Counting
    PROVE  KeyInv'
    BY KeysStay DEF KeyInv

\* A thread has a new query.
LEMMA AskKeys ==
    ASSUME TypeOK, KeyInv, NEW t \in Thread, NEW q, NEW next \in {"search", "lock"},
           UNCHANGED <<job, weight, start>>,
           query' = [query EXCEPT ![t] = q], pc' = [pc EXCEPT ![t] = next],
           next = "search" => KeyrangeNum > 0 /\ Bracketed(q),
           next = "lock" => /\ KeyrangeNum > 0 => Chosen(q)
                            /\ KeyrangeNum = 0 => q.text \in 0 .. Opt.num - 1
                            /\ AllRandom => q.type = GetType(Opt, q.text)
    PROVE  KeyInv'
<1>1. /\ query'[t] = q /\ pc'[t] = next
      /\ \A u \in Thread \ {t} : query'[u] = query[u] /\ pc'[u] = pc[u]
    BY DEF TypeOK
<1>2. ASSUME NEW u \in Thread
      PROVE  /\ pc'[u] = "search" => KeyrangeNum > 0 /\ Bracketed(query'[u])
             /\ pc'[u] \in Counting =>
                 /\ KeyrangeNum > 0 => Chosen(query'[u])
                 /\ KeyrangeNum = 0 => query'[u].text \in 0 .. Opt.num - 1
                 /\ AllRandom => query'[u].type = GetType(Opt, query'[u].text)
    <2>1. CASE u = t
        BY <1>1, <2>1 DEF Counting
    <2>2. CASE u # t
        BY <1>1, <2>2 DEF KeyInv
    <2> QED
        BY <2>1, <2>2
<1> QED
    BY <1>2, KeysStay DEF KeyInv

\* The bytes of a key that is in the database are its number.
LEMMA KeyText ==
    ASSUME TypeOK, NEW k \in 0 .. Opt.num - 1
    PROVE  k \in Nat /\ k < Half /\ GenerateKeyFromInt(k) = k
<1>1. Opt.num \in Nat \ {0} /\ Opt.num <= Half /\ Half \in Nat \ {0}
    BY JobType, OptionType DEF TypeOK
<1>2. k \in Nat /\ k < Half /\ k < 2 * Half
    BY <1>1, SMT
<1> QED
    BY <1>2, TextType

\* Only MixGraph has key ranges.
LEMMA PrefixIsMixGraph ==
    ASSUME TypeOK, KeyrangeNum > 0
    PROVE  Opt.bench = "MixGraph" /\ ~AllRandom
<1>1. Opt.access # <<>>
    BY LengthType, SMT
<1> QED
    BY <1>1, JobType DEF TypeOK, Sound, AllRandom

LEMMA QueryIs ==
    ASSUME NEW type, NEW key
    PROVE  /\ Query(type, key).type = type /\ Query(type, key).text = GenerateKeyFromInt(key)
    BY DEF Query, NoQuery

LEMMA DrawsKeys ==
    ASSUME TypeOK, KeyInv, NEW t \in Thread,
           MixGraph(t) \/ MixGraphPrefix(t) \/ ReadRandom(t) \/ MixRandom(t)
    PROVE  KeyInv'
<1>1. \A n \in {1, 2, 3} : n \in Nat \ {0}
    BY SMT
<1>2. KeyrangeNum \in Nat /\ Opt \in Options
    BY LengthType, JobType DEF TypeOK
<1>3. CASE MixGraph(t)
    <2>1. PICK ini \in RandomKey(t, 1) :
            Ask(t, 1, Query(GetType(Opt, ini), GraphKey(Opt, ini)), "lock")
        BY <1>3 DEF MixGraph
    <2> DEFINE q == Query(GetType(Opt, ini), GraphKey(Opt, ini))
    <2>2. ini \in 0 .. Opt.num - 1 /\ GraphKey(Opt, ini) \in 0 .. Opt.num - 1
        BY <1>1, <1>2, DrawType, GraphKeyType
    <2>3. q.type = GetType(Opt, ini) /\ q.text = GraphKey(Opt, ini)
        BY <2>2, QueryIs, KeyText
    <2>4. AllRandom => GraphKey(Opt, ini) = ini
        BY DEF AllRandom, GraphKey
    <2>5. KeyrangeNum = 0 /\ ~(KeyrangeNum > 0)
        BY <1>3, SMT DEF MixGraph
    <2> HIDE DEF q
    <2>6. /\ UNCHANGED <<job, weight, start>>
          /\ query' = [query EXCEPT ![t] = q] /\ pc' = [pc EXCEPT ![t] = "lock"]
        BY <2>1 DEF Ask, q
    <2> QED
        BY <2>2, <2>3, <2>4, <2>5, <2>6, AskKeys
<1>4. CASE MixGraphPrefix(t)
    <2>1. PICK ini \in RandomKey(t, 1) :
            Ask(t, 1, [NoQuery EXCEPT !.ini = ini, !.hi = KeyrangeNum, !.type = GetType(Opt, ini)], "search")
        BY <1>4 DEF MixGraphPrefix
    <2> DEFINE q == [NoQuery EXCEPT !.ini = ini, !.hi = KeyrangeNum, !.type = GetType(Opt, ini)]
    <2>2. ini \in 0 .. Opt.num - 1 /\ KeyrangeNum > 0
        BY <1>1, <1>4, DrawType DEF MixGraphPrefix
    <2>3. q = [ini |-> ini, lo |-> 0, hi |-> KeyrangeNum, type |-> GetType(Opt, ini), text |-> 0]
        BY PrefixQuery DEF q
    <2>4. q.ini = ini /\ q.lo = 0 /\ q.hi = KeyrangeNum
        BY <2>3
    <2> HIDE DEF q
    <2>5. Bracketed(q)
        <3>1. ini \in Nat /\ KeyrangeRandMax \in Nat \ {0} /\ start[0] = 0
            BY <2>2, KeyText, StartFacts DEF KeyInv
        <3>2. ini % KeyrangeRandMax \in 0 .. KeyrangeRandMax - 1
            BY <3>1, Quotient
        <3>3. 0 <= ini % KeyrangeRandMax /\ ini % KeyrangeRandMax < KeyrangeRandMax
            BY <3>1, <3>2, SMT
        <3> QED
            BY <2>4, <3>1, <3>3 DEF Bracketed, KeyrangeRandMax
    <2>6. /\ UNCHANGED <<job, weight, start>>
          /\ query' = [query EXCEPT ![t] = q] /\ pc' = [pc EXCEPT ![t] = "search"]
        BY <2>1 DEF Ask, q
    <2> QED
        BY <2>2, <2>5, <2>6, AskKeys
<1>5. ASSUME NEW type \in Kind, NEW k \in 0 .. Opt.num - 1, NEW n \in Nat, Opt.bench # "MixGraph",
             Ask(t, n, Query(type, k), "lock")
      PROVE  KeyInv'
    <2>1. KeyrangeNum = 0 /\ ~(KeyrangeNum > 0) /\ ~AllRandom
        BY <1>2, <1>5, PrefixIsMixGraph, SMT DEF AllRandom
    <2> DEFINE q == Query(type, k)
    <2>2. q.text = k
        BY QueryIs, KeyText
    <2> HIDE DEF q
    <2>3. /\ UNCHANGED <<job, weight, start>>
          /\ query' = [query EXCEPT ![t] = q] /\ pc' = [pc EXCEPT ![t] = "lock"]
        BY <1>5 DEF Ask, q
    <2> QED
        BY <2>1, <2>2, <2>3, AskKeys
<1>6. CASE ReadRandom(t)
    <2>1. PICK k \in RandomKey(t, 2) : Ask(t, 2, Query("Get", k), "lock")
        BY <1>6 DEF ReadRandom
    <2> QED
        BY <1>1, <1>5, <1>6, <2>1, DrawType DEF ReadRandom, Kind
<1>7. CASE MixRandom(t)
    <2>1. PICK ini \in RandomKey(t, 1), k \in RandomKey(t, 3) :
            Ask(t, 3, Query(GetType(Opt, ini), k), "lock")
        BY <1>7 DEF MixRandom
    <2> QED
        BY <1>1, <1>5, <1>7, <2>1, DrawType, TypeOfQuery DEF MixRandom
<1> QED
    BY <1>3, <1>4, <1>6, <1>7

\* One iteration of the binary search keeps the draw between its ends.
LEMMA SearchKeys ==
    ASSUME TypeOK, KeyInv, NEW t \in Thread, Search(t)
    PROVE  KeyInv'
<1> DEFINE q == query[t]
           mid == q.lo + ((q.hi - q.lo) \div 2)
<1>1. KeyrangeNum > 0 /\ Bracketed(q)
    BY DEF KeyInv, Search
<1>2. mid \in 0 .. KeyrangeNum
    <2>1. q.lo + 1 < q.hi /\ KeyrangeNum \in Nat
        BY LengthType DEF Search
    <2> QED
        BY <2>1, QueryFields, Middle, SMT
<1> HIDE DEF mid
<1>3. q.ini % KeyrangeRandMax \in Nat /\ start[mid] \in Nat
    <2>1. q.ini \in Nat /\ KeyrangeRandMax \in Nat \ {0}
        BY <1>1, QueryFields, StartFacts DEF KeyInv
    <2> QED
        BY <1>2, <2>1, Quotient, StartFacts, SMT DEF KeyInv
<1>4. /\ [q EXCEPT !.hi = mid].ini = q.ini /\ [q EXCEPT !.hi = mid].lo = q.lo
      /\ [q EXCEPT !.hi = mid].hi = mid
      /\ [q EXCEPT !.lo = mid].ini = q.ini /\ [q EXCEPT !.lo = mid].lo = mid
      /\ [q EXCEPT !.lo = mid].hi = q.hi
    BY QueryFields DEF QueryType
<1>5. CASE q.ini % KeyrangeRandMax < start[mid]
    <2>1. Bracketed([q EXCEPT !.hi = mid])
        BY <1>1, <1>4, <1>5 DEF Bracketed
    <2>2. Think(t, [q EXCEPT !.hi = mid], "search")
        BY <1>5 DEF Search, KeyrangeRand, mid
    <2> HIDE DEF q
    <2> QED
        BY <1>1, <2>1, <2>2, AskKeys DEF Think
<1>6. CASE ~(q.ini % KeyrangeRandMax < start[mid])
    <2>0. start[mid] <= q.ini % KeyrangeRandMax
        BY <1>3, <1>6, SMT
    <2>1. Bracketed([q EXCEPT !.lo = mid])
        BY <1>1, <1>4, <2>0 DEF Bracketed
    <2>2. Think(t, [q EXCEPT !.lo = mid], "search")
        BY <1>6 DEF Search, KeyrangeRand, mid
    <2> HIDE DEF q
    <2> QED
        BY <1>1, <2>1, <2>2, AskKeys DEF Think
<1> QED
    BY <1>5, <1>6

LEMMA ChooseKeys ==
    ASSUME TypeOK, KeyInv, NEW t \in Thread, ChooseKey(t)
    PROVE  KeyInv'
<1> DEFINE q == query[t]
           r == [q EXCEPT !.text = GenerateKeyFromInt(DistGetKeyID(Opt, q.ini, q.lo))]
<1>1. KeyrangeNum > 0 /\ Bracketed(q)
    BY DEF KeyInv, ChooseKey
<1>2. q.hi = q.lo + 1 /\ q.lo < KeyrangeNum
    <2>1. q.lo + 1 >= q.hi /\ q.lo < q.hi /\ KeyrangeNum \in Nat
        BY LengthType DEF TypeOK, ChooseKey
    <2> QED
        BY <2>1, QueryFields, SMT
<1>3. r.ini = q.ini /\ r.lo = q.lo /\ r.text = GenerateKeyFromInt(DistGetKeyID(Opt, q.ini, q.lo))
    BY QueryFields DEF QueryType
<1>4. Think(t, r, "lock")
    BY DEF ChooseKey
<1> HIDE DEF r
<1>5. Chosen(r)
    BY <1>1, <1>2, <1>3 DEF Chosen, Bracketed
<1>6. ~AllRandom /\ KeyrangeNum # 0
    BY <1>1, PrefixIsMixGraph, SMT
<1> QED
    BY <1>4, <1>5, <1>6, AskKeys DEF Think

\* Every other step leaves the queries alone, and brings no thread to a point
\* where a query is asked for that it does not have.
LEMMA OtherKeys ==
    ASSUME TypeOK, KeyInv,
           \/ MainStep
           \/ UNCHANGED vars
           \/ \E t \in Thread : \/ Lock(t) \/ ReadCounters(t) \/ WriteCounters(t) \/ Unlock(t)
                                \/ DoPut(t) \/ DoGet(t) \/ DoSeek(t) \/ Finish(t)
    PROVE  KeyInv'
<1>0. \A u \in Thread, e \in {"search", "lock", "read", "write", "unlock", "call"} :
        ~(pc[u] = e /\ pc[u] \in {"unborn", "loop", "finished"})
    OBVIOUS
<1>1. CASE MainStep \/ UNCHANGED vars
    <2>1. UNCHANGED <<job, weight, start, query>>
        BY <1>1 DEF MainStep, Spawn, Join, Report, StatusReport, benchVars, vars
    <2>2. pc' = pc \/ (pc' = [pc EXCEPT ![mi] = "loop"])
        BY <1>1 DEF MainStep, Spawn, Join, Report, StatusReport, vars
    <2>3. \A u \in Thread : pc'[u] = pc[u] \/ pc'[u] = "loop"
        BY <2>2 DEF TypeOK
    <2> QED
        BY <2>1, <2>3, RestKeys DEF Counting
<1>2. ASSUME NEW t \in Thread,
             \/ Lock(t) \/ ReadCounters(t) \/ WriteCounters(t) \/ Unlock(t)
             \/ DoPut(t) \/ DoGet(t) \/ DoSeek(t) \/ Finish(t)
      PROVE  KeyInv'
    <2>1. CASE Lock(t) \/ ReadCounters(t) \/ WriteCounters(t) \/ Unlock(t) \/ Finish(t)
        <3>1. UNCHANGED <<job, weight, start, query>>
            BY <2>1 DEF Lock, ReadCounters, WriteCounters, Unlock, Finish, benchVars
        <3>2. \E next : /\ pc' = [pc EXCEPT ![t] = next]
                        /\ next # "search" /\ (next \in Counting => pc[t] \in Counting)
            BY <2>1 DEF Lock, ReadCounters, WriteCounters, Unlock, Finish, Counting
        <3>3. \A u \in Thread : /\ pc'[u] = "search" => pc[u] = "search"
                                /\ pc'[u] \in Counting => pc[u] \in Counting
            BY <3>2 DEF TypeOK
        <3> QED
            BY <3>1, <3>3, RestKeys
    <2>2. CASE DoPut(t) \/ DoGet(t) \/ DoSeek(t)
        <3>1. PICK ok \in BOOLEAN : Book(t, ok)
            BY <2>2, CallsBook
        <3>2. UNCHANGED <<job, weight, start, query>> /\ pc' = [pc EXCEPT ![t] = "loop"]
            BY <3>1 DEF Book, benchVars
        <3>3. \A u \in Thread : pc'[u] = pc[u] \/ pc'[u] = "loop"
            BY <3>2 DEF TypeOK
        <3> QED
            BY <3>2, <3>3, RestKeys DEF Counting
    <2> QED
        BY <1>2, <2>1, <2>2
<1> QED
    BY <1>1, <1>2

\* KeyInv is an invariant.
THEOREM KeysHold == Spec => []KeyInv
<1>1. TypeOK /\ KeyInv /\ [Next]_vars => KeyInv'
    <2> SUFFICES ASSUME TypeOK, KeyInv, [Next]_vars PROVE KeyInv'
        OBVIOUS
    <2>1. CASE MainStep \/ UNCHANGED vars
        BY <2>1, OtherKeys
    <2>2. ASSUME NEW t \in Thread, ThreadStep(t) PROVE KeyInv'
        BY <2>2, DrawsKeys, SearchKeys, ChooseKeys, OtherKeys DEF ThreadStep
    <2> QED
        BY <2>1, <2>2 DEF Next, Terminated
<1> QED
    BY <1>1, InitKeys, FbTypeCorrect, PTL DEF Spec

\* The key of a remainder that is not negative is one of the chosen key range, and
\* in the database.
LEMMA InsideKey ==
    ASSUME TypeOK, KeyInv, KeyrangeNum > 0, NEW t \in Thread, pc[t] \in Counting,
           Opt.flat \/ Hash[query[t].ini] >= 0
    PROVE  /\ KeyrangeSize(Opt) * query[t].lo <= query[t].text
           /\ query[t].text < KeyrangeSize(Opt) * (query[t].lo + 1)
           /\ query[t].text \in 0 .. Opt.num - 1
           /\ query[t].text < KeyrangeSize(Opt) * KeyrangeNum
<1> DEFINE q == query[t]
           s == KeyrangeSize(Opt)
           k == DistGetKeyID(Opt, q.ini, q.lo)
<1>1. Chosen(q)
    BY DEF KeyInv
<1>2. q.lo \in Nat /\ q.lo \in 0 .. KeyrangeNum - 1 /\ KeyrangeNum \in Nat
    BY <1>1, QueryFields, LengthType, SMT DEF Chosen
<1>3. /\ Opt \in Options /\ Sound(Opt) /\ Len(Opt.access) > 0
      /\ q.ini \in 0 .. Opt.num - 1
    BY JobType, QueryFields DEF TypeOK, KeyrangeNum
<1>4. k \in Int /\ s * q.lo <= k /\ k < s * (q.lo + 1)
    BY <1>2, <1>3, DistKeyType
<1>5. /\ s \in Nat \ {0} /\ s * KeyrangeNum <= Opt.num /\ Opt.num \in Nat
      /\ Opt.num <= Half /\ Half \in Nat \ {0}
    BY <1>3, KeyrangeSizeType, OptionType DEF KeyrangeNum
<1> HIDE DEF k, s
<1>6. (q.lo + 1) * s <= KeyrangeNum * s
    BY <1>2, <1>5, TimesMonotone, SMT
<1> DEFINE a == s * q.lo
           b == s * (q.lo + 1)
           c == s * KeyrangeNum
<1>7. a \in Nat /\ b \in Int /\ c \in Int /\ b = (q.lo + 1) * s /\ c = KeyrangeNum * s
    BY <1>2, <1>5, SMT
<1>8. a <= k /\ k < b /\ b <= c /\ c <= Opt.num
    BY <1>4, <1>5, <1>6, <1>7
<1> HIDE DEF a, b, c
<1>9. k \in 0 .. Opt.num - 1 /\ k < c
    BY <1>4, <1>5, <1>7, <1>8, SMT
<1>10. q.text = k
    BY <1>1, <1>9, KeyText DEF Chosen, k
<1> QED
    BY <1>8, <1>9, <1>10 DEF a, b, c, s

\* The key of a negative remainder is less than one key range before the chosen one;
\* where there is none before it, the number below 0 has the bytes of a large one.
LEMMA StrayedKey ==
    ASSUME TypeOK, KeyInv, KeyrangeNum > 0, NEW t \in Thread, pc[t] \in Counting,
           ~(Opt.flat \/ Hash[query[t].ini] >= 0)
    PROVE  Strayed(query[t])
<1> DEFINE q == query[t]
           s == KeyrangeSize(Opt)
           k == DistGetKeyID(Opt, q.ini, q.lo)
<1>1. Chosen(q)
    BY DEF KeyInv
<1>2. q.lo \in Nat /\ q.lo \in 0 .. KeyrangeNum - 1 /\ KeyrangeNum \in Nat
    BY <1>1, QueryFields, LengthType, SMT DEF Chosen
<1>3. /\ Opt \in Options /\ Sound(Opt) /\ Len(Opt.access) > 0
      /\ q.ini \in 0 .. Opt.num - 1
    BY JobType, QueryFields DEF TypeOK, KeyrangeNum
<1>4. k \in Int /\ s * (q.lo - 1) < k /\ k <= s * q.lo
    BY <1>2, <1>3, DistKeyType
<1>5. /\ s \in Nat \ {0} /\ s * KeyrangeNum <= Opt.num /\ Opt.num \in Nat
      /\ Opt.num <= Half /\ Half \in Nat \ {0}
    BY <1>3, KeyrangeSizeType, OptionType DEF KeyrangeNum
<1>6. q.text = GenerateKeyFromInt(k)
    BY <1>1 DEF Chosen
<1> HIDE DEF k, s
<1>7. q.lo * s <= KeyrangeNum * s /\ (q.lo > 0 => 0 * s <= (q.lo - 1) * s)
    BY <1>2, <1>5, TimesMonotone, SMT
<1>8. PICK a \in Int : a = s * (q.lo - 1) /\ a = (q.lo - 1) * s
    BY <1>2, <1>5, SMT
<1>9. PICK b \in Int : b = s * q.lo /\ b = q.lo * s
    BY <1>2, <1>5, SMT
<1>10. PICK c \in Int : c = s * KeyrangeNum /\ c = KeyrangeNum * s
    BY <1>2, <1>5, SMT
<1>11. a < k /\ k <= b /\ b <= c /\ c <= Opt.num /\ (q.lo > 0 => 0 <= a)
    BY <1>4, <1>5, <1>7, <1>8, <1>9, <1>10, SMT
<1>12. CASE k >= 0
    <2>1. k \in Nat /\ k < 2 * Half
        BY <1>4, <1>5, <1>11, <1>12, SMT
    <2>2. q.text = k
        BY <1>6, <2>1, TextType
    <2> QED
        BY <1>8, <1>9, <1>11, <2>2 DEF Strayed, s
<1>13. CASE k < 0
    <2>1. q.lo = 0
        BY <1>2, <1>4, <1>11, <1>13, SMT
    <2>2. a = -s
        BY <1>5, <1>8, <2>1, SMT
    <2>3. 1 * s <= KeyrangeNum * s /\ 1 * s = s
        BY <1>2, <1>5, TimesMonotone, SMT
    <2>4. PICK d \in Nat : d = k + 2 * Half /\ d < 2 * Half /\ 2 * Half - s < d /\ ~(d < Half)
        BY <1>4, <1>5, <1>10, <1>11, <1>13, <2>2, <2>3, SMT
    <2>5. d \in Text
        BY <1>5, <2>4, SMT DEF Text
    <2>6. ConvertKeyToInt(d) = k
        BY <1>4, <1>5, <2>4, SMT DEF ConvertKeyToInt
    <2>7. q.text = d
        BY <1>6, <2>5, <2>6, TextType
    <2> QED
        BY <2>1, <2>4, <2>7 DEF Strayed, s
<1> QED
    BY <1>4, <1>12, <1>13, SMT

\* DistGetKeyID: whatever the weights and their order, the search ends at the key
\* range that holds the draw, and the key is one of its keys.
THEOREM KeysInRange == Spec => []KeyInChosenRange
<1>1. TypeOK /\ KeyInv => KeyInChosenRange
    <2> SUFFICES ASSUME TypeOK, KeyInv, KeyrangeNum > 0, NEW t \in Thread, pc[t] \in Counting
                 PROVE  LET q == query[t]
                            s == KeyrangeSize(Opt)
                        IN  /\ q.lo < KeyrangeNum /\ weight[q.lo] > 0
                            /\ start[q.lo] <= KeyrangeRand(t)
                            /\ KeyrangeRand(t) < start[q.lo] + weight[q.lo]
                            /\ IF Opt.flat \/ Hash[q.ini] >= 0
                               THEN s * q.lo <= q.text /\ q.text < s * (q.lo + 1)
                               ELSE Strayed(q)
        BY DEF KeyInChosenRange, Counting
    <2> DEFINE q == query[t]
    <2>1. Chosen(q)
        BY DEF KeyInv
    <2>2. q.lo \in 0 .. KeyrangeNum - 1 /\ q.lo \in 0 .. KeyrangeNum
        BY <2>1, QueryFields, LengthType, SMT DEF Chosen
    <2>3. /\ start[q.lo + 1] = start[q.lo] + weight[q.lo]
          /\ weight[q.lo] \in Nat /\ KeyrangeRandMax \in Nat \ {0}
          /\ start[q.lo] \in Nat
        BY <2>2, StartFacts DEF KeyInv
    <2>4. q.ini % KeyrangeRandMax \in Int
        <3>1. q.ini \in Nat
            BY QueryFields
        <3>2. q.ini % KeyrangeRandMax \in 0 .. KeyrangeRandMax - 1
            BY <2>3, <3>1, Quotient
        <3> QED
            BY <2>3, <3>2, SMT
    <2>5. /\ q.lo < KeyrangeNum /\ weight[q.lo] > 0
          /\ start[q.lo] <= KeyrangeRand(t) /\ KeyrangeRand(t) < start[q.lo] + weight[q.lo]
        BY <2>1, <2>3, <2>4, SMT DEF Chosen, KeyrangeRand
    <2>6. IF Opt.flat \/ Hash[q.ini] >= 0
          THEN /\ KeyrangeSize(Opt) * q.lo <= q.text
               /\ q.text < KeyrangeSize(Opt) * (q.lo + 1)
          ELSE Strayed(q)
        BY InsideKey, StrayedKey
    <2> QED
        BY <2>5, <2>6
<1> QED
    BY <1>1, KeysHold, FbTypeCorrect, PTL
-----------------------------------------------------------------------------
(***************************************************************************)
(* AllRandom: a key in the store is one whose draw says Put.               *)
(***************************************************************************)
MissInv ==
    AllRandom =>
        /\ \A k \in DOMAIN db : GetType(Opt, k) = "Put"
        /\ \A t \in Thread : tally[t]["Get"].success = 0

\* What booking a query does to the counts of Gets.
LEMMA BookTally ==
    ASSUME TypeOK, NEW t \in Thread, NEW ok \in BOOLEAN, Book(t, ok),
           query[t].type = "Get" => ok = FALSE
    PROVE  \A u \in Thread : tally'[u]["Get"].success = tally[u]["Get"].success
<1> SUFFICES ASSUME NEW u \in Thread
             PROVE  tally'[u]["Get"].success = tally[u]["Get"].success
    OBVIOUS
<1> DEFINE k == query[t].type
           e == [count |-> tally[t][k].count + 1, success |-> tally[t][k].success + Bit(ok)]
<1>1. tally' = [tally EXCEPT ![t] = [tally[t] EXCEPT ![k] = e]]
    BY DEF Book
<1>2. "Get" \in Kind /\ k \in Kind /\ tally[t] \in [Kind -> [count : Nat, success : Nat]]
    BY QueryFields DEF TypeOK, Kind
<1>3. CASE u = t /\ k = "Get"
    <2>1. tally'[u]["Get"] = e
        BY <1>1, <1>2, <1>3 DEF TypeOK
    <2>2. e.success = tally[t]["Get"].success + 0
        BY <1>3 DEF Bit
    <2> QED
        BY <1>2, <1>3, <2>1, <2>2, SMT
<1>4. CASE ~(u = t /\ k = "Get")
    <2>1. tally'[u]["Get"] = tally[u]["Get"]
        BY <1>1, <1>2, <1>4 DEF TypeOK
    <2> QED
        BY <2>1
<1> QED
    BY <1>3, <1>4

\* Steps other than those of the calls touch neither the store nor the counts.
LEMMA OnlyCallsBook ==
    ASSUME [Next]_vars
    PROVE  \/ UNCHANGED <<tally, vec, db>>
           \/ \E t \in Thread : DoPut(t) \/ DoGet(t) \/ DoSeek(t)
<1>1. CASE MainStep \/ UNCHANGED vars
    BY <1>1 DEF MainStep, Spawn, Join, Report, StatusReport, runVars, vars
<1>2. ASSUME NEW t \in Thread, ThreadStep(t), ~(DoPut(t) \/ DoGet(t) \/ DoSeek(t))
      PROVE  UNCHANGED <<tally, vec, db>>
    <2>1. CASE MixGraph(t) \/ MixGraphPrefix(t) \/ ReadRandom(t) \/ MixRandom(t)
        BY <2>1 DEF MixGraph, MixGraphPrefix, ReadRandom, MixRandom, Ask, runVars
    <2>2. CASE Search(t) \/ ChooseKey(t)
        BY <2>2 DEF Search, ChooseKey, Think, runVars
    <2>3. CASE Lock(t) \/ ReadCounters(t) \/ WriteCounters(t) \/ Unlock(t) \/ Finish(t)
        BY <2>3 DEF Lock, ReadCounters, WriteCounters, Unlock, Finish, runVars
    <2> QED
        BY <1>2, <2>1, <2>2, <2>3 DEF ThreadStep
<1> QED
    BY <1>1, <1>2 DEF Next, Terminated

LEMMA JobStays ==
    ASSUME [Next]_vars
    PROVE  UNCHANGED <<job, stream, weight, start>>
<1>1. CASE MainStep \/ UNCHANGED vars
    BY <1>1 DEF MainStep, Spawn, Join, Report, StatusReport, vars
<1>2. ASSUME NEW t \in Thread, ThreadStep(t)
      PROVE  UNCHANGED <<job, stream, weight, start>>
    <2>1. CASE MixGraph(t) \/ MixGraphPrefix(t) \/ ReadRandom(t) \/ MixRandom(t)
        BY <2>1 DEF MixGraph, MixGraphPrefix, ReadRandom, MixRandom, Ask
    <2>2. CASE Search(t) \/ ChooseKey(t)
        BY <2>2 DEF Search, ChooseKey, Think
    <2>3. CASE Lock(t) \/ ReadCounters(t) \/ WriteCounters(t) \/ Unlock(t) \/ Finish(t)
        BY <2>3 DEF Lock, ReadCounters, WriteCounters, Unlock, Finish
    <2>4. CASE DoPut(t) \/ DoGet(t) \/ DoSeek(t)
        BY <2>4, CallsBook DEF Book
    <2> QED
        BY <1>2, <2>1, <2>2, <2>3, <2>4 DEF ThreadStep
<1> QED
    BY <1>1, <1>2 DEF Next, Terminated

\* MixGraph: the draw that decides the kind of a query is its key, so that no Get
\* of a run without any distribution is ever answered.
THEOREM GetsMiss == Spec => []RandomGetsMiss
<1>1. Init => MissInv
    BY DEF Init, MissInv, PerThread, PerKind, Kind
<1>2. TypeOK /\ KeyInv /\ MissInv /\ [Next]_vars => MissInv'
    <2> SUFFICES ASSUME TypeOK, KeyInv, MissInv, [Next]_vars, AllRandom PROVE MissInv'
        BY JobStays DEF MissInv, AllRandom, Opt
    <2>1. Opt' = Opt
        BY JobStays DEF Opt
    <2>2. CASE UNCHANGED <<tally, vec, db>>
        BY <2>1, <2>2 DEF MissInv
    <2>3. ASSUME NEW t \in Thread, DoPut(t) \/ DoGet(t) \/ DoSeek(t) PROVE MissInv'
        <3>1. PICK ok \in BOOLEAN : Book(t, ok)
            BY <2>3, CallsBook
        <3>2. query[t].type = GetType(Opt, query[t].text)
            BY <3>1 DEF KeyInv, Book, Counting
        <3>3. CASE DoPut(t)
            <4>1. query[t].type = "Put"
                BY <3>3 DEF DoPut
            <4>2. \A k \in DOMAIN db' : k = query[t].text \/ k \in DOMAIN db
                BY <3>3 DEF DoPut, PutOutcomes, Stored
            <4>3. "Put" # "Get"
                OBVIOUS
            <4> QED
                BY <2>1, <3>1, <3>2, <4>1, <4>2, <4>3, BookTally DEF MissInv
        <3>4. CASE DoSeek(t)
            <4>1. query[t].type = "SeekForPrev" /\ "SeekForPrev" # "Get" /\ db' = db
                BY <3>4 DEF DoSeek
            <4> QED
                BY <2>1, <3>1, <4>1, BookTally DEF MissInv
        <3>5. CASE DoGet(t)
            <4>1. PICK out \in GetOutcomes(db, query[t].text, Value0(0)) : Book(t, out.ok) /\ db' = db
                BY <3>5 DEF DoGet
            <4>2. query[t].text \notin DOMAIN db
                BY <2>3, <3>2, <3>5 DEF DoGet, MissInv
            <4>3. out = [buf |-> Emptied(Value0(0)), ok |-> FALSE]
                BY <4>2 DEF GetOutcomes
            <4>4. out.ok = FALSE
                BY <4>3
            <4> QED
                BY <2>1, <4>1, <4>4, BookTally DEF MissInv
        <3> QED
            BY <2>3, <3>3, <3>4, <3>5
    <2> QED
        BY <2>2, <2>3, OnlyCallsBook
<1>3. MissInv => RandomGetsMiss
    BY DEF MissInv, RandomGetsMiss
<1> QED
    BY <1>1, <1>2, <1>3, KeysHold, FbTypeCorrect, PTL DEF Spec
-----------------------------------------------------------------------------
(***************************************************************************)
(* The counters: a mutex, and sets that grow by one.                       *)
(***************************************************************************)
Held == {"read", "write", "unlock"}

\* A thread between lock and unlock holds the mutex, and what it has read is
\* what the counters still are.
MutexInv ==
    \A t \in Thread :
        /\ pc[t] \in Held => mtx[Own(t)] = t
        /\ pc[t] = "write" => reg[t] = counter[Own(t)]

\* The threads that have not been started have done nothing, and what a thread
\* has counted it has counted in this iteration or before.
HistoryInv ==
    /\ main = "spawn" => \A t \in Thread : t >= mi => pc[t] = "unborn"
    /\ \A o \in Thread :
        /\ IsFiniteSet(done[o])
        /\ \A d \in done[o] :
            /\ Own(d.by) = o /\ d.n <= iter[d.by]
            /\ d.n = iter[d.by] => pc[d.by] \in {"unlock", "call"}

\* Where the ranges share the keys out, the range of a key is its quotient.
LEMMA RangeOfKey ==
    ASSUME NEW o \in Options, Sound(o), NEW key \in 0 .. o.num - 1,
           key < RangeNum(o) * RangeSize(o)
    PROVE  /\ CQuotient(key, RangeSize(o)) \in RangeIndex(o)
           /\ \A k \in RangeIndex(o) :
                (CQuotient(key, RangeSize(o)) = k) <=> (Low(o, k) <= key /\ key < High(o, k))
<1> DEFINE z == RangeSize(o)
           n == RangeNum(o)
<1>1. z \in Nat \ {0} /\ n \in Nat \ {0} /\ key \in Nat /\ o.num \in Nat /\ key < o.num + 1
    BY RangeType, OptionType, SMT
<1>2. CQuotient(key, z) = key \div z
    BY <1>1, SMT DEF CQuotient
<1> HIDE DEF z, n
<1>3. key \div z \in Nat
    BY <1>1, Quotient
<1>4. key \div z \in 0 .. n - 1
    <2> SUFFICES ASSUME key \div z >= n PROVE FALSE
        BY <1>1, <1>3, SMT
    <2>1. n * z <= (key \div z) * z
        BY <1>1, <1>3, TimesMonotone, SMT
    <2>2. (key \div z) * z <= key
        BY <1>1, <1>3, QuotientIs
    <2>3. key < n * z
        BY DEF z, n
    <2>4. n * z \in Int /\ (key \div z) * z \in Int
        BY <1>1, <1>3, SMT
    <2> DEFINE a == n * z
               b == (key \div z) * z
    <2> HIDE DEF a, b
    <2>5. a \in Int /\ b \in Int /\ a <= b /\ b <= key /\ key < a
        BY <2>1, <2>2, <2>3, <2>4 DEF a, b
    <2> QED
        BY <1>1, <2>5, SMT
<1>5. ASSUME NEW k \in 0 .. n - 1
      PROVE  (key \div z = k) <=> (Low(o, k) <= key /\ key < High(o, k))
    <2>1. k \in Nat /\ ((key \div z = k) <=> (k * z <= key /\ key < (k + 1) * z))
        <3>1. k \in Nat
            BY <1>1, SMT
        <3> QED
            BY <1>1, <3>1, QuotientIs
    <2>2. Low(o, k) = k * z
        BY DEF Low, z
    <2>3. CASE k < n - 1
        BY <2>1, <2>2, <2>3 DEF High, z, n
    <2>4. CASE ~(k < n - 1)
        <3>1. k = n - 1 /\ k + 1 = n
            BY <1>1, <2>4, SMT
        <3>2. High(o, k) = o.num + 1
            BY <2>4 DEF High, n
        <3>3. key < (k + 1) * z
            BY <3>1 DEF z, n
        <3> QED
            BY <1>1, <2>1, <2>2, <3>2, <3>3
    <2> QED
        BY <2>3, <2>4
<1> QED
    BY <1>2, <1>4, <1>5 DEF RangeIndex, z, n

\* What Spanned says of the keys.
LEMMA KeySpanned ==
    ASSUME TypeOK, KeyInv, Spanned, NeverNegative, NEW t \in Thread, pc[t] \in Counting
    PROVE  /\ query[t].text \in 0 .. Opt.num - 1
           /\ ConvertKeyToInt(query[t].text) = query[t].text
           /\ query[t].text < RangeNum(Opt) * RangeSize(Opt)
<1> DEFINE key == query[t].text
           z == RangeSize(Opt)
           n == RangeNum(Opt)
<1>1. /\ Opt \in Options /\ Sound(Opt) /\ z \in Nat \ {0} /\ n \in Nat \ {0}
      /\ Opt.num \in Nat \ {0} /\ Opt.monitor \in Nat
    BY JobType, OptionType, RangeType DEF TypeOK
<1>2. key \in 0 .. Opt.num - 1
    <2>1. CASE KeyrangeNum = 0
        BY <2>1 DEF KeyInv
    <2>2. CASE KeyrangeNum # 0
        BY <2>2, LengthType, InsideKey, SMT DEF NeverNegative
    <2> QED
        BY <2>1, <2>2
<1>3. ConvertKeyToInt(key) = key
    BY <1>2, KeyText, QueryFields, TextType
<1>4. CASE Opt.monitor = 0
    <2>1. z = DefaultRangeSize /\ n = (Opt.num - 1) \div DefaultRangeSize + 1
        BY <1>4, SMT DEF RangeSize, RangeNum
    <2> HIDE DEF z, n
    <2>2. Opt.num - 1 \in Nat /\ (Opt.num - 1) \div z \in Nat
        <3>1. Opt.num - 1 \in Nat
            BY <1>1, SMT
        <3> QED
            BY <1>1, <3>1, Quotient
    <2>3. Opt.num - 1 < n * z
        BY <1>1, <2>1, <2>2, QuotientIs
    <2>4. n * z \in Int
        BY <1>1, SMT
    <2>5. key < n * z
        BY <1>1, <1>2, <2>3, <2>4, SMT
    <2> QED
        BY <1>2, <1>3, <2>5 DEF z, n
<1>5. CASE Opt.monitor # 0
    <2>1. n = Opt.monitor /\ z = Opt.num \div Opt.monitor
        BY <1>1, <1>5, SMT DEF RangeSize, RangeNum
    <2> HIDE DEF z, n
    <2>2. CASE Opt.num % Opt.monitor = 0
        <3>1. Opt.num = z * n + 0
            BY <1>1, <2>1, <2>2, Quotient
        <3>2. n * z = z * n /\ z * n \in Int
            BY <1>1, SMT
        <3>3. key < n * z
            BY <1>1, <1>2, <3>1, <3>2, SMT
        <3> QED
            BY <1>2, <1>3, <3>3 DEF z, n
    <2>3. CASE Opt.access # <<>> /\ Opt.monitor = KeyrangeNum
        <3>1. KeyrangeNum > 0 /\ Opt.flat
            BY <2>3, LengthType, SMT DEF NeverNegative
        <3>2. key < KeyrangeSize(Opt) * KeyrangeNum
            BY <3>1, InsideKey
        <3>3. KeyrangeSize(Opt) = z /\ KeyrangeNum = n /\ z * n = n * z
            BY <1>1, <2>1, <2>3, SMT DEF KeyrangeSize, KeyrangeNum
        <3>4. key < n * z
            BY <3>2, <3>3
        <3> QED
            BY <1>2, <1>3, <3>4 DEF z, n
    <2> QED
        BY <1>5, <2>2, <2>3 DEF Spanned
<1> QED
    BY <1>4, <1>5

LEMMA NobodyIsNoThread == Nobody \notin Thread
    BY FbBenchAssumption, SMT DEF Nobody, Thread

\* Thread t takes a step outside lock and unlock.
LEMMA Outside ==
    ASSUME TypeOK, NEW t \in Thread,
           \/ MixGraph(t) \/ MixGraphPrefix(t) \/ ReadRandom(t) \/ MixRandom(t)
           \/ Search(t) \/ ChooseKey(t) \/ DoPut(t) \/ DoGet(t) \/ DoSeek(t) \/ Finish(t)
    PROVE  /\ UNCHANGED <<job, main, mi, mtx, counter, reg, done>>
           /\ pc'[t] \notin Held /\ pc[t] # "unborn" /\ pc[t] # "unlock"
           /\ iter'[t] \in Nat /\ iter'[t] >= iter[t]
           /\ pc[t] = "call" => iter'[t] # iter[t]
           /\ \A u \in Thread \ {t} : pc'[u] = pc[u] /\ iter'[u] = iter[u]
<1>1. CASE \E n, q, next : Ask(t, n, q, next) /\ next \in {"search", "lock"}
    <2>1. /\ UNCHANGED <<job, main, mi, mtx, counter, reg, done, iter>> /\ pc[t] = "loop"
          /\ \E next \in {"search", "lock"} : pc' = [pc EXCEPT ![t] = next]
        BY <1>1 DEF Ask
    <2> QED
        BY <2>1 DEF TypeOK, Held
<1>2. CASE pc[t] = "search" /\ \E q, next : Think(t, q, next) /\ next \in {"search", "lock"}
    <2>1. /\ UNCHANGED <<job, main, mi, mtx, counter, reg, done, iter>> /\ pc[t] = "search"
          /\ \E next \in {"search", "lock"} : pc' = [pc EXCEPT ![t] = next]
        BY <1>2 DEF Think
    <2> QED
        BY <2>1 DEF TypeOK, Held
<1>3. CASE \E ok \in BOOLEAN : Book(t, ok)
    <2>1. /\ UNCHANGED <<job, main, mi, mtx, counter, reg, done>> /\ pc[t] = "call"
          /\ pc' = [pc EXCEPT ![t] = "loop"] /\ iter' = [iter EXCEPT ![t] = @ + 1]
        BY <1>3 DEF Book, benchVars
    <2>2. iter[t] \in Nat /\ iter'[t] = iter[t] + 1
        BY <2>1 DEF TypeOK
    <2> QED
        BY <2>1, <2>2, SMT DEF TypeOK, Held
<1>4. CASE Finish(t)
    <2>1. /\ UNCHANGED <<job, main, mi, mtx, counter, reg, done, iter>> /\ pc[t] = "loop"
          /\ pc' = [pc EXCEPT ![t] = "finished"]
        BY <1>4 DEF Finish, benchVars
    <2> QED
        BY <2>1 DEF TypeOK, Held
<1>5. CASE MixGraph(t) \/ MixGraphPrefix(t) \/ ReadRandom(t) \/ MixRandom(t)
    BY <1>1, <1>5 DEF MixGraph, MixGraphPrefix, ReadRandom, MixRandom
<1>6. CASE Search(t) \/ ChooseKey(t)
    BY <1>2, <1>6 DEF Search, ChooseKey
<1>7. CASE DoPut(t) \/ DoGet(t) \/ DoSeek(t)
    BY <1>3, <1>7, CallsBook
<1> QED
    BY <1>4, <1>5, <1>6, <1>7

\* Two threads that share a Benchmark are not both between lock and unlock.
LEMMA Exclusion ==
    ASSUME MutexInv, NEW t \in Thread, NEW u \in Thread,
           pc[t] \in Held, pc[u] \in Held, Own(t) = Own(u)
    PROVE  t = u
    BY DEF MutexInv

LEMMA MutexStep == TypeOK /\ MutexInv /\ [Next]_vars => MutexInv'
<1> SUFFICES ASSUME TypeOK, MutexInv, [Next]_vars PROVE MutexInv'
    OBVIOUS
<1>0. \A u \in Thread : Own(u)' = Own(u) /\ Own(u) \in Thread
    BY JobStays, TypesStay, OwnType
<1>1. CASE MainStep \/ UNCHANGED vars
    <2>1. UNCHANGED <<mtx, reg, counter>>
        BY <1>1 DEF MainStep, Spawn, Join, Report, StatusReport, benchVars, vars
    <2>2. pc' = pc \/ (pc' = [pc EXCEPT ![mi] = "loop"])
        BY <1>1 DEF MainStep, Spawn, Join, Report, StatusReport, vars
    <2>3. \A u \in Thread : pc'[u] = pc[u] \/ pc'[u] = "loop"
        BY <2>2 DEF TypeOK
    <2> QED
        BY <1>0, <2>1, <2>3 DEF MutexInv, Held
<1>2. ASSUME NEW t \in Thread, ThreadStep(t),
             ~(Lock(t) \/ ReadCounters(t) \/ WriteCounters(t) \/ Unlock(t))
      PROVE  MutexInv'
    <2>1. /\ UNCHANGED <<mtx, reg, counter>> /\ pc'[t] \notin Held
          /\ \A u \in Thread \ {t} : pc'[u] = pc[u]
        BY <1>2, Outside DEF ThreadStep
    <2> QED
        BY <1>0, <2>1 DEF MutexInv, Held
<1>3. ASSUME NEW t \in Thread, Lock(t) PROVE MutexInv'
    <2>1. /\ mtx[Own(t)] = Nobody /\ mtx' = [mtx EXCEPT ![Own(t)] = t]
          /\ pc' = [pc EXCEPT ![t] = "read"] /\ UNCHANGED <<reg, counter>>
        BY <1>3 DEF Lock
    <2>2. \A u \in Thread \ {t} : pc'[u] = pc[u] /\ (pc[u] \in Held => Own(u) # Own(t))
        BY <2>1, NobodyIsNoThread DEF MutexInv, TypeOK
    <2>3. mtx'[Own(t)] = t /\ \A o \in Thread : o # Own(t) => mtx'[o] = mtx[o]
        BY <1>0, <2>1 DEF TypeOK
    <2>4. pc'[t] = "read"
        BY <2>1 DEF TypeOK
    <2> QED
        BY <1>0, <2>1, <2>2, <2>3, <2>4 DEF MutexInv, Held
<1>4. ASSUME NEW t \in Thread, ReadCounters(t) PROVE MutexInv'
    <2>1. /\ pc[t] = "read" /\ pc' = [pc EXCEPT ![t] = "write"]
          /\ reg' = [reg EXCEPT ![t] = counter[Own(t)]] /\ UNCHANGED <<mtx, counter>>
        BY <1>4 DEF ReadCounters
    <2>2. /\ pc'[t] = "write" /\ reg'[t] = counter[Own(t)]
          /\ \A u \in Thread \ {t} : pc'[u] = pc[u] /\ reg'[u] = reg[u]
        BY <2>1 DEF TypeOK
    <2> QED
        BY <1>0, <2>1, <2>2 DEF MutexInv, Held
<1>5. ASSUME NEW t \in Thread, WriteCounters(t) PROVE MutexInv'
    <2>1. /\ pc[t] = "write" /\ pc' = [pc EXCEPT ![t] = "unlock"] /\ UNCHANGED <<mtx, reg>>
          /\ \E c : counter' = [counter EXCEPT ![Own(t)] = c]
        BY <1>5 DEF WriteCounters
    <2>2. /\ pc'[t] = "unlock"
          /\ \A u \in Thread \ {t} : pc'[u] = pc[u]
          /\ \A o \in Thread : o # Own(t) => counter'[o] = counter[o]
        BY <2>1 DEF TypeOK
    <2>3. \A u \in Thread \ {t} : pc[u] = "write" => Own(u) # Own(t)
        BY <2>1, Exclusion DEF Held
    <2> QED
        BY <1>0, <2>1, <2>2, <2>3 DEF MutexInv, Held
<1>6. ASSUME NEW t \in Thread, Unlock(t) PROVE MutexInv'
    <2>1. /\ pc[t] = "unlock" /\ mtx' = [mtx EXCEPT ![Own(t)] = Nobody] /\ UNCHANGED <<reg, counter>>
          /\ \E next \in {"loop", "call"} : pc' = [pc EXCEPT ![t] = next]
        BY <1>6 DEF Unlock
    <2>2. /\ pc'[t] \notin Held
          /\ \A u \in Thread \ {t} : pc'[u] = pc[u]
          /\ \A o \in Thread : o # Own(t) => mtx'[o] = mtx[o]
        BY <2>1 DEF TypeOK, Held
    <2>3. \A u \in Thread \ {t} : pc[u] \in Held => Own(u) # Own(t)
        BY <2>1, Exclusion DEF Held
    <2> QED
        BY <1>0, <2>1, <2>2, <2>3 DEF MutexInv, Held
<1> QED
    BY <1>1, <1>2, <1>3, <1>4, <1>5, <1>6 DEF Next, Terminated

LEMMA InitHistory == Init => MutexInv /\ HistoryInv
<1> SUFFICES ASSUME Init PROVE MutexInv /\ HistoryInv
    OBVIOUS
<1>1. \A t \in Thread : pc[t] = "unborn" /\ done[t] = {}
    BY DEF Init, PerThread
<1> QED
    BY <1>1, FS_EmptySet DEF MutexInv, HistoryInv, Held

LEMMA PastType ==
    ASSUME TypeOK, NEW o \in Thread, NEW d \in done[o]
    PROVE  d \in Recording /\ d.by \in Thread /\ d.n \in Nat /\ d.type \in Kind
<1>1. d \in Recording
    BY DEF TypeOK
<1> QED
    BY <1>1 DEF Recording

\* One thread moves: what it has counted in this iteration it keeps in "unlock"
\* and "call" only, and no other thread's past changes.
LEMMA PastStays ==
    ASSUME TypeOK, HistoryInv, [Next]_vars, NEW t \in Thread, UNCHANGED <<main, mi, done>>,
           iter'[t] \in Nat, iter'[t] >= iter[t], pc[t] # "unborn",
           pc[t] \in {"unlock", "call"} => iter'[t] # iter[t] \/ pc'[t] \in {"unlock", "call"},
           \A u \in Thread \ {t} : pc'[u] = pc[u] /\ iter'[u] = iter[u]
    PROVE  HistoryInv'
<1>1. main' = "spawn" => \A u \in Thread : u >= mi' => pc'[u] = "unborn"
    BY DEF HistoryInv
<1>2. ASSUME NEW o \in Thread, NEW d \in done[o]
      PROVE  /\ d.n <= iter'[d.by]
             /\ d.n = iter'[d.by] => pc'[d.by] \in {"unlock", "call"}
    <2>1. d.by \in Thread /\ d.n \in Nat /\ iter[t] \in Nat
        BY <1>2, PastType DEF TypeOK
    <2>2. d.n <= iter[d.by] /\ (d.n = iter[d.by] => pc[d.by] \in {"unlock", "call"})
        BY <1>2 DEF HistoryInv
    <2>3. CASE d.by # t
        BY <2>1, <2>2, <2>3
    <2>4. CASE d.by = t
        <3>1. d.n <= iter[t] /\ (d.n = iter[t] => pc[t] \in {"unlock", "call"})
            BY <2>2, <2>4
        <3>2. d.n <= iter'[t]
            BY <2>1, <3>1, SMT
        <3>3. d.n = iter'[t] => d.n = iter[t] /\ iter'[t] = iter[t]
            BY <2>1, <3>1, SMT
        <3> QED
            BY <2>4, <3>1, <3>2, <3>3
    <2> QED
        BY <2>3, <2>4
<1>3. \A u \in Thread : Own(u)' = Own(u)
    BY JobStays, TypesStay
<1>4. ASSUME NEW o \in Thread, NEW d \in done[o] PROVE d.by \in Thread /\ Own(d.by) = o
    BY <1>4, PastType DEF HistoryInv
<1>5. \A o \in Thread : IsFiniteSet(done[o])
    BY DEF HistoryInv
<1> QED
    BY <1>1, <1>2, <1>3, <1>4, <1>5 DEF HistoryInv

LEMMA HistoryStep == TypeOK /\ HistoryInv /\ [Next]_vars => HistoryInv'
<1> SUFFICES ASSUME TypeOK, HistoryInv, [Next]_vars PROVE HistoryInv'
    OBVIOUS
<1>0. \A u \in Thread : Own(u)' = Own(u) /\ Own(u) \in Thread /\ iter[u] \in Nat
    BY JobStays, TypesStay, OwnType DEF TypeOK
<1>1. CASE Join \/ Report \/ StatusReport \/ UNCHANGED vars
    <2>1. UNCHANGED <<job, pc, iter, done>> /\ (main' = "spawn" => main = "spawn" /\ mi' = mi)
        BY <1>1 DEF Join, Report, StatusReport, Advance, benchVars, vars
    <2>2. UNCHANGED Own(0)
        BY <2>1, TypesStay, FbBenchAssumption, SMT DEF Thread
    <2> QED
        BY <1>0, <2>1 DEF HistoryInv, Own
<1>2. CASE Spawn
    <2>1. /\ UNCHANGED <<job, iter, done>> /\ pc' = [pc EXCEPT ![mi] = "loop"]
          /\ main = "spawn" /\ (main' = "spawn" => mi' = mi + 1)
        BY <1>2 DEF Spawn, Advance, benchVars
    <2>2. mi \in Thread /\ mi \in Nat /\ \A u \in Thread : u \in Nat
        BY LoopThread, SMT DEF Thread
    <2>3. \A u \in Thread \ {mi} : pc'[u] = pc[u]
        BY <2>1 DEF TypeOK
    <2>4. pc[mi] = "unborn"
        BY <2>1, <2>2, SMT DEF HistoryInv
    <2>5. main' = "spawn" => \A u \in Thread : u >= mi' => pc'[u] = "unborn"
        <3> SUFFICES ASSUME main' = "spawn", NEW u \in Thread, u >= mi' PROVE pc'[u] = "unborn"
            OBVIOUS
        <3>1. u >= mi /\ u # mi
            BY <2>1, <2>2, SMT
        <3> QED
            BY <2>1, <2>3, <3>1 DEF HistoryInv
    <2>6. ASSUME NEW o \in Thread, NEW d \in done[o]
          PROVE  d.n = iter[d.by] => pc'[d.by] \in {"unlock", "call"}
        <3>1. d.by \in Thread /\ (d.n = iter[d.by] => pc[d.by] \in {"unlock", "call"})
            BY <2>6, PastType DEF HistoryInv
        <3> QED
            BY <2>3, <2>4, <3>1
    <2>7. ASSUME NEW o \in Thread, NEW d \in done[o]
          PROVE  Own(d.by)' = o /\ d.n <= iter[d.by]
        BY <1>0, <2>7, PastType DEF HistoryInv
    <2>8. \A o \in Thread : IsFiniteSet(done[o])
        BY DEF HistoryInv
    <2> QED
        BY <2>1, <2>5, <2>6, <2>7, <2>8 DEF HistoryInv
<1>3. ASSUME NEW t \in Thread, ThreadStep(t),
             ~(Lock(t) \/ ReadCounters(t) \/ WriteCounters(t) \/ Unlock(t))
      PROVE  HistoryInv'
    BY <1>3, Outside, PastStays DEF ThreadStep
<1>4. ASSUME NEW t \in Thread, Lock(t) \/ ReadCounters(t) PROVE HistoryInv'
    <2>1. /\ UNCHANGED <<main, mi, iter, done>> /\ pc[t] \in {"lock", "read"}
          /\ \E next \in {"read", "write"} : pc' = [pc EXCEPT ![t] = next]
        BY <1>4 DEF Lock, ReadCounters
    <2>2. \A u \in Thread \ {t} : pc'[u] = pc[u] /\ iter'[u] = iter[u]
        BY <2>1 DEF TypeOK
    <2> QED
        BY <1>0, <2>1, <2>2, PastStays
<1>5. ASSUME NEW t \in Thread, Unlock(t) PROVE HistoryInv'
    <2>1. /\ UNCHANGED <<main, mi, done>> /\ pc[t] = "unlock"
          /\ \/ pc' = [pc EXCEPT ![t] = "loop"] /\ iter' = [iter EXCEPT ![t] = @ + 1]
             \/ pc' = [pc EXCEPT ![t] = "call"] /\ iter' = iter
        BY <1>5 DEF Unlock
    <2>2. /\ iter'[t] = iter[t] + 1 \/ (iter'[t] = iter[t] /\ pc'[t] = "call")
          /\ \A u \in Thread \ {t} : pc'[u] = pc[u] /\ iter'[u] = iter[u]
        BY <2>1 DEF TypeOK
    <2>3. iter'[t] \in Nat /\ iter'[t] >= iter[t] /\ (iter'[t] # iter[t] \/ pc'[t] = "call")
        BY <1>0, <2>2, SMT
    <2> QED
        BY <2>1, <2>2, <2>3, PastStays
<1>6. ASSUME NEW t \in Thread, WriteCounters(t) PROVE HistoryInv'
    <2>0. PICK d : d = [by |-> t, n |-> iter[t], type |-> query[t].type,
                        key |-> ConvertKeyToInt(query[t].text)]
        OBVIOUS
    <2>1. /\ UNCHANGED <<main, mi, iter>> /\ pc[t] = "write" /\ pc' = [pc EXCEPT ![t] = "unlock"]
          /\ done' = [done EXCEPT ![Own(t)] = @ \cup {d}]
        BY <1>6, <2>0 DEF WriteCounters
    <2>2. d.by = t /\ d.n = iter[t] /\ iter[t] <= iter[t]
        BY <1>0, <2>0, SMT
    <2>3. pc'[t] = "unlock" /\ \A u \in Thread \ {t} : pc'[u] = pc[u]
        BY <2>1 DEF TypeOK
    <2>4. \A o \in Thread : done'[o] = IF o = Own(t) THEN done[o] \cup {d} ELSE done[o]
        BY <1>0, <2>1 DEF TypeOK
    <2>5. main' = "spawn" => \A u \in Thread : u >= mi' => pc'[u] = "unborn"
        BY <2>1, <2>3 DEF HistoryInv
    <2>6. \A o \in Thread : IsFiniteSet(done'[o])
        <3>1. \A o \in Thread : IsFiniteSet(done[o]) /\ IsFiniteSet(done[o] \cup {d})
            BY FS_AddElement DEF HistoryInv
        <3> QED
            BY <2>4, <3>1
    <2>7. ASSUME NEW o \in Thread, NEW e \in done[o]
          PROVE  /\ Own(e.by)' = o /\ e.n <= iter'[e.by]
                 /\ e.n = iter'[e.by] => pc'[e.by] \in {"unlock", "call"}
        <3>1. e.by \in Thread
            BY <2>7 DEF TypeOK, Recording
        <3>2. Own(e.by) = o /\ e.n <= iter[e.by] /\ (e.n = iter[e.by] => pc[e.by] \in {"unlock", "call"})
            BY <2>7 DEF HistoryInv
        <3> QED
            BY <1>0, <2>1, <2>3, <3>1, <3>2
    <2>8. Own(d.by)' = Own(t) /\ d.n <= iter'[d.by] /\ pc'[d.by] = "unlock"
        BY <1>0, <2>1, <2>2, <2>3
    <2>9. ASSUME NEW o \in Thread, NEW e \in done'[o]
          PROVE  /\ Own(e.by)' = o /\ e.n <= iter'[e.by]
                 /\ e.n = iter'[e.by] => pc'[e.by] \in {"unlock", "call"}
        <3>1. e \in done[o] \/ (e = d /\ o = Own(t))
            BY <2>4, <2>9
        <3> QED
            BY <2>7, <2>8, <3>1
    <2> QED
        BY <2>5, <2>6, <2>9 DEF HistoryInv
<1> QED
    BY <1>1, <1>2, <1>3, <1>4, <1>5, <1>6 DEF Next, MainStep, Terminated

\* A subset of a set that d is not in grows by one when d joins it.
LEMMA Grown ==
    ASSUME NEW S, IsFiniteSet(S), NEW T \in SUBSET S, NEW d, d \notin S
    PROVE  /\ Cardinality(T) \in Nat
           /\ Cardinality(T \cup {d}) = Cardinality(T) + 1
<1>1. IsFiniteSet(T) /\ d \notin T
    BY FS_Subset
<1> QED
    BY <1>1, FS_AddElement, FS_CardinalityType

\* The counters of a Benchmark that is not written to.
LEMMA ExactStays ==
    ASSUME UNCHANGED job, NEW o \in Thread, Exact(o), counter'[o] = counter[o], done'[o] = done[o]
    PROVE  Exact(o)'
<1>1. Opt' = Opt /\ KeyrangeNum' = KeyrangeNum
    BY TypesStay
<1>2. \A k : OfKind(o, k)' = OfKind(o, k)
    BY DEF OfKind
<1>3. \A i : RangeHolds(o, i)' = RangeHolds(o, i)
    BY <1>1 DEF RangeHolds, InRange
<1>4. Spanned' = Spanned /\ NeverNegative' = NeverNegative /\ RangeIndex(Opt)' = RangeIndex(Opt)
    BY <1>1 DEF Spanned, NeverNegative, RangeIndex, RangeNum
<1> QED
    BY <1>2, <1>3, <1>4 DEF Exact

\* WriteCounters: as long as no thread comes between, what is written is what
\* was there and one query more.
LEMMA WriteExact ==
    ASSUME TypeOK, KeyInv, MutexInv, HistoryInv, CountersExact, [Next]_vars,
           NEW t \in Thread, WriteCounters(t)
    PROVE  CountersExact'
<1>0. PICK o, kind, key :
        o = Own(t) /\ kind = query[t].type /\ key = ConvertKeyToInt(query[t].text)
    OBVIOUS
<1>1. PICK d : d = [by |-> t, n |-> iter[t], type |-> kind, key |-> key]
    OBVIOUS
<1>2. d.by = t /\ d.n = iter[t] /\ d.type = kind /\ d.key = key
    BY <1>1
<1>3. /\ o \in Thread /\ kind \in Kind /\ pc[t] = "write"
      /\ counter' = [counter EXCEPT ![o] = Recorded(Opt, counter[o], kind, key)]
      /\ done' = [done EXCEPT ![o] = @ \cup {d}]
    BY <1>0, <1>1, OwnType, QueryFields DEF WriteCounters, MutexInv
<1>4. Opt' = Opt /\ UNCHANGED job
    BY JobStays DEF Opt
<1>5. \A p \in Thread : p # o => counter'[p] = counter[p] /\ done'[p] = done[p]
    BY <1>3 DEF TypeOK
<1>6. counter'[o] = Recorded(Opt, counter[o], kind, key) /\ done'[o] = done[o] \cup {d}
    BY <1>3 DEF TypeOK
<1>7. d \notin done[o] /\ IsFiniteSet(done[o])
    <2>1. d \in done[o] => pc[d.by] \in {"unlock", "call"}
        BY <1>2, <1>3, PastType DEF HistoryInv
    <2> QED
        BY <1>2, <1>3, <2>1 DEF HistoryInv
<1>8. Exact(o)
    BY <1>3 DEF CountersExact
<1>9. counter[o] \in Counters(Opt)
    BY <1>3 DEF TypeOK
<1>10. counter'[o].total = Cardinality(done'[o])
    <2>1. counter'[o].total = counter[o].total + 1
        BY <1>6 DEF Recorded
    <2>2. done[o] \in SUBSET done[o]
        OBVIOUS
    <2>3. Cardinality(done[o] \cup {d}) = Cardinality(done[o]) + 1
        BY <1>7, <2>2, Grown
    <2> QED
        BY <1>6, <1>8, <2>1, <2>3 DEF Exact
<1>11. ASSUME NEW k \in Kind
       PROVE  counter'[o].times[k] = Cardinality(OfKind(o, k)')
    <2>1. counter[o].times[k] = Cardinality(OfKind(o, k)) /\ OfKind(o, k) \in SUBSET done[o]
        BY <1>8 DEF Exact, OfKind
    <2>2. counter'[o].times = [counter[o].times EXCEPT ![kind] = @ + 1]
        BY <1>6 DEF Recorded
    <2>3. counter[o].times \in [Kind -> Nat]
        BY <1>9 DEF Counters
    <2>4. CASE k = kind
        <3>1. OfKind(o, k)' = OfKind(o, k) \cup {d}
            BY <1>2, <1>6, <2>4 DEF OfKind
        <3>2. counter'[o].times[k] = counter[o].times[k] + 1
            BY <1>3, <2>2, <2>3, <2>4
        <3> QED
            BY <1>7, <2>1, <3>1, <3>2, Grown
    <2>5. CASE k # kind
        <3>1. OfKind(o, k)' = OfKind(o, k)
            BY <1>2, <1>6, <2>5 DEF OfKind
        <3>2. counter'[o].times[k] = counter[o].times[k]
            BY <2>2, <2>3, <2>5
        <3> QED
            BY <2>1, <3>1, <3>2
    <2> QED
        BY <2>4, <2>5
<1>12. ASSUME Spanned, NeverNegative, NEW i \in RangeIndex(Opt)
       PROVE  RangeHolds(o, i)'
    <2> DEFINE idx == CQuotient(key, RangeSize(Opt))
               c == counter[o].ranges[i]
               e == counter'[o].ranges[i]
    <2>1. /\ idx \in RangeIndex(Opt)
          /\ (idx = i) <=> (Low(Opt, i) <= key /\ key < High(Opt, i))
        <3>1. /\ query[t].text \in 0 .. Opt.num - 1 /\ key = query[t].text
              /\ query[t].text < RangeNum(Opt) * RangeSize(Opt)
            BY <1>0, <1>3, <1>12, KeySpanned DEF Counting
        <3>2. Opt \in Options /\ Sound(Opt)
            BY JobType DEF TypeOK
        <3> QED
            BY <1>12, <3>1, <3>2, RangeOfKey
    <2> HIDE DEF idx
    <2>2. RangeHolds(o, i)
        BY <1>8, <1>12 DEF Exact
    <2>3. counter[o].ranges \in [RangeIndex(Opt) -> RangeCounter]
        BY <1>9 DEF Counters
    <2>4. counter'[o].ranges = [counter[o].ranges EXCEPT ![idx] =
                                    [access |-> @.access + 1,
                                     read |-> @.read + Bit(kind = "Get"),
                                     write |-> @.write + Bit(kind = "Put")]]
        BY <1>6, <2>1 DEF Recorded, idx
    <2>5. CASE idx # i
        <3>1. e = c
            BY <1>12, <2>3, <2>4, <2>5
        <3>2. InRange(o, i)' = InRange(o, i)
            BY <1>2, <1>4, <1>6, <2>1, <2>5 DEF InRange
        <3> QED
            BY <2>2, <3>1, <3>2 DEF RangeHolds
    <2>6. CASE idx = i
        <3> DEFINE A == InRange(o, i)
                   R == {x \in A : x.type = "Get"}
                   W == {x \in A : x.type = "Put"}
        <3>1. A \in SUBSET done[o] /\ R \in SUBSET done[o] /\ W \in SUBSET done[o]
            BY DEF InRange
        <3>2. InRange(o, i)' = A \cup {d}
            BY <1>2, <1>4, <1>6, <2>1, <2>6 DEF InRange
        <3>3. /\ e.access = c.access + 1 /\ e.read = c.read + Bit(kind = "Get")
              /\ e.write = c.write + Bit(kind = "Put")
            BY <1>12, <2>3, <2>4, <2>6
        <3>4. c.access = Cardinality(A) /\ c.read = Cardinality(R) /\ c.write = Cardinality(W)
            BY <2>2 DEF RangeHolds
        <3> HIDE DEF A
        <3>5. {x \in A \cup {d} : x.type = "Get"} = IF kind = "Get" THEN R \cup {d} ELSE R
            BY <1>2
        <3>6. {x \in A \cup {d} : x.type = "Put"} = IF kind = "Put" THEN W \cup {d} ELSE W
            BY <1>2
        <3> HIDE DEF R, W, e, c
        <3>7. Cardinality(A \cup {d}) = e.access
            BY <1>7, <3>1, <3>3, <3>4, Grown
        <3>8. Cardinality({x \in A \cup {d} : x.type = "Get"}) = e.read
            <4>1. Cardinality(R) \in Nat /\ Cardinality(R \cup {d}) = Cardinality(R) + 1
                BY <1>7, <3>1, Grown
            <4>2. c.read \in Nat /\ e.read = IF kind = "Get" THEN c.read + 1 ELSE c.read
                <5>1. Bit(kind = "Get") = IF kind = "Get" THEN 1 ELSE 0
                    BY DEF Bit
                <5>2. kind = "Get" => e.read = c.read + 1
                    BY <3>3, <5>1
                <5>3. kind # "Get" => e.read = c.read + 0
                    BY <3>3, <5>1
                <5> QED
                    BY <3>4, <4>1, <5>2, <5>3, SMT
            <4> QED
                BY <3>4, <3>5, <4>1, <4>2
        <3>9. Cardinality({x \in A \cup {d} : x.type = "Put"}) = e.write
            <4>1. Cardinality(W) \in Nat /\ Cardinality(W \cup {d}) = Cardinality(W) + 1
                BY <1>7, <3>1, Grown
            <4>2. c.write \in Nat /\ e.write = IF kind = "Put" THEN c.write + 1 ELSE c.write
                <5>1. Bit(kind = "Put") = IF kind = "Put" THEN 1 ELSE 0
                    BY DEF Bit
                <5>2. kind = "Put" => e.write = c.write + 1
                    BY <3>3, <5>1
                <5>3. kind # "Put" => e.write = c.write + 0
                    BY <3>3, <5>1
                <5> QED
                    BY <3>4, <4>1, <5>2, <5>3, SMT
            <4> QED
                BY <3>4, <3>6, <4>1, <4>2
        <3> QED
            BY <3>2, <3>7, <3>8, <3>9 DEF RangeHolds, e
    <2> QED
        BY <2>5, <2>6
<1>13. Spanned' = Spanned /\ NeverNegative' = NeverNegative /\ RangeIndex(Opt)' = RangeIndex(Opt)
    BY <1>4 DEF Spanned, NeverNegative, RangeIndex, RangeNum, KeyrangeNum
<1> QED
    <2> SUFFICES ASSUME NEW p \in Thread PROVE Exact(p)'
        BY DEF CountersExact
    <2>1. Exact(p)
        BY DEF CountersExact
    <2>2. CASE p # o
        BY <1>4, <1>5, <2>1, <2>2, ExactStays
    <2>3. CASE p = o
        BY <1>10, <1>11, <1>12, <1>13, <2>3 DEF Exact
    <2> QED
        BY <2>2, <2>3

\* AddOpRecord counts every query once, whatever threads share a Benchmark: the
\* mutex keeps all others away between the reading and the writing.
THEOREM CountersHold == Spec => []CountersExact
<1>1. Init => CountersExact
    <2> SUFFICES ASSUME Init, NEW o \in Thread PROVE Exact(o)
        BY DEF CountersExact
    <2>1. done[o] = {} /\ counter[o] = NewCounter(Opt)
        BY DEF Init, PerThread
    <2>2. Cardinality({}) = 0
        BY FS_EmptySet
    <2>3. \A k \in Kind : OfKind(o, k) = {} /\ counter[o].times[k] = 0
        BY <2>1 DEF OfKind, NewCounter
    <2>4. \A i \in RangeIndex(Opt) : RangeHolds(o, i)
        <3> TAKE i \in RangeIndex(Opt)
        <3>1. counter[o].ranges[i] = [access |-> 0, read |-> 0, write |-> 0]
            BY <2>1 DEF NewCounter
        <3>2. InRange(o, i) = {}
            BY <2>1 DEF InRange
        <3>3. {d \in {} : d.type = "Get"} = {} /\ {d \in {} : d.type = "Put"} = {}
            OBVIOUS
        <3> QED
            BY <2>2, <3>1, <3>2, <3>3 DEF RangeHolds
    <2>5. counter[o].total = 0
        BY <2>1 DEF NewCounter
    <2> QED
        BY <2>1, <2>2, <2>3, <2>4, <2>5 DEF Exact
<1>2. TypeOK /\ KeyInv /\ MutexInv /\ HistoryInv /\ CountersExact /\ [Next]_vars => CountersExact'
    <2> SUFFICES ASSUME TypeOK, KeyInv, MutexInv, HistoryInv, CountersExact, [Next]_vars
                 PROVE  CountersExact'
        OBVIOUS
    <2>1. ASSUME NEW t \in Thread, WriteCounters(t) PROVE CountersExact'
        BY <2>1, WriteExact
    <2>2. CASE UNCHANGED <<counter, done>>
        BY <2>2, JobStays, ExactStays DEF CountersExact
    <2>3. CASE MainStep \/ UNCHANGED vars
        BY <2>2, <2>3 DEF MainStep, Spawn, Join, Report, StatusReport, benchVars, vars
    <2>4. ASSUME NEW t \in Thread, ThreadStep(t), ~WriteCounters(t) PROVE CountersExact'
        <3>1. CASE Lock(t) \/ ReadCounters(t) \/ Unlock(t)
            BY <2>2, <3>1 DEF Lock, ReadCounters, Unlock
        <3>2. CASE ~(Lock(t) \/ ReadCounters(t) \/ Unlock(t))
            BY <2>2, <2>4, <3>2, Outside DEF ThreadStep
        <3> QED
            BY <3>1, <3>2
    <2> QED
        BY <2>1, <2>3, <2>4 DEF Next, Terminated
<1>3. Spec => [](MutexInv /\ HistoryInv)
    BY InitHistory, MutexStep, HistoryStep, FbTypeCorrect, PTL DEF Spec
<1> QED
    BY <1>1, <1>2, <1>3, KeysHold, FbTypeCorrect, PTL DEF Spec
-----------------------------------------------------------------------------
(***************************************************************************)
(* The report: threads end when their quotas are made, and are waited for. *)
(***************************************************************************)
Busy == {"search", "lock", "read", "write", "unlock", "call"}

\* What a step of thread t does to program counters and iterations.
Moved(t) ==
    /\ \A u \in Thread \ {t} : pc'[u] = pc[u] /\ iter'[u] = iter[u]
    /\ \/ pc[t] = "loop" /\ iter[t] < Quota /\ pc'[t] \in Busy /\ iter'[t] = iter[t]
       \/ pc[t] = "loop" /\ iter[t] >= Quota /\ pc'[t] = "finished" /\ iter'[t] = iter[t]
       \/ pc[t] \in Busy /\ pc'[t] \in Busy /\ iter'[t] = iter[t]
       \/ pc[t] \in Busy /\ pc'[t] = "loop" /\ iter'[t] = iter[t] + 1

LEMMA ThreadMoves ==
    ASSUME TypeOK, NEW t \in Thread, ThreadStep(t)
    PROVE  UNCHANGED <<job, main, mi, result, lat>> /\ Moved(t)
<1>1. CASE MixGraph(t) \/ MixGraphPrefix(t) \/ ReadRandom(t) \/ MixRandom(t)
    <2>1. \E n, q : \E next \in {"search", "lock"} : Ask(t, n, q, next)
        BY <1>1 DEF MixGraph, MixGraphPrefix, ReadRandom, MixRandom
    <2>2. /\ UNCHANGED <<job, main, mi, result, lat, iter>> /\ pc[t] = "loop" /\ iter[t] < Quota
          /\ \E next \in {"search", "lock"} : pc' = [pc EXCEPT ![t] = next]
        BY <2>1 DEF Ask
    <2> QED
        BY <2>2 DEF TypeOK, Moved, Busy
<1>2. CASE Search(t) \/ ChooseKey(t)
    <2>1. /\ UNCHANGED <<job, main, mi, result, lat, iter>> /\ pc[t] = "search"
          /\ \E next \in {"search", "lock"} : pc' = [pc EXCEPT ![t] = next]
        BY <1>2 DEF Search, ChooseKey, Think
    <2> QED
        BY <2>1 DEF TypeOK, Moved, Busy
<1>3. CASE Lock(t) \/ ReadCounters(t) \/ WriteCounters(t)
    <2>1. /\ UNCHANGED <<job, main, mi, result, lat, iter>> /\ pc[t] \in {"lock", "read", "write"}
          /\ \E next \in {"read", "write", "unlock"} : pc' = [pc EXCEPT ![t] = next]
        BY <1>3 DEF Lock, ReadCounters, WriteCounters
    <2> QED
        BY <2>1 DEF TypeOK, Moved, Busy
<1>4. CASE Unlock(t)
    <2>1. /\ UNCHANGED <<job, main, mi, result, lat>> /\ pc[t] = "unlock"
          /\ \/ pc' = [pc EXCEPT ![t] = "loop"] /\ iter' = [iter EXCEPT ![t] = @ + 1]
             \/ pc' = [pc EXCEPT ![t] = "call"] /\ iter' = iter
        BY <1>4 DEF Unlock
    <2> QED
        BY <2>1 DEF TypeOK, Moved, Busy
<1>5. CASE DoPut(t) \/ DoGet(t) \/ DoSeek(t)
    <2>1. PICK ok \in BOOLEAN : Book(t, ok)
        BY <1>5, CallsBook
    <2>2. /\ UNCHANGED <<job, main, mi, result, lat>> /\ pc[t] = "call"
          /\ pc' = [pc EXCEPT ![t] = "loop"] /\ iter' = [iter EXCEPT ![t] = @ + 1]
        BY <2>1 DEF Book
    <2> QED
        BY <2>2 DEF TypeOK, Moved, Busy
<1>6. CASE Finish(t)
    <2>1. /\ UNCHANGED <<job, main, mi, result, lat, iter>> /\ pc[t] = "loop" /\ iter[t] >= Quota
          /\ pc' = [pc EXCEPT ![t] = "finished"]
        BY <1>6 DEF Finish
    <2> QED
        BY <2>1 DEF TypeOK, Moved
<1> QED
    BY <1>1, <1>2, <1>3, <1>4, <1>5, <1>6 DEF ThreadStep

\* Where a thread is tells how far it has come, and where the main thread is how
\* many have ended.
QuotaInv ==
    /\ \A t \in Thread :
        /\ t >= job.threads => pc[t] = "unborn"
        /\ pc[t] = "unborn" => iter[t] = 0
        /\ pc[t] \in Busy => iter[t] < Quota
        /\ pc[t] = "finished" => iter[t] >= Quota
        /\ iter[t] = 0 \/ iter[t] <= Quota
    /\ main = "join" => \A t \in Thread : t < mi => pc[t] = "finished"
    /\ main \in {"report", "exited"} =>
        \A t \in Thread : t < job.threads => pc[t] = "finished"

LEMMA QuotaStep == TypeOK /\ HistoryInv /\ QuotaInv /\ [Next]_vars => QuotaInv'
<1> SUFFICES ASSUME TypeOK, HistoryInv, QuotaInv, [Next]_vars PROVE QuotaInv'
    OBVIOUS
<1>0. /\ job' = job /\ Quota' = Quota /\ Quota \in Int /\ mi \in Thread /\ mi < job.threads
      /\ job.threads \in Nat /\ \A u \in Thread : u \in Nat /\ iter[u] \in Nat
    <2>1. job' = job
        BY JobStays
    <2>2. Quota \in Int /\ job.threads \in Nat
        BY QuotaType, JobType DEF TypeOK
    <2>3. \A u \in Thread : u \in Nat /\ iter[u] \in Nat
        BY FbBenchAssumption, SMT DEF TypeOK, Thread
    <2> QED
        BY <2>1, <2>2, <2>3, LoopThread DEF Quota, Count
<1>1. CASE Spawn
    <2>1. /\ main = "spawn" /\ main' \in {"spawn", "join"} /\ (main' = "join" => mi' = 0)
          /\ iter' = iter /\ pc' = [pc EXCEPT ![mi] = "loop"]
        BY <1>1 DEF Spawn, Advance
    <2>2. \A u \in Thread : pc'[u] = IF u = mi THEN "loop" ELSE pc[u]
        BY <2>1 DEF TypeOK
    <2>3. pc[mi] = "unborn"
        BY <1>0, <2>1, SMT DEF HistoryInv
    <2>4. \A u \in Thread : ~(u < 0) /\ (u >= job.threads => u # mi)
        BY <1>0, SMT
    <2> QED
        BY <1>0, <2>1, <2>2, <2>3, <2>4 DEF QuotaInv, Busy
<1>2. CASE Join
    <2>1. /\ UNCHANGED <<pc, iter>> /\ main = "join" /\ pc[mi] = "finished"
          /\ IF mi + 1 < job.threads THEN mi' = mi + 1 /\ main' = "join" ELSE main' = "report"
        BY <1>2 DEF Join, Advance
    <2>2. ASSUME NEW u \in Thread, u <= mi PROVE pc[u] = "finished"
        <3>1. u < mi \/ u = mi
            BY <1>0, <2>2, SMT
        <3> QED
            BY <2>1, <3>1 DEF QuotaInv
    <2>3. main' = "join" => \A u \in Thread : u < mi' => u <= mi
        BY <1>0, <2>1, SMT
    <2>4. main' # "join" => main' = "report" /\ \A u \in Thread : u < job.threads => u <= mi
        BY <1>0, <2>1, SMT
    <2>5. \A t \in Thread :
            /\ t >= job.threads => pc[t] = "unborn"
            /\ pc[t] = "unborn" => iter[t] = 0
            /\ pc[t] \in Busy => iter[t] < Quota
            /\ pc[t] = "finished" => iter[t] >= Quota
            /\ iter[t] = 0 \/ iter[t] <= Quota
        BY DEF QuotaInv
    <2> QED
        BY <1>0, <2>1, <2>2, <2>3, <2>4, <2>5 DEF QuotaInv
<1>3. CASE Report \/ StatusReport
    <2>1. UNCHANGED <<pc, iter>> /\ main = "report" /\ main' \in {"report", "exited"}
        BY <1>3 DEF Report, StatusReport, Advance, benchVars
    <2> QED
        BY <1>0, <2>1 DEF QuotaInv
<1>4. ASSUME NEW t \in Thread, ThreadStep(t) PROVE QuotaInv'
    <2>1. UNCHANGED <<main, mi>> /\ Moved(t)
        BY <1>4, ThreadMoves
    <2>2. pc[t] \notin {"unborn", "finished"} /\ pc'[t] # "unborn"
        BY <2>1 DEF Moved, Busy
    <2>3. /\ pc'[t] \in Busy => iter'[t] < Quota
          /\ pc'[t] = "finished" => iter'[t] >= Quota
          /\ iter'[t] = 0 \/ iter'[t] <= Quota
        <3>1. /\ pc[t] \in Busy => iter[t] < Quota
              /\ iter[t] = 0 \/ iter[t] <= Quota
            BY DEF QuotaInv
        <3>2. "loop" \notin Busy /\ "finished" \notin Busy
            BY DEF Busy
        <3>3. iter[t] < Quota => iter[t] + 1 <= Quota
            BY <1>0, SMT
        <3> QED
            BY <2>1, <3>1, <3>2, <3>3 DEF Moved
    <2>4. \A u \in Thread \ {t} : pc'[u] = pc[u] /\ iter'[u] = iter[u]
        BY <2>1 DEF Moved
    <2>5. t < job.threads
        BY <1>0, <2>2, SMT DEF QuotaInv
    <2>6. \A u \in Thread : (u >= job.threads => u # t)
        BY <1>0, <2>5, SMT
    <2> QED
        BY <1>0, <2>1, <2>2, <2>3, <2>4, <2>6 DEF QuotaInv
<1>5. CASE UNCHANGED vars
    BY <1>0, <1>5 DEF vars, QuotaInv
<1> QED
    BY <1>1, <1>2, <1>3, <1>4, <1>5 DEF Next, MainStep, Terminated

LEMMA InitQuota == Init => QuotaInv
<1> SUFFICES ASSUME Init PROVE QuotaInv
    OBVIOUS
<1>1. \A t \in Thread : pc[t] = "unborn" /\ iter[t] = 0
    BY DEF Init, PerThread
<1> QED
    BY <1>1 DEF Init, QuotaInv, Busy
-----------------------------------------------------------------------------
(***************************************************************************)
(* What a thread of the runner has counted and timed.                      *)
(***************************************************************************)
\* Thread t has the latencies of its queries of kind k, in the order it made them.
InOrder(t, k) ==
    /\ Len(vec[t][k]) = tally[t][k].count
    /\ \A i \in DOMAIN vec[t][k] : vec[t][k][i][1] = t /\ vec[t][k][i][2] < iter[t]
    /\ \A i, j \in DOMAIN vec[t][k] : i < j => vec[t][k][i][2] < vec[t][k][j][2]

BookInv ==
    job.prog = "runner" => \A t \in Thread :
        /\ Booked(t) = iter[t]
        /\ tally[t]["SeekForPrev"].success = 0
        /\ \A k \in Kind : InOrder(t, k)

LEMMA KindsOf ==
    ASSUME TypeOK, NEW t \in Thread, NEW k \in Kind
    PROVE  /\ tally[t][k] \in [count : Nat, success : Nat]
           /\ tally[t][k].count \in Nat /\ tally[t][k].success \in Nat
           /\ vec[t][k] \in Seq(Thread \X Nat) /\ Len(vec[t][k]) \in Nat
           /\ DOMAIN vec[t][k] = 1 .. Len(vec[t][k])
<1>1. tally[t] \in [Kind -> [count : Nat, success : Nat]] /\ vec[t] \in [Kind -> Seq(Thread \X Nat)]
    BY DEF TypeOK
<1>2. tally[t][k] \in [count : Nat, success : Nat] /\ vec[t][k] \in Seq(Thread \X Nat)
    BY <1>1
<1> QED
    BY <1>2

\* One query is counted, at one place.
LEMMA BookEffect ==
    ASSUME TypeOK, NEW t \in Thread, NEW ok \in BOOLEAN, Book(t, ok)
    PROVE  /\ pc[t] = "call" /\ query[t].type \in Kind
           /\ \A u \in Thread \ {t} : iter'[u] = iter[u] /\ tally'[u] = tally[u] /\ vec'[u] = vec[u]
           /\ \A k \in Kind \ {query[t].type} : tally'[t][k] = tally[t][k] /\ vec'[t][k] = vec[t][k]
           /\ iter'[t] = iter[t] + 1
           /\ tally'[t][query[t].type].count = tally[t][query[t].type].count + 1
           /\ tally'[t][query[t].type].success = tally[t][query[t].type].success + Bit(ok)
           /\ vec'[t][query[t].type] = Append(vec[t][query[t].type], <<t, iter[t]>>)
<1> DEFINE k == query[t].type
           e == [count |-> tally[t][k].count + 1, success |-> tally[t][k].success + Bit(ok)]
           s == Append(vec[t][k], <<t, iter[t]>>)
<1>1. /\ tally' = [tally EXCEPT ![t] = [tally[t] EXCEPT ![k] = e]]
      /\ vec' = [vec EXCEPT ![t] = [vec[t] EXCEPT ![k] = s]]
      /\ iter' = [iter EXCEPT ![t] = @ + 1] /\ pc[t] = "call"
    BY DEF Book
<1>2. k \in Kind
    BY QueryFields
<1>3. /\ tally[t] \in [Kind -> [count : Nat, success : Nat]]
      /\ vec[t] \in [Kind -> Seq(Thread \X Nat)]
      /\ tally \in [Thread -> [Kind -> [count : Nat, success : Nat]]]
      /\ vec \in [Thread -> [Kind -> Seq(Thread \X Nat)]] /\ iter \in [Thread -> Nat]
    BY DEF TypeOK
<1>4. e.count = tally[t][k].count + 1 /\ e.success = tally[t][k].success + Bit(ok)
    OBVIOUS
<1> HIDE DEF e, s
<1>5. tally'[t] = [tally[t] EXCEPT ![k] = e] /\ vec'[t] = [vec[t] EXCEPT ![k] = s]
    BY <1>1, <1>3
<1>6. tally'[t][k] = e /\ vec'[t][k] = s
    BY <1>2, <1>3, <1>5
<1>7. \A x \in Kind \ {k} : tally'[t][x] = tally[t][x] /\ vec'[t][x] = vec[t][x]
    BY <1>3, <1>5
<1>8. \A u \in Thread \ {t} : iter'[u] = iter[u] /\ tally'[u] = tally[u] /\ vec'[u] = vec[u]
    BY <1>1, <1>3
<1>9. iter'[t] = iter[t] + 1
    BY <1>1, <1>3
<1> QED
    BY <1>1, <1>2, <1>4, <1>6, <1>7, <1>8, <1>9 DEF s

LEMMA BookKeeps ==
    ASSUME TypeOK, BookInv, job.prog = "runner", job' = job,
           NEW t \in Thread, NEW ok \in BOOLEAN, Book(t, ok),
           query[t].type = "SeekForPrev" => ok = FALSE
    PROVE  BookInv'
<1>1. ASSUME NEW u \in Thread \ {t}
      PROVE  /\ Booked(u)' = iter'[u] /\ tally'[u]["SeekForPrev"].success = 0
             /\ \A k \in Kind : InOrder(u, k)'
    <2>1. iter'[u] = iter[u] /\ tally'[u] = tally[u] /\ vec'[u] = vec[u]
        BY BookEffect
    <2> QED
        BY <2>1 DEF BookInv, Booked, InOrder
<1>2. /\ Booked(t) = iter[t] /\ tally[t]["SeekForPrev"].success = 0
      /\ \A k \in Kind : InOrder(t, k)
    BY DEF BookInv
<1>3. iter[t] \in Nat /\ iter'[t] = iter[t] + 1
    BY BookEffect DEF TypeOK
<1>4. Booked(t)' = iter'[t]
    <2>1. \A k \in Kind : tally[t][k].count \in Nat
        BY KindsOf
    <2>2. /\ tally'[t][query[t].type].count = tally[t][query[t].type].count + 1
          /\ \A k \in Kind \ {query[t].type} : tally'[t][k].count = tally[t][k].count
          /\ query[t].type \in Kind
        BY BookEffect
    <2>3. Kind = {"Get", "Put", "SeekForPrev"} /\ "Get" # "Put" /\ "Get" # "SeekForPrev" /\ "Put" # "SeekForPrev"
        BY DEF Kind
    <2> DEFINE a == tally[t]["Get"].count
               b == tally[t]["Put"].count
               c == tally[t]["SeekForPrev"].count
               x == tally'[t]["Get"].count
               y == tally'[t]["Put"].count
               z == tally'[t]["SeekForPrev"].count
    <2>4. a \in Nat /\ b \in Nat /\ c \in Nat
        BY <2>1, <2>3
    <2>5. \/ x = a + 1 /\ y = b /\ z = c
          \/ x = a /\ y = b + 1 /\ z = c
          \/ x = a /\ y = b /\ z = c + 1
        BY <2>2, <2>3
    <2>6. a + b + c = iter[t]
        BY <1>2 DEF Booked
    <2> HIDE DEF a, b, c, x, y, z
    <2>7. x + y + z = iter[t] + 1
        BY <1>3, <2>4, <2>5, <2>6, SMT
    <2> QED
        BY <1>3, <2>7 DEF x, y, z, Booked
<1>5. tally'[t]["SeekForPrev"].success = 0
    <2>1. "SeekForPrev" \in Kind
        BY DEF Kind
    <2>2. CASE query[t].type = "SeekForPrev"
        <3>1. Bit(ok) = 0
            BY <2>2 DEF Bit
        <3>2. tally'[t]["SeekForPrev"].success = tally[t]["SeekForPrev"].success + Bit(ok)
            BY <2>2, BookEffect
        <3>3. PICK z : z = tally[t]["SeekForPrev"].success
            OBVIOUS
        <3>4. z = 0 /\ tally'[t]["SeekForPrev"].success = z + 0
            BY <1>2, <3>1, <3>2, <3>3
        <3> QED
            BY <3>4
    <2>3. CASE query[t].type # "SeekForPrev"
        BY <1>2, <2>1, <2>3, BookEffect
    <2> QED
        BY <2>2, <2>3
<1>6. ASSUME NEW k \in Kind PROVE InOrder(t, k)'
    <2>0. InOrder(t, k)
        BY <1>2
    <2>1. CASE k # query[t].type
        <3>0. vec'[t][k] = vec[t][k] /\ tally'[t][k] = tally[t][k]
            BY <2>1, BookEffect
        <3>1. /\ Len(vec'[t][k]) = tally'[t][k].count
              /\ \A i, j \in DOMAIN vec'[t][k] : i < j => vec'[t][k][i][2] < vec'[t][k][j][2]
            BY <2>0, <3>0 DEF InOrder
        <3>2. ASSUME NEW i \in DOMAIN vec'[t][k]
              PROVE  vec'[t][k][i][1] = t /\ vec'[t][k][i][2] < iter'[t]
            <4>1. vec'[t][k] = vec[t][k] /\ i \in DOMAIN vec[t][k]
                BY <3>0, <3>2
            <4>2. vec[t][k][i] \in Thread \X Nat
                BY <4>1, KindsOf
            <4>3. vec[t][k][i][1] = t /\ vec[t][k][i][2] < iter[t] /\ vec[t][k][i][2] \in Nat
                BY <2>0, <4>1, <4>2 DEF InOrder
            <4> QED
                BY <1>3, <4>1, <4>3, SMT
        <3> QED
            BY <3>1, <3>2 DEF InOrder
    <2>2. CASE k = query[t].type
        <3> DEFINE s == vec[t][k]
                   n == Len(s)
        <3>1. /\ vec'[t][k] = Append(s, <<t, iter[t]>>)
              /\ tally'[t][k].count = tally[t][k].count + 1
            BY <2>2, BookEffect
        <3>2. s \in Seq(Thread \X Nat) /\ <<t, iter[t]>> \in Thread \X Nat /\ n \in Nat
            BY <1>3, KindsOf
        <3>3. /\ n = tally[t][k].count
              /\ \A i \in 1 .. n : s[i][1] = t /\ s[i][2] < iter[t] /\ s[i][2] \in Nat
              /\ \A i, j \in 1 .. n : i < j => s[i][2] < s[j][2]
            <4>1. DOMAIN s = 1 .. n
                BY KindsOf
            <4>2. \A i \in 1 .. n : s[i] \in Thread \X Nat
                BY <3>2
            <4>3. \A i \in 1 .. n : s[i][2] \in Nat
                BY <4>2
            <4> QED
                BY <2>0, <4>1, <4>3 DEF InOrder
        <3>4. PICK r : r = vec'[t][k]
            OBVIOUS
        <3> HIDE DEF s
        <3>5. /\ Len(r) = n + 1 /\ DOMAIN r = 1 .. n + 1 /\ r[n + 1] = <<t, iter[t]>>
              /\ \A i \in 1 .. n : r[i] = s[i]
            BY <3>1, <3>2, <3>4, SMT
        <3>6. \A i \in 1 .. n + 1 : r[i][1] = t /\ r[i][2] <= iter[t] /\ r[i][2] \in Nat
                                    /\ (i # n + 1 => r[i][2] < iter[t])
            <4> TAKE i \in 1 .. n + 1
            <4>1. CASE i = n + 1
                BY <1>3, <3>5, <4>1, SMT
            <4>2. CASE i # n + 1
                <5>1. i \in 1 .. n
                    BY <3>2, <4>2, SMT
                <5>2. r[i] = s[i] /\ s[i][1] = t /\ s[i][2] < iter[t] /\ s[i][2] \in Nat
                    BY <3>3, <3>5, <5>1
                <5> QED
                    BY <1>3, <5>2, SMT
            <4> QED
                BY <4>1, <4>2
        <3>7. \A i \in 1 .. n + 1 : r[i][2] < iter'[t]
            BY <1>3, <3>6, SMT
        <3>8. ASSUME NEW i \in 1 .. n + 1, NEW j \in 1 .. n + 1, i < j PROVE r[i][2] < r[j][2]
            <4>1. CASE j = n + 1
                <5>1. i # n + 1 /\ r[j][2] = iter[t]
                    BY <3>2, <3>5, <3>8, <4>1, SMT
                <5> QED
                    BY <3>6, <5>1
            <4>2. CASE j # n + 1
                <5>1. i \in 1 .. n /\ j \in 1 .. n
                    <6>1. n \in Nat
                        BY <3>2
                    <6>2. i \in Int /\ j \in Int /\ 1 <= i /\ i < j /\ j <= n + 1
                        BY <3>8, <6>1, SMT
                    <6> HIDE DEF n
                    <6> QED
                        BY <4>2, <6>1, <6>2, SMT
                <5> QED
                    BY <3>3, <3>5, <3>8, <5>1
            <4> QED
                BY <4>1, <4>2
        <3>9. Len(r) = tally'[t][k].count
            BY <3>1, <3>3, <3>5
        <3> QED
            BY <3>4, <3>5, <3>6, <3>7, <3>8, <3>9 DEF InOrder
    <2> QED
        BY <2>1, <2>2
<1> QED
    BY <1>1, <1>4, <1>5, <1>6 DEF BookInv

LEMMA BookStep == TypeOK /\ BookInv /\ [Next]_vars => BookInv'
<1> SUFFICES ASSUME TypeOK, BookInv, [Next]_vars, job.prog = "runner" PROVE BookInv'
    BY JobStays DEF BookInv
<1>0. job' = job
    BY JobStays
<1>1. CASE UNCHANGED <<iter, tally, vec>>
    BY <1>0, <1>1 DEF BookInv, InOrder, Booked
<1>2. ASSUME NEW t \in Thread, DoPut(t) \/ DoGet(t) \/ DoSeek(t) PROVE BookInv'
    <2>1. CASE DoPut(t) \/ DoGet(t)
        <3>1. PICK ok \in BOOLEAN : Book(t, ok)
            BY <2>1, CallsBook
        <3>2. query[t].type # "SeekForPrev"
            BY <2>1 DEF DoPut, DoGet
        <3> QED
            BY <1>0, <3>1, <3>2, BookKeeps
    <2>2. CASE DoSeek(t)
        <3>1. Book(t, FALSE) /\ FALSE \in BOOLEAN
            BY <2>2 DEF DoSeek
        <3> QED
            BY <1>0, <3>1, BookKeeps
    <2> QED
        BY <1>2, <2>1, <2>2
<1>3. CASE UNCHANGED <<tally, vec, db>>
    <2>1. CASE MainStep \/ UNCHANGED vars
        BY <1>1, <1>3, <2>1 DEF MainStep, Spawn, Join, Report, StatusReport, vars
    <2>2. ASSUME NEW t \in Thread, ThreadStep(t), ~(DoPut(t) \/ DoGet(t) \/ DoSeek(t))
          PROVE  BookInv'
        <3>1. CASE MixGraph(t) \/ MixGraphPrefix(t) \/ ReadRandom(t) \/ MixRandom(t)
            BY <1>1, <1>3, <3>1 DEF MixGraph, MixGraphPrefix, ReadRandom, MixRandom, Ask
        <3>2. CASE Search(t) \/ ChooseKey(t)
            BY <1>1, <1>3, <3>2 DEF Search, ChooseKey, Think
        <3>3. CASE Lock(t) \/ ReadCounters(t) \/ WriteCounters(t) \/ Unlock(t) \/ Finish(t)
            BY <1>1, <1>3, <3>3 DEF Lock, ReadCounters, WriteCounters, Unlock, Finish
        <3> QED
            BY <2>2, <3>1, <3>2, <3>3 DEF ThreadStep
    <2> QED
        BY <1>2, <2>1, <2>2 DEF Next, Terminated
<1> QED
    BY <1>2, <1>3, OnlyCallsBook

LEMMA InitBook == Init => BookInv
<1> SUFFICES ASSUME Init, NEW t \in Thread
             PROVE  /\ Booked(t) = iter[t]
                    /\ tally[t]["SeekForPrev"].success = 0
                    /\ \A k \in Kind : InOrder(t, k)
    BY DEF BookInv
<1>1. /\ iter[t] = 0
      /\ \A k \in Kind : tally[t][k] = [count |-> 0, success |-> 0] /\ vec[t][k] = <<>>
    BY DEF Init, PerThread, PerKind
<1>2. \A k \in Kind : tally[t][k].count = 0 /\ tally[t][k].success = 0
    BY <1>1
<1>3. "Get" \in Kind /\ "Put" \in Kind /\ "SeekForPrev" \in Kind
    BY DEF Kind
<1>4. Booked(t) = 0
    BY <1>2, <1>3, SMT DEF Booked
<1>5. \A k \in Kind : Len(vec[t][k]) = 0 /\ DOMAIN vec[t][k] = {}
    BY <1>1
<1>6. \A k \in Kind : InOrder(t, k)
    BY <1>2, <1>5 DEF InOrder
<1> QED
    BY <1>1, <1>2, <1>3, <1>4, <1>6
-----------------------------------------------------------------------------
(***************************************************************************)
(* What the runner has written.                                            *)
(***************************************************************************)
\* The report of the first n threads is written.
Reported(n) ==
    /\ Len(result) = n
    /\ \A t \in 0 .. n - 1 : result[t + 1] = tally[t]
    /\ \A k \in Kind : lat[k] = <<>> \/ \E t \in 0 .. n - 1 :
        lat[k] = vec[t][k] /\ \A u \in t + 1 .. n - 1 : vec[u][k] = <<>>

WriteInv ==
    job.prog = "runner" =>
        /\ main \in {"spawn", "join"} => result = <<>> /\ \A k \in Kind : lat[k] = <<>>
        /\ main = "report" => Reported(mi)
        /\ main = "exited" => Reported(job.threads)

LEMMA NobodyMoves ==
    ASSUME TypeOK, QuotaInv, main \in {"report", "exited"}, NEW t \in Thread, ThreadStep(t)
    PROVE  FALSE
<1>1. Moved(t)
    BY ThreadMoves
<1>2. pc[t] \notin {"unborn", "finished"}
    BY <1>1 DEF Moved, Busy
<1>3. t \in Int /\ job.threads \in Int
    BY JobType, FbBenchAssumption, SMT DEF Thread, TypeOK
<1>4. t >= job.threads \/ t < job.threads
    BY <1>3, SMT
<1> QED
    BY <1>2, <1>4 DEF QuotaInv

LEMMA ReportTo ==
    ASSUME TypeOK, Report, Reported(mi), NEW n, n = mi, NEW q, q = n + 1
    PROVE  Reported(q)'
<1>1. /\ UNCHANGED <<job, tally, vec>> /\ result' = Append(result, tally[n])
      /\ lat' = [k \in Kind |-> IF vec[n][k] = <<>> THEN lat[k] ELSE vec[n][k]]
    BY DEF Report, runVars
<1>2. mi \in Thread /\ mi \in Nat
    BY LoopThread, FbBenchAssumption, SMT DEF Thread
<1>3. PICK m : m = n
    OBVIOUS
<1>4. m \in Nat /\ m \in Thread
    BY <1>2, <1>3
<1>5. /\ Len(result) = m
      /\ \A t \in 0 .. m - 1 : result[t + 1] = tally[t]
      /\ \A k \in Kind : lat[k] = <<>> \/ \E t \in 0 .. m - 1 :
            lat[k] = vec[t][k] /\ \A u \in t + 1 .. m - 1 : vec[u][k] = <<>>
    BY <1>3 DEF Reported
<1>6. result \in Seq([Kind -> [count : Nat, success : Nat]])
      /\ tally[m] \in [Kind -> [count : Nat, success : Nat]]
    BY <1>4 DEF TypeOK
<1>7. /\ Len(result') = m + 1 /\ result'[m + 1] = tally[m]
      /\ \A t \in 0 .. m - 1 : result'[t + 1] = result[t + 1]
    <2>1. result' = Append(result, tally[m])
        BY <1>1, <1>3
    <2>2. Len(result') = Len(result) + 1 /\ result'[Len(result) + 1] = tally[m]
          /\ \A i \in 1 .. Len(result) : result'[i] = result[i]
        BY <1>6, <2>1
    <2>3. \A t \in 0 .. m - 1 : t + 1 \in 1 .. m
        BY <1>4, SMT
    <2> QED
        BY <1>5, <2>2, <2>3
<1>8. \A t \in 0 .. m : t = m \/ t \in 0 .. m - 1
    BY <1>4, SMT
<1>9. \A t \in 0 .. m : result'[t + 1] = tally[t]
    BY <1>5, <1>7, <1>8
<1>10. ASSUME NEW k \in Kind
       PROVE  lat'[k] = <<>> \/ \E t \in 0 .. m :
                lat'[k] = vec[t][k] /\ \A u \in t + 1 .. m : vec[u][k] = <<>>
    <2>1. lat'[k] = IF vec[m][k] = <<>> THEN lat[k] ELSE vec[m][k]
        BY <1>1, <1>3
    <2>2. CASE vec[m][k] # <<>>
        <3>1. m \in 0 .. m /\ m + 1 .. m = {}
            BY <1>4, SMT
        <3> QED
            BY <2>1, <2>2, <3>1
    <2>3. CASE vec[m][k] = <<>> /\ lat[k] # <<>>
        <3>1. PICK t \in 0 .. m - 1 :
                lat[k] = vec[t][k] /\ \A u \in t + 1 .. m - 1 : vec[u][k] = <<>>
            BY <1>5, <2>3
        <3>2. t \in 0 .. m /\ \A u \in t + 1 .. m : u = m \/ u \in t + 1 .. m - 1
            BY <1>4, SMT
        <3>3. \A u \in t + 1 .. m : vec[u][k] = <<>>
            BY <2>3, <3>1, <3>2
        <3> QED
            BY <2>1, <2>3, <3>1, <3>2, <3>3
    <2>4. CASE vec[m][k] = <<>> /\ lat[k] = <<>>
        BY <2>1, <2>4
    <2> QED
        BY <2>2, <2>3, <2>4
<1>11. q = m + 1 /\ q - 1 = m
    BY <1>3, <1>4, SMT
<1> QED
    BY <1>1, <1>7, <1>9, <1>10, <1>11, Zenon DEF Reported

LEMMA WriteStep == TypeOK /\ QuotaInv /\ WriteInv /\ [Next]_vars => WriteInv'
<1> SUFFICES ASSUME TypeOK, QuotaInv, WriteInv, [Next]_vars, job.prog = "runner"
             PROVE  WriteInv'
    BY JobStays DEF WriteInv
<1>0. job' = job /\ mi \in Nat /\ mi < job.threads /\ job.threads \in Nat \ {0}
    <2>1. job.threads \in Nat \ {0} /\ mi \in 0 .. job.threads - 1
        BY JobType DEF TypeOK
    <2> QED
        BY <2>1, JobStays, SMT
<1>1. CASE Spawn
    <2>1. UNCHANGED <<result, lat>> /\ main = "spawn" /\ main' \in {"spawn", "join"}
        BY <1>1 DEF Spawn, Advance
    <2> QED
        BY <1>0, <2>1 DEF WriteInv
<1>2. CASE Join
    <2>1. /\ UNCHANGED <<result, lat, tally, vec>> /\ main = "join" /\ main' \in {"join", "report"}
          /\ main' = "report" => mi' = 0
        BY <1>2 DEF Join, Advance, runVars
    <2>2. result = <<>> /\ \A k \in Kind : lat[k] = <<>>
        BY <2>1 DEF WriteInv
    <2>3. Len(<<>>) = 0 /\ 0 .. 0 - 1 = {}
        BY SMT
    <2>4. main' = "report" => Reported(mi)'
        BY <2>1, <2>2, <2>3 DEF Reported
    <2> QED
        BY <1>0, <2>1, <2>2, <2>4 DEF WriteInv
<1>3. CASE Report
    <2>1. /\ main = "report"
          /\ IF mi + 1 < job.threads THEN mi' = mi + 1 /\ main' = "report"
                                     ELSE mi' = 0 /\ main' = "exited"
        BY <1>3 DEF Report, Advance
    <2>2. Reported(mi)
        BY <2>1 DEF WriteInv
    <2>3. PICK n : n = mi + 1
        OBVIOUS
    <2>4. PICK p : p = mi
        OBVIOUS
    <2>6. Reported(n)'
        BY <1>3, <2>2, <2>3, <2>4, ReportTo
    <2>7. CASE mi + 1 < job.threads
        BY <1>0, <2>1, <2>3, <2>6, <2>7 DEF WriteInv, Reported
    <2>8. CASE ~(mi + 1 < job.threads)
        <3>1. n = job.threads
            BY <1>0, <2>3, <2>8, SMT
        <3> QED
            BY <1>0, <2>1, <2>6, <2>8, <3>1 DEF WriteInv, Reported
    <2> QED
        BY <2>7, <2>8
<1>4. ASSUME NEW t \in Thread, ThreadStep(t) PROVE WriteInv'
    <2>1. UNCHANGED <<main, mi, result, lat>>
        BY <1>4, ThreadMoves
    <2>2. main \notin {"report", "exited"}
        BY <1>4, NobodyMoves
    <2> QED
        BY <1>0, <2>1, <2>2 DEF WriteInv
<1>5. CASE StatusReport
    BY <1>5 DEF StatusReport
<1>6. CASE UNCHANGED vars
    BY <1>6 DEF vars, runVars, WriteInv, Reported
<1> QED
    BY <1>1, <1>2, <1>3, <1>4, <1>5, <1>6 DEF Next, MainStep, Terminated
-----------------------------------------------------------------------------
(***************************************************************************)
(* What the test has counted: each thread one query in each iteration.     *)
(***************************************************************************)
\* Thread t has counted its query of iteration n.
Counted(t, n) == n < iter[t] \/ (n = iter[t] /\ pc[t] \in {"unlock", "call"})

DoneInv ==
    \A t \in Thread :
        /\ \A d, e \in done[t] : d.by = e.by /\ d.n = e.n => d = e
        /\ \A n \in Nat : Counted(t, n) => \E d \in done[Own(t)] : d.by = t /\ d.n = n

LEMMA DoneStep == TypeOK /\ HistoryInv /\ DoneInv /\ [Next]_vars => DoneInv'
<1> SUFFICES ASSUME TypeOK, HistoryInv, DoneInv, [Next]_vars PROVE DoneInv'
    OBVIOUS
<1>0. \A u \in Thread : Own(u)' = Own(u) /\ Own(u) \in Thread /\ iter[u] \in Nat
    BY JobStays, TypesStay, OwnType DEF TypeOK
<1>1. ASSUME UNCHANGED done,
             \A u \in Thread : \A n \in Nat : Counted(u, n)' => Counted(u, n)
      PROVE  DoneInv'
    BY <1>0, <1>1 DEF DoneInv
<1>2. CASE MainStep \/ UNCHANGED vars
    <2>1. UNCHANGED <<iter, done>>
        BY <1>2 DEF MainStep, Spawn, Join, Report, StatusReport, benchVars, vars
    <2>2. pc' = pc \/ (pc' = [pc EXCEPT ![mi] = "loop"])
        BY <1>2 DEF MainStep, Spawn, Join, Report, StatusReport, vars
    <2>3. \A u \in Thread : pc'[u] = pc[u] \/ pc'[u] = "loop"
        BY <2>2 DEF TypeOK
    <2> QED
        BY <1>1, <2>1, <2>3 DEF Counted
<1>3. ASSUME NEW t \in Thread, ThreadStep(t), ~WriteCounters(t) PROVE DoneInv'
    <2>1. /\ done' = done /\ \A u \in Thread \ {t} : pc'[u] = pc[u] /\ iter'[u] = iter[u]
          /\ \/ iter'[t] = iter[t] /\ (pc'[t] \in {"unlock", "call"} => pc[t] = "unlock")
             \/ iter'[t] = iter[t] + 1 /\ pc'[t] = "loop" /\ pc[t] \in {"unlock", "call"}
        <3>1. CASE MixGraph(t) \/ MixGraphPrefix(t) \/ ReadRandom(t) \/ MixRandom(t)
            <4>1. \E n, q : \E next \in {"search", "lock"} : Ask(t, n, q, next)
                BY <3>1 DEF MixGraph, MixGraphPrefix, ReadRandom, MixRandom
            <4>2. UNCHANGED <<done, iter>> /\ \E next \in {"search", "lock"} : pc' = [pc EXCEPT ![t] = next]
                BY <4>1 DEF Ask
            <4> QED
                BY <4>2 DEF TypeOK
        <3>2. CASE Search(t) \/ ChooseKey(t)
            <4>1. UNCHANGED <<done, iter>> /\ \E next \in {"search", "lock"} : pc' = [pc EXCEPT ![t] = next]
                BY <3>2 DEF Search, ChooseKey, Think
            <4> QED
                BY <4>1 DEF TypeOK
        <3>3. CASE Lock(t) \/ ReadCounters(t) \/ Finish(t)
            <4>1. /\ UNCHANGED <<done, iter>>
                  /\ \E next \in {"read", "write", "finished"} : pc' = [pc EXCEPT ![t] = next]
                BY <3>3 DEF Lock, ReadCounters, Finish, benchVars
            <4> QED
                BY <4>1 DEF TypeOK
        <3>4. CASE Unlock(t)
            <4>1. /\ UNCHANGED done /\ pc[t] = "unlock"
                  /\ \/ pc' = [pc EXCEPT ![t] = "loop"] /\ iter' = [iter EXCEPT ![t] = @ + 1]
                     \/ pc' = [pc EXCEPT ![t] = "call"] /\ iter' = iter
                BY <3>4 DEF Unlock
            <4> QED
                BY <4>1 DEF TypeOK
        <3>5. CASE DoPut(t) \/ DoGet(t) \/ DoSeek(t)
            <4>1. PICK ok \in BOOLEAN : Book(t, ok)
                BY <3>5, CallsBook
            <4>2. /\ UNCHANGED done /\ pc[t] = "call"
                  /\ pc' = [pc EXCEPT ![t] = "loop"] /\ iter' = [iter EXCEPT ![t] = @ + 1]
                BY <4>1 DEF Book, benchVars
            <4> QED
                BY <4>2 DEF TypeOK
        <3> QED
            BY <1>3, <3>1, <3>2, <3>3, <3>4, <3>5 DEF ThreadStep
    <2>2. \A n \in Nat : Counted(t, n)' => Counted(t, n)
        <3>1. \A n \in Nat : n < iter[t] + 1 => n < iter[t] \/ n = iter[t]
            BY <1>0, SMT
        <3>2. \A n \in Nat : ~(n < iter[t] /\ n = iter[t])
            BY <1>0, SMT
        <3> QED
            BY <2>1, <3>1, <3>2 DEF Counted
    <2> QED
        BY <1>1, <2>1, <2>2 DEF Counted
<1>4. ASSUME NEW t \in Thread, WriteCounters(t) PROVE DoneInv'
    <2>0. PICK d : d = [by |-> t, n |-> iter[t], type |-> query[t].type,
                        key |-> ConvertKeyToInt(query[t].text)]
        OBVIOUS
    <2>1. /\ iter' = iter /\ pc[t] = "write" /\ pc' = [pc EXCEPT ![t] = "unlock"]
          /\ done' = [done EXCEPT ![Own(t)] = @ \cup {d}]
        BY <1>4, <2>0 DEF WriteCounters
    <2>2. d.by = t /\ d.n = iter[t]
        BY <2>0
    <2>3. pc'[t] = "unlock" /\ \A u \in Thread \ {t} : pc'[u] = pc[u]
        BY <2>1 DEF TypeOK
    <2>4. \A o \in Thread : done'[o] = IF o = Own(t) THEN done[o] \cup {d} ELSE done[o]
        BY <1>0, <2>1 DEF TypeOK
    <2>5. \A o \in Thread : \A e \in done[o] : ~(e.by = t /\ e.n = iter[t])
        <3> SUFFICES ASSUME NEW o \in Thread, NEW e \in done[o], e.by = t, e.n = iter[t]
                     PROVE  FALSE
            OBVIOUS
        <3> QED
            BY <2>1 DEF HistoryInv
    <2>6. ASSUME NEW o \in Thread, NEW e \in done'[o], NEW f \in done'[o], e.by = f.by, e.n = f.n
          PROVE  e = f
        <3>1. /\ e \in done[o] \/ e = d
              /\ f \in done[o] \/ f = d
            BY <2>4, <2>6
        <3>2. CASE e = d \/ f = d
            BY <2>2, <2>5, <2>6, <3>1, <3>2
        <3>3. CASE e \in done[o] /\ f \in done[o]
            BY <2>6, <3>3 DEF DoneInv
        <3> QED
            BY <3>1, <3>2, <3>3
    <2>7. ASSUME NEW u \in Thread, NEW n \in Nat, Counted(u, n)'
          PROVE  \E e \in done'[Own(u)] : e.by = u /\ e.n = n
        <3>1. CASE Counted(u, n)
            <4>1. PICK e \in done[Own(u)] : e.by = u /\ e.n = n
                BY <3>1 DEF DoneInv
            <4>2. e \in done'[Own(u)]
                BY <1>0, <2>4, <4>1
            <4> QED
                BY <4>1, <4>2
        <3>2. CASE ~Counted(u, n)
            <4>1. u = t /\ n = iter[t]
                BY <2>1, <2>3, <2>7, <3>2 DEF Counted
            <4>2. d \in done'[Own(t)]
                BY <1>0, <2>4
            <4> QED
                BY <2>2, <4>1, <4>2
        <3> QED
            BY <3>1, <3>2
    <2> QED
        BY <1>0, <2>6, <2>7 DEF DoneInv
<1> QED
    BY <1>2, <1>3, <1>4 DEF Next, Terminated

LEMMA InitDone == Init => DoneInv
<1> SUFFICES ASSUME Init PROVE DoneInv
    OBVIOUS
<1>1. \A t \in Thread : pc[t] = "unborn" /\ iter[t] = 0 /\ done[t] = {}
    BY DEF Init, PerThread
<1>2. \A n \in Nat : ~(n < 0)
    BY SMT
<1> QED
    BY <1>1, <1>2 DEF DoneInv, Counted

\* When the test has ended, its threads have counted one query in each of their
\* iterations.
LEMMA TestCounts ==
    ASSUME TypeOK, QuotaInv, HistoryInv, DoneInv, main = "exited", job.prog = "test"
    PROVE  Cardinality(done[0]) = job.threads * job.size
<1> DEFINE P == job.threads
           S == job.size
           f == [d \in done[0] |-> <<d.by, d.n>>]
           T == (0 .. P - 1) \X (0 .. S - 1)
<1>1. P \in Nat \ {0} /\ S \in Nat /\ Quota = S /\ P <= MaxThreads /\ MaxThreads \in Nat
    BY JobType, FbBenchAssumption, SMT DEF TypeOK, Quota
<1>2. 0 \in Thread /\ \A t \in Thread : t \in Nat /\ Own(t) = 0
    BY FbBenchAssumption, SMT DEF Thread, Own
<1>3. \A t \in Thread : iter[t] \in Nat
    BY DEF TypeOK
<1>4. \A t \in Thread : t < P => pc[t] = "finished" /\ iter[t] >= S /\ (iter[t] = 0 \/ iter[t] <= S)
    BY <1>1 DEF QuotaInv
<1>5. \A t \in Thread : t < P => iter[t] = S
    BY <1>1, <1>3, <1>4, SMT
<1>6. \A t \in Thread : ~(t < P) => pc[t] = "unborn" /\ iter[t] = 0
    <2>1. \A t \in Thread : ~(t < P) => t >= P
        BY <1>1, <1>2, SMT
    <2> QED
        BY <2>1 DEF QuotaInv
<1>7. \A t \in 0 .. P - 1 : t \in Thread /\ t < P
    BY <1>1, SMT DEF Thread
<1> HIDE DEF P, S
<1>8. ASSUME NEW d \in done[0] PROVE d.by \in 0 .. P - 1 /\ d.n \in 0 .. S - 1
    <2>1. d.by \in Thread /\ d.n \in Nat
        BY <1>2, <1>8, PastType
    <2>2. d.n <= iter[d.by] /\ (d.n = iter[d.by] => pc[d.by] \in {"unlock", "call"})
        BY <1>2, <1>8 DEF HistoryInv
    <2>3. d.by < P
        <3>1. CASE ~(d.by < P)
            <4>1. pc[d.by] = "unborn" /\ iter[d.by] = 0
                BY <1>6, <2>1, <3>1
            <4>2. d.n = 0
                BY <2>1, <2>2, <4>1, SMT
            <4> QED
                BY <2>2, <4>1, <4>2
        <3> QED
            BY <3>1
    <2>4. d.n # iter[d.by] /\ iter[d.by] = S
        BY <1>4, <1>5, <2>1, <2>2, <2>3
    <2>5. d.by \in Nat
        BY <1>2, <2>1
    <2> QED
        BY <1>1, <2>1, <2>2, <2>3, <2>4, <2>5, SMT
<1>9. f \in [done[0] -> T]
    BY <1>8
<1>10. \A d, e \in done[0] : f[d] = f[e] => d = e
    BY <1>2 DEF DoneInv
<1>11. \A p \in T : \E d \in done[0] : f[d] = p
    <2>0. ASSUME NEW t \in 0 .. P - 1, NEW n \in 0 .. S - 1
          PROVE  \E d \in done[0] : f[d] = <<t, n>>
        <3>1. t \in Thread /\ iter[t] = S /\ n \in Nat /\ n < S
            BY <1>1, <1>5, <1>7, SMT
        <3>2. PICK d \in done[Own(t)] : d.by = t /\ d.n = n
            BY <3>1 DEF DoneInv, Counted
        <3>3. d \in done[0]
            BY <1>2, <3>1, <3>2
        <3> QED
            BY <3>2, <3>3
    <2>1. \A p \in T : \E t \in 0 .. P - 1, n \in 0 .. S - 1 : p = <<t, n>>
        OBVIOUS
    <2> HIDE DEF f, T
    <2> QED
        BY <2>0, <2>1
<1>12. f \in Bijection(done[0], T)
    <2> HIDE DEF f, T
    <2> QED
        BY <1>9, <1>10, <1>11 DEF Bijection, Injection, Surjection, IsInjective
<1>13. Cardinality(T) = Cardinality(done[0])
    <2>1. IsFiniteSet(done[0])
        BY <1>2 DEF HistoryInv
    <2> HIDE DEF f, T
    <2>2. ExistsBijection(done[0], T)
        BY <1>12 DEF ExistsBijection
    <2> QED
        BY <2>1, <2>2, FS_Bijection
<1>14. Cardinality(T) = P * S
    <2>1. IsFiniteSet(0 .. P - 1) /\ IsFiniteSet(0 .. S - 1)
          /\ Cardinality(0 .. P - 1) = P /\ Cardinality(0 .. S - 1) = S
        <3>1. 0 \in Int /\ P - 1 \in Int /\ S - 1 \in Int
            BY <1>1, SMT
        <3>2. Cardinality(0 .. P - 1) = (IF 0 > P - 1 THEN 0 ELSE P - 1 - 0 + 1)
              /\ Cardinality(0 .. S - 1) = (IF 0 > S - 1 THEN 0 ELSE S - 1 - 0 + 1)
              /\ IsFiniteSet(0 .. P - 1) /\ IsFiniteSet(0 .. S - 1)
            BY <3>1, FS_Interval
        <3> QED
            BY <1>1, <3>2, SMT
    <2>2. PICK A : A = 0 .. P - 1
        OBVIOUS
    <2>3. PICK B : B = 0 .. S - 1
        OBVIOUS
    <2>4. IsFiniteSet(A) /\ IsFiniteSet(B) /\ Cardinality(A) = P /\ Cardinality(B) = S
        BY <2>1, <2>2, <2>3
    <2>5. Cardinality(A \X B) = Cardinality(A) * Cardinality(B)
        BY <2>4, FS_Product
    <2>6. T = A \X B
        BY <2>2, <2>3
    <2> HIDE DEF T
    <2> QED
        BY <2>4, <2>5, <2>6
<1> QED
    BY <1>13, <1>14 DEF P, S

\* The rounds of a thread of the runner are what comes of its share in an int.
LEMMA RoundsInInt ==
    ASSUME job \in Jobs, job.prog = "runner", NEW r, r = IF Quota > 0 THEN Quota ELSE 0
    PROVE  InInt((job.size \div job.threads) \div (job.valueLength * job.threads), r)
<1>1. /\ job.threads \in Nat \ {0} /\ job.size \in Nat /\ job.valueLength \in Nat \ {0}
      /\ IntMax \in Nat
    BY JobType, FbBenchAssumption
<1>2. job.size \div job.threads \in Nat /\ job.valueLength * job.threads \in Nat \ {0}
    <2>1. 1 * job.threads <= job.valueLength * job.threads
        BY <1>1, TimesMonotone, SMT
    <2>2. job.valueLength * job.threads \in Nat /\ 1 * job.threads = job.threads
        BY <1>1, SMT
    <2>3. job.valueLength * job.threads \in Nat \ {0}
        BY <1>1, <2>1, <2>2, SMT
    <2> QED
        BY <1>1, <2>3, Quotient
<1>3. PICK n \in Nat : n = (job.size \div job.threads) \div (job.valueLength * job.threads)
    BY <1>2, Quotient
<1>4. Quota = Wrapped(n, IntMax)
    BY <1>3 DEF Quota, Count, Wrapped
<1> QED
    BY <1>1, <1>3, <1>4, WrappedRounds DEF InInt

\* FBBench's destructor and main.cc: when a program has ended, what it has
\* written is what all of its threads have done.
THEOREM ReportHolds == Spec => []ReportMatches
<1>1. Init => WriteInv
    BY DEF Init, WriteInv, PerKind
<1>2. TypeOK /\ QuotaInv /\ BookInv /\ WriteInv /\ HistoryInv /\ DoneInv /\ CountersExact
        => ReportMatches
    <2> SUFFICES ASSUME TypeOK, QuotaInv, BookInv, WriteInv, HistoryInv, DoneInv,
                        CountersExact, main = "exited"
                 PROVE  /\ job.prog = "runner" =>
                            /\ Len(result) = job.threads
                            /\ \A t \in 0 .. job.threads - 1 :
                                /\ result[t + 1] = tally[t]
                                /\ Booked(t) = (IF Quota > 0 THEN Quota ELSE 0)
                                /\ InInt((job.size \div job.threads) \div (job.valueLength * job.threads), Booked(t))
                                /\ tally[t]["SeekForPrev"].success = 0
                            /\ \A k \in Kind : lat[k] = <<>> \/ \E t \in 0 .. job.threads - 1 :
                                /\ LastWords(k, t)
                                /\ \A u \in t + 1 .. job.threads - 1 : tally[u][k].count = 0
                        /\ job.prog = "test" => counter[0].total = job.threads * job.size
        BY DEF ReportMatches
    <2>1. CASE job.prog = "test"
        <3>1. 0 \in Thread
            BY FbBenchAssumption, SMT DEF Thread
        <3>2. counter[0].total = Cardinality(done[0])
            BY <3>1 DEF CountersExact, Exact
        <3> QED
            BY <2>1, <3>2, TestCounts
    <2>2. CASE job.prog = "runner"
        <3>0. /\ job.threads \in Nat \ {0} /\ Quota \in Int
              /\ \A t \in 0 .. job.threads - 1 : t \in Thread /\ t < job.threads
            <4>1. job.threads \in 1 .. MaxThreads /\ Quota \in Int /\ MaxThreads \in Nat
                BY JobType, QuotaType, FbBenchAssumption DEF TypeOK
            <4> QED
                BY <4>1, SMT DEF Thread
        <3>1. Reported(job.threads)
            BY <2>2 DEF WriteInv
        <3>2. ASSUME NEW t \in 0 .. job.threads - 1
              PROVE  /\ Booked(t) = (IF Quota > 0 THEN Quota ELSE 0)
                     /\ InInt((job.size \div job.threads) \div (job.valueLength * job.threads), Booked(t))
                     /\ tally[t]["SeekForPrev"].success = 0
                     /\ \A k \in Kind : InOrder(t, k)
            <4>1. /\ Booked(t) = iter[t] /\ tally[t]["SeekForPrev"].success = 0
                  /\ \A k \in Kind : InOrder(t, k)
                BY <2>2, <3>0 DEF BookInv
            <4>2. iter[t] >= Quota /\ (iter[t] = 0 \/ iter[t] <= Quota) /\ iter[t] \in Nat
                BY <3>0 DEF QuotaInv, TypeOK
            <4>3. iter[t] = (IF Quota > 0 THEN Quota ELSE 0)
                BY <3>0, <4>2, SMT
            <4>4. InInt((job.size \div job.threads) \div (job.valueLength * job.threads), iter[t])
                BY <2>2, <4>3, RoundsInInt DEF TypeOK
            <4> QED
                BY <4>1, <4>3, <4>4
        <3>3. ASSUME NEW k \in Kind, lat[k] # <<>>
              PROVE  \E t \in 0 .. job.threads - 1 :
                        /\ LastWords(k, t)
                        /\ \A u \in t + 1 .. job.threads - 1 : tally[u][k].count = 0
            <4>1. PICK t \in 0 .. job.threads - 1 :
                    lat[k] = vec[t][k] /\ \A u \in t + 1 .. job.threads - 1 : vec[u][k] = <<>>
                BY <3>1, <3>3 DEF Reported
            <4>2. LastWords(k, t)
                BY <3>2, <4>1 DEF InOrder, LastWords
            <4>3. ASSUME NEW u \in t + 1 .. job.threads - 1 PROVE tally[u][k].count = 0
                <5>1. u \in 0 .. job.threads - 1
                    BY <3>0, SMT
                <5>2. Len(vec[u][k]) = tally[u][k].count /\ vec[u][k] = <<>>
                    BY <3>2, <4>1, <5>1 DEF InOrder
                <5>3. Len(<<>>) = 0
                    BY SMT
                <5> QED
                    BY <5>2, <5>3
            <4> QED
                BY <4>2, <4>3
        <3> QED
            BY <2>2, <3>1, <3>2, <3>3 DEF Reported
    <2> QED
        BY <2>1, <2>2, JobType DEF TypeOK
<1>3. Spec => [](MutexInv /\ HistoryInv)
    BY InitHistory, MutexStep, HistoryStep, FbTypeCorrect, PTL DEF Spec
<1>4. Spec => [](QuotaInv /\ BookInv /\ DoneInv)
    BY <1>3, InitQuota, QuotaStep, InitBook, BookStep, InitDone, DoneStep, FbTypeCorrect, PTL DEF Spec
<1>5. Spec => []WriteInv
    BY <1>1, <1>4, WriteStep, FbTypeCorrect, PTL DEF Spec
<1> QED
    BY <1>2, <1>3, <1>4, <1>5, FbTypeCorrect, CountersHold, PTL
-----------------------------------------------------------------------------
(***************************************************************************)
(* The threads of a runner repeat each other: what a query is depends on   *)
(* its number only.                                                        *)
(***************************************************************************)
\* The draws of a query, and the k-th of them for query n of any thread.
Draws == IF Opt.bench = "MixGraph" THEN 1 ELSE IF Opt.bench = "ReadRandom" THEN 2 ELSE 3
Drawn(n, k) == stream[((Draws * n + k - 1) % Len(stream)) + 1] % Opt.num

\* Query n has this type and this text.
AskedFor(n, type, text) ==
    \/ /\ Opt.bench = "MixGraph" /\ KeyrangeNum = 0
       /\ type = GetType(Opt, Drawn(n, 1)) /\ text = GenerateKeyFromInt(GraphKey(Opt, Drawn(n, 1)))
    \/ /\ Opt.bench = "MixGraph" /\ KeyrangeNum > 0
       /\ type = GetType(Opt, Drawn(n, 1))
       /\ \E lo \in 0 .. KeyrangeNum - 1 :
            /\ start[lo] <= Drawn(n, 1) % KeyrangeRandMax
            /\ Drawn(n, 1) % KeyrangeRandMax < start[lo + 1]
            /\ text = GenerateKeyFromInt(DistGetKeyID(Opt, Drawn(n, 1), lo))
    \/ /\ Opt.bench = "ReadRandom"
       /\ type = "Get" /\ text = GenerateKeyFromInt(Drawn(n, 2))
    \/ /\ Opt.bench = "MixRandom"
       /\ type = GetType(Opt, Drawn(n, 1)) /\ text = GenerateKeyFromInt(Drawn(n, 3))

LEMMA AskedStays ==
    ASSUME UNCHANGED <<job, stream, weight, start>>, NEW n, NEW type, NEW text
    PROVE  /\ AskedFor(n, type, text)' = AskedFor(n, type, text)
           /\ Draws' = Draws /\ \A k : Drawn(n, k)' = Drawn(n, k)
    BY DEF AskedFor, Draws, Drawn, Opt, KeyrangeNum, KeyrangeRandMax

LEMMA DrawsTimes ==
    ASSUME NEW n \in Nat
    PROVE  /\ Draws \in {1, 2, 3} /\ Draws * n \in Nat
           /\ Draws * (n + 1) = Draws * n + Draws /\ Draws * 0 = 0
<1>1. Draws \in {1, 2, 3}
    BY DEF Draws
<1>2. PICK d : d = Draws
    OBVIOUS
<1>3. d \in {1, 2, 3} /\ d * n \in Nat /\ d * (n + 1) = d * n + d /\ d * 0 = 0
    BY <1>1, <1>2, SMT
<1> QED
    BY <1>1, <1>2, <1>3

LEMMA DrawnType ==
    ASSUME TypeOK, NEW n \in Nat, NEW k \in {1, 2, 3}
    PROVE  Drawn(n, k) \in 0 .. Opt.num - 1 /\ Drawn(n, k) \in Nat
<1>1. stream \in Seq(Nat) /\ stream # <<>> /\ Opt.num \in Nat \ {0}
    BY JobType, OptionType, FbBenchAssumption DEF TypeOK
<1>2. Len(stream) \in Nat \ {0}
    BY <1>1, SMT
<1>3. Draws * n + k - 1 \in Nat
    BY DrawsTimes, SMT
<1>4. (Draws * n + k - 1) % Len(stream) \in 0 .. Len(stream) - 1
    BY <1>2, <1>3, Quotient
<1>5. ((Draws * n + k - 1) % Len(stream)) + 1 \in 1 .. Len(stream)
    BY <1>2, <1>4, SMT
<1>6. stream[((Draws * n + k - 1) % Len(stream)) + 1] \in Nat
    BY <1>1, <1>5
<1>7. Drawn(n, k) \in 0 .. Opt.num - 1
    BY <1>1, <1>6, Quotient DEF Drawn
<1> QED
    BY <1>1, <1>7, SMT

\* One query only has a number.
LEMMA AskedOnce ==
    ASSUME TypeOK, KeyInv, NEW n \in Nat, NEW a, NEW x, NEW b, NEW y,
           AskedFor(n, a, x), AskedFor(n, b, y)
    PROVE  a = b /\ x = y
<1>1. "MixGraph" # "ReadRandom" /\ "MixGraph" # "MixRandom" /\ "ReadRandom" # "MixRandom"
    OBVIOUS
<1>2. CASE Opt.bench = "MixGraph" /\ KeyrangeNum > 0
    <2>0. KeyrangeNum \in Nat /\ KeyrangeNum # 0
        BY <1>2, LengthType, SMT
    <2>1. a = b
        BY <1>1, <1>2, <2>0 DEF AskedFor
    <2>2. PICK v : v = Drawn(n, 1) % KeyrangeRandMax
        OBVIOUS
    <2>3. PICK lo \in 0 .. KeyrangeNum - 1 :
            /\ start[lo] <= v /\ v < start[lo + 1]
            /\ x = GenerateKeyFromInt(DistGetKeyID(Opt, Drawn(n, 1), lo))
        BY <1>1, <1>2, <2>0, <2>2 DEF AskedFor
    <2>4. PICK hi \in 0 .. KeyrangeNum - 1 :
            /\ start[hi] <= v /\ v < start[hi + 1]
            /\ y = GenerateKeyFromInt(DistGetKeyID(Opt, Drawn(n, 1), hi))
        BY <1>1, <1>2, <2>0, <2>2 DEF AskedFor
    <2>5. v \in Nat
        <3>1. Drawn(n, 1) \in Nat /\ KeyrangeRandMax \in Nat \ {0}
            BY <1>2, DrawnType, StartFacts DEF KeyInv
        <3>2. v \in 0 .. KeyrangeRandMax - 1
            BY <2>2, <3>1, Quotient
        <3> QED
            BY <3>1, <3>2, SMT
    <2>6. ASSUME NEW i \in 0 .. KeyrangeNum - 1, NEW j \in 0 .. KeyrangeNum - 1,
                 v < start[i + 1], start[j] <= v
          PROVE  ~(i < j)
        <3> SUFFICES ASSUME i < j PROVE FALSE
            OBVIOUS
        <3>1. i + 1 \in 0 .. KeyrangeNum /\ j \in 0 .. KeyrangeNum /\ i + 1 <= j
            BY <2>0, SMT
        <3>2. start[i + 1] <= start[j] /\ start[i + 1] \in Nat /\ start[j] \in Nat
            BY <3>1, StartFacts DEF KeyInv
        <3> QED
            BY <2>5, <2>6, <3>2, SMT
    <2>7. ~(lo < hi) /\ ~(hi < lo)
        BY <2>3, <2>4, <2>6
    <2>8. lo = hi
        BY <2>0, <2>7, SMT
    <2> QED
        BY <2>1, <2>3, <2>4, <2>8
<1>3. CASE Opt.bench = "MixGraph" /\ ~(KeyrangeNum > 0)
    BY <1>1, <1>3 DEF AskedFor
<1>4. CASE Opt.bench # "MixGraph"
    BY <1>1, <1>4 DEF AskedFor
<1> QED
    BY <1>2, <1>3, <1>4

RepeatInv ==
    job.prog = "runner" => \A t \in Thread :
        /\ at[t] = IF pc[t] \in Busy THEN Draws * (iter[t] + 1) ELSE Draws * iter[t]
        /\ pc[t] = "search" =>
            /\ Opt.bench = "MixGraph" /\ KeyrangeNum > 0
            /\ query[t].ini = Drawn(iter[t], 1) /\ query[t].type = GetType(Opt, Drawn(iter[t], 1))
        /\ pc[t] \in Counting => AskedFor(iter[t], query[t].type, query[t].text)
        /\ \A d \in done[t] : \E x \in Text : AskedFor(d.n, d.type, x) /\ d.key = ConvertKeyToInt(x)

\* Steps that neither draw nor count nor begin another iteration.
LEMMA RepeatRest ==
    ASSUME RepeatInv, UNCHANGED <<job, stream, weight, start, at, query, done, iter>>,
           \A u \in Thread : /\ pc'[u] \in Busy <=> pc[u] \in Busy
                             /\ pc'[u] = "search" => pc[u] = "search"
                             /\ pc'[u] \in Counting => pc[u] \in Counting
    PROVE  RepeatInv'
<1>1. Opt' = Opt /\ KeyrangeNum' = KeyrangeNum
    BY DEF Opt, KeyrangeNum
<1>2. Draws' = Draws /\ \A n, k : Drawn(n, k)' = Drawn(n, k)
    BY AskedStays
<1>3. \A n, type, text : AskedFor(n, type, text)' = AskedFor(n, type, text)
    BY AskedStays
<1> QED
    BY <1>1, <1>2, <1>3 DEF RepeatInv

\* Thread t has another query, or has come to its key.
LEMMA RepeatOne ==
    ASSUME TypeOK, RepeatInv, job.prog = "runner", NEW t \in Thread,
           UNCHANGED <<job, stream, weight, start, done, iter>>,
           NEW q, NEW next \in {"search", "lock"},
           query' = [query EXCEPT ![t] = q], pc' = [pc EXCEPT ![t] = next],
           at'[t] = Draws * (iter[t] + 1), \A u \in Thread \ {t} : at'[u] = at[u],
           next = "search" => /\ Opt.bench = "MixGraph" /\ KeyrangeNum > 0
                              /\ q.ini = Drawn(iter[t], 1)
                              /\ q.type = GetType(Opt, Drawn(iter[t], 1)),
           next = "lock" => AskedFor(iter[t], q.type, q.text)
    PROVE  RepeatInv'
<1>1. Opt' = Opt /\ KeyrangeNum' = KeyrangeNum
    BY DEF Opt, KeyrangeNum
<1>2. Draws' = Draws /\ \A n, k : Drawn(n, k)' = Drawn(n, k)
    BY AskedStays
<1>3. \A n, type, text : AskedFor(n, type, text)' = AskedFor(n, type, text)
    BY AskedStays
<1>4. /\ query'[t] = q /\ pc'[t] = next
      /\ \A u \in Thread \ {t} : query'[u] = query[u] /\ pc'[u] = pc[u]
    BY DEF TypeOK
<1>5. next \in Busy /\ "search" \notin Counting
    BY DEF Busy, Counting
<1>6. ASSUME NEW u \in Thread \ {t}
      PROVE  /\ at'[u] = IF pc'[u] \in Busy THEN Draws' * (iter'[u] + 1) ELSE Draws' * iter'[u]
             /\ pc'[u] = "search" =>
                 /\ Opt'.bench = "MixGraph" /\ KeyrangeNum' > 0
                 /\ query'[u].ini = Drawn(iter[u], 1)' /\ query'[u].type = GetType(Opt', Drawn(iter[u], 1)')
             /\ pc'[u] \in Counting => AskedFor(iter[u], query'[u].type, query'[u].text)
    BY <1>1, <1>2, <1>4 DEF RepeatInv
<1>7. /\ at'[t] = IF pc'[t] \in Busy THEN Draws' * (iter'[t] + 1) ELSE Draws' * iter'[t]
      /\ pc'[t] = "search" =>
            /\ Opt'.bench = "MixGraph" /\ KeyrangeNum' > 0
            /\ query'[t].ini = Drawn(iter[t], 1)' /\ query'[t].type = GetType(Opt', Drawn(iter[t], 1)')
      /\ pc'[t] \in Counting => AskedFor(iter[t], query'[t].type, query'[t].text)
    BY <1>1, <1>2, <1>4, <1>5
<1>8. \A u \in Thread : \A d \in done'[u] :
        \E x \in Text : AskedFor(d.n, d.type, x)' /\ d.key = ConvertKeyToInt(x)
    BY <1>3 DEF RepeatInv
<1> QED
    BY <1>1, <1>2, <1>3, <1>6, <1>7, <1>8 DEF RepeatInv

\* A thread that draws is at the first draw of its query.
LEMMA RepeatDraws ==
    ASSUME TypeOK, RepeatInv, job.prog = "runner", NEW t \in Thread, pc[t] = "loop"
    PROVE  /\ iter[t] \in Nat /\ at[t] = Draws * iter[t]
           /\ at[t] + Draws = Draws * (iter[t] + 1)
           /\ \A k : RandomKey(t, k) = {Drawn(iter[t], k)}
<1>1. iter[t] \in Nat
    BY DEF TypeOK
<1>2. at[t] = Draws * iter[t]
    BY DEF RepeatInv, Busy
<1>3. at[t] + Draws = Draws * (iter[t] + 1)
    BY <1>1, <1>2, DrawsTimes
<1>4. \A k : RandomKey(t, k) = {Drawn(iter[t], k)}
    BY <1>2 DEF RandomKey, Drawn
<1> QED
    BY <1>1, <1>2, <1>3, <1>4

LEMMA RepeatAsk ==
    ASSUME TypeOK, RepeatInv, job.prog = "runner", NEW t \in Thread,
           MixGraph(t) \/ MixGraphPrefix(t) \/ ReadRandom(t) \/ MixRandom(t)
    PROVE  RepeatInv'
<1>1. pc[t] = "loop"
    BY DEF MixGraph, MixGraphPrefix, ReadRandom, MixRandom, Ask
<1>2. /\ at[t] + Draws = Draws * (iter[t] + 1)
      /\ \A k : RandomKey(t, k) = {Drawn(iter[t], k)}
    BY <1>1, RepeatDraws
<1>3. ASSUME NEW q, NEW next \in {"search", "lock"}, Ask(t, Draws, q, next),
             next = "search" => /\ Opt.bench = "MixGraph" /\ KeyrangeNum > 0
                                /\ q.ini = Drawn(iter[t], 1)
                                /\ q.type = GetType(Opt, Drawn(iter[t], 1)),
             next = "lock" => AskedFor(iter[t], q.type, q.text)
      PROVE  RepeatInv'
    <2>1. /\ UNCHANGED <<job, stream, weight, start, done, iter>>
          /\ query' = [query EXCEPT ![t] = q] /\ pc' = [pc EXCEPT ![t] = next]
          /\ at' = [at EXCEPT ![t] = @ + Draws]
        BY <1>3 DEF Ask
    <2>2. at'[t] = Draws * (iter[t] + 1) /\ \A u \in Thread \ {t} : at'[u] = at[u]
        BY <1>2, <2>1 DEF TypeOK
    <2> QED
        BY <1>3, <2>1, <2>2, RepeatOne
<1>4. CASE MixGraph(t)
    <2>1. Opt.bench = "MixGraph" /\ KeyrangeNum = 0 /\ Draws = 1
        BY <1>4 DEF MixGraph, Draws
    <2>2. PICK ini : /\ ini = Drawn(iter[t], 1)
                     /\ Ask(t, 1, Query(GetType(Opt, ini), GraphKey(Opt, ini)), "lock")
        BY <1>2, <1>4 DEF MixGraph
    <2>3. PICK q : q = Query(GetType(Opt, ini), GraphKey(Opt, ini))
        OBVIOUS
    <2>4. q.type = GetType(Opt, ini) /\ q.text = GenerateKeyFromInt(GraphKey(Opt, ini))
        BY <2>3, QueryIs
    <2>5. AskedFor(iter[t], q.type, q.text)
        BY <2>1, <2>2, <2>4 DEF AskedFor
    <2>6. Ask(t, Draws, q, "lock")
        BY <2>1, <2>2, <2>3
    <2> QED
        BY <1>3, <2>5, <2>6
<1>5. CASE MixGraphPrefix(t)
    <2>1. Opt.bench = "MixGraph" /\ KeyrangeNum > 0 /\ Draws = 1
        BY <1>5 DEF MixGraphPrefix, Draws
    <2>2. PICK ini : /\ ini = Drawn(iter[t], 1)
                     /\ Ask(t, 1, [NoQuery EXCEPT !.ini = ini, !.hi = KeyrangeNum,
                                                  !.type = GetType(Opt, ini)], "search")
        BY <1>2, <1>5 DEF MixGraphPrefix
    <2>3. PICK q : q = [NoQuery EXCEPT !.ini = ini, !.hi = KeyrangeNum, !.type = GetType(Opt, ini)]
        OBVIOUS
    <2>4. q = [ini |-> ini, lo |-> 0, hi |-> KeyrangeNum, type |-> GetType(Opt, ini), text |-> 0]
        BY <2>3, PrefixQuery
    <2>5. q.ini = ini /\ q.type = GetType(Opt, ini)
        BY <2>4
    <2>6. Ask(t, Draws, q, "search")
        BY <2>1, <2>2, <2>3
    <2> QED
        BY <1>3, <2>1, <2>2, <2>5, <2>6
<1>6. CASE ReadRandom(t)
    <2>1. Opt.bench = "ReadRandom" /\ Draws = 2
        BY <1>6 DEF ReadRandom, Draws
    <2>2. PICK k : k = Drawn(iter[t], 2) /\ Ask(t, 2, Query("Get", k), "lock")
        BY <1>2, <1>6 DEF ReadRandom
    <2>3. PICK q : q = Query("Get", k)
        OBVIOUS
    <2>4. q.type = "Get" /\ q.text = GenerateKeyFromInt(k)
        BY <2>3, QueryIs
    <2>5. AskedFor(iter[t], q.type, q.text)
        BY <2>1, <2>2, <2>4 DEF AskedFor
    <2>6. Ask(t, Draws, q, "lock")
        BY <2>1, <2>2, <2>3
    <2> QED
        BY <1>3, <2>5, <2>6
<1>7. CASE MixRandom(t)
    <2>1. Opt.bench = "MixRandom" /\ Draws = 3
        BY <1>7 DEF MixRandom, Draws
    <2>2. PICK ini, k : /\ ini = Drawn(iter[t], 1) /\ k = Drawn(iter[t], 3)
                        /\ Ask(t, 3, Query(GetType(Opt, ini), k), "lock")
        BY <1>2, <1>7 DEF MixRandom
    <2>3. PICK q : q = Query(GetType(Opt, ini), k)
        OBVIOUS
    <2>4. q.type = GetType(Opt, ini) /\ q.text = GenerateKeyFromInt(k)
        BY <2>3, QueryIs
    <2>5. AskedFor(iter[t], q.type, q.text)
        BY <2>1, <2>2, <2>4 DEF AskedFor
    <2>6. Ask(t, Draws, q, "lock")
        BY <2>1, <2>2, <2>3
    <2> QED
        BY <1>3, <2>5, <2>6
<1> QED
    BY <1>4, <1>5, <1>6, <1>7

\* The search keeps the draw, and the key it ends with is that of the draw.
LEMMA RepeatSearch ==
    ASSUME TypeOK, KeyInv, RepeatInv, job.prog = "runner", NEW t \in Thread,
           Search(t) \/ ChooseKey(t)
    PROVE  RepeatInv'
<1> DEFINE q == query[t]
           mid == q.lo + ((q.hi - q.lo) \div 2)
           text == GenerateKeyFromInt(DistGetKeyID(Opt, q.ini, q.lo))
<1>1. pc[t] = "search"
    BY DEF Search, ChooseKey
<1>2. /\ Opt.bench = "MixGraph" /\ KeyrangeNum > 0 /\ q.ini = Drawn(iter[t], 1)
      /\ q.type = GetType(Opt, Drawn(iter[t], 1)) /\ at[t] = Draws * (iter[t] + 1)
    BY <1>1 DEF RepeatInv, Busy
<1>3. ASSUME NEW r, NEW next \in {"search", "lock"}, Think(t, r, next),
             r.ini = q.ini, r.type = q.type,
             next = "lock" => AskedFor(iter[t], r.type, r.text)
      PROVE  RepeatInv'
    <2>1. /\ UNCHANGED <<job, stream, weight, start, done, iter, at>>
          /\ query' = [query EXCEPT ![t] = r] /\ pc' = [pc EXCEPT ![t] = next]
        BY <1>3 DEF Think
    <2> QED
        BY <1>2, <1>3, <2>1, RepeatOne
<1>4. q \in QueryType
    BY DEF TypeOK
<1> HIDE DEF q, mid, text
<1>5. CASE Search(t)
    <2>1. PICK r \in {[q EXCEPT !.hi = mid], [q EXCEPT !.lo = mid]} : Think(t, r, "search")
        BY <1>5 DEF Search, q, mid
    <2>2. r.ini = q.ini /\ r.type = q.type
        BY <1>4, <2>1 DEF QueryType
    <2> QED
        BY <1>3, <2>1, <2>2
<1>6. CASE ChooseKey(t)
    <2>1. PICK r : r = [q EXCEPT !.text = text]
        OBVIOUS
    <2>2. Think(t, r, "lock")
        BY <1>6, <2>1 DEF ChooseKey, q, text
    <2>3. r.ini = q.ini /\ r.type = q.type /\ r.text = text
        BY <1>4, <2>1 DEF QueryType
    <2>4. q.hi = q.lo + 1 /\ q.lo \in 0 .. KeyrangeNum - 1
        <3>1. q.lo + 1 >= q.hi /\ q.lo < q.hi /\ KeyrangeNum \in Nat
            BY <1>6, LengthType DEF TypeOK, ChooseKey, q
        <3>2. q.lo \in 0 .. KeyrangeNum /\ q.hi \in 0 .. KeyrangeNum
            BY <1>4 DEF QueryType
        <3> QED
            BY <3>1, <3>2, SMT
    <2>5. start[q.lo] <= q.ini % KeyrangeRandMax /\ q.ini % KeyrangeRandMax < start[q.lo + 1]
        BY <1>1, <2>4 DEF KeyInv, Bracketed, q
    <2>6. AskedFor(iter[t], r.type, r.text)
        BY <1>2, <2>3, <2>4, <2>5 DEF AskedFor, text
    <2> QED
        BY <1>3, <2>2, <2>3, <2>6
<1> QED
    BY <1>5, <1>6

LEMMA RepeatWrite ==
    ASSUME TypeOK, RepeatInv, job.prog = "runner", NEW t \in Thread, WriteCounters(t)
    PROVE  RepeatInv'
<1>0. PICK d : d = [by |-> t, n |-> iter[t], type |-> query[t].type,
                    key |-> ConvertKeyToInt(query[t].text)]
    OBVIOUS
<1>1. /\ UNCHANGED <<job, stream, weight, start, at, query, iter>>
      /\ pc[t] = "write" /\ pc' = [pc EXCEPT ![t] = "unlock"]
      /\ done' = [done EXCEPT ![Own(t)] = @ \cup {d}]
    BY <1>0 DEF WriteCounters
<1>2. Own(t) = t /\ query[t].text \in Text
    BY QueryFields DEF Own
<1>3. \A u \in Thread : /\ pc'[u] = IF u = t THEN "unlock" ELSE pc[u]
                        /\ done'[u] = IF u = t THEN done[u] \cup {d} ELSE done[u]
    BY <1>1, <1>2 DEF TypeOK
<1>4. Opt' = Opt /\ KeyrangeNum' = KeyrangeNum
    BY <1>1 DEF Opt, KeyrangeNum
<1>5. Draws' = Draws /\ \A n, k : Drawn(n, k)' = Drawn(n, k)
    BY <1>1, AskedStays
<1>6. \A n, type, text : AskedFor(n, type, text)' = AskedFor(n, type, text)
    BY <1>1, AskedStays
<1>7. d.n = iter[t] /\ d.type = query[t].type /\ d.key = ConvertKeyToInt(query[t].text)
    BY <1>0
<1>8. AskedFor(iter[t], query[t].type, query[t].text)
    BY <1>1 DEF RepeatInv, Counting
<1>9. \A u \in Thread : \A e \in done'[u] :
        \E x \in Text : AskedFor(e.n, e.type, x) /\ e.key = ConvertKeyToInt(x)
    <2> TAKE u \in Thread
    <2> TAKE e \in done'[u]
    <2>1. e \in done[u] \/ e = d
        BY <1>3
    <2>2. CASE e = d
        BY <1>2, <1>7, <1>8, <2>2
    <2>3. CASE e \in done[u]
        BY <2>3 DEF RepeatInv
    <2> QED
        BY <2>1, <2>2, <2>3
<1>10. \A u \in Thread : /\ pc'[u] \in Busy <=> pc[u] \in Busy
                         /\ pc'[u] = "search" => pc[u] = "search"
                         /\ pc'[u] \in Counting => pc[u] \in Counting
    BY <1>1, <1>3 DEF Busy, Counting
<1> QED
    BY <1>1, <1>4, <1>5, <1>6, <1>9, <1>10 DEF RepeatInv

LEMMA RepeatBook ==
    ASSUME TypeOK, RepeatInv, job.prog = "runner", NEW t \in Thread, NEW ok \in BOOLEAN, Book(t, ok)
    PROVE  RepeatInv'
<1>1. /\ UNCHANGED <<job, stream, weight, start, at, query, done>>
      /\ pc[t] = "call" /\ pc' = [pc EXCEPT ![t] = "loop"] /\ iter' = [iter EXCEPT ![t] = @ + 1]
    BY DEF Book, benchVars
<1>2. /\ pc'[t] = "loop" /\ iter'[t] = iter[t] + 1
      /\ \A u \in Thread \ {t} : pc'[u] = pc[u] /\ iter'[u] = iter[u]
    BY <1>1 DEF TypeOK
<1>3. Opt' = Opt /\ KeyrangeNum' = KeyrangeNum
    BY <1>1 DEF Opt, KeyrangeNum
<1>4. Draws' = Draws /\ \A n, k : Drawn(n, k)' = Drawn(n, k)
    BY <1>1, AskedStays
<1>5. \A n, type, text : AskedFor(n, type, text)' = AskedFor(n, type, text)
    BY <1>1, AskedStays
<1>6. at[t] = Draws * (iter[t] + 1) /\ "loop" \notin Busy /\ "loop" \notin Counting /\ "loop" # "search"
    BY <1>1 DEF RepeatInv, Busy, Counting
<1> QED
    BY <1>1, <1>2, <1>3, <1>4, <1>5, <1>6 DEF RepeatInv

LEMMA RepeatStep == TypeOK /\ KeyInv /\ HistoryInv /\ RepeatInv /\ [Next]_vars => RepeatInv'
<1> SUFFICES ASSUME TypeOK, KeyInv, HistoryInv, RepeatInv, [Next]_vars, job.prog = "runner"
             PROVE  RepeatInv'
    BY JobStays DEF RepeatInv
<1>1. CASE Join \/ Report \/ StatusReport \/ UNCHANGED vars
    <2>1. UNCHANGED <<job, stream, weight, start, at, query, done, iter, pc>>
        BY <1>1 DEF Join, Report, StatusReport, benchVars, vars
    <2> QED
        BY <2>1, RepeatRest
<1>2. CASE Spawn
    <2>1. /\ UNCHANGED <<job, stream, weight, start, at, query, done, iter>>
          /\ pc' = [pc EXCEPT ![mi] = "loop"] /\ main = "spawn"
        BY <1>2 DEF Spawn, Advance, benchVars
    <2>2. pc[mi] = "unborn"
        <3>1. mi \in Thread /\ mi >= mi
            BY LoopThread, FbBenchAssumption, SMT DEF Thread
        <3> QED
            BY <2>1, <3>1 DEF HistoryInv
    <2>3. \A u \in Thread : pc'[u] = IF u = mi THEN "loop" ELSE pc[u]
        BY <2>1 DEF TypeOK
    <2>4. \A u \in Thread : /\ pc'[u] \in Busy <=> pc[u] \in Busy
                            /\ pc'[u] = "search" => pc[u] = "search"
                            /\ pc'[u] \in Counting => pc[u] \in Counting
        BY <2>2, <2>3 DEF Busy, Counting
    <2> QED
        BY <2>1, <2>4, RepeatRest
<1>3. ASSUME NEW t \in Thread, ThreadStep(t) PROVE RepeatInv'
    <2>1. CASE MixGraph(t) \/ MixGraphPrefix(t) \/ ReadRandom(t) \/ MixRandom(t)
        BY <2>1, RepeatAsk
    <2>2. CASE Search(t) \/ ChooseKey(t)
        BY <2>2, RepeatSearch
    <2>3. CASE Lock(t) \/ ReadCounters(t) \/ Unlock(t) \/ Finish(t)
        <3>1. /\ UNCHANGED <<job, stream, weight, start, at, query, done, iter>>
              /\ \/ pc[t] = "lock" /\ pc' = [pc EXCEPT ![t] = "read"]
                 \/ pc[t] = "read" /\ pc' = [pc EXCEPT ![t] = "write"]
                 \/ pc[t] = "unlock" /\ pc' = [pc EXCEPT ![t] = "call"]
                 \/ pc[t] = "loop" /\ pc' = [pc EXCEPT ![t] = "finished"]
            BY <2>3 DEF Lock, ReadCounters, Unlock, Finish, benchVars
        <3>2. \A u \in Thread : /\ pc'[u] \in Busy <=> pc[u] \in Busy
                                /\ pc'[u] = "search" => pc[u] = "search"
                                /\ pc'[u] \in Counting => pc[u] \in Counting
            BY <3>1 DEF TypeOK, Busy, Counting
        <3> QED
            BY <3>1, <3>2, RepeatRest
    <2>4. CASE WriteCounters(t)
        BY <2>4, RepeatWrite
    <2>5. CASE DoPut(t) \/ DoGet(t) \/ DoSeek(t)
        BY <2>5, CallsBook, RepeatBook
    <2> QED
        BY <1>3, <2>1, <2>2, <2>3, <2>4, <2>5 DEF ThreadStep
<1> QED
    BY <1>1, <1>2, <1>3 DEF Next, MainStep, Terminated

LEMMA InitRepeat == Init => RepeatInv
<1> SUFFICES ASSUME Init PROVE RepeatInv
    OBVIOUS
<1>1. \A t \in Thread : pc[t] = "unborn" /\ iter[t] = 0 /\ at[t] = 0 /\ done[t] = {}
    BY DEF Init, PerThread, FreshStart
<1>2. Draws * 0 = 0
    BY DrawsTimes
<1> QED
    BY <1>1, <1>2 DEF RepeatInv, Busy, Counting

\* Two queries with one number are the same.
LEMMA SameQuery ==
    ASSUME TypeOK, KeyInv, RepeatInv, job.prog = "runner",
           NEW t \in Thread, NEW u \in Thread, NEW d \in done[t], NEW e \in done[u], d.n = e.n
    PROVE  d.type = e.type /\ d.key = e.key
<1>1. PICK x \in Text : AskedFor(d.n, d.type, x) /\ d.key = ConvertKeyToInt(x)
    BY DEF RepeatInv
<1>2. PICK y \in Text : AskedFor(e.n, e.type, y) /\ e.key = ConvertKeyToInt(y)
    BY DEF RepeatInv
<1>3. d.n \in Nat
    BY PastType
<1>4. d.type = e.type /\ x = y
    BY <1>1, <1>2, <1>3, AskedOnce
<1> QED
    BY <1>1, <1>2, <1>4
-----------------------------------------------------------------------------
\* The store has the keys that were put, and no other.
StoreInv ==
    job.prog = "runner" =>
        /\ \A k \in DOMAIN db : \E t \in Thread : k \in KeysPut(t)
        /\ "write" \notin Faults => \A t \in Thread : KeysPut(t) \subseteq DOMAIN db

\* A key is put when a thread has counted a Put of it and gone on.
LEMMA PutIs ==
    ASSUME NEW t \in Thread, NEW k
    PROVE  k \in KeysPut(t) <=>
            \E d \in done[t] : d.n < iter[t] /\ d.type = "Put" /\ k = GenerateKeyFromInt(d.key)
    BY DEF KeysPut, Sent

\* What a thread calls the store with is what it has just counted.
LEMMA CalledIs ==
    ASSUME TypeOK, KeyInv, DoneInv, RepeatInv, job.prog = "runner", NEW t \in Thread, pc[t] = "call"
    PROVE  /\ \E d \in done[t] : d.n = iter[t]
           /\ \A d \in done[t] : d.n = iter[t] =>
                d.type = query[t].type /\ GenerateKeyFromInt(d.key) = query[t].text
<1>1. Own(t) = t /\ iter[t] \in Nat
    BY DEF Own, TypeOK
<1>2. \E d \in done[t] : d.n = iter[t]
    BY <1>1 DEF DoneInv, Counted
<1>3. ASSUME NEW d \in done[t], d.n = iter[t]
      PROVE  d.type = query[t].type /\ GenerateKeyFromInt(d.key) = query[t].text
    <2>1. PICK x \in Text : AskedFor(d.n, d.type, x) /\ d.key = ConvertKeyToInt(x)
        BY DEF RepeatInv
    <2>2. AskedFor(iter[t], query[t].type, query[t].text)
        BY DEF RepeatInv, Counting
    <2>3. d.type = query[t].type /\ x = query[t].text
        BY <1>1, <1>3, <2>1, <2>2, AskedOnce
    <2> QED
        BY <2>1, <2>3, TextType
<1> QED
    BY <1>2, <1>3

LEMMA StoreBook ==
    ASSUME TypeOK, KeyInv, DoneInv, RepeatInv, StoreInv, job.prog = "runner", NEW t \in Thread,
           DoPut(t) \/ DoGet(t) \/ DoSeek(t)
    PROVE  StoreInv'
<1>1. PICK ok \in BOOLEAN : Book(t, ok)
    BY CallsBook
<1>2. /\ UNCHANGED <<job, done>> /\ pc[t] = "call" /\ iter[t] \in Nat
      /\ iter'[t] = iter[t] + 1 /\ \A u \in Thread \ {t} : iter'[u] = iter[u]
    BY <1>1 DEF Book, benchVars, TypeOK
<1>3. \A d \in done[t] : d.n \in Nat /\ (d.n < iter'[t] <=> d.n < iter[t] \/ d.n = iter[t])
    <2>1. \A d \in done[t] : d.n \in Nat
        BY PastType
    <2>2. \A n \in Nat : n < iter[t] + 1 <=> n < iter[t] \/ n = iter[t]
        BY <1>2, SMT
    <2> QED
        BY <1>2, <2>1, <2>2
<1>4. \A u \in Thread \ {t} : \A k : k \in KeysPut(u)' <=> k \in KeysPut(u)
    BY <1>2 DEF KeysPut, Sent
<1>5. \A k : k \in KeysPut(t)' <=>
            k \in KeysPut(t) \/ (query[t].type = "Put" /\ k = query[t].text)
    <2> TAKE k
    <2>1. k \in KeysPut(t)' <=>
            \E d \in done[t] : d.n < iter'[t] /\ d.type = "Put" /\ k = GenerateKeyFromInt(d.key)
        BY <1>2 DEF KeysPut, Sent
    <2>2. /\ \E d \in done[t] : d.n = iter[t]
          /\ \A d \in done[t] : d.n = iter[t] =>
                d.type = query[t].type /\ GenerateKeyFromInt(d.key) = query[t].text
        BY <1>2, CalledIs
    <2> QED
        BY <1>3, <2>1, <2>2, PutIs
<1>6. \/ DOMAIN db' = DOMAIN db
      \/ query[t].type = "Put" /\ DOMAIN db' = DOMAIN db \cup {query[t].text}
    <2>1. CASE DoGet(t) \/ DoSeek(t)
        BY <2>1 DEF DoGet, DoSeek
    <2>2. CASE DoPut(t)
        <3>1. PICK s : s = Stored(db, query[t].text, Value0(Opt.value))
            OBVIOUS
        <3>2. DOMAIN s = DOMAIN db \cup {query[t].text}
            BY <3>1 DEF Stored
        <3>3. PICK out \in PutOutcomes(db, query[t].text, Value0(Opt.value)) : db' = out.db
            BY <2>2 DEF DoPut
        <3>4. out.db \in {db, s}
            BY <3>1, <3>3 DEF PutOutcomes
        <3> QED
            BY <2>2, <3>2, <3>3, <3>4 DEF DoPut
    <2> QED
        BY <2>1, <2>2
<1>7. ASSUME "write" \notin Faults, query[t].type = "Put"
      PROVE  query[t].text \in DOMAIN db'
    <2>1. DoPut(t)
        BY <1>7 DEF DoGet, DoSeek
    <2>2. db' = Stored(db, query[t].text, Value0(Opt.value))
        BY <1>7, <2>1 DEF DoPut, PutOutcomes
    <2> QED
        BY <2>2 DEF Stored
<1>8. ASSUME NEW k \in DOMAIN db' PROVE \E u \in Thread : k \in KeysPut(u)'
    <2>1. CASE k \in DOMAIN db
        BY <1>4, <1>5, <2>1 DEF StoreInv
    <2>2. CASE k \notin DOMAIN db
        BY <1>5, <1>6, <1>8, <2>2
    <2> QED
        BY <2>1, <2>2
<1>9. ASSUME "write" \notin Faults, NEW u \in Thread, NEW k, k \in KeysPut(u)'
      PROVE  k \in DOMAIN db'
    <2>1. k \in KeysPut(u) \/ (query[t].type = "Put" /\ k = query[t].text)
        BY <1>4, <1>5, <1>9
    <2>2. CASE k \in KeysPut(u)
        BY <1>6, <1>9, <2>2 DEF StoreInv
    <2> QED
        BY <1>7, <1>9, <2>1, <2>2
<1> QED
    BY <1>2, <1>8, <1>9 DEF StoreInv

LEMMA StoreStep ==
    TypeOK /\ KeyInv /\ DoneInv /\ RepeatInv /\ StoreInv /\ [Next]_vars => StoreInv'
<1> SUFFICES ASSUME TypeOK, KeyInv, DoneInv, RepeatInv, StoreInv, [Next]_vars, job.prog = "runner"
             PROVE  StoreInv'
    BY JobStays DEF StoreInv
<1>0. job' = job
    BY JobStays
<1>1. ASSUME UNCHANGED db, \A u \in Thread : KeysPut(u)' = KeysPut(u)
      PROVE  StoreInv'
    BY <1>0, <1>1 DEF StoreInv
<1>2. CASE UNCHANGED <<iter, done, db>>
    BY <1>1, <1>2 DEF KeysPut, Sent
<1>3. CASE MainStep \/ UNCHANGED vars
    BY <1>2, <1>3 DEF MainStep, Spawn, Join, Report, StatusReport, benchVars, runVars, vars
<1>4. ASSUME NEW t \in Thread, ThreadStep(t) PROVE StoreInv'
    <2>1. CASE MixGraph(t) \/ MixGraphPrefix(t) \/ ReadRandom(t) \/ MixRandom(t)
        BY <1>2, <2>1 DEF MixGraph, MixGraphPrefix, ReadRandom, MixRandom, Ask, runVars
    <2>2. CASE Search(t) \/ ChooseKey(t)
        BY <1>2, <2>2 DEF Search, ChooseKey, Think, runVars
    <2>3. CASE Lock(t) \/ ReadCounters(t) \/ Unlock(t) \/ Finish(t)
        BY <1>2, <2>3 DEF Lock, ReadCounters, Unlock, Finish, benchVars, runVars
    <2>4. CASE WriteCounters(t)
        <3>0. PICK d : d = [by |-> t, n |-> iter[t], type |-> query[t].type,
                            key |-> ConvertKeyToInt(query[t].text)]
            OBVIOUS
        <3>1. /\ UNCHANGED <<iter, db>> /\ done' = [done EXCEPT ![Own(t)] = @ \cup {d}]
            BY <2>4, <3>0 DEF WriteCounters, runVars
        <3>2. Own(t) = t /\ iter[t] \in Nat
            BY DEF Own, TypeOK
        <3>3. ~(d.n < iter[t])
            BY <3>0, <3>2, SMT
        <3>4. \A u \in Thread : done'[u] = IF u = t THEN done[u] \cup {d} ELSE done[u]
            BY <3>1, <3>2 DEF TypeOK
        <3>5. \A u \in Thread : Sent(u)' = Sent(u)
            BY <3>1, <3>3, <3>4 DEF Sent
        <3>6. \A u \in Thread : KeysPut(u)' = KeysPut(u)
            BY <3>5 DEF KeysPut
        <3> QED
            BY <1>1, <3>1, <3>6
    <2>5. CASE DoPut(t) \/ DoGet(t) \/ DoSeek(t)
        BY <2>5, StoreBook
    <2> QED
        BY <1>4, <2>1, <2>2, <2>3, <2>4, <2>5 DEF ThreadStep
<1> QED
    BY <1>3, <1>4 DEF Next, Terminated

\* fb_bench.h, whose FBBench drops its seed: any two threads of a runner make the
\* same queries in the same order, and the store has what the first of them put.
THEOREM RunsRepeat == Spec => []ThreadsRepeat
<1>1. Init => StoreInv
    <2> SUFFICES ASSUME Init PROVE StoreInv
        OBVIOUS
    <2>1. DOMAIN db = {} /\ \A t \in Thread : done[t] = {}
        BY DEF Init, PerThread
    <2>2. \A t \in Thread : \A k : k \notin KeysPut(t)
        BY <2>1, PutIs
    <2> QED
        BY <2>1, <2>2 DEF StoreInv
<1>2. TypeOK /\ KeyInv /\ DoneInv /\ RepeatInv /\ StoreInv => ThreadsRepeat
    <2> SUFFICES ASSUME TypeOK, KeyInv, DoneInv, RepeatInv, StoreInv, job.prog = "runner"
                 PROVE  /\ \A t, u \in Thread : \A d \in done[t], e \in done[u] :
                            d.n = e.n => d.type = e.type /\ d.key = e.key
                        /\ \A t \in Thread : (\A u \in Thread : iter[u] <= iter[t]) =>
                            DOMAIN db \subseteq KeysPut(t)
                            /\ ("write" \notin Faults => KeysPut(t) \subseteq DOMAIN db)
        BY DEF ThreadsRepeat
    <2>1. \A t, u \in Thread : \A d \in done[t], e \in done[u] :
            d.n = e.n => d.type = e.type /\ d.key = e.key
        BY SameQuery
    <2>2. ASSUME NEW t \in Thread, \A u \in Thread : iter[u] <= iter[t], NEW k \in DOMAIN db
          PROVE  k \in KeysPut(t)
        <3>1. PICK u \in Thread : k \in KeysPut(u)
            BY <2>2 DEF StoreInv
        <3>2. PICK d \in done[u] : d.n < iter[u] /\ d.type = "Put" /\ k = GenerateKeyFromInt(d.key)
            BY <3>1, PutIs
        <3>3. d.n \in Nat /\ d.n < iter[t]
            <4>1. d.n \in Nat /\ iter[u] \in Nat /\ iter[t] \in Nat /\ iter[u] <= iter[t]
                BY <2>2, PastType DEF TypeOK
            <4> QED
                BY <3>2, <4>1, SMT
        <3>4. Own(t) = t
            BY DEF Own
        <3>5. PICK e \in done[t] : e.n = d.n
            BY <3>3, <3>4 DEF DoneInv, Counted
        <3>6. e.type = "Put" /\ e.key = d.key
            BY <2>1, <3>2, <3>5
        <3> QED
            BY <3>2, <3>3, <3>5, <3>6, PutIs
    <2>3. "write" \notin Faults => \A t \in Thread : KeysPut(t) \subseteq DOMAIN db
        BY DEF StoreInv
    <2> QED
        BY <2>1, <2>2, <2>3
<1>3. Spec => [](MutexInv /\ HistoryInv)
    BY InitHistory, MutexStep, HistoryStep, FbTypeCorrect, PTL DEF Spec
<1>4. Spec => [](DoneInv /\ RepeatInv)
    BY <1>3, InitDone, DoneStep, InitRepeat, RepeatStep, KeysHold, FbTypeCorrect, PTL DEF Spec
<1>5. Spec => []StoreInv
    BY <1>1, <1>4, StoreStep, KeysHold, FbTypeCorrect, PTL DEF Spec
<1> QED
    BY <1>2, <1>4, <1>5, KeysHold, FbTypeCorrect, PTL
=============================================================================
