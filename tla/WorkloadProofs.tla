--------------------------- MODULE WorkloadProofs ---------------------------
(***************************************************************************)
(* Proofs about WorkloadGenerator, for every set of campaigns, number of   *)
(* threads, size and value length, and whether or not the store fails: the *)
(* arithmetic of YcsbSizing, the types of the variables, who has which     *)
(* keys, and that the files of a job say what its threads did.  Hence      *)
(* WorkloadGenerator implements BenchmarkRun.                              *)
(***************************************************************************)
EXTENDS WorkloadRefinement, Counting

\* One more factor adds one summand.
LEMMA TimesNext ==
    ASSUME NEW a \in Nat, NEW c \in Nat
    PROVE  a * c \in Nat /\ (a + 1) * c = a * c + c
    BY SMT

\* Integer division: the quotient is the largest number whose product with
\* the divisor stays within the dividend.
LEMMA QuotientBounds ==
    ASSUME NEW a \in Nat, NEW b \in Nat \ {0}
    PROVE  /\ a \div b \in Nat
           /\ (a \div b) * b <= a
           /\ a < (a \div b + 1) * b
<1>1. a \div b \in Nat /\ a % b \in 0 .. b - 1 /\ a = (a \div b) * b + (a % b)
    BY Quotient
<1>2. (a \div b + 1) * b = (a \div b) * b + b
    BY <1>1, SMT
<1> QED
    BY <1>1, <1>2, SMT

LEMMA QuotientLargest ==
    ASSUME NEW a \in Nat, NEW b \in Nat \ {0}, NEW c \in Nat, c * b <= a
    PROVE  c <= a \div b
<1>1. SUFFICES ASSUME c >= a \div b + 1 PROVE FALSE
    BY QuotientBounds, SMT
<1>2. (a \div b + 1) * b <= c * b
    BY <1>1, QuotientBounds, TimesMonotone
<1> QED
    BY <1>2, QuotientBounds, SMT

\* Dividing by a positive number does not increase.
LEMMA QuotientAtMost ==
    ASSUME NEW a \in Nat, NEW b \in Nat \ {0}
    PROVE  a \div b <= a
<1>1. a \div b \in Nat /\ (a \div b) * b <= a
    BY QuotientBounds
<1>2. 1 * (a \div b) <= b * (a \div b)
    BY <1>1, TimesMonotone
<1>3. b * (a \div b) = (a \div b) * b
    BY <1>1, SMT
<1> QED
    BY <1>1, <1>2, <1>3, SMT

\* The remainder is smaller than the divisor and at most the dividend.
LEMMA Remainder ==
    ASSUME NEW a \in Nat, NEW b \in Nat \ {0}
    PROVE  a % b \in Nat /\ a % b < b /\ a % b <= a
<1>1. a = b * (a \div b) + (a % b) /\ a % b \in 0 .. b - 1
    BY SMT
<1>2. a \div b \in Nat
    BY QuotientBounds
<1>3. b * (a \div b) >= 0
    BY <1>2, SMT
<1> QED
    BY <1>1, <1>2, <1>3, SMT

\* Storing a natural number in an int keeps it or makes it smaller: it may
\* wrap to a negative count, never to a larger one.
LEMMA ToIntAtMost ==
    ASSUME NEW n \in Nat
    PROVE  ToInt(n) \in Int /\ ToInt(n) <= n
<1>1. 2 * (IntMax + 1) \in Nat \ {0}
    BY SizingAssumption, SMT
<1>2. /\ n % (2 * (IntMax + 1)) \in Nat
      /\ n % (2 * (IntMax + 1)) <= n
    BY <1>1, Remainder
<1> QED
    BY <1>1, <1>2, SMT DEF ToInt

\* The fields of a job and the sizes computed from it are numbers.
LEMMA JobSizes ==
    ASSUME NEW j \in Job
    PROVE  /\ j.threads \in 1 .. MaxThreads /\ j.dbsize \in Nat /\ j.testsize \in Nat
           /\ KeyRange(j) \in Nat \ {0}
           /\ EachRange(j) \in Nat
           /\ j.threads * EachRange(j) <= KeyRange(j)
           /\ DataSize(j) \in Nat
           /\ OpCount(j) \in Int
<1>1. /\ j.threads \in Nat \ {0} /\ j.threads \in 1 .. MaxThreads
      /\ j.dbsize \in Nat /\ j.testsize \in Nat /\ j.dbsize >= ValueLength
    BY SizingAssumption, SMT DEF Job
<1>2. ValueLength \in Nat \ {0} /\ ValueLength * j.threads \in Nat \ {0}
    BY <1>1, SizingAssumption, SMT
<1>3. KeyRange(j) \in Nat \ {0}
    <2>1. 1 * ValueLength <= j.dbsize
        BY <1>1, <1>2, SMT
    <2>2. 1 <= j.dbsize \div ValueLength
        BY <1>1, <1>2, <2>1, QuotientLargest
    <2>3. j.dbsize \div ValueLength \in Nat
        BY <1>1, <1>2, QuotientBounds
    <2> QED
        BY <2>2, <2>3, SMT DEF KeyRange
<1>4. EachRange(j) \in Nat /\ EachRange(j) * j.threads <= KeyRange(j)
    BY <1>1, <1>3, QuotientBounds DEF EachRange
<1>5. j.threads * EachRange(j) = EachRange(j) * j.threads
    BY <1>1, <1>4, SMT
<1>6. WorkloadSize(j) \in Nat
    BY <1>1 DEF WorkloadSize
<1>7. DataSize(j) \in Nat
    BY <1>1, <1>6, QuotientBounds DEF DataSize
<1>8. OpCount(j) \in Int
    BY <1>2, <1>7, QuotientBounds, ToIntAtMost DEF OpCount
<1> QED
    BY <1>1, <1>3, <1>4, <1>5, <1>7, <1>8

\* A thread of a warm up performs no more operations than its slice has keys:
\* dividing the workload by the number of threads once more than the key
\* range can only leave keys out.
LEMMA LoadFitsSlice ==
    ASSUME NEW j \in Job, IsWarmup(j)
    PROVE  OpCount(j) <= EachRange(j)
<1> DEFINE N == j.threads
           V == ValueLength
           D == j.dbsize
           x == D \div N
           q == x \div (V * N)
<1>1. N \in Nat \ {0} /\ V \in Nat \ {0} /\ D \in Nat /\ V * N \in Nat \ {0}
    BY JobSizes, SizingAssumption, SMT
<1>2. x \in Nat /\ x <= D
    BY <1>1, QuotientBounds, QuotientAtMost
<1>3. q \in Nat /\ q * (V * N) <= x
    BY <1>1, <1>2, QuotientBounds
<1> HIDE DEF N, V, D, x, q
<1>4. q * N \in Nat /\ (q * N) * V <= D
    BY <1>1, <1>2, <1>3, SMT
<1>5. q * N <= D \div V /\ D \div V \in Nat
    BY <1>1, <1>4, QuotientLargest, QuotientBounds
<1>6. q <= (D \div V) \div N
    BY <1>1, <1>3, <1>5, QuotientLargest
<1>7. OpCount(j) = ToInt(q)
    BY DEF OpCount, DataSize, WorkloadSize, q, x, V, N, D
<1>8. EachRange(j) = (D \div V) \div N /\ (D \div V) \div N \in Nat
    BY <1>1, <1>5, QuotientBounds DEF EachRange, KeyRange, V, N, D
<1>9. ToInt(q) \in Int /\ ToInt(q) <= q
    BY <1>3, ToIntAtMost
<1> QED
    BY <1>3, <1>6, <1>7, <1>8, <1>9, SMT

\* The first key of a thread's slice, and the last key of all slices.
LEMMA BaseKeyBounds ==
    ASSUME NEW j \in Job, NEW t \in 0 .. j.threads - 1
    PROVE  /\ BaseKey(j, t) \in Nat \ {0}
           /\ IsWarmup(j) => BaseKey(j, t) + EachRange(j) <= KeyRange(j) + 1
<1>1. t \in Nat /\ t + 1 <= j.threads /\ j.threads \in Nat
    BY JobSizes, SMT
<1>2. EachRange(j) \in Nat /\ KeyRange(j) \in Nat /\ j.threads * EachRange(j) <= KeyRange(j)
    BY JobSizes
<1>3. (t + 1) * EachRange(j) <= j.threads * EachRange(j)
    BY <1>1, <1>2, TimesMonotone
<1>4. t * EachRange(j) \in Nat /\ (t + 1) * EachRange(j) = t * EachRange(j) + EachRange(j)
    BY <1>1, <1>2, TimesNext
<1> QED
    BY <1>1, <1>2, <1>3, <1>4, SMT DEF BaseKey

\* What get_kv_pair draws: the next key of the slice, or any key of the range
\* shifted by the base.
LEMMA KeyChoicesBounds ==
    ASSUME NEW j \in Job, NEW t \in Nat, NEW s \in Nat, NEW k \in KeyChoices(j, t, s)
    PROVE  /\ k \in Nat
           /\ IsWarmup(j) => k = BaseKey(j, t) + s + 1
           /\ ~IsWarmup(j) => k \in 1 .. KeyRange(j) + 1
<1>1. EachRange(j) \in Nat /\ KeyRange(j) \in Nat
    BY JobSizes
<1>2. BaseKey(j, t) \in Nat
    BY <1>1, TimesNext, SMT DEF BaseKey
<1>3. CASE IsWarmup(j)
    BY <1>2, <1>3, SMT DEF KeyChoices
<1>4. CASE ~IsWarmup(j)
    <2>1. BaseKey(j, t) = 1 /\ Items(j) = KeyRange(j)
        BY <1>4 DEF BaseKey, Items, YcsbRange
    <2> QED
        BY <1>1, <1>4, <2>1, SMT DEF KeyChoices
<1> QED
    BY <1>3, <1>4

\* The keys two threads of a warm up put are different.
THEOREM SlicesDisjoint ==
    ASSUME NEW j \in Job, IsWarmup(j),
           NEW t \in 0 .. j.threads - 1, NEW u \in 0 .. j.threads - 1, t # u,
           NEW m \in 1 .. EachRange(j), NEW n \in 1 .. EachRange(j)
    PROVE  BaseKey(j, t) + m # BaseKey(j, u) + n
<1>1. EachRange(j) \in Nat /\ j.threads \in Nat
    BY JobSizes, SMT
<1>2. ASSUME NEW a \in 0 .. j.threads - 1, NEW b \in 0 .. j.threads - 1, a < b,
             NEW k \in 1 .. EachRange(j), NEW l \in 1 .. EachRange(j)
      PROVE  BaseKey(j, a) + k < BaseKey(j, b) + l
    <2>1. a + 1 \in Nat /\ b \in Nat /\ a + 1 <= b
        BY <1>1, <1>2, SMT
    <2>2. (a + 1) * EachRange(j) <= b * EachRange(j)
        BY <1>1, <2>1, TimesMonotone
    <2>3. (a + 1) * EachRange(j) = a * EachRange(j) + EachRange(j)
          /\ a * EachRange(j) \in Nat /\ b * EachRange(j) \in Nat
        BY <1>1, <2>1, TimesNext, SMT
    <2> QED
        BY <1>1, <1>2, <2>2, <2>3, SMT DEF BaseKey
<1>3. BaseKey(j, t) \in Nat /\ BaseKey(j, u) \in Nat
    BY BaseKeyBounds
<1>4. CASE t < u
    BY <1>1, <1>2, <1>3, <1>4, SMT
<1>5. CASE u < t
    BY <1>1, <1>2, <1>3, <1>5, SMT
<1> QED
    BY <1>1, <1>4, <1>5, SMT

\* What random_get_put answers is one of five operations; C and F draw no write.
LEMMA OpChoicesBounds ==
    ASSUME NEW j \in Job
    PROVE  /\ OpChoices(j) \subseteq {"PUT", "UPDATE", "GET", "SCAN", "RMW"}
           /\ OpChoices(j) \subseteq Ops
           /\ j.btype \in {"ycsb-c", "ycsb-f"} => OpChoices(j) \subseteq {"GET", "RMW"}
<1>1. j.btype \in BTypes
    BY DEF Job
<1>2. ASSUME NEW r
      PROVE  /\ RandomGetPut(j.btype, r) \in {"PUT", "UPDATE", "GET", "SCAN", "RMW"}
             /\ j.btype \in {"ycsb-c", "ycsb-f"} => RandomGetPut(j.btype, r) \in {"GET", "RMW"}
    <2> DEFINE reaches(share) == r >= (share * Percent) \div 100
    <2>1. RandomGetPut(j.btype, r) =
            CASE j.btype \in {"warmup", "write"} -> "PUT"
              [] j.btype = "ycsb-a"              -> IF reaches(50) THEN "UPDATE" ELSE "GET"
              [] j.btype \in {"ycsb-b", "ycsb-d"} -> IF reaches(95) THEN "UPDATE" ELSE "GET"
              [] j.btype = "ycsb-c"              -> "GET"
              [] j.btype = "ycsb-e"              -> IF reaches(95) THEN "PUT" ELSE "SCAN"
              [] j.btype = "ycsb-f"              -> IF reaches(50) THEN "RMW" ELSE "GET"
        BY DEF RandomGetPut
    <2> HIDE DEF reaches
    <2> QED
        BY <1>1, <2>1 DEF BTypes
<1> QED
    BY <1>2 DEF OpChoices, Ops
-----------------------------------------------------------------------------
\* The running job is one of the campaign's.
LEMMA CurrentJob ==
    ASSUME campaign \in Campaigns, cur \in 1 .. Len(campaign)
    PROVE  J \in Job
    BY CampaignsAssumption DEF J

LEMMA InitTypeOK == Init => TypeOK
<1> SUFFICES ASSUME Init PROVE TypeOK
    OBVIOUS
<1>1. campaign \in Campaigns /\ cur \in 1 .. Len(campaign)
    BY CampaignsAssumption DEF Init
<1>2. J.threads \in 1 .. MaxThreads
    BY <1>1, CurrentJob, JobSizes
<1>3. <<>> \in Seq(Token)
    OBVIOUS
<1>4. pc \in [Thread -> PlacesOfThread] /\ buf \in [Thread -> Value] /\ op \in [Thread -> Ops]
    BY DEF Init, PerThread, PlacesOfThread, Value, Ops
<1>5. /\ iter \in [Thread -> Nat] /\ seq \in [Thread -> Nat] /\ key \in [Thread -> Nat]
      /\ count \in [Thread -> [Ops -> Nat]] /\ success \in [Thread -> [Ops -> Nat]]
    BY DEF Init, PerThread, PerOp
<1>6. /\ vec \in [Thread -> [Ops -> Seq(Token)]] /\ queue \in [Ops -> Seq(Token)]
      /\ threadLat \in [Thread -> [Ops -> Seq(Token)]] /\ totalLat \in [Ops -> Seq(Token)]
    BY <1>3 DEF Init, PerThread, PerOp
<1>7. DOMAIN db \subseteq Nat /\ db \in [DOMAIN db -> Value]
    BY DEF Init
<1>8. main = "spawn" /\ mi = 0 /\ main \in PlacesOfMain
    BY DEF Init, PlacesOfMain
<1> QED
    BY <1>1, <1>2, <1>4, <1>5, <1>6, <1>7, <1>8, SMT DEF TypeOK

\* What a call of the adapter can answer.
LEMMA PutAnswers ==
    ASSUME NEW d, DOMAIN d \subseteq Nat, d \in [DOMAIN d -> Value],
           NEW k \in Nat, NEW v \in Value, NEW out \in PutOutcomes(d, k, v)
    PROVE  /\ out.ok \in BOOLEAN
           /\ out.db = d \/ out.db = Stored(d, k, v)
           /\ DOMAIN out.db \subseteq Nat /\ out.db \in [DOMAIN out.db -> Value]
<1>1. DOMAIN Stored(d, k, v) \subseteq Nat /\ Stored(d, k, v) \in [DOMAIN Stored(d, k, v) -> Value]
    BY DEF Stored
<1>2. \/ out = [db |-> Stored(d, k, v), ok |-> TRUE]
      \/ out = [db |-> d, ok |-> FALSE]
      \/ out = [db |-> Stored(d, k, v), ok |-> FALSE]
    <2>1. CASE "write" \in Faults
        BY <2>1 DEF PutOutcomes
    <2>2. CASE "write" \notin Faults
        BY <2>2 DEF PutOutcomes
    <2> QED
        BY <2>1, <2>2
<1>3. out.ok \in BOOLEAN
    <2>1. out.ok = TRUE \/ out.ok = FALSE
        BY <1>2
    <2> QED
        BY <2>1
<1>4. out.db = d \/ out.db = Stored(d, k, v)
    BY <1>2
<1> QED
    BY <1>1, <1>3, <1>4

LEMMA GetAnswers ==
    ASSUME NEW d, DOMAIN d \subseteq Nat, d \in [DOMAIN d -> Value],
           NEW k \in Nat, NEW b \in Value, NEW out \in GetOutcomes(d, k, b)
    PROVE  /\ out.ok \in BOOLEAN
           /\ out.buf \in Value
           /\ out.ok => k \in DOMAIN d /\ out.buf = CopyOut(d[k], b)
           /\ ~out.ok => out.buf = Emptied(b)
<1>1. \/ k \in DOMAIN d /\ out = [buf |-> CopyOut(d[k], b), ok |-> TRUE]
      \/ out = [buf |-> Emptied(b), ok |-> FALSE]
    BY Zenon DEF GetOutcomes
<1>2. Emptied(b) \in Value
    BY DEF Emptied, Value
<1>3. k \in DOMAIN d => CopyOut(d[k], b) \in Value
    BY <1>2 DEF CopyOut
<1>4. CASE k \in DOMAIN d /\ out = [buf |-> CopyOut(d[k], b), ok |-> TRUE]
    BY <1>3, <1>4
<1>5. CASE out = [buf |-> Emptied(b), ok |-> FALSE]
    BY <1>2, <1>5
<1> QED
    BY <1>1, <1>4, <1>5

\* Updating one entry of a table keeps its type.
LEMMA TableUpdate ==
    ASSUME NEW A, NEW B, NEW S, NEW f \in [A -> [B -> S]], NEW a \in A, NEW b \in B, NEW v \in S
    PROVE  [f EXCEPT ![a][b] = v] \in [A -> [B -> S]]
    OBVIOUS

LEMMA TallyType ==
    ASSUME TypeOK, NEW t \in Thread, NEW o \in Ops, NEW ok \in BOOLEAN, Tally(t, o, ok)
    PROVE  count' \in [Thread -> [Ops -> Nat]] /\ success' \in [Thread -> [Ops -> Nat]]
<1>1. count \in [Thread -> [Ops -> Nat]] /\ success \in [Thread -> [Ops -> Nat]]
    BY DEF TypeOK
<1>2. count[t][o] + 1 \in Nat /\ success[t][o] + 1 \in Nat
    BY <1>1
<1>3. [count EXCEPT ![t][o] = count[t][o] + 1] \in [Thread -> [Ops -> Nat]]
    BY <1>1, <1>2, TableUpdate
<1>4. [success EXCEPT ![t][o] = success[t][o] + 1] \in [Thread -> [Ops -> Nat]]
    BY <1>1, <1>2, TableUpdate
<1> QED
    BY <1>1, <1>3, <1>4 DEF Tally

LEMMA ThreadStepTypeOK ==
    ASSUME TypeOK, NEW t \in Thread, ThreadStep(t)
    PROVE  TypeOK'
<1>1. J \in Job
    BY CurrentJob DEF TypeOK
<1>2. "PUT" \in Ops /\ "GET" \in Ops /\ "RMW" \in Ops /\ op[t] \in Ops
    BY DEF Ops, TypeOK
<1>3. CASE GetKvPair(t)
    <2>1. PICK k \in KeyChoices(J, t, seq[t]), o \in OpChoices(J) :
            /\ key' = [key EXCEPT ![t] = k]
            /\ buf' = [buf EXCEPT ![t] = [head |-> k, len |-> ValueLength]]
            /\ op' = [op EXCEPT ![t] = o]
        BY <1>3 DEF GetKvPair
    <2>2. t \in Nat /\ seq[t] \in Nat
        BY SizingAssumption, SMT DEF Thread, TypeOK
    <2>3. k \in Nat
        BY <1>1, <2>2, KeyChoicesBounds
    <2>4. o \in Ops
        BY <1>1, <2>1, OpChoicesBounds
    <2>5. [head |-> k, len |-> ValueLength] \in Value
        BY <2>3, SizingAssumption DEF Value
    <2>6. /\ key' \in [Thread -> Nat] /\ op' \in [Thread -> Ops]
          /\ buf' \in [Thread -> Value]
        BY <2>1, <2>3, <2>4, <2>5 DEF TypeOK
    <2>7. seq' \in [Thread -> Nat] /\ pc' \in [Thread -> PlacesOfThread]
        <3>1. /\ seq' = [seq EXCEPT ![t] = @ + 1] \/ seq' = seq
              /\ pc' = [pc EXCEPT ![t] = "issued"]
            BY <1>3 DEF GetKvPair, At
        <3>2. seq \in [Thread -> Nat] /\ pc \in [Thread -> PlacesOfThread]
            BY DEF TypeOK, PlacesOfThread
        <3>3. "issued" \in PlacesOfThread
            BY DEF PlacesOfThread
        <3> QED
            BY <2>2, <3>1, <3>2, <3>3
    <2> QED
        BY <1>3, <2>6, <2>7 DEF GetKvPair, TypeOK, mainVars, J
<1>4. CASE DoPut(t)
    <2>1. PICK out \in PutOutcomes(db, key[t], buf[t]) : db' = out.db /\ Tally(t, op[t], out.ok)
        BY <1>4 DEF DoPut
    <2>2. out.ok \in BOOLEAN /\ DOMAIN db' \subseteq Nat /\ db' \in [DOMAIN db' -> Value]
        BY <2>1, PutAnswers DEF TypeOK
    <2>3. count' \in [Thread -> [Ops -> Nat]] /\ success' \in [Thread -> [Ops -> Nat]]
        BY <1>2, <2>1, <2>2, TallyType
    <2> QED
        BY <1>4, <2>2, <2>3 DEF DoPut, At, TypeOK, PlacesOfThread, mainVars, J
<1>5. CASE DoGet(t)
    <2>1. PICK out \in GetOutcomes(db, key[t], buf[t]) :
            buf' = [buf EXCEPT ![t] = out.buf] /\ Tally(t, "GET", out.ok)
        BY <1>5 DEF DoGet
    <2>2. out.ok \in BOOLEAN /\ out.buf \in Value
        BY <2>1, GetAnswers DEF TypeOK
    <2>3. count' \in [Thread -> [Ops -> Nat]] /\ success' \in [Thread -> [Ops -> Nat]]
        BY <1>2, <2>1, <2>2, TallyType
    <2> QED
        BY <1>5, <2>1, <2>2, <2>3 DEF DoGet, At, TypeOK, PlacesOfThread, mainVars, J
<1>6. CASE RmwRead(t)
    <2>1. PICK out \in GetOutcomes(db, key[t], buf[t]) :
            /\ buf' = [buf EXCEPT ![t] = out.buf]
            /\ IF out.ok
               THEN At(t, "issued", "modify") /\ UNCHANGED <<count, success>>
               ELSE At(t, "issued", "push") /\ Tally(t, "RMW", FALSE)
        BY <1>6 DEF RmwRead
    <2>2. out.ok \in BOOLEAN /\ out.buf \in Value
        BY <2>1, GetAnswers DEF TypeOK
    <2>3. count' \in [Thread -> [Ops -> Nat]] /\ success' \in [Thread -> [Ops -> Nat]]
        BY <1>2, <2>1, <2>2, TallyType DEF TypeOK
    <2>4. pc' \in [Thread -> PlacesOfThread]
        BY <2>1 DEF At, TypeOK, PlacesOfThread
    <2> QED
        BY <1>6, <2>1, <2>2, <2>3, <2>4 DEF RmwRead, TypeOK, mainVars, J
<1>7. CASE RmwWrite(t)
    <2>1. PICK out \in PutOutcomes(db, key[t], buf[t]) : db' = out.db /\ Tally(t, "RMW", out.ok)
        BY <1>7 DEF RmwWrite
    <2>2. out.ok \in BOOLEAN /\ DOMAIN db' \subseteq Nat /\ db' \in [DOMAIN db' -> Value]
        BY <2>1, PutAnswers DEF TypeOK
    <2>3. count' \in [Thread -> [Ops -> Nat]] /\ success' \in [Thread -> [Ops -> Nat]]
        BY <1>2, <2>1, <2>2, TallyType
    <2> QED
        BY <1>7, <2>2, <2>3 DEF RmwWrite, At, TypeOK, PlacesOfThread, mainVars, J
<1>8. CASE DoScan(t)
    BY <1>8 DEF DoScan, At, TypeOK, PlacesOfThread, mainVars, J
<1>9. CASE PushLatency(t)
    <2>1. <<t, iter[t]>> \in Token
        BY DEF Token, TypeOK
    <2>2. queue' \in [Ops -> Seq(Token)]
        <3>1. queue' = [queue EXCEPT ![op[t]] = Append(@, <<t, iter[t]>>)]
            BY <1>9 DEF PushLatency
        <3>2. queue \in [Ops -> Seq(Token)]
            BY DEF TypeOK
        <3> QED
            BY <1>2, <2>1, <3>1, <3>2
    <2> QED
        BY <1>9, <2>2 DEF PushLatency, At, TypeOK, PlacesOfThread, mainVars, J
<1>10. CASE BookLatency(t)
    <2>1. <<t, iter[t]>> \in Token
        BY DEF Token, TypeOK
    <2>2. Append(vec[t][op[t]], <<t, iter[t]>>) \in Seq(Token)
        BY <1>2, <2>1 DEF TypeOK
    <2>3. vec' \in [Thread -> [Ops -> Seq(Token)]]
        <3>1. vec' = [vec EXCEPT ![t][op[t]] = Append(@, <<t, iter[t]>>)]
            BY <1>10 DEF BookLatency
        <3>2. vec \in [Thread -> [Ops -> Seq(Token)]]
            BY DEF TypeOK
        <3> QED
            BY <1>2, <2>2, <3>1, <3>2
    <2> QED
        BY <1>10, <2>3 DEF BookLatency, At, TypeOK, PlacesOfThread, mainVars, J
<1>11. CASE Finish(t)
    BY <1>11 DEF Finish, At, TypeOK, PlacesOfThread, mainVars, J
<1> QED
    BY <1>3, <1>4, <1>5, <1>6, <1>7, <1>8, <1>9, <1>10, <1>11 DEF ThreadStep

LEMMA MainStepTypeOK ==
    ASSUME TypeOK, MainStep
    PROVE  TypeOK'
<1>1. J \in Job /\ J.threads \in 1 .. MaxThreads
    BY CurrentJob, JobSizes DEF TypeOK
<1>2. J.threads \in Nat /\ J.threads > 0 /\ MaxThreads \in Nat
    BY <1>1, SizingAssumption, SMT
<1>3. Len(OpOrder) = 6
    BY DEF OpOrder
<1>4. CASE Spawn
    <2>1. mi \in Thread
        BY <1>1, <1>4, SizingAssumption, SMT DEF Spawn, Advance, Thread, TypeOK
    <2>2. pc' \in [Thread -> PlacesOfThread]
        BY <1>4, <2>1 DEF Spawn, TypeOK, PlacesOfThread
    <2>3. /\ mi' \in Nat /\ main' \in PlacesOfMain
          /\ main' \in {"spawn", "join", "report"} => mi' < J.threads
          /\ main' # "drain"
        <3>1. Advance("spawn", J.threads, "join")
            BY <1>4 DEF Spawn
        <3> QED
            BY <1>2, <3>1, SMT DEF Advance, TypeOK, PlacesOfMain
    <2> QED
        BY <1>4, <2>2, <2>3 DEF Spawn, TypeOK, J
<1>5. CASE Join
    <2>1. /\ mi' \in Nat /\ main' \in PlacesOfMain
          /\ main' \in {"spawn", "join", "report"} => mi' < J.threads
          /\ main' # "drain"
        <3>1. Advance("join", J.threads, "report")
            BY <1>5 DEF Join
        <3> QED
            BY <1>2, <3>1, SMT DEF Advance, TypeOK, PlacesOfMain
    <2> QED
        BY <1>5, <2>1 DEF Join, TypeOK, J, threadVars
<1>6. CASE Report
    <2>1. mi \in Thread
        BY <1>1, <1>6, SizingAssumption, SMT DEF Report, Advance, Thread, TypeOK
    <2>2. threadLat' \in [Thread -> [Ops -> Seq(Token)]]
        BY <1>6, <2>1 DEF Report, TypeOK
    <2>3. /\ mi' \in Nat /\ main' \in PlacesOfMain
          /\ main' \in {"spawn", "join", "report"} => mi' < J.threads
          /\ main' = "drain" => mi' < Len(OpOrder)
        BY <1>2, <1>3, <1>6, SMT DEF Report, Advance, TypeOK, PlacesOfMain
    <2> QED
        BY <1>6, <2>2, <2>3 DEF Report, TypeOK, J, threadVars
<1>7. CASE DrainPop
    <2> DEFINE o == OpOrder[mi + 1]
    <2>1. mi \in 0 .. 5
        BY <1>3, <1>7, SMT DEF DrainPop, TypeOK
    <2>2. o \in Ops
        BY <2>1 DEF OpOrder, Ops
    <2> HIDE DEF o
    <2>3. queue \in [Ops -> Seq(Token)] /\ totalLat \in [Ops -> Seq(Token)]
        BY DEF TypeOK
    <2>4. queue[o] # <<>> /\ queue' = [queue EXCEPT ![o] = Tail(queue[o])]
          /\ totalLat' = [totalLat EXCEPT ![o] = Append(totalLat[o], Head(queue[o]))]
        BY <1>7 DEF DrainPop, o
    <2>5. Head(queue[o]) \in Token /\ Tail(queue[o]) \in Seq(Token)
        BY <2>2, <2>3, <2>4
    <2>6. queue' \in [Ops -> Seq(Token)] /\ totalLat' \in [Ops -> Seq(Token)]
        BY <2>2, <2>3, <2>4, <2>5
    <2> QED
        BY <1>7, <2>6 DEF DrainPop, TypeOK, J, threadVars
<1>8. CASE DrainNext
    <2>1. /\ mi' \in Nat /\ main' \in PlacesOfMain
          /\ main' \notin {"spawn", "join", "report"}
          /\ main' = "drain" => mi' < Len(OpOrder)
        BY <1>3, <1>8, SMT DEF DrainNext, Advance, TypeOK, PlacesOfMain
    <2> QED
        BY <1>8, <2>1 DEF DrainNext, TypeOK, J, threadVars
<1>9. CASE NextJob
    <2>1. campaign' \in Campaigns /\ cur' \in 1 .. Len(campaign')
        <3>1. Len(campaign) \in Nat
            BY CampaignsAssumption DEF TypeOK
        <3> QED
            BY <1>9, <3>1, SMT DEF NextJob, TypeOK
    <2>2. mi' < J'.threads
        <3>1. J' \in Job
            BY <2>1, CampaignsAssumption DEF J
        <3>2. J'.threads \in 1 .. MaxThreads /\ mi' = 0
            BY <1>9, <3>1, JobSizes DEF NextJob
        <3> QED
            BY <1>2, <3>2, SMT
    <2>3. main' # "drain" /\ mi' \in Nat /\ main' \in PlacesOfMain
        BY <1>9 DEF NextJob, PlacesOfMain
    <2>4. <<>> \in Seq(Token)
        OBVIOUS
    <2>5. /\ pc' \in [Thread -> PlacesOfThread] /\ buf' \in [Thread -> Value]
          /\ op' \in [Thread -> Ops]
        BY <1>9 DEF NextJob, PerThread, PlacesOfThread, Value, Ops
    <2>6. /\ iter' \in [Thread -> Nat] /\ seq' \in [Thread -> Nat] /\ key' \in [Thread -> Nat]
          /\ count' \in [Thread -> [Ops -> Nat]] /\ success' \in [Thread -> [Ops -> Nat]]
        BY <1>9 DEF NextJob, PerThread, PerOp
    <2>7. /\ vec' \in [Thread -> [Ops -> Seq(Token)]] /\ queue' \in [Ops -> Seq(Token)]
          /\ threadLat' \in [Thread -> [Ops -> Seq(Token)]] /\ totalLat' \in [Ops -> Seq(Token)]
        BY <1>9, <2>4 DEF NextJob, PerThread, PerOp
    <2>8. DOMAIN db' \subseteq Nat /\ db' \in [DOMAIN db' -> Value]
        BY <1>9 DEF NextJob, TypeOK
    <2> QED
        BY <2>1, <2>2, <2>3, <2>5, <2>6, <2>7, <2>8 DEF TypeOK
<1> QED
    BY <1>4, <1>5, <1>6, <1>7, <1>8, <1>9 DEF MainStep

LEMMA StutterTypeOK ==
    ASSUME TypeOK, UNCHANGED vars
    PROVE  TypeOK'
    BY DEF TypeOK, vars, mainVars, threadVars, J

\* Every variable keeps its type.
THEOREM TypeCorrect == Spec => []TypeOK
<1>1. TypeOK /\ [Next]_vars => TypeOK'
    BY ThreadStepTypeOK, MainStepTypeOK, StutterTypeOK DEF Next, Terminated
<1> QED
    BY <1>1, InitTypeOK, PTL DEF Spec
-----------------------------------------------------------------------------
(***************************************************************************)
(* SafetyInv is an invariant of WorkloadGenerator, and what follows from   *)
(* it: the store holds whole values, keys stay in range, a warm up writes  *)
(* each key once, read-only jobs leave the store alone.                    *)
(***************************************************************************)
LEMMA InitSafety == Init => SafetyInv
<1> SUFFICES ASSUME Init PROVE SafetyInv
    OBVIOUS
<1>1. \A t \in Thread : pc[t] = "unborn" /\ seq[t] = 0 /\ iter[t] = 0
    BY DEF Init, PerThread
<1>2. DOMAIN db = {}
    BY DEF Init
<1>3. J \in Job
    BY CampaignsAssumption DEF Init, J
<1>4. EachRange(J) \in Nat
    BY <1>3, JobSizes
<1>5. OnlyWorkersRun /\ StoredWhole /\ LoadedSoFar
    BY <1>1, <1>2 DEF OnlyWorkersRun, StoredWhole, LoadedSoFar
<1>6. \A t \in Thread : OperationOK(t) /\ SequenceOK(t)
    BY <1>1, <1>4 DEF OperationOK, SequenceOK, Busy
<1> QED
    BY <1>5, <1>6 DEF SafetyInv

\* A step of one thread leaves the job and the other threads alone, and never
\* takes a key out of the store.
LEMMA ThreadFrame ==
    ASSUME TypeOK, NEW t \in Thread, ThreadStep(t)
    PROVE  /\ J' = J /\ cur' = cur /\ main' = main /\ mi' = mi
           /\ DOMAIN db \subseteq DOMAIN db'
           /\ \A u \in Thread : u # t =>
                /\ pc'[u] = pc[u] /\ iter'[u] = iter[u] /\ seq'[u] = seq[u]
                /\ op'[u] = op[u] /\ key'[u] = key[u] /\ buf'[u] = buf[u]
<1>1. J' = J /\ cur' = cur /\ main' = main /\ mi' = mi
    BY DEF ThreadStep, GetKvPair, DoPut, DoGet, RmwRead, RmwWrite, DoScan,
           PushLatency, BookLatency, Finish, mainVars, J
<1>2. DOMAIN db \subseteq DOMAIN db'
    <2>1. ASSUME NEW out \in PutOutcomes(db, key[t], buf[t]), db' = out.db
          PROVE  DOMAIN db \subseteq DOMAIN db'
        <3>0. /\ key[t] \in Nat /\ buf[t] \in Value
              /\ DOMAIN db \subseteq Nat /\ db \in [DOMAIN db -> Value]
            BY DEF TypeOK
        <3>1. out.db = db \/ out.db = Stored(db, key[t], buf[t])
            BY <2>1, <3>0, PutAnswers
        <3> QED
            BY <2>1, <3>1 DEF Stored
    <2>2. CASE DoPut(t) \/ RmwWrite(t)
        BY <2>1, <2>2 DEF DoPut, RmwWrite
    <2>3. CASE ~(DoPut(t) \/ RmwWrite(t))
        <3>1. db' = db
            BY <2>3 DEF ThreadStep, GetKvPair, DoGet, RmwRead, DoScan,
                        PushLatency, BookLatency, Finish
        <3> QED
            BY <3>1
    <2> QED
        BY <2>2, <2>3
<1>3. ASSUME NEW u \in Thread, u # t
      PROVE  /\ pc'[u] = pc[u] /\ iter'[u] = iter[u] /\ seq'[u] = seq[u]
             /\ op'[u] = op[u] /\ key'[u] = key[u] /\ buf'[u] = buf[u]
    <2>1. /\ pc \in [Thread -> PlacesOfThread] /\ iter \in [Thread -> Nat]
          /\ seq \in [Thread -> Nat] /\ op \in [Thread -> Ops]
          /\ key \in [Thread -> Nat] /\ buf \in [Thread -> Value]
        BY DEF TypeOK
    <2>2. CASE GetKvPair(t)
        BY <1>3, <2>1, <2>2 DEF GetKvPair, At
    <2>3. CASE DoPut(t)
        BY <1>3, <2>1, <2>3 DEF DoPut, At
    <2>4. CASE DoGet(t)
        BY <1>3, <2>1, <2>4 DEF DoGet, At
    <2>5. CASE RmwRead(t)
        BY <1>3, <2>1, <2>5 DEF RmwRead, At
    <2>6. CASE RmwWrite(t)
        BY <1>3, <2>1, <2>6 DEF RmwWrite, At
    <2>7. CASE DoScan(t)
        BY <1>3, <2>1, <2>7 DEF DoScan, At
    <2>8. CASE PushLatency(t)
        BY <1>3, <2>1, <2>8 DEF PushLatency, At
    <2>9. CASE BookLatency(t)
        BY <1>3, <2>1, <2>9 DEF BookLatency, At
    <2>10. CASE Finish(t)
        BY <1>3, <2>1, <2>10 DEF Finish, At
    <2> QED
        BY <2>2, <2>3, <2>4, <2>5, <2>6, <2>7, <2>8, <2>9, <2>10 DEF ThreadStep
<1> QED
    BY <1>1, <1>2, <1>3

LEMMA WorkersAreThreads ==
    ASSUME J \in Job, NEW t \in Workers
    PROVE  t \in Thread /\ t \in Nat
<1>1. J.threads \in 1 .. MaxThreads
    BY JobSizes
<1> QED
    BY <1>1, SizingAssumption, SMT DEF Workers, Thread

\* Storing a key's own value keeps every value whole.
LEMMA PutKeepsWhole ==
    ASSUME TypeOK, StoredWhole, NEW k \in Nat, NEW v \in Value, v = Whole(k),
           NEW out \in PutOutcomes(db, k, v), db' = out.db
    PROVE  StoredWhole'
<1>1. out.db = db \/ out.db = Stored(db, k, v)
    BY PutAnswers DEF TypeOK
<1> QED
    BY <1>1 DEF StoredWhole, Stored

\* A step that stores no new key, and issues an operation only when it draws
\* a new key, keeps LoadedSoFar.
LEMMA LoadFrame ==
    ASSUME TypeOK, LoadedSoFar, J' = J, cur' = cur, DOMAIN db' \subseteq DOMAIN db,
           seq' \in [Thread -> Nat],
           \A u \in Thread : seq[u] <= seq'[u]
                /\ (pc'[u] = "issued" => seq[u] < seq'[u] \/ pc[u] = "issued")
    PROVE  LoadedSoFar'
<1> SUFFICES ASSUME cur = 1, IsWarmup(J), NEW k \in DOMAIN db
             PROVE  \E t \in Workers : \E m \in 1 .. seq'[t] :
                        k = BaseKey(J, t) + m /\ (pc'[t] = "issued" => m < seq'[t])
    BY DEF LoadedSoFar, Workers
<1>1. PICK t \in Workers : \E m \in 1 .. seq[t] :
            k = BaseKey(J, t) + m /\ (pc[t] = "issued" => m < seq[t])
    BY DEF LoadedSoFar
<1>2. PICK m \in 1 .. seq[t] : k = BaseKey(J, t) + m /\ (pc[t] = "issued" => m < seq[t])
    BY <1>1
<1>3. t \in Thread
    BY CurrentJob, WorkersAreThreads DEF TypeOK
<1>4. seq[t] \in Nat /\ seq'[t] \in Nat /\ seq[t] <= seq'[t]
    BY <1>3 DEF TypeOK
<1>5. m \in 1 .. seq'[t] /\ (pc'[t] = "issued" => m < seq'[t])
    BY <1>2, <1>3, <1>4, SMT
<1> QED
    BY <1>2, <1>5

\* A Get of a store of whole values fills the buffer with the key's value, and
\* a miss keeps the head the buffer had.
LEMMA GetKeepsHead ==
    ASSUME TypeOK, StoredWhole, NEW t \in Thread, buf[t].head = key[t],
           NEW out \in GetOutcomes(db, key[t], buf[t]),
           buf' = [buf EXCEPT ![t] = out.buf]
    PROVE  /\ buf'[t].head = key[t]
           /\ out.ok => key[t] \in DOMAIN db /\ buf'[t] = Whole(key[t])
<1>1. /\ DOMAIN db \subseteq Nat /\ db \in [DOMAIN db -> Value]
      /\ key[t] \in Nat /\ buf[t] \in Value /\ buf'[t] = out.buf
    BY DEF TypeOK
<1>2. /\ out.ok \in BOOLEAN
      /\ out.ok => key[t] \in DOMAIN db /\ out.buf = CopyOut(db[key[t]], buf[t])
      /\ ~out.ok => out.buf = Emptied(buf[t])
    BY <1>1, GetAnswers
<1>3. CASE out.ok
    <2>1. db[key[t]] = Whole(key[t]) /\ ValueLength # 0
        BY <1>2, <1>3, SizingAssumption DEF StoredWhole
    <2>2. out.buf = Whole(key[t])
        BY <1>2, <1>3, <2>1 DEF CopyOut, Whole
    <2> QED
        BY <1>1, <1>2, <1>3, <2>2 DEF Whole
<1>4. CASE ~out.ok
    BY <1>1, <1>2, <1>4 DEF Emptied
<1> QED
    BY <1>3, <1>4

\* Writing back the value a key already has changes nothing.
LEMMA RewriteKeepsStore ==
    ASSUME TypeOK, StoredWhole, NEW k \in DOMAIN db, NEW v \in Value, v = Whole(k),
           NEW out \in PutOutcomes(db, k, v), db' = out.db
    PROVE  db' = db
<1>1. k \in Nat /\ DOMAIN db \subseteq Nat /\ db \in [DOMAIN db -> Value]
    BY DEF TypeOK
<1>2. out.db = db \/ out.db = Stored(db, k, v)
    BY <1>1, PutAnswers
<1>3. db[k] = v /\ DOMAIN db \cup {k} = DOMAIN db
    BY DEF StoredWhole
<1>4. Stored(db, k, v) = [x \in DOMAIN db |-> db[x]]
    BY <1>3 DEF Stored
<1> QED
    BY <1>1, <1>2, <1>4

\* What a thread's step means for the thread itself.
LEMMA ThreadKeepsOwn ==
    ASSUME TypeOK, SafetyInv, NEW t \in Thread, ThreadStep(t)
    PROVE  /\ OperationOK(t)' /\ SequenceOK(t)'
           /\ StoredWhole' /\ LoadedSoFar'
           /\ pc[t] # "unborn"
<1>1. J \in Job /\ J' = J /\ cur' = cur /\ DOMAIN db \subseteq DOMAIN db'
    BY CurrentJob, ThreadFrame DEF TypeOK
<1>2. /\ pc \in [Thread -> PlacesOfThread] /\ iter \in [Thread -> Nat]
      /\ seq \in [Thread -> Nat] /\ op \in [Thread -> Ops]
      /\ key \in [Thread -> Nat] /\ buf \in [Thread -> Value]
    BY DEF TypeOK
<1>3. OperationOK(t) /\ SequenceOK(t) /\ StoredWhole /\ LoadedSoFar /\ OnlyWorkersRun
    BY DEF SafetyInv
<1>4. \A u \in Thread : u # t => pc'[u] = pc[u] /\ seq'[u] = seq[u]
    BY ThreadFrame
<1>5. ASSUME DOMAIN db' \subseteq DOMAIN db, seq' = seq, pc'[t] # "issued"
      PROVE  LoadedSoFar'
    BY <1>1, <1>2, <1>3, <1>4, <1>5, LoadFrame
<1>6. CASE GetKvPair(t)
    <2>1. t \in Workers /\ t \in Nat
        BY <1>3, <1>6, SizingAssumption, SMT DEF GetKvPair, At, OnlyWorkersRun, Thread
    <2>2. PICK k \in KeyChoices(J, t, seq[t]), o \in OpChoices(J) :
            /\ key' = [key EXCEPT ![t] = k]
            /\ buf' = [buf EXCEPT ![t] = [head |-> k, len |-> ValueLength]]
            /\ op' = [op EXCEPT ![t] = o]
        BY <1>6 DEF GetKvPair
    <2>3. /\ k \in Nat
          /\ IsWarmup(J) => k = BaseKey(J, t) + seq[t] + 1
          /\ ~IsWarmup(J) => k \in 1 .. KeyRange(J) + 1
        BY <1>1, <1>2, <2>1, KeyChoicesBounds
    <2>4. /\ pc[t] = "loop" /\ pc'[t] = "issued" /\ iter'[t] = iter[t] /\ iter[t] < OpCount(J)
          /\ seq'[t] = IF IsWarmup(J) THEN seq[t] + 1 ELSE seq[t]
          /\ key'[t] = k /\ op'[t] = o /\ buf'[t] = Whole(k)
        BY <1>2, <1>6, <2>2 DEF GetKvPair, At, Whole
    <2>5. OperationOK(t)'
        <3>1. IsWarmup(J) => BaseKey(J, t) + seq[t] + 1 = BaseKey(J, t) + seq'[t]
            BY <1>1, <1>2, <2>1, <2>4, BaseKeyBounds, SMT DEF Workers
        <3> QED
            BY <1>1, <2>3, <2>4, <3>1 DEF OperationOK, Busy, Whole
    <2>6. SequenceOK(t)'
        <3>1. CASE IsWarmup(J)
            <4>1. seq[t] = iter[t]
                BY <1>2, <1>3, <2>4, <3>1, SMT DEF SequenceOK, Busy
            <4>2. OpCount(J) <= EachRange(J) /\ OpCount(J) \in Int /\ EachRange(J) \in Nat
                BY <1>1, <3>1, LoadFitsSlice, JobSizes
            <4>3. seq'[t] = iter'[t] + 1 /\ seq'[t] <= EachRange(J)
                BY <1>2, <2>4, <3>1, <4>1, <4>2, SMT
            <4> QED
                BY <1>1, <2>4, <4>3 DEF SequenceOK, Busy
        <3> QED
            BY <1>1, <3>1 DEF SequenceOK
    <2>7. StoredWhole' /\ db' = db
        BY <1>3, <1>6 DEF GetKvPair, StoredWhole, Whole
    <2>8. LoadedSoFar'
        <3>1. CASE IsWarmup(J)
            <4>1. seq' \in [Thread -> Nat] /\ seq'[t] = seq[t] + 1
                BY <1>2, <1>6, <2>4, <3>1 DEF GetKvPair
            <4>2. \A u \in Thread : seq[u] <= seq'[u]
                    /\ (pc'[u] = "issued" => seq[u] < seq'[u] \/ pc[u] = "issued")
                BY <1>2, <1>4, <4>1, SMT
            <4> QED
                BY <1>1, <1>3, <2>7, <4>1, <4>2, LoadFrame
        <3> QED
            BY <1>1, <3>1 DEF LoadedSoFar
    <2> QED
        BY <2>4, <2>5, <2>6, <2>7, <2>8
<1>7. CASE DoPut(t)
    <2>1. PICK out \in PutOutcomes(db, key[t], buf[t]) : db' = out.db
        BY <1>7 DEF DoPut
    <2>2. pc[t] = "issued" /\ pc'[t] = "push" /\ seq' = seq /\ iter' = iter /\ key' = key
          /\ buf' = buf /\ op' = op
        BY <1>2, <1>7 DEF DoPut, At
    <2>3. buf[t] = Whole(key[t])
        BY <1>3, <2>2 DEF OperationOK, Busy
    <2>4. StoredWhole'
        BY <1>2, <1>3, <2>1, <2>3, PutKeepsWhole
    <2>5. OperationOK(t)' /\ SequenceOK(t)'
        BY <1>1, <1>3, <2>2 DEF OperationOK, SequenceOK, Busy, Whole
    <2>6. LoadedSoFar'
        <3>1. DOMAIN db' \subseteq DOMAIN db \cup {key[t]}
            <4>1. /\ DOMAIN db \subseteq Nat /\ db \in [DOMAIN db -> Value]
                  /\ key[t] \in Nat /\ buf[t] \in Value
                BY DEF TypeOK
            <4>2. out.db = db \/ out.db = Stored(db, key[t], buf[t])
                BY <2>1, <4>1, PutAnswers
            <4> QED
                BY <2>1, <4>2 DEF Stored
        <3>2. SUFFICES ASSUME cur = 1, IsWarmup(J), NEW k \in DOMAIN db'
              PROVE  \E u \in Workers : \E m \in 1 .. seq'[u] :
                        k = BaseKey(J, u) + m /\ (pc'[u] = "issued" => m < seq'[u])
            BY <1>1 DEF LoadedSoFar, Workers
        <3>3. CASE k = key[t]
            <4>1. t \in Workers /\ key[t] = BaseKey(J, t) + seq[t]
                BY <1>3, <2>2, <3>2 DEF OnlyWorkersRun, OperationOK, Busy
            <4>2. seq[t] \in 1 .. seq[t]
                BY <1>2, <1>3, <2>2, <3>2, SMT DEF SequenceOK, Busy
            <4> QED
                BY <2>2, <3>3, <4>1, <4>2
        <3>4. CASE k \in DOMAIN db
            <4>1. PICK u \in Workers : \E m \in 1 .. seq[u] :
                        k = BaseKey(J, u) + m /\ (pc[u] = "issued" => m < seq[u])
                BY <1>3, <3>2, <3>4 DEF LoadedSoFar
            <4>2. u \in Thread
                BY <1>1, WorkersAreThreads
            <4>3. pc'[u] = "issued" => pc[u] = "issued"
                BY <1>4, <2>2, <4>2
            <4> QED
                BY <2>2, <4>1, <4>3
        <3> QED
            BY <3>1, <3>2, <3>3, <3>4
    <2> QED
        BY <2>2, <2>4, <2>5, <2>6
<1>8. CASE DoGet(t)
    <2>1. PICK out \in GetOutcomes(db, key[t], buf[t]) : buf' = [buf EXCEPT ![t] = out.buf]
        BY <1>8 DEF DoGet
    <2>2. pc[t] = "issued" /\ pc'[t] = "push" /\ seq' = seq /\ iter' = iter /\ key' = key
          /\ op' = op /\ db' = db
        BY <1>2, <1>8 DEF DoGet, At
    <2>3. buf'[t].head = key[t]
        BY <1>2, <1>3, <2>1, <2>2, GetKeepsHead DEF OperationOK, Busy
    <2>4. OperationOK(t)' /\ SequenceOK(t)'
        BY <1>1, <1>3, <2>2, <2>3 DEF OperationOK, SequenceOK, Busy
    <2>5. StoredWhole'
        BY <1>3, <2>2 DEF StoredWhole, Whole
    <2> QED
        BY <1>5, <2>2, <2>4, <2>5
<1>9. CASE RmwRead(t)
    <2>1. PICK out \in GetOutcomes(db, key[t], buf[t]) :
            /\ buf' = [buf EXCEPT ![t] = out.buf]
            /\ IF out.ok
               THEN At(t, "issued", "modify") /\ UNCHANGED <<count, success>>
               ELSE At(t, "issued", "push") /\ Tally(t, "RMW", FALSE)
        BY <1>9 DEF RmwRead
    <2>2. /\ pc[t] = "issued" /\ seq' = seq /\ iter' = iter /\ key' = key
          /\ op' = op /\ db' = db /\ op[t] = "RMW"
          /\ pc'[t] = IF out.ok THEN "modify" ELSE "push"
        BY <1>2, <1>9, <2>1 DEF RmwRead, At
    <2>3. buf[t] = Whole(key[t])
        BY <1>3, <2>2 DEF OperationOK, Busy
    <2>4. /\ buf'[t].head = key[t]
          /\ out.ok => key[t] \in DOMAIN db /\ buf'[t] = Whole(key[t])
        <3>1. buf[t].head = key[t]
            BY <2>3 DEF Whole
        <3> QED
            BY <1>3, <2>1, <3>1, GetKeepsHead
    <2>5. OperationOK(t)' /\ SequenceOK(t)'
        BY <1>1, <1>3, <2>2, <2>4 DEF OperationOK, SequenceOK, Busy, Whole
    <2>6. StoredWhole'
        BY <1>3, <2>2 DEF StoredWhole, Whole
    <2> QED
        BY <1>5, <2>2, <2>5, <2>6
<1>10. CASE RmwWrite(t)
    <2>1. PICK out \in PutOutcomes(db, key[t], buf[t]) : db' = out.db
        BY <1>10 DEF RmwWrite
    <2>2. pc[t] = "modify" /\ pc'[t] = "push" /\ seq' = seq /\ iter' = iter /\ key' = key
          /\ buf' = buf /\ op' = op
        BY <1>2, <1>10 DEF RmwWrite, At
    <2>3. buf[t] = Whole(key[t]) /\ key[t] \in DOMAIN db
        BY <1>3, <2>2 DEF OperationOK, Busy
    <2>4. db' = db
        BY <1>2, <1>3, <2>1, <2>3, RewriteKeepsStore
    <2>5. OperationOK(t)' /\ SequenceOK(t)'
        BY <1>1, <1>3, <2>2, <2>4 DEF OperationOK, SequenceOK, Busy, Whole
    <2>6. StoredWhole'
        BY <1>3, <2>4 DEF StoredWhole, Whole
    <2> QED
        BY <1>5, <2>2, <2>4, <2>5, <2>6
<1>11. CASE DoScan(t) \/ PushLatency(t)
    <2>1. /\ pc[t] \in {"issued", "push"} /\ pc'[t] \in {"push", "book"}
          /\ seq' = seq /\ iter' = iter /\ key' = key /\ op' = op /\ db' = db /\ buf' = buf
        BY <1>2, <1>11 DEF DoScan, PushLatency, At
    <2>2. OperationOK(t)' /\ SequenceOK(t)'
        BY <1>1, <1>3, <2>1 DEF OperationOK, SequenceOK, Busy
    <2>3. StoredWhole'
        BY <1>3, <2>1 DEF StoredWhole, Whole
    <2> QED
        BY <1>5, <2>1, <2>2, <2>3
<1>12. CASE BookLatency(t)
    <2>1. /\ pc[t] = "book" /\ pc'[t] = "loop" /\ iter'[t] = iter[t] + 1
          /\ seq' = seq /\ db' = db
        BY <1>2, <1>12 DEF BookLatency, At
    <2>2. OperationOK(t)' /\ SequenceOK(t)'
        BY <1>1, <1>2, <1>3, <2>1 DEF OperationOK, SequenceOK, Busy
    <2>3. StoredWhole'
        BY <1>3, <2>1 DEF StoredWhole, Whole
    <2> QED
        BY <1>5, <2>1, <2>2, <2>3
<1>13. CASE Finish(t)
    <2>1. /\ pc[t] = "loop" /\ pc'[t] = "finished" /\ iter' = iter
          /\ seq' = seq /\ db' = db
        BY <1>2, <1>13 DEF Finish, At
    <2>2. OperationOK(t)' /\ SequenceOK(t)'
        BY <1>1, <1>3, <2>1 DEF OperationOK, SequenceOK, Busy
    <2>3. StoredWhole'
        BY <1>3, <2>1 DEF StoredWhole, Whole
    <2> QED
        BY <1>5, <2>1, <2>2, <2>3
<1> QED
    BY <1>6, <1>7, <1>8, <1>9, <1>10, <1>11, <1>12, <1>13 DEF ThreadStep

LEMMA ThreadStepSafety ==
    ASSUME TypeOK, SafetyInv, NEW t \in Thread, ThreadStep(t)
    PROVE  SafetyInv'
<1>1. /\ J' = J /\ main' = main /\ mi' = mi
      /\ DOMAIN db \subseteq DOMAIN db'
      /\ \A u \in Thread : u # t =>
            /\ pc'[u] = pc[u] /\ iter'[u] = iter[u] /\ seq'[u] = seq[u]
            /\ op'[u] = op[u] /\ key'[u] = key[u] /\ buf'[u] = buf[u]
    BY ThreadFrame
<1>2. OperationOK(t)' /\ SequenceOK(t)' /\ StoredWhole' /\ LoadedSoFar' /\ pc[t] # "unborn"
    BY ThreadKeepsOwn
<1>3. ASSUME NEW u \in Thread, u # t
      PROVE  OperationOK(u)' /\ SequenceOK(u)'
    <2>1. OperationOK(u) /\ SequenceOK(u)
        BY DEF SafetyInv
    <2>2. OperationOK(u)'
        BY <1>1, <1>3, <2>1 DEF OperationOK, Busy, Whole
    <2>3. SequenceOK(u)'
        BY <1>1, <1>3, <2>1 DEF SequenceOK, Busy
    <2> QED
        BY <2>2, <2>3
<1>4. OnlyWorkersRun'
    BY <1>1, <1>2 DEF SafetyInv, OnlyWorkersRun, Workers
<1> QED
    BY <1>2, <1>3, <1>4 DEF SafetyInv

LEMMA MainStepSafety ==
    ASSUME TypeOK, SafetyInv, MainStep
    PROVE  SafetyInv'
<1>1. /\ OnlyWorkersRun /\ StoredWhole /\ LoadedSoFar
      /\ \A t \in Thread : OperationOK(t) /\ SequenceOK(t)
    BY DEF SafetyInv
<1>2. CASE NextJob
    <2>1. \A t \in Thread : pc'[t] = "unborn" /\ seq'[t] = 0 /\ iter'[t] = 0
        BY <1>2 DEF NextJob, PerThread
    <2>2. cur' # 1 /\ db' = db
        BY <1>2, SMT DEF NextJob, TypeOK
    <2>3. EachRange(J)' \in Nat
        <3>1. TypeOK'
            BY MainStepTypeOK
        <3>2. J' \in Job
            BY <3>1, CampaignsAssumption DEF TypeOK, J
        <3>3. EachRange(J') \in Nat
            BY <3>2, JobSizes
        <3> QED
            BY <3>3
    <2>4. OnlyWorkersRun' /\ StoredWhole' /\ LoadedSoFar'
        BY <1>1, <2>1, <2>2 DEF OnlyWorkersRun, StoredWhole, LoadedSoFar, Whole
    <2>5. \A t \in Thread : OperationOK(t)' /\ SequenceOK(t)'
        BY <2>1, <2>3 DEF OperationOK, SequenceOK, Busy
    <2> QED
        BY <2>4, <2>5 DEF SafetyInv
<1>3. CASE Spawn
    <2>1. /\ J' = J /\ cur' = cur /\ db' = db /\ seq' = seq /\ iter' = iter /\ op' = op
          /\ key' = key /\ buf' = buf /\ pc' = [pc EXCEPT ![mi] = "loop"]
        BY <1>3 DEF Spawn, J
    <2>2. main = "spawn" /\ mi < J.threads /\ mi \in Nat
          /\ (main' = "spawn" => mi' = mi + 1)
        BY <1>3 DEF Spawn, Advance, TypeOK
    <2>3. \A t \in Thread : pc'[t] = IF t = mi THEN "loop" ELSE pc[t]
        BY <2>1 DEF TypeOK
    <2>4. \A t \in Thread : Busy(t)' <=> Busy(t)
        <3>1. \A t \in Thread : t = mi => pc[t] = "unborn"
            BY <1>1, <2>2, SMT DEF OnlyWorkersRun
        <3> QED
            BY <2>3, <3>1 DEF Busy
    <2>5. OnlyWorkersRun'
        <3>1. J.threads \in Nat
            BY CurrentJob, JobSizes, SizingAssumption, SMT DEF TypeOK
        <3> QED
            BY <1>1, <2>1, <2>2, <2>3, <3>1, SizingAssumption, SMT
            DEF OnlyWorkersRun, Workers, Thread
    <2>6. \A t \in Thread : pc'[t] = pc[t] \/ (pc'[t] = "loop" /\ ~Busy(t))
        BY <2>3, <2>4 DEF Busy
    <2>7. \A t \in Thread : OperationOK(t)' /\ SequenceOK(t)'
        <3>1. TAKE t \in Thread
        <3>2. OperationOK(t) /\ SequenceOK(t) /\ (Busy(t)' <=> Busy(t))
            BY <1>1, <2>4
        <3>3. OperationOK(t)'
            BY <2>1, <2>6, <3>2 DEF OperationOK, Busy, Whole
        <3>4. SequenceOK(t)'
            BY <2>1, <3>2 DEF SequenceOK
        <3> QED
            BY <3>3, <3>4
    <2>8. LoadedSoFar'
        <3>1. \A u \in Thread : seq[u] <= seq'[u]
                /\ (pc'[u] = "issued" => seq[u] < seq'[u] \/ pc[u] = "issued")
            BY <2>1, <2>6 DEF TypeOK
        <3> QED
            BY <1>1, <2>1, <3>1, LoadFrame DEF TypeOK
    <2>9. StoredWhole'
        BY <1>1, <2>1 DEF StoredWhole, Whole
    <2> QED
        BY <2>5, <2>7, <2>8, <2>9 DEF SafetyInv
<1>4. CASE Join \/ Report \/ DrainPop \/ DrainNext
    <2>1. /\ J' = J /\ cur' = cur /\ db' = db /\ threadVars' = threadVars
          /\ main' # "spawn"
        BY <1>4 DEF Join, Report, DrainPop, DrainNext, Advance, J
    <2>2. /\ pc' = pc /\ iter' = iter /\ seq' = seq /\ op' = op /\ key' = key /\ buf' = buf
        BY <2>1 DEF threadVars
    <2>3. OnlyWorkersRun' /\ StoredWhole' /\ LoadedSoFar'
        BY <1>1, <2>1, <2>2 DEF OnlyWorkersRun, StoredWhole, LoadedSoFar, Workers, Whole
    <2>4. \A t \in Thread : OperationOK(t)' /\ SequenceOK(t)'
        BY <1>1, <2>1, <2>2 DEF OperationOK, SequenceOK, Busy, Whole
    <2> QED
        BY <2>3, <2>4 DEF SafetyInv
<1> QED
    BY <1>2, <1>3, <1>4 DEF MainStep

LEMMA StutterSafety ==
    ASSUME SafetyInv, UNCHANGED vars
    PROVE  SafetyInv'
    BY DEF SafetyInv, OnlyWorkersRun, StoredWhole, LoadedSoFar, OperationOK, SequenceOK,
           Busy, Whole, Workers, vars, mainVars, threadVars, J

\* The inductive invariant.
THEOREM Safety == Spec => []SafetyInv
<1>1. TypeOK /\ SafetyInv /\ [Next]_vars => SafetyInv'
    BY ThreadStepSafety, MainStepSafety, StutterSafety DEF Next, Terminated
<1> QED
    BY <1>1, InitSafety, TypeCorrect, PTL DEF Spec
-----------------------------------------------------------------------------
\* Whatever the interleaving and the failures, the store only ever holds whole
\* values under their own keys.
THEOREM StoreStaysWhole == Spec => []StoredWhole
<1>1. SafetyInv => StoredWhole
    BY DEF SafetyInv
<1> QED
    BY <1>1, Safety, PTL

\* No thread's buffer is ever filled with another key's value.
THEOREM BuffersStayOwn == Spec => []BuffersOwnKey
<1>1. SafetyInv => BuffersOwnKey
    BY DEF SafetyInv, OperationOK, Busy, BuffersOwnKey
<1> QED
    BY <1>1, Safety, PTL

\* Every key issued is in the range ycsb.h documents, and in a warm up in the
\* range of the whole database.
THEOREM KeysStayInRange == Spec => []KeysInRange
<1>1. TypeOK /\ SafetyInv => KeysInRange
    <2> SUFFICES ASSUME TypeOK, SafetyInv, NEW t \in Workers, pc[t] \in {"issued", "modify"}
                 PROVE  /\ key[t] \in BaseKey(J, t) .. BaseKey(J, t) + YcsbRange(J, t)
                        /\ key[t] <= KeyRange(J) + 1
        BY DEF KeysInRange
    <2>1. J \in Job /\ t \in Thread /\ t \in 0 .. J.threads - 1
        BY CurrentJob, WorkersAreThreads DEF TypeOK, Workers
    <2>2. /\ BaseKey(J, t) \in Nat /\ EachRange(J) \in Nat /\ KeyRange(J) \in Nat
          /\ IsWarmup(J) => BaseKey(J, t) + EachRange(J) <= KeyRange(J) + 1
        BY <2>1, BaseKeyBounds, JobSizes
    <2>3. OperationOK(t) /\ SequenceOK(t) /\ Busy(t) /\ seq[t] \in Nat /\ key[t] \in Nat
        BY <2>1 DEF SafetyInv, Busy, TypeOK
    <2>4. CASE IsWarmup(J)
        <3>1. key[t] = BaseKey(J, t) + seq[t] /\ seq[t] <= EachRange(J)
            BY <2>3, <2>4 DEF OperationOK, SequenceOK
        <3>2. YcsbRange(J, t) = BaseKey(J, t) + EachRange(J)
            BY <2>4 DEF YcsbRange
        <3> QED
            BY <2>2, <2>3, <2>4, <3>1, <3>2, SMT
    <2>5. CASE ~IsWarmup(J)
        <3>1. key[t] \in 1 .. KeyRange(J) + 1 /\ BaseKey(J, t) = 1 /\ YcsbRange(J, t) = KeyRange(J)
            BY <2>3, <2>5 DEF OperationOK, BaseKey, YcsbRange
        <3> QED
            BY <2>2, <3>1, SMT
    <2> QED
        BY <2>4, <2>5
<1> QED
    BY <1>1, Safety, TypeCorrect, PTL

\* A warm up of an empty store never puts a key that is already there, for any
\* number of threads: LoadedSoFar says whose slice a stored key is of, and
\* SlicesDisjoint that no other thread can draw it.
THEOREM LoadStaysFresh == Spec => []LoadIsFresh
<1>1. TypeOK /\ SafetyInv => LoadIsFresh
    <2> SUFFICES ASSUME TypeOK, SafetyInv, cur = 1, IsWarmup(J), NEW t \in Thread,
                        pc[t] = "issued", key[t] \in DOMAIN db
                 PROVE  FALSE
        BY DEF LoadIsFresh
    <2>1. J \in Job /\ t \in Workers /\ OperationOK(t) /\ SequenceOK(t) /\ Busy(t)
        BY CurrentJob DEF TypeOK, SafetyInv, OnlyWorkersRun, Busy
    <2>2. /\ key[t] = BaseKey(J, t) + seq[t] /\ seq[t] = iter[t] + 1
          /\ seq[t] <= EachRange(J)
        BY <2>1 DEF OperationOK, SequenceOK
    <2>3. PICK u \in Workers : \E m \in 1 .. seq[u] :
                key[t] = BaseKey(J, u) + m /\ (pc[u] = "issued" => m < seq[u])
        BY DEF SafetyInv, LoadedSoFar
    <2>4. PICK m \in 1 .. seq[u] :
                key[t] = BaseKey(J, u) + m /\ (pc[u] = "issued" => m < seq[u])
        BY <2>3
    <2>5. u \in Thread /\ SequenceOK(u) /\ seq[u] \in Nat /\ seq[t] \in Nat /\ iter[t] \in Nat
        BY <2>1, WorkersAreThreads DEF SafetyInv, TypeOK
    <2>6. EachRange(J) \in Nat /\ seq[u] <= EachRange(J)
        BY <2>1, <2>5, JobSizes DEF SequenceOK
    <2>7. BaseKey(J, t) \in Nat /\ BaseKey(J, u) \in Nat
        BY <2>1, BaseKeyBounds DEF Workers
    <2>8. CASE u = t
        BY <2>2, <2>4, <2>5, <2>7, <2>8, SMT
    <2>9. CASE u # t
        <3>1. seq[t] \in 1 .. EachRange(J) /\ m \in 1 .. EachRange(J)
            BY <2>2, <2>4, <2>5, <2>6, SMT
        <3>2. BaseKey(J, t) + seq[t] # BaseKey(J, u) + m
            BY <2>1, <2>9, <3>1, SlicesDisjoint DEF Workers
        <3> QED
            BY <2>2, <2>4, <3>2
    <2> QED
        BY <2>8, <2>9
<1> QED
    BY <1>1, Safety, TypeCorrect, PTL

\* Workloads C and F never change the store: F's write-back finds the key it
\* read still there, and writes what is there.
THEOREM ReadOnlyJobs == Spec => ReadOnlyJobsPreserve
<1>1. ASSUME TypeOK, SafetyInv, [Next]_vars, J.btype \in {"ycsb-c", "ycsb-f"}
      PROVE  db' = db
    <2>1. ASSUME NEW t \in Thread, DoPut(t)
          PROVE  FALSE
        <3>1. op[t] \in OpChoices(J) /\ op[t] \in {"PUT", "UPDATE"}
            BY <1>1, <2>1 DEF SafetyInv, OperationOK, Busy, DoPut, At
        <3> QED
            BY <1>1, <3>1, CurrentJob, OpChoicesBounds DEF TypeOK
    <2>2. ASSUME NEW t \in Thread, RmwWrite(t)
          PROVE  db' = db
        <3>1. PICK out \in PutOutcomes(db, key[t], buf[t]) : db' = out.db
            BY <2>2 DEF RmwWrite
        <3>2. buf[t] = Whole(key[t]) /\ key[t] \in DOMAIN db /\ buf[t] \in Value
            BY <1>1, <2>2 DEF SafetyInv, OperationOK, Busy, RmwWrite, At, TypeOK
        <3>3. StoredWhole
            BY <1>1 DEF SafetyInv
        <3> QED
            BY <1>1, <3>1, <3>2, <3>3, RewriteKeepsStore
    <2>3. CASE \E t \in Thread : ThreadStep(t)
        BY <2>1, <2>2, <2>3 DEF ThreadStep, GetKvPair, DoGet, RmwRead, DoScan, PushLatency,
                            BookLatency, Finish
    <2>4. CASE MainStep
        BY <2>4 DEF MainStep, Spawn, Join, Report, DrainPop, DrainNext, NextJob
    <2>5. CASE UNCHANGED vars
        BY <2>5 DEF vars
    <2> QED
        BY <1>1, <2>3, <2>4, <2>5 DEF Next, Terminated
<1>2. TypeOK /\ SafetyInv /\ [Next]_vars
        => [J.btype \in {"ycsb-c", "ycsb-f"} => db' = db]_vars
    BY <1>1
<1> QED
    BY <1>2, Safety, TypeCorrect, PTL DEF Spec, ReadOnlyJobsPreserve
-----------------------------------------------------------------------------
(***************************************************************************)
(* The report: every operation is counted and timed once, and the files of *)
(* a job wait for all of them.                                             *)
(***************************************************************************)
\* The part of CountsMatchLatencies about one thread and one operation.
CountOK(t, o) ==
    /\ count[t][o] = Len(vec[t][o])
                     + (IF pc[t] \in {"push", "book"} /\ op[t] = o THEN 1 ELSE 0)
    /\ success[t][o] <= count[t][o]

\* The iterations of a job are a natural number, and bound its count.
LEMMA IterationsBound ==
    ASSUME NEW j \in Job
    PROVE  /\ Iterations(j) \in Nat
           /\ OpCount(j) \in Int /\ OpCount(j) <= Iterations(j)
           /\ \A n \in Nat : n >= OpCount(j) /\ n <= Iterations(j) => n = Iterations(j)
<1>1. OpCount(j) \in Int
    BY JobSizes
<1> QED
    BY <1>1, SMT DEF Iterations

\* Nothing is counted or booked at the start.
LEMMA InitReport == Init => ReportInv
<1> SUFFICES ASSUME Init PROVE ReportInv
    OBVIOUS
<1>1. J \in Job
    BY CampaignsAssumption DEF Init, J
<1>2. ASSUME NEW t \in Thread
      PROVE  pc[t] = "unborn" /\ iter[t] = 0 /\ \A o \in Ops :
                count[t][o] = 0 /\ success[t][o] = 0 /\ vec[t][o] = <<>>
    BY DEF Init, PerThread, PerOp
<1>3. CountsMatchLatencies
    <2> SUFFICES ASSUME NEW t \in Thread, NEW o \in Ops \ {"SCAN"}
                 PROVE  CountOK(t, o)
        BY DEF CountsMatchLatencies, CountOK
    <2>2. count[t][o] = 0 /\ success[t][o] = 0 /\ Len(vec[t][o]) = 0 /\ pc[t] = "unborn"
        BY <1>2
    <2> QED
        BY <2>2 DEF CountOK
<1>4. ASSUME NEW t \in Thread
      PROVE  LoopOK(t)
    <2>1. Booked(t) = 0
        <3>1. /\ Len(vec[t]["PUT"]) = 0 /\ Len(vec[t]["UPDATE"]) = 0 /\ Len(vec[t]["GET"]) = 0
              /\ Len(vec[t]["SCAN"]) = 0 /\ Len(vec[t]["RMW"]) = 0
            BY <1>2 DEF Ops
        <3> QED
            BY <3>1 DEF Booked
    <2> QED
        BY <1>1, <1>2, <2>1, IterationsBound DEF LoopOK, Busy
<1>5. JoinedFinished
    BY DEF Init, JoinedFinished
<1> QED
    BY <1>3, <1>4, <1>5 DEF ReportInv

\* A step of a thread touches no results but its own.
LEMMA ResultsFrame ==
    ASSUME TypeOK, NEW t \in Thread, ThreadStep(t), NEW u \in Thread, u # t
    PROVE  count'[u] = count[u] /\ success'[u] = success[u] /\ vec'[u] = vec[u]
<1>1. ASSUME NEW o \in Ops, NEW ok, Tally(t, o, ok)
      PROVE  count'[u] = count[u] /\ success'[u] = success[u]
    BY <1>1 DEF Tally, TypeOK
<1>2. "GET" \in Ops /\ "RMW" \in Ops /\ op[t] \in Ops
    BY DEF Ops, TypeOK
<1>3. vec'[u] = vec[u]
    BY DEF ThreadStep, GetKvPair, DoPut, DoGet, RmwRead, RmwWrite, DoScan,
           PushLatency, BookLatency, Finish, TypeOK
<1>4. count'[u] = count[u] /\ success'[u] = success[u]
    <2>1. CASE DoPut(t) \/ DoGet(t) \/ RmwWrite(t)
        BY <1>1, <1>2, <2>1 DEF DoPut, DoGet, RmwWrite
    <2>2. CASE RmwRead(t)
        BY <1>1, <1>2, <2>2 DEF RmwRead
    <2>3. CASE GetKvPair(t) \/ DoScan(t) \/ PushLatency(t) \/ BookLatency(t) \/ Finish(t)
        BY <2>3 DEF GetKvPair, DoScan, PushLatency, BookLatency, Finish
    <2> QED
        BY <2>1, <2>2, <2>3 DEF ThreadStep
<1> QED
    BY <1>3, <1>4

\* Counting one operation of type p that has no latency yet.
LEMMA TallyCounts ==
    ASSUME TypeOK, NEW t \in Thread, NEW p \in Ops, NEW ok \in BOOLEAN, Tally(t, p, ok),
           \A o \in Ops \ {"SCAN"} : CountOK(t, o),
           pc[t] \notin {"push", "book"}, pc'[t] = "push", op'[t] = p, vec'[t] = vec[t]
    PROVE  \A o \in Ops \ {"SCAN"} : CountOK(t, o)'
<1> SUFFICES ASSUME NEW o \in Ops \ {"SCAN"}
             PROVE  CountOK(t, o)'
    OBVIOUS
<1>1. /\ count[t][o] = Len(vec[t][o]) /\ success[t][o] <= count[t][o]
      /\ count[t][o] \in Nat /\ success[t][o] \in Nat
    BY DEF CountOK, TypeOK
<1>2. /\ count'[t][o] = IF o = p THEN count[t][o] + 1 ELSE count[t][o]
      /\ success'[t][o] = IF o = p /\ ok THEN success[t][o] + 1 ELSE success[t][o]
    <2>1. count'[t][o] = IF o = p THEN count[t][o] + 1 ELSE count[t][o]
        BY DEF Tally, TypeOK
    <2>2. CASE ok
        BY <2>1, <2>2 DEF Tally, TypeOK
    <2>3. CASE ~ok
        BY <2>1, <2>3 DEF Tally
    <2> QED
        BY <2>1, <2>2, <2>3
<1>3. Len(vec'[t][o]) = Len(vec[t][o])
    OBVIOUS
<1>4. CASE o = p
    <2>1. count'[t][o] = Len(vec'[t][o]) + 1 /\ success'[t][o] <= count'[t][o]
        BY <1>1, <1>2, <1>3, <1>4
    <2> QED
        BY <1>4, <2>1 DEF CountOK
<1>5. CASE o # p
    <2>1. count'[t][o] = Len(vec'[t][o]) /\ success'[t][o] <= count'[t][o]
        BY <1>1, <1>2, <1>3, <1>5
    <2> QED
        BY <1>1, <1>2, <1>3, <1>5, <2>1 DEF CountOK
<1> QED
    BY <1>4, <1>5

\* Booking a latency makes one sequence one longer.
LEMMA BookingCounts ==
    ASSUME TypeOK, NEW t \in Thread, BookLatency(t), NEW o \in Ops
    PROVE  /\ Len(vec'[t][o]) = IF o = op[t] THEN Len(vec[t][o]) + 1 ELSE Len(vec[t][o])
           /\ Len(vec[t][o]) \in Nat
<1>1. vec[t][o] \in Seq(Token) /\ vec[t] \in [Ops -> Seq(Token)] /\ op[t] \in Ops
    BY DEF TypeOK
<1>2. <<t, iter[t]>> \in Token
    BY DEF TypeOK, Token
<1>3. vec'[t] = [vec[t] EXCEPT ![op[t]] = Append(@, <<t, iter[t]>>)]
    BY DEF BookLatency, TypeOK
<1>4. vec'[t][o] = IF o = op[t] THEN Append(vec[t][o], <<t, iter[t]>>) ELSE vec[t][o]
    BY <1>1, <1>3
<1>5. Len(Append(vec[t][o], <<t, iter[t]>>)) = Len(vec[t][o]) + 1 /\ Len(vec[t][o]) \in Nat
    BY <1>1, <1>2
<1> QED
    BY <1>4, <1>5

\* A thread's step keeps its own counts in step with its latencies.
LEMMA StepCounts ==
    ASSUME TypeOK, SafetyInv, NEW t \in Thread, ThreadStep(t),
           \A o \in Ops \ {"SCAN"} : CountOK(t, o)
    PROVE  \A o \in Ops \ {"SCAN"} : CountOK(t, o)'
<1>1. /\ pc \in [Thread -> PlacesOfThread] /\ op \in [Thread -> Ops]
      /\ key[t] \in Nat /\ buf[t] \in Value
      /\ DOMAIN db \subseteq Nat /\ db \in [DOMAIN db -> Value]
      /\ "GET" \in Ops /\ "RMW" \in Ops
    BY DEF TypeOK, Ops
<1>2. OperationOK(t)
    BY DEF SafetyInv
<1>3. CASE GetKvPair(t)
    <2>1. pc[t] = "loop" /\ pc'[t] = "issued" /\ count' = count /\ success' = success /\ vec' = vec
        BY <1>1, <1>3 DEF GetKvPair, At
    <2> QED
        BY <2>1 DEF CountOK
<1>4. CASE DoPut(t)
    <2>1. PICK out \in PutOutcomes(db, key[t], buf[t]) : Tally(t, op[t], out.ok)
        BY <1>4 DEF DoPut
    <2>2. pc[t] = "issued" /\ pc'[t] = "push" /\ op' = op /\ vec' = vec /\ out.ok \in BOOLEAN
        BY <1>1, <1>4, PutAnswers DEF DoPut, At
    <2> QED
        BY <1>1, <2>1, <2>2, TallyCounts
<1>5. CASE DoGet(t)
    <2>1. PICK out \in GetOutcomes(db, key[t], buf[t]) : Tally(t, "GET", out.ok)
        BY <1>5 DEF DoGet
    <2>2. pc[t] = "issued" /\ pc'[t] = "push" /\ op' = op /\ vec' = vec /\ out.ok \in BOOLEAN
          /\ op[t] = "GET"
        BY <1>1, <1>5, GetAnswers DEF DoGet, At
    <2> QED
        BY <1>1, <2>1, <2>2, TallyCounts
<1>6. CASE RmwRead(t)
    <2>1. PICK out \in GetOutcomes(db, key[t], buf[t]) :
            IF out.ok THEN At(t, "issued", "modify") /\ UNCHANGED <<count, success>>
                      ELSE At(t, "issued", "push") /\ Tally(t, "RMW", FALSE)
        BY <1>6 DEF RmwRead
    <2>2. op' = op /\ vec' = vec /\ op[t] = "RMW"
        BY <1>6 DEF RmwRead
    <2>3. CASE out.ok
        <3>1. pc[t] = "issued" /\ pc'[t] = "modify" /\ count' = count /\ success' = success
            BY <1>1, <2>1, <2>3 DEF At
        <3> QED
            BY <2>2, <3>1 DEF CountOK
    <2>4. CASE ~out.ok
        <3>1. pc[t] = "issued" /\ pc'[t] = "push" /\ Tally(t, "RMW", FALSE)
            BY <1>1, <2>1, <2>4 DEF At
        <3> QED
            BY <1>1, <2>2, <3>1, TallyCounts
    <2> QED
        BY <2>3, <2>4
<1>7. CASE RmwWrite(t)
    <2>1. PICK out \in PutOutcomes(db, key[t], buf[t]) : Tally(t, "RMW", out.ok)
        BY <1>7 DEF RmwWrite
    <2>2. pc[t] = "modify" /\ pc'[t] = "push" /\ op' = op /\ vec' = vec /\ out.ok \in BOOLEAN
        BY <1>1, <1>7, PutAnswers DEF RmwWrite, At
    <2>3. op[t] = "RMW"
        BY <1>2, <2>2 DEF OperationOK, Busy
    <2> QED
        BY <1>1, <2>1, <2>2, <2>3, TallyCounts
<1>8. CASE DoScan(t)
    <2>1. /\ pc[t] = "issued" /\ pc'[t] = "push" /\ op[t] = "SCAN" /\ op' = op
          /\ count' = count /\ success' = success /\ vec' = vec
        BY <1>1, <1>8 DEF DoScan, At
    <2> QED
        BY <2>1 DEF CountOK
<1>9. CASE PushLatency(t)
    <2>1. /\ pc[t] = "push" /\ pc'[t] = "book" /\ op' = op
          /\ count' = count /\ success' = success /\ vec' = vec
        BY <1>1, <1>9 DEF PushLatency, At
    <2> QED
        BY <2>1 DEF CountOK
<1>10. CASE BookLatency(t)
    <2>1. /\ pc[t] = "book" /\ pc'[t] = "loop" /\ op' = op
          /\ count' = count /\ success' = success
        BY <1>1, <1>10 DEF BookLatency, At
    <2>2. TAKE o \in Ops \ {"SCAN"}
    <2>3. /\ Len(vec'[t][o]) = IF o = op[t] THEN Len(vec[t][o]) + 1 ELSE Len(vec[t][o])
          /\ Len(vec[t][o]) \in Nat
        BY <1>10, BookingCounts
    <2>4. count[t][o] = Len(vec'[t][o]) /\ success[t][o] <= count[t][o]
        <3>1. CountOK(t, o)
            BY <2>2
        <3>2. CASE o = op[t]
            BY <2>1, <2>3, <3>1, <3>2 DEF CountOK
        <3>3. CASE o # op[t]
            <4>1. ~(pc[t] \in {"push", "book"} /\ op[t] = o)
                BY <3>3
            <4>2. count[t][o] = Len(vec[t][o]) + 0
                BY <3>1, <4>1, Zenon DEF CountOK
            <4>3. success[t][o] <= count[t][o]
                BY <3>1 DEF CountOK
            <4>4. Len(vec'[t][o]) = Len(vec[t][o])
                BY <2>3, <3>3
            <4> QED
                BY <2>3, <4>2, <4>3, <4>4
        <3> QED
            BY <3>2, <3>3
    <2> QED
        BY <2>1, <2>4 DEF CountOK
<1>11. CASE Finish(t)
    <2>1. pc[t] = "loop" /\ pc'[t] = "finished" /\ count' = count /\ success' = success /\ vec' = vec
        BY <1>1, <1>11 DEF Finish, At
    <2> QED
        BY <2>1 DEF CountOK
<1> QED
    BY <1>3, <1>4, <1>5, <1>6, <1>7, <1>8, <1>9, <1>10, <1>11 DEF ThreadStep
\* Booking a latency books one more.
LEMMA BookingBooks ==
    ASSUME TypeOK, SafetyInv, NEW t \in Thread, BookLatency(t)
    PROVE  Booked(t)' = Booked(t) + 1
<1>1. op[t] \in {"PUT", "UPDATE", "GET", "SCAN", "RMW"}
    <2>1. pc[t] = "book" /\ J \in Job
        BY CurrentJob DEF BookLatency, At, TypeOK
    <2> QED
        BY <2>1, OpChoicesBounds DEF SafetyInv, OperationOK, Busy
<1> DEFINE n(o) == Len(vec[t][o])
           m(o) == Len(vec'[t][o])
<1>2. \A o \in Ops : n(o) \in Nat /\ m(o) = IF o = op[t] THEN n(o) + 1 ELSE n(o)
    BY BookingCounts
<1>3. /\ Booked(t) = n("PUT") + n("UPDATE") + n("GET") + n("SCAN") + n("RMW")
      /\ Booked(t)' = m("PUT") + m("UPDATE") + m("GET") + m("SCAN") + m("RMW")
    BY DEF Booked
<1> HIDE DEF n, m
<1>4. {"PUT", "UPDATE", "GET", "SCAN", "RMW"} \subseteq Ops
    BY DEF Ops
<1> QED
    BY <1>1, <1>2, <1>3, <1>4

\* A thread's step keeps its own loop in order.
LEMMA StepLoop ==
    ASSUME TypeOK, SafetyInv, NEW t \in Thread, ThreadStep(t), LoopOK(t)
    PROVE  LoopOK(t)'
<1>1. J \in Job /\ J' = J
    BY CurrentJob, ThreadFrame DEF TypeOK
<1>2. pc \in [Thread -> PlacesOfThread] /\ iter[t] \in Nat /\ iter \in [Thread -> Nat]
    BY DEF TypeOK
<1>3. CASE BookLatency(t)
    <2>1. pc[t] = "book" /\ pc'[t] = "loop" /\ iter'[t] = iter[t] + 1
        BY <1>2, <1>3 DEF BookLatency, At
    <2>2. Booked(t)' = Booked(t) + 1
        BY <1>3, BookingBooks
    <2>3. Booked(t) = iter[t] /\ iter[t] < OpCount(J)
        BY <2>1 DEF LoopOK, Busy
    <2>4. iter'[t] <= Iterations(J)
        BY <1>1, <1>2, <2>1, <2>3, IterationsBound
    <2> QED
        BY <1>1, <2>1, <2>2, <2>3, <2>4 DEF LoopOK, Busy
<1>4. CASE GetKvPair(t)
    <2>1. /\ pc[t] = "loop" /\ pc'[t] = "issued" /\ iter' = iter /\ vec' = vec
          /\ iter[t] < OpCount(J)
        BY <1>2, <1>4 DEF GetKvPair, At
    <2> QED
        BY <1>1, <2>1 DEF LoopOK, Busy, Booked
<1>5. CASE Finish(t)
    <2>1. /\ pc[t] = "loop" /\ pc'[t] = "finished" /\ iter' = iter /\ vec' = vec
          /\ iter[t] >= OpCount(J)
        BY <1>2, <1>5 DEF Finish, At
    <2>2. iter[t] = Iterations(J)
        BY <1>1, <1>2, <2>1, IterationsBound DEF LoopOK
    <2> QED
        BY <1>1, <2>1, <2>2 DEF LoopOK, Busy, Booked
<1>6. CASE DoPut(t) \/ DoGet(t) \/ RmwRead(t) \/ RmwWrite(t) \/ DoScan(t) \/ PushLatency(t)
    <2>1. /\ pc[t] \in {"issued", "modify", "push"} /\ pc'[t] \in {"modify", "push", "book"}
          /\ iter' = iter /\ vec' = vec
        <3>1. CASE RmwRead(t)
            BY <1>2, <3>1 DEF RmwRead, At
        <3>2. CASE DoPut(t) \/ DoGet(t) \/ RmwWrite(t) \/ DoScan(t) \/ PushLatency(t)
            BY <1>2, <3>2 DEF DoPut, DoGet, RmwWrite, DoScan, PushLatency, At
        <3> QED
            BY <1>6, <3>1, <3>2
    <2> QED
        BY <1>1, <2>1 DEF LoopOK, Busy, Booked
<1> QED
    BY <1>3, <1>4, <1>5, <1>6 DEF ThreadStep

\* A finished thread takes no step.
LEMMA FinishedRests ==
    ASSUME TypeOK, NEW t \in Thread, ThreadStep(t)
    PROVE  pc[t] # "finished"
    BY DEF ThreadStep, GetKvPair, DoPut, DoGet, RmwRead, RmwWrite, DoScan,
           PushLatency, BookLatency, Finish, At

\* A worker step keeps the invariant of the report.
LEMMA ThreadStepReport ==
    ASSUME TypeOK, SafetyInv, ReportInv, NEW t \in Thread, ThreadStep(t)
    PROVE  ReportInv'
<1>1. /\ \A u \in Thread, o \in Ops \ {"SCAN"} : CountOK(u, o)
      /\ \A u \in Thread : LoopOK(u)
    BY DEF ReportInv, CountsMatchLatencies, CountOK
<1>2. /\ J' = J /\ main' = main /\ mi' = mi
      /\ \A u \in Thread : u # t => pc'[u] = pc[u] /\ iter'[u] = iter[u] /\ op'[u] = op[u]
    BY ThreadFrame
<1>3. \A u \in Thread : u # t =>
            count'[u] = count[u] /\ success'[u] = success[u] /\ vec'[u] = vec[u]
    BY ResultsFrame
<1>4. CountsMatchLatencies'
    <2> SUFFICES ASSUME NEW u \in Thread, NEW o \in Ops \ {"SCAN"}
                 PROVE  CountOK(u, o)'
        BY DEF CountsMatchLatencies, CountOK
    <2>1. CASE u = t
        BY <1>1, <2>1, StepCounts
    <2>2. CASE u # t
        <3>1. CountOK(u, o)
            BY <1>1
        <3> QED
            BY <1>2, <1>3, <2>2, <3>1 DEF CountOK
    <2> QED
        BY <2>1, <2>2
<1>5. ASSUME NEW u \in Thread
      PROVE  LoopOK(u)'
    <2>1. CASE u = t
        BY <1>1, <2>1, StepLoop
    <2>2. CASE u # t
        <3>1. LoopOK(u)
            BY <1>1
        <3> QED
            BY <1>2, <1>3, <2>2, <3>1 DEF LoopOK, Busy, Booked
    <2> QED
        BY <2>1, <2>2
<1>6. JoinedFinished'
    <2>1. pc[t] # "finished"
        BY FinishedRests
    <2>2. \A u \in Thread : pc[u] = "finished" => pc'[u] = "finished"
        BY <1>2, <2>1
    <2>3. Workers' = Workers /\ Workers \subseteq Thread
        BY <1>2, CurrentJob, WorkersAreThreads DEF Workers, TypeOK
    <2> QED
        BY <1>2, <2>2, <2>3 DEF ReportInv, JoinedFinished
<1> QED
    BY <1>4, <1>5, <1>6 DEF ReportInv

\* A step of the main thread keeps it: joining a thread waits for it.
LEMMA MainStepReport ==
    ASSUME TypeOK, SafetyInv, ReportInv, MainStep
    PROVE  ReportInv'
<1>1. /\ \A u \in Thread, o \in Ops \ {"SCAN"} : CountOK(u, o)
      /\ \A u \in Thread : LoopOK(u)
      /\ JoinedFinished
    BY DEF ReportInv, CountsMatchLatencies, CountOK
<1>2. J \in Job /\ J.threads \in Nat /\ J.threads > 0
    BY CurrentJob, JobSizes, SizingAssumption, SMT DEF TypeOK
<1>3. CASE NextJob
    <2>1. ASSUME NEW t \in Thread
          PROVE  pc'[t] = "unborn" /\ iter'[t] = 0 /\ \A o \in Ops :
                    count'[t][o] = 0 /\ success'[t][o] = 0 /\ Len(vec'[t][o]) = 0
        BY <1>3 DEF NextJob, PerThread, PerOp
    <2>2. J' \in Job
        <3>1. TypeOK'
            BY MainStepTypeOK
        <3> QED
            BY <3>1, CampaignsAssumption DEF TypeOK, J
    <2>3. CountsMatchLatencies'
        <3> SUFFICES ASSUME NEW t \in Thread, NEW o \in Ops \ {"SCAN"}
                     PROVE  CountOK(t, o)'
            BY DEF CountsMatchLatencies, CountOK
        <3>1. /\ pc'[t] = "unborn" /\ count'[t][o] = 0 /\ success'[t][o] = 0
              /\ Len(vec'[t][o]) = 0
            BY <2>1
        <3> QED
            BY <3>1 DEF CountOK
    <2>4. ASSUME NEW t \in Thread
          PROVE  LoopOK(t)'
        <3>1. /\ Len(vec'[t]["PUT"]) = 0 /\ Len(vec'[t]["UPDATE"]) = 0
              /\ Len(vec'[t]["GET"]) = 0 /\ Len(vec'[t]["SCAN"]) = 0
              /\ Len(vec'[t]["RMW"]) = 0
            BY <2>1 DEF Ops
        <3>2. Booked(t)' = 0
            BY <3>1 DEF Booked
        <3>3. Iterations(J') \in Nat
            BY <2>2, IterationsBound
        <3>4. Iterations(J)' = Iterations(J')
            OBVIOUS
        <3> QED
            BY <2>1, <3>2, <3>3, <3>4 DEF LoopOK, Busy
    <2>5. JoinedFinished'
        BY <1>3 DEF NextJob, JoinedFinished
    <2> QED
        BY <2>3, <2>4, <2>5 DEF ReportInv
<1>4. CASE Spawn
    <2>1. /\ J' = J /\ iter' = iter /\ op' = op /\ count' = count /\ success' = success
          /\ vec' = vec /\ pc' = [pc EXCEPT ![mi] = "loop"]
        BY <1>4 DEF Spawn, J
    <2>2. main = "spawn" /\ mi \in Nat /\ main' \in {"spawn", "join"}
          /\ (main' = "join" => mi' = 0)
        BY <1>4 DEF Spawn, Advance, TypeOK
    <2>3. \A t \in Thread : pc'[t] = pc[t] \/ (pc[t] = "unborn" /\ pc'[t] = "loop")
        <3>1. \A t \in Thread : t = mi => pc[t] = "unborn"
            BY <2>2, SMT DEF SafetyInv, OnlyWorkersRun
        <3> QED
            BY <2>1, <3>1 DEF TypeOK
    <2>4. CountsMatchLatencies'
        <3> SUFFICES ASSUME NEW t \in Thread, NEW o \in Ops \ {"SCAN"}
                     PROVE  CountOK(t, o)'
            BY DEF CountsMatchLatencies, CountOK
        <3>1. CountOK(t, o)
            BY <1>1
        <3>2. pc'[t] \in {"push", "book"} <=> pc[t] \in {"push", "book"}
            BY <2>3
        <3> QED
            BY <2>1, <3>1, <3>2 DEF CountOK
    <2>5. \A t \in Thread : LoopOK(t)'
        BY <1>1, <2>1, <2>3 DEF LoopOK, Busy, Booked
    <2>6. JoinedFinished'
        BY <2>2, SMT DEF JoinedFinished, Thread
    <2> QED
        BY <2>4, <2>5, <2>6 DEF ReportInv
<1>5. CASE Join \/ Report \/ DrainPop \/ DrainNext
    <2>1. J' = J /\ threadVars' = threadVars
        BY <1>5 DEF Join, Report, DrainPop, DrainNext, J
    <2>2. /\ pc' = pc /\ iter' = iter /\ op' = op /\ count' = count /\ success' = success
          /\ vec' = vec
        BY <2>1 DEF threadVars
    <2>3. CountsMatchLatencies' /\ \A t \in Thread : LoopOK(t)'
        BY <2>1, <2>2 DEF ReportInv, CountsMatchLatencies, LoopOK, Busy, Booked
    <2>4. JoinedFinished'
        <3>1. CASE Join
            <4>1. main = "join" /\ pc[mi] = "finished" /\ mi \in Nat
                  /\ \/ mi + 1 < J.threads /\ mi' = mi + 1 /\ main' = "join"
                     \/ ~(mi + 1 < J.threads) /\ main' = "report"
                BY <3>1 DEF Join, Advance, TypeOK
            <4>2. \A t \in Thread : t < mi + 1 => pc[t] = "finished"
                BY <1>1, <4>1, SizingAssumption, SMT DEF JoinedFinished, Thread
            <4>3. CASE mi + 1 < J.threads
                BY <2>2, <4>1, <4>2, <4>3 DEF JoinedFinished
            <4>4. CASE ~(mi + 1 < J.threads)
                <5>1. \A t \in Workers : t \in Thread /\ t < mi + 1
                    BY <1>2, <4>1, <4>4, WorkersAreThreads, SMT DEF Workers
                <5> QED
                    BY <2>1, <2>2, <4>1, <4>2, <4>4, <5>1 DEF JoinedFinished, Workers
            <4> QED
                BY <4>3, <4>4
        <3>2. CASE Report \/ DrainPop \/ DrainNext
            <4>1. main \in {"report", "drain"} /\ main' \in {"report", "drain", "exit"}
                BY <3>2 DEF Report, DrainPop, DrainNext, Advance
            <4> QED
                BY <1>1, <2>1, <2>2, <4>1 DEF JoinedFinished, Workers
        <3> QED
            BY <1>5, <3>1, <3>2
    <2> QED
        BY <2>3, <2>4 DEF ReportInv
<1> QED
    BY <1>3, <1>4, <1>5 DEF MainStep

\* A stuttering step keeps it.
LEMMA StutterReport ==
    ASSUME ReportInv, UNCHANGED vars
    PROVE  ReportInv'
    BY DEF ReportInv, CountsMatchLatencies, LoopOK, JoinedFinished, Booked, Busy, Workers,
           vars, mainVars, threadVars, J
-----------------------------------------------------------------------------
\* Counts, latencies, iterations and joins agree in every reachable state.
THEOREM Reporting == Spec => []ReportInv
<1>1. TypeOK /\ SafetyInv /\ ReportInv /\ [Next]_vars => ReportInv'
    BY ThreadStepReport, MainStepReport, StutterReport DEF Next, Terminated
<1> QED
    BY <1>1, InitReport, TypeCorrect, Safety, PTL DEF Spec

\* Every executed operation is counted once for each latency recorded of it.
THEOREM CountsStayMatched == Spec => []CountsMatchLatencies
<1>1. ReportInv => CountsMatchLatencies
    BY DEF ReportInv
<1> QED
    BY <1>1, Reporting, PTL

\* A thread's iterations are the operations of its share that come of an int.
LEMMA RoundsInInt ==
    ASSUME NEW j \in Job
    PROVE  InInt(DataSize(j) \div (ValueLength * j.threads), Iterations(j))
<1>1. DataSize(j) \in Nat /\ j.threads \in Nat \ {0} /\ ValueLength \in Nat \ {0} /\ IntMax \in Nat
    BY JobSizes, SizingAssumption, SMT
<1>2. ValueLength * j.threads \in Nat \ {0}
    BY <1>1, SMT
<1>3. PICK n \in Nat : n = DataSize(j) \div (ValueLength * j.threads)
    BY <1>1, <1>2, Quotient
<1>4. OpCount(j) = Wrapped(n, IntMax)
    BY <1>3 DEF OpCount, ToInt, Wrapped
<1>5. Iterations(j) = IF Wrapped(n, IntMax) > 0 THEN Wrapped(n, IntMax) ELSE 0
    BY <1>4 DEF Iterations
<1> QED
    BY <1>1, <1>3, <1>5, WrappedRounds DEF InInt

\* The report never misses an operation of any thread.  Its threads have
\* performed their shares of the work, as far as these fit an int.
THEOREM ReportsAreComplete == Spec => []ReportIsComplete
<1>1. TypeOK /\ ReportInv => ReportIsComplete
    <2> SUFFICES ASSUME TypeOK, ReportInv, main \in {"report", "drain", "exit"},
                        NEW t \in Workers
                 PROVE  /\ Booked(t) = Iterations(J)
                        /\ InInt(DataSize(J) \div (ValueLength * J.threads), Booked(t))
        BY DEF ReportIsComplete
    <2>1. t \in Thread /\ J \in Job
        BY CurrentJob, WorkersAreThreads DEF TypeOK
    <2>2. Booked(t) = Iterations(J)
        BY <2>1 DEF ReportInv, JoinedFinished, LoopOK
    <2> QED
        BY <2>1, <2>2, RoundsInInt
<1> QED
    BY <1>1, Reporting, TypeCorrect, PTL
-----------------------------------------------------------------------------
(***************************************************************************)
(* WorkloadGenerator implements BenchmarkRun for every campaign, number of *)
(* threads, size and set of faults.                                        *)
(***************************************************************************)
\* BenchmarkRun counts threads, keys and operations as YcsbSizing does.
LEMMA SameSizes ==
    /\ Promise!Thread = Thread /\ Promise!J = J
    /\ Promise!KeyRange(J) = KeyRange(J)
    /\ Promise!OpCount(J) = OpCount(J)
    /\ Promise!Quota(J) = Iterations(J)
<1>1. Promise!Thread = Thread /\ Promise!J = J /\ Promise!KeyRange(J) = KeyRange(J)
    BY DEF Promise!Thread, Thread, Promise!J, J, Promise!KeyRange, KeyRange
<1>2. Promise!OpCount(J) = OpCount(J)
    BY DEF Promise!OpCount, OpCount, Promise!ToInt, ToInt, Promise!DataSize, DataSize,
           Promise!WorkloadSize, WorkloadSize, Promise!IsWarmup, IsWarmup
<1> QED
    BY <1>1, <1>2 DEF Promise!Quota, Iterations

\* The initial states are initial states of the promise.
LEMMA InitPromise == Init => Promise!Init
    BY SameSizes DEF Init, Promise!Init, PerThread

\* The invariants a step is taken from.
StepInv == TypeOK /\ SafetyInv /\ ReportInv /\ KeysInRange

\* A busy thread keeps the job in the phase in which operations are performed.
LEMMA BusyWhileRunning ==
    ASSUME StepInv, NEW t \in Thread, pc[t] # "finished", pc[t] # "unborn"
    PROVE  main \in {"spawn", "join"} /\ t \in Workers
<1>1. t \in Workers
    BY DEF StepInv, SafetyInv, OnlyWorkersRun
<1>2. main \in PlacesOfMain
    BY DEF StepInv, TypeOK
<1> QED
    BY <1>1, <1>2 DEF StepInv, ReportInv, JoinedFinished, PlacesOfMain

\* A put stores the whole record of a key in range, or nothing.
LEMMA PutIsWrite ==
    ASSUME StepInv, NEW t \in Thread, DoPut(t)
    PROVE  (\E k \in 1 .. KeyRange(J) + 1 : Promise!Write(k)) \/ UNCHANGED Promise!vars
<1>1. TypeOK /\ J \in Job /\ pc[t] = "issued" /\ op[t] \in {"PUT", "UPDATE"}
    <2>1. TypeOK
        BY DEF StepInv
    <2> QED
        BY <2>1, CurrentJob DEF DoPut, At, TypeOK
<1>2. OperationOK(t) /\ LoopOK(t)
    BY DEF StepInv, SafetyInv, ReportInv
<1>3. main \in {"spawn", "join"} /\ t \in Workers
    BY <1>1, BusyWhileRunning
<1>4. J.btype \notin {"ycsb-c", "ycsb-f"}
    BY <1>1, <1>2, OpChoicesBounds DEF OperationOK, Busy
<1>5. iter[t] < Promise!Quota(J)
    <2>1. iter[t] < OpCount(J) /\ iter[t] \in Nat /\ OpCount(J) \in Int
        BY <1>1, <1>2, IterationsBound DEF LoopOK, Busy, TypeOK
    <2> QED
        BY <2>1, SameSizes DEF Iterations
<1>6. key[t] \in 1 .. KeyRange(J) + 1
    <2>1. /\ key[t] \in BaseKey(J, t) .. BaseKey(J, t) + YcsbRange(J, t)
          /\ key[t] <= KeyRange(J) + 1 /\ key[t] \in Nat
        BY <1>1, <1>3 DEF StepInv, KeysInRange, TypeOK
    <2>2. BaseKey(J, t) \in Nat /\ BaseKey(J, t) >= 1
        BY <1>1, <1>3, WorkersAreThreads, BaseKeyBounds DEF Workers
    <2>3. KeyRange(J) \in Nat
        BY <1>1, JobSizes
    <2> QED
        BY <2>1, <2>2, <2>3
<1>7. buf[t] = Whole(key[t]) /\ buf[t] \in Value
    BY <1>1, <1>2 DEF OperationOK, Busy, TypeOK
<1>8. PICK out \in PutOutcomes(db, key[t], buf[t]) : db' = out.db
    BY DEF DoPut
<1>9. out.db = db \/ out.db = Stored(db, key[t], buf[t])
    BY <1>1, <1>7, PutAnswers DEF TypeOK
<1>10. UNCHANGED <<campaign, cur, main, iter>>
    BY DEF DoPut, mainVars
<1>11. CASE db' = db
    BY <1>10, <1>11 DEF Promise!vars
<1>12. CASE db' = Stored(db, key[t], buf[t])
    <2>1. Promise!Write(key[t])
        BY <1>3, <1>4, <1>5, <1>7, <1>10, <1>12, SameSizes
        DEF Promise!Write, Promise!Record, Whole, Stored
    <2> QED
        BY <1>6, <2>1
<1> QED
    BY <1>8, <1>9, <1>11, <1>12

\* A worker's step is a write, the end of an operation, or invisible.
LEMMA ThreadStepPromise ==
    ASSUME StepInv, NEW t \in Thread, ThreadStep(t)
    PROVE  \/ \E k \in 1 .. KeyRange(J) + 1 : Promise!Write(k)
           \/ Promise!Perform(t)
           \/ UNCHANGED Promise!vars
<1>1. TypeOK /\ OperationOK(t) /\ LoopOK(t) /\ StoredWhole
    BY DEF StepInv, SafetyInv, ReportInv
<1>2. CASE DoPut(t)
    BY <1>2, PutIsWrite
<1>3. CASE RmwWrite(t)
    <2>1. PICK out \in PutOutcomes(db, key[t], buf[t]) : db' = out.db
        BY <1>3 DEF RmwWrite
    <2>2. buf[t] = Whole(key[t]) /\ key[t] \in DOMAIN db /\ buf[t] \in Value
        BY <1>1, <1>3 DEF OperationOK, Busy, RmwWrite, At, TypeOK
    <2>3. db' = db
        BY <1>1, <2>1, <2>2, RewriteKeepsStore
    <2> QED
        BY <1>3, <2>3 DEF RmwWrite, mainVars, Promise!vars
<1>4. CASE BookLatency(t)
    <2>1. pc[t] = "book" /\ iter' = [iter EXCEPT ![t] = @ + 1]
          /\ UNCHANGED <<campaign, cur, main, db>>
        BY <1>4 DEF BookLatency, At, mainVars
    <2>2. main \in {"spawn", "join"}
        BY <2>1, BusyWhileRunning
    <2>3. iter[t] < OpCount(J) /\ iter[t] \in Nat /\ OpCount(J) \in Int
        BY <1>1, <2>1, CurrentJob, IterationsBound DEF LoopOK, Busy, TypeOK
    <2>4. iter[t] < Promise!Quota(J)
        BY <2>3, SameSizes DEF Iterations
    <2>5. Promise!Perform(t)
        BY <2>1, <2>2, <2>4, SameSizes DEF Promise!Perform
    <2> QED
        BY <2>5
<1>5. CASE GetKvPair(t) \/ DoGet(t) \/ RmwRead(t) \/ DoScan(t) \/ PushLatency(t) \/ Finish(t)
    BY <1>5 DEF GetKvPair, DoGet, RmwRead, DoScan, PushLatency, Finish, mainVars, Promise!vars
<1> QED
    BY <1>2, <1>3, <1>4, <1>5 DEF ThreadStep

\* A step of the main thread is the report, the next job, or invisible.
LEMMA MainStepPromise ==
    ASSUME StepInv, MainStep
    PROVE  Promise!Report \/ Promise!NextJob \/ UNCHANGED Promise!vars
<1>1. TypeOK /\ ReportInv
    BY DEF StepInv
<1>2. CASE NextJob
    BY <1>2, SameSizes DEF NextJob, Promise!NextJob, PerThread
<1>3. CASE Join
    <2>1. UNCHANGED <<campaign, cur, db, iter>> /\ main = "join" /\ main' \in {"join", "report"}
        BY <1>3 DEF Join, Advance, threadVars
    <2>2. CASE main' = "join"
        BY <2>1, <2>2 DEF Promise!vars
    <2>3. CASE main' = "report"
        <3>1. ReportInv' /\ J' = J
            BY <1>1, <2>1, MainStepReport DEF StepInv, J
        <3>2. \A u \in Workers : u \in Thread /\ iter[u] = Iterations(J)
            <4>1. Workers' = Workers /\ \A u \in Workers : u \in Thread
                BY <1>1, <3>1, CurrentJob, WorkersAreThreads DEF TypeOK, Workers
            <4>2. \A u \in Workers : pc'[u] = "finished"
                BY <2>3, <3>1, <4>1 DEF ReportInv, JoinedFinished
            <4>3. \A u \in Workers : iter'[u] = Iterations(J')
                BY <3>1, <4>1, <4>2 DEF ReportInv, LoopOK
            <4> QED
                BY <2>1, <3>1, <4>1, <4>3
        <3>3. Promise!Report
            BY <2>1, <2>3, <3>2, SameSizes DEF Promise!Report, Workers
        <3> QED
            BY <3>3
    <2> QED
        BY <2>1, <2>2, <2>3
<1>4. CASE Spawn
    BY <1>4 DEF Spawn, Advance, Promise!vars
<1>5. CASE Report \/ DrainPop \/ DrainNext
    BY <1>5 DEF Report, DrainPop, DrainNext, Advance, threadVars, Promise!vars
<1> QED
    BY <1>2, <1>3, <1>4, <1>5 DEF MainStep

\* Every step maps to a step of the promise or to a stutter.
LEMMA StepPromise ==
    ASSUME StepInv, [Next]_vars
    PROVE  [Promise!Next]_(Promise!vars)
<1>1. ASSUME NEW t \in Thread, ThreadStep(t)
      PROVE  [Promise!Next]_(Promise!vars)
    BY <1>1, ThreadStepPromise, SameSizes DEF Promise!Next
<1>2. CASE MainStep
    BY <1>2, MainStepPromise DEF Promise!Next
<1>3. CASE UNCHANGED vars
    BY <1>3 DEF vars, mainVars, threadVars, Promise!vars
<1> QED
    BY <1>1, <1>2, <1>3 DEF Next, Terminated

\* The harness keeps its promise.
THEOREM Implementation == Spec => KeepsPromise
<1>1. StepInv /\ [Next]_vars => [Promise!Next]_(Promise!vars)
    BY StepPromise
<1>2. TypeOK /\ SafetyInv /\ ReportInv /\ KeysInRange => StepInv
    BY DEF StepInv
<1> QED
    BY <1>1, <1>2, InitPromise, TypeCorrect, Safety, Reporting, KeysStayInRange, PTL
    DEF Spec, KeepsPromise, Promise!Spec
-----------------------------------------------------------------------------
(***************************************************************************)
(* What a store that does not fail holds, and what is found in it.         *)
(***************************************************************************)
\* A store that works does what it is told.
LEMMA HealthyPut ==
    ASSUME Faults = {}, NEW d, NEW k, NEW v, NEW out \in PutOutcomes(d, k, v)
    PROVE  out.ok = TRUE /\ k \in DOMAIN out.db
<1>1. out = [db |-> Stored(d, k, v), ok |-> TRUE]
    BY DEF PutOutcomes
<1>2. k \in DOMAIN Stored(d, k, v)
    BY DEF Stored
<1> QED
    BY <1>1, <1>2

LEMMA HealthyGet ==
    ASSUME Faults = {}, NEW d, NEW k \in DOMAIN d, NEW b, NEW out \in GetOutcomes(d, k, b)
    PROVE  out.ok = TRUE
    BY DEF GetOutcomes

\* A warm up only puts.
LEMMA WarmupPuts ==
    ASSUME TypeOK, SafetyInv, IsWarmup(J), NEW t \in Thread, Busy(t)
    PROVE  op[t] = "PUT"
<1>1. op[t] \in OpChoices(J)
    BY DEF SafetyInv, OperationOK
<1>2. \A r : RandomGetPut(J.btype, r) = "PUT"
    BY DEF RandomGetPut, IsWarmup
<1> QED
    BY <1>1, <1>2 DEF OpChoices

\* At the end of a warm up every thread has drawn the keys of its count.
LEMMA WarmLoadEnds ==
    ASSUME TypeOK, SafetyInv, ReportInv, StoredSoFar
    PROVE  WarmLoadExact
<1> SUFFICES ASSUME cur = 1, IsWarmup(J), main = "exit"
             PROVE  /\ DOMAIN db \subseteq LoadedKeys(J)
                    /\ Faults = {} => LoadedKeys(J) \subseteq DOMAIN db
    BY DEF WarmLoadExact
<1>1. J \in Job
    BY CurrentJob DEF TypeOK
<1>2. ASSUME NEW t \in Workers
      PROVE  /\ seq[t] \in Nat /\ seq[t] = Iterations(J) /\ pc[t] # "issued"
             /\ 1 .. seq[t] = 1 .. OpCount(J)
    <2>1. t \in Thread
        BY <1>1, WorkersAreThreads
    <2>2. pc[t] = "finished" /\ iter[t] = Iterations(J) /\ SequenceOK(t)
        BY <2>1 DEF ReportInv, JoinedFinished, LoopOK, SafetyInv
    <2>3. seq[t] = iter[t] /\ seq[t] \in Nat
        BY <2>1, <2>2, SMT DEF SequenceOK, Busy, TypeOK
    <2>4. OpCount(J) \in Int
        BY <1>1, JobSizes
    <2>5. 1 .. seq[t] = 1 .. OpCount(J)
        BY <2>2, <2>3, <2>4, SMT DEF Iterations
    <2> QED
        BY <2>2, <2>3, <2>5
<1>3. ASSUME NEW t \in Workers
      PROVE  BaseKey(J, t) \in Nat /\ OpCount(J) \in Int
    BY <1>1, BaseKeyBounds, JobSizes DEF Workers
<1>4. ASSUME NEW k \in DOMAIN db
      PROVE  k \in LoadedKeys(J)
    <2>1. PICK t \in Workers : \E m \in 1 .. seq[t] : k = BaseKey(J, t) + m
        BY DEF SafetyInv, LoadedSoFar
    <2>2. PICK m \in 1 .. OpCount(J) : k = BaseKey(J, t) + m
        BY <1>2, <2>1
    <2>3. k \in BaseKey(J, t) + 1 .. BaseKey(J, t) + OpCount(J)
        BY <1>3, <2>2, SMT
    <2> QED
        BY <2>3 DEF LoadedKeys, Workers
<1>5. ASSUME Faults = {}, NEW k \in LoadedKeys(J)
      PROVE  k \in DOMAIN db
    <2>1. PICK t \in Workers : k \in BaseKey(J, t) + 1 .. BaseKey(J, t) + OpCount(J)
        BY DEF LoadedKeys, Workers
    <2>2. PICK m \in 1 .. OpCount(J) : k = BaseKey(J, t) + m
        <3>1. k - BaseKey(J, t) \in 1 .. OpCount(J) /\ k = BaseKey(J, t) + (k - BaseKey(J, t))
            BY <1>3, <2>1, SMT
        <3> QED
            BY <3>1
    <2>3. m \in 1 .. seq[t] /\ pc[t] # "issued"
        BY <1>2, <2>2
    <2> QED
        BY <1>5, <2>2, <2>3 DEF StoredSoFar
<1> QED
    BY <1>4, <1>5

\* The keys a zipfian test draws are the keys loaded before it.
LEMMA ZipfKeysLoaded ==
    ASSUME TypeOK, LoadKept, DrawsFromLoad, ~IsWarmup(J)
    PROVE  2 .. KeyRange(J) + 1 \subseteq DOMAIN db
<1> DEFINE L == campaign[1]
<1>1. L \in Job /\ J \in Job
    BY CampaignsAssumption, CurrentJob DEF TypeOK
<1>2. cur > 1
    BY SMT DEF TypeOK, DrawsFromLoad, J
<1>3. LoadedKeys(L) \subseteq DOMAIN db
    BY <1>2 DEF LoadKept, DrawsFromLoad
<1>4. KeyRange(L) = KeyRange(J) /\ KeyRange(J) \in Nat /\ EachRange(L) \in Nat
    BY <1>1, JobSizes DEF DrawsFromLoad, KeyRange
<1>5. BaseKey(L, 0) = 1 /\ 0 \in 0 .. L.threads - 1
    BY <1>4, SMT DEF BaseKey, DrawsFromLoad
<1>6. BaseKey(L, 0) + 1 .. BaseKey(L, 0) + OpCount(L) \subseteq LoadedKeys(L)
    BY <1>5 DEF LoadedKeys
<1>7. OpCount(L) = KeyRange(J)
    BY <1>4 DEF DrawsFromLoad
<1>8. BaseKey(L, 0) + 1 .. BaseKey(L, 0) + OpCount(L) = 2 .. KeyRange(J) + 1
    BY <1>4, <1>5, <1>7, SMT
<1> QED
    BY <1>3, <1>6, <1>8

LEMMA InitHealthy == Init => HealthyInv
<1> SUFFICES ASSUME Init PROVE HealthyInv
    OBVIOUS
<1>1. \A t \in Thread : pc[t] = "unborn" /\ seq[t] = 0 /\ success[t] = count[t]
    BY DEF Init, PerThread
<1>2. J \in Job /\ cur = 1
    BY CampaignsAssumption DEF Init, J
<1>3. StoredSoFar
    BY <1>1, <1>2, WorkersAreThreads DEF StoredSoFar
<1> QED
    BY <1>1, <1>2, <1>3 DEF HealthyInv, LoadKept, HitsOK, Busy

\* A step of a thread of a warm up puts the key it has drawn, and no other
\* step passes a Put.
LEMMA ThreadStepStores ==
    ASSUME TypeOK, SafetyInv, StoredSoFar, NEW t \in Thread, ThreadStep(t)
    PROVE  StoredSoFar'
<1>1. /\ J' = J /\ cur' = cur /\ DOMAIN db \subseteq DOMAIN db' /\ Workers' = Workers
      /\ \A u \in Thread : u # t => pc'[u] = pc[u] /\ seq'[u] = seq[u]
    BY ThreadFrame DEF Workers
<1>2. pc \in [Thread -> PlacesOfThread] /\ seq \in [Thread -> Nat]
    BY DEF TypeOK
<1> SUFFICES ASSUME Faults = {}, cur = 1, IsWarmup(J), NEW u \in Workers,
                    NEW m \in 1 .. seq'[u], m < seq'[u] \/ pc'[u] # "issued"
             PROVE  BaseKey(J, u) + m \in DOMAIN db'
    BY <1>1 DEF StoredSoFar
<1>3. u \in Thread /\ u \in Workers
    BY CurrentJob, WorkersAreThreads DEF TypeOK
<1>4. \A l \in 1 .. seq[u] : l < seq[u] \/ pc[u] # "issued" => BaseKey(J, u) + l \in DOMAIN db'
    BY <1>1, <1>3 DEF StoredSoFar
<1>5. CASE u # t
    BY <1>1, <1>3, <1>4, <1>5
<1>6. CASE u = t
    <2>1. CASE GetKvPair(t)
        <3>1. pc[t] = "loop" /\ pc'[t] = "issued" /\ seq'[t] = seq[t] + 1
            BY <1>2, <2>1 DEF GetKvPair, At
        <3>2. m \in 1 .. seq[t]
            BY <1>2, <1>6, <3>1, SMT
        <3> QED
            BY <1>4, <1>6, <3>1, <3>2
    <2>2. CASE DoPut(t)
        <3>1. pc[t] = "issued" /\ seq' = seq
            BY <2>2 DEF DoPut, At
        <3>2. key[t] \in DOMAIN db'
            <4>1. PICK out \in PutOutcomes(db, key[t], buf[t]) : db' = out.db
                BY <2>2 DEF DoPut
            <4>2. key[t] \in DOMAIN out.db
                BY <4>1, HealthyPut
            <4> QED
                BY <4>1, <4>2
        <3>3. key[t] = BaseKey(J, t) + seq[t]
            BY <3>1 DEF SafetyInv, OperationOK, Busy
        <3>4. m < seq[t] \/ m = seq[t]
            BY <1>2, <1>6, <3>1, SMT
        <3> QED
            BY <1>4, <1>6, <3>1, <3>2, <3>3, <3>4
    <2>3. CASE DoGet(t) \/ RmwRead(t) \/ DoScan(t)
        <3>1. pc[t] = "issued" /\ op[t] # "PUT"
            BY <2>3 DEF DoGet, RmwRead, DoScan, At
        <3> QED
            BY <3>1, WarmupPuts DEF Busy
    <2>4. CASE RmwWrite(t) \/ PushLatency(t) \/ BookLatency(t) \/ Finish(t)
        <3>1. pc[t] # "issued" /\ seq' = seq
            BY <2>4 DEF RmwWrite, PushLatency, BookLatency, Finish, At
        <3> QED
            BY <1>4, <1>6, <3>1
    <2> QED
        BY <2>1, <2>2, <2>3, <2>4 DEF ThreadStep
<1> QED
    BY <1>5, <1>6

\* The call a thread makes on keys that are loaded succeeds.
LEMMA ThreadStepHits ==
    ASSUME TypeOK, SafetyInv, LoadKept, NEW t \in Thread, HitsOK(t), ThreadStep(t)
    PROVE  HitsOK(t)'
<1>1. J' = J /\ campaign' = campaign
    BY ThreadFrame DEF ThreadStep, GetKvPair, DoPut, DoGet, RmwRead, RmwWrite, DoScan,
           PushLatency, BookLatency, Finish, mainVars
<1> SUFFICES ASSUME DrawsFromLoad
             PROVE  /\ Busy(t)' /\ ~IsWarmup(J) => key'[t] \in 2 .. KeyRange(J) + 1
                    /\ success'[t] = count'[t]
    BY <1>1 DEF HitsOK, DrawsFromLoad
<1>2. /\ pc \in [Thread -> PlacesOfThread] /\ key \in [Thread -> Nat]
      /\ count \in [Thread -> [Ops -> Nat]] /\ success \in [Thread -> [Ops -> Nat]]
      /\ J \in Job /\ "GET" \in Ops /\ "RMW" \in Ops /\ op[t] \in Ops
    BY CurrentJob DEF TypeOK, Ops
<1>3. /\ Busy(t) /\ ~IsWarmup(J) => key[t] \in 2 .. KeyRange(J) + 1
      /\ success[t] = count[t]
    BY DEF HitsOK
<1>4. ASSUME NEW o \in Ops, Tally(t, o, TRUE)
      PROVE  success'[t] = count'[t]
    BY <1>2, <1>3, <1>4 DEF Tally
<1>5. Faults = {}
    BY DEF DrawsFromLoad
<1>6. op[t] # "PUT" /\ Busy(t) => key[t] \in DOMAIN db
    BY <1>3, WarmupPuts, ZipfKeysLoaded
<1>7. CASE GetKvPair(t)
    <2>1. PICK k \in KeyChoices(J, t, seq[t]) : key' = [key EXCEPT ![t] = k]
        BY <1>7 DEF GetKvPair
    <2>2. ~IsWarmup(J) => k \in 2 .. KeyRange(J) + 1
        <3>1. SUFFICES ASSUME ~IsWarmup(J) PROVE k \in 2 .. KeyRange(J) + 1
            OBVIOUS
        <3>2. BaseKey(J, t) = 1 /\ Items(J) = KeyRange(J) /\ KeyRange(J) \in Nat /\ J.zipf
            BY <1>2, <3>1, JobSizes DEF BaseKey, Items, YcsbRange, DrawsFromLoad
        <3>3. PICK z \in 1 .. KeyRange(J) : k = 1 + z
            BY <2>1, <3>1, <3>2 DEF KeyChoices
        <3> QED
            BY <3>2, <3>3, SMT
    <2>3. key'[t] = k /\ success' = success /\ count' = count
        BY <1>2, <1>7, <2>1 DEF GetKvPair
    <2> QED
        BY <1>3, <2>2, <2>3
<1>8. CASE DoPut(t)
    <2>1. PICK out \in PutOutcomes(db, key[t], buf[t]) : Tally(t, op[t], out.ok)
        BY <1>8 DEF DoPut
    <2>2. out.ok = TRUE
        BY <1>5, <2>1, HealthyPut
    <2>3. key' = key /\ Busy(t)
        BY <1>8 DEF DoPut, At, Busy
    <2> QED
        BY <1>2, <1>3, <1>4, <2>1, <2>2, <2>3
<1>9. CASE DoGet(t)
    <2>1. PICK out \in GetOutcomes(db, key[t], buf[t]) : Tally(t, "GET", out.ok)
        BY <1>9 DEF DoGet
    <2>2. key' = key /\ Busy(t) /\ op[t] # "PUT"
        BY <1>9 DEF DoGet, At, Busy
    <2>3. out.ok = TRUE
        BY <1>5, <1>6, <2>1, <2>2, HealthyGet
    <2> QED
        BY <1>2, <1>3, <1>4, <2>1, <2>2, <2>3
<1>10. CASE RmwRead(t)
    <2>1. PICK out \in GetOutcomes(db, key[t], buf[t]) :
            IF out.ok THEN At(t, "issued", "modify") /\ UNCHANGED <<count, success>>
                      ELSE At(t, "issued", "push") /\ Tally(t, "RMW", FALSE)
        BY <1>10 DEF RmwRead
    <2>2. key' = key /\ op[t] # "PUT"
        BY <1>10 DEF RmwRead
    <2>3. Busy(t)
        BY <2>1 DEF At, Busy
    <2>4. out.ok = TRUE
        BY <1>5, <1>6, <2>1, <2>2, <2>3, HealthyGet
    <2> QED
        BY <1>3, <2>1, <2>2, <2>3, <2>4
<1>11. CASE RmwWrite(t)
    <2>1. PICK out \in PutOutcomes(db, key[t], buf[t]) : Tally(t, "RMW", out.ok)
        BY <1>11 DEF RmwWrite
    <2>2. out.ok = TRUE
        BY <1>5, <2>1, HealthyPut
    <2>3. key' = key /\ Busy(t)
        BY <1>11 DEF RmwWrite, At, Busy
    <2> QED
        BY <1>2, <1>3, <1>4, <2>1, <2>2, <2>3
<1>12. CASE DoScan(t) \/ PushLatency(t)
    <2>1. key' = key /\ Busy(t) /\ success' = success /\ count' = count
        BY <1>12 DEF DoScan, PushLatency, At, Busy
    <2> QED
        BY <1>3, <2>1
<1>13. CASE BookLatency(t) \/ Finish(t)
    <2>1. ~Busy(t)' /\ success' = success /\ count' = count
        BY <1>2, <1>13 DEF BookLatency, Finish, At, Busy
    <2> QED
        BY <1>3, <2>1
<1> QED
    BY <1>7, <1>8, <1>9, <1>10, <1>11, <1>12, <1>13 DEF ThreadStep

LEMMA ThreadStepHealthy ==
    ASSUME TypeOK, SafetyInv, HealthyInv, NEW t \in Thread, ThreadStep(t)
    PROVE  HealthyInv'
<1>1. /\ J' = J /\ cur' = cur /\ DOMAIN db \subseteq DOMAIN db'
      /\ \A u \in Thread : u # t => pc'[u] = pc[u] /\ key'[u] = key[u]
    BY ThreadFrame
<1>2. campaign' = campaign
    BY DEF ThreadStep, GetKvPair, DoPut, DoGet, RmwRead, RmwWrite, DoScan,
           PushLatency, BookLatency, Finish, mainVars
<1>3. StoredSoFar /\ LoadKept /\ \A u \in Thread : HitsOK(u)
    BY DEF HealthyInv
<1>4. StoredSoFar'
    BY <1>3, ThreadStepStores
<1>5. LoadKept'
    BY <1>1, <1>2, <1>3 DEF LoadKept
<1>6. ASSUME NEW u \in Thread
      PROVE  HitsOK(u)'
    <2>1. CASE u = t
        BY <1>3, <2>1, ThreadStepHits
    <2>2. CASE u # t
        <3>1. HitsOK(u) /\ count'[u] = count[u] /\ success'[u] = success[u]
            BY <1>3, <2>2, ResultsFrame
        <3> QED
            BY <1>1, <1>2, <2>2, <3>1 DEF HitsOK, DrawsFromLoad, Busy
    <2> QED
        BY <2>1, <2>2
<1> QED
    BY <1>4, <1>5, <1>6 DEF HealthyInv

\* The next job finds all the warm up loaded: the joins have let it finish.
LEMMA MainStepHealthy ==
    ASSUME TypeOK, SafetyInv, ReportInv, HealthyInv, MainStep
    PROVE  HealthyInv'
<1>1. StoredSoFar /\ LoadKept /\ \A u \in Thread : HitsOK(u)
    BY DEF HealthyInv
<1>2. CASE NextJob
    <2>1. cur' > 1 /\ campaign' = campaign /\ db' = db /\ main = "exit"
        BY <1>2, SMT DEF NextJob, TypeOK
    <2>2. \A t \in Thread : pc'[t] = "unborn" /\ success'[t] = count'[t]
        BY <1>2 DEF NextJob, PerThread
    <2>3. LoadKept'
        <3>1. CASE cur > 1
            BY <1>1, <2>1, <3>1 DEF LoadKept
        <3>2. CASE ~(cur > 1)
            <4>1. cur = 1 /\ J = campaign[1]
                BY <3>2, SMT DEF TypeOK, J
            <4>2. WarmLoadExact
                BY <1>1, WarmLoadEnds
            <4> QED
                BY <2>1, <4>1, <4>2 DEF WarmLoadExact, LoadKept
        <3> QED
            BY <3>1, <3>2
    <2> QED
        BY <2>1, <2>2, <2>3 DEF HealthyInv, StoredSoFar, HitsOK, Busy
<1>3. CASE Spawn
    <2>1. /\ J' = J /\ cur' = cur /\ campaign' = campaign /\ db' = db /\ seq' = seq
          /\ key' = key /\ count' = count /\ success' = success
          /\ pc' = [pc EXCEPT ![mi] = "loop"]
        BY <1>3 DEF Spawn, J
    <2>2. main = "spawn" /\ mi \in Nat
        BY <1>3 DEF Spawn, Advance, TypeOK
    <2>3. \A t \in Thread : t = mi => pc[t] = "unborn"
        BY <2>2, SMT DEF SafetyInv, OnlyWorkersRun
    <2>4. \A t \in Thread : pc'[t] = pc[t] \/ (pc[t] = "unborn" /\ pc'[t] = "loop")
        BY <2>1, <2>3 DEF TypeOK
    <2>5. StoredSoFar'
        <3>1. \A t \in Workers : t \in Thread
            BY CurrentJob, WorkersAreThreads DEF TypeOK
        <3> QED
            BY <1>1, <2>1, <2>4, <3>1 DEF StoredSoFar, Workers
    <2>6. LoadKept'
        BY <1>1, <2>1 DEF LoadKept
    <2>7. \A t \in Thread : HitsOK(t)'
        BY <1>1, <2>1, <2>4 DEF HitsOK, DrawsFromLoad, Busy
    <2> QED
        BY <2>5, <2>6, <2>7 DEF HealthyInv
<1>4. CASE Join \/ Report \/ DrainPop \/ DrainNext
    <2>1. /\ J' = J /\ cur' = cur /\ campaign' = campaign /\ db' = db
          /\ threadVars' = threadVars
        BY <1>4 DEF Join, Report, DrainPop, DrainNext, J
    <2>2. /\ pc' = pc /\ seq' = seq /\ key' = key /\ count' = count /\ success' = success
        BY <2>1 DEF threadVars
    <2> QED
        BY <1>1, <2>1, <2>2 DEF HealthyInv, StoredSoFar, LoadKept, HitsOK, DrawsFromLoad,
                            Busy, Workers
<1> QED
    BY <1>2, <1>3, <1>4 DEF MainStep

LEMMA StutterHealthy ==
    ASSUME HealthyInv, UNCHANGED vars
    PROVE  HealthyInv'
    BY DEF HealthyInv, StoredSoFar, LoadKept, HitsOK, DrawsFromLoad, Busy, Workers,
           vars, mainVars, threadVars, J

\* A store that works holds all a warm up is past, and keeps it.
THEOREM HealthyRuns == Spec => []HealthyInv
<1>1. TypeOK /\ SafetyInv /\ ReportInv /\ HealthyInv /\ [Next]_vars => HealthyInv'
    BY ThreadStepHealthy, MainStepHealthy, StutterHealthy DEF Next, Terminated
<1> QED
    BY <1>1, InitHealthy, TypeCorrect, Safety, Reporting, PTL DEF Spec

\* main.cc: a warm up of an empty store leaves nothing but keys of its
\* threads' slices, and exactly these if no call fails, for every number of
\* threads and every size, also where the count of operations wraps.
THEOREM WarmupLoads == Spec => []WarmLoadExact
<1>1. TypeOK /\ SafetyInv /\ ReportInv /\ HealthyInv => WarmLoadExact
    BY WarmLoadEnds DEF HealthyInv
<1> QED
    BY <1>1, HealthyRuns, TypeCorrect, Safety, Reporting, PTL

\* Every operation of a zipfian test on what one thread loaded in full finds
\* its key, in whatever job of the campaign, after whatever jobs in between.
THEOREM ZipfTestsHit == Spec => []ZipfTestHits
<1>1. HealthyInv => ZipfTestHits
    BY DEF HealthyInv, HitsOK, ZipfTestHits
<1> QED
    BY <1>1, HealthyRuns, PTL
-----------------------------------------------------------------------------
(***************************************************************************)
(* The total files are the threads' files, merged.                         *)
(***************************************************************************)
\* Appending to a sequence of latencies.
LEMMA EntriesAppend ==
    ASSUME NEW S, NEW s \in Seq(S), NEW e \in S
    PROVE  /\ Append(s, e) \in Seq(S)
           /\ Entries(Append(s, e)) = Entries(s) \cup {e}
<1> DEFINE r == Append(s, e)
<1>1. /\ r \in Seq(S) /\ Len(r) = Len(s) + 1 /\ DOMAIN r = 1 .. Len(s) + 1
      /\ DOMAIN s = 1 .. Len(s) /\ Len(s) \in Nat
      /\ r[Len(s) + 1] = e /\ \A n \in 1 .. Len(s) : r[n] = s[n]
    OBVIOUS
<1> HIDE DEF r
<1>2. ASSUME NEW x \in Entries(r) PROVE x \in Entries(s) \cup {e}
    BY <1>1, <1>2 DEF Entries
<1>3. ASSUME NEW x \in Entries(s) PROVE x \in Entries(r)
    BY <1>1, <1>3 DEF Entries
<1>4. e \in Entries(r)
    BY <1>1 DEF Entries
<1> QED
    BY <1>1, <1>2, <1>3, <1>4 DEF r

LEMMA OrderAppend ==
    ASSUME NEW s \in Seq(Token), NEW e \in Token, MeasuredInOrder(s),
           \A x \in Entries(s) : x[1] = e[1] => x[2] < e[2]
    PROVE  MeasuredInOrder(Append(s, e))
<1> DEFINE r == Append(s, e)
<1>1. /\ DOMAIN r = 1 .. Len(s) + 1
      /\ DOMAIN s = 1 .. Len(s) /\ Len(s) \in Nat
      /\ r[Len(s) + 1] = e /\ \A n \in 1 .. Len(s) : r[n] = s[n]
    OBVIOUS
<1> HIDE DEF r
<1> SUFFICES ASSUME NEW n \in DOMAIN r, NEW m \in DOMAIN r, n < m, r[n][1] = r[m][1]
             PROVE  r[n][2] < r[m][2]
    BY DEF MeasuredInOrder, r
<1>2. n \in DOMAIN s /\ r[n] = s[n]
    BY <1>1, SMT
<1>3. CASE m = Len(s) + 1
    <2>1. s[n] \in Entries(s)
        BY <1>2 DEF Entries
    <2> QED
        BY <1>1, <1>2, <1>3, <2>1
<1>4. CASE m # Len(s) + 1
    <2>1. m \in DOMAIN s /\ r[m] = s[m]
        BY <1>1, <1>4, SMT
    <2> QED
        BY <1>2, <2>1 DEF MeasuredInOrder
<1> QED
    BY <1>3, <1>4

\* Popping the queue into the file, seen in their concatenation.
LEMMA ConcatShift ==
    ASSUME NEW S, NEW a \in Seq(S), NEW b \in Seq(S), b # <<>>
    PROVE  Append(a, Head(b)) \o Tail(b) = a \o b
    OBVIOUS

LEMMA EmptyEntries ==
    ASSUME NEW S
    PROVE  /\ Entries(<<>>) = {} /\ MeasuredInOrder(<<>>)
           /\ \A s \in Seq(S) : s \o <<>> = s
    BY DEF Entries, MeasuredInOrder

LEMMA SequencesTyped ==
    ASSUME TypeOK, NEW o \in Ops
    PROVE  /\ totalLat[o] \in Seq(Token) /\ queue[o] \in Seq(Token) /\ Pushed(o) \in Seq(Token)
           /\ \A t \in Thread : /\ vec[t][o] \in Seq(Token) /\ threadLat[t][o] \in Seq(Token)
                                /\ iter[t] \in Nat /\ <<t, iter[t]>> \in Token
<1>1. totalLat[o] \in Seq(Token) /\ queue[o] \in Seq(Token)
    BY DEF TypeOK
<1>2. Pushed(o) \in Seq(Token)
    BY <1>1 DEF Pushed
<1>3. ASSUME NEW t \in Thread
      PROVE  /\ vec[t][o] \in Seq(Token) /\ threadLat[t][o] \in Seq(Token)
             /\ iter[t] \in Nat /\ <<t, iter[t]>> \in Token
    BY DEF TypeOK, Token
<1> QED
    BY <1>1, <1>2, <1>3

LEMMA InitMerge == Init => MergeInv
<1> SUFFICES ASSUME Init PROVE MergeInv
    OBVIOUS
<1>1. \A o \in Ops : totalLat[o] = <<>> /\ queue[o] = <<>> /\ \A t \in Thread :
            vec[t][o] = <<>> /\ threadLat[t][o] = <<>> /\ pc[t] = "unborn"
    BY DEF Init, PerThread, PerOp
<1>2. main = "spawn"
    BY DEF Init
<1>3. \A o \in Ops : Pushed(o) = <<>>
    BY <1>1 DEF Pushed
<1>4. ASSUME NEW o \in Ops
      PROVE  PushedOK(o)
    <2>1. \A t \in Thread : PushedBy(t, o) = {}
        BY <1>1, EmptyEntries DEF PushedBy
    <2>2. MeasuredInOrder(Pushed(o)) /\ Entries(Pushed(o)) = {}
        BY <1>3, EmptyEntries
    <2> QED
        BY <2>1, <2>2 DEF PushedOK
<1>5. ASSUME NEW t \in Thread, NEW o \in Ops
      PROVE  BookedOK(t, o) /\ FileOK(t, o)
    <2>1. vec[t][o] = <<>> /\ threadLat[t][o] = <<>>
        BY <1>1
    <2>2. Entries(vec[t][o]) = {} /\ MeasuredInOrder(vec[t][o])
        BY <2>1, EmptyEntries
    <2> QED
        BY <2>1, <2>2 DEF BookedOK, FileOK
<1> QED
    BY <1>2, <1>4, <1>5 DEF MergeInv, DrainedOK

\* A thread's latency of the iteration under way is newer than all it has
\* pushed before.
LEMMA NewestOfThread ==
    ASSUME TypeOK, MergeInv, NEW t \in Thread, NEW o \in Ops, pc[t] # "book"
    PROVE  \A x \in Entries(Pushed(o)) : x[1] = t => x[2] < iter[t]
<1> TAKE x \in Entries(Pushed(o))
<1>1. PICK u \in Thread : x \in PushedBy(u, o)
    BY DEF MergeInv, PushedOK
<1>2. \A e \in Entries(vec[u][o]) : e[1] = u /\ e[2] < iter[u]
    BY DEF MergeInv, BookedOK
<1>3. CASE x \in Entries(vec[u][o])
    BY <1>2, <1>3
<1>4. CASE x \notin Entries(vec[u][o])
    <2>1. pc[u] = "book" /\ x = <<u, iter[u]>>
        BY <1>1, <1>4 DEF PushedBy
    <2> QED
        BY <2>1
<1> QED
    BY <1>3, <1>4

\* A step of a thread keeps the latencies that have left the threads in order.
LEMMA ThreadStepPushed ==
    ASSUME TypeOK, SafetyInv, MergeInv, NEW t \in Thread, ThreadStep(t), NEW o \in Ops
    PROVE  PushedOK(o)'
<1>1. /\ \A u \in Thread : u # t => pc'[u] = pc[u] /\ iter'[u] = iter[u] /\ op'[u] = op[u]
      /\ \A u \in Thread : u # t => vec'[u] = vec[u]
    BY ThreadFrame, ResultsFrame
<1>2. \A u \in Thread : u # t => PushedBy(u, o)' = PushedBy(u, o)
    BY <1>1 DEF PushedBy
<1>3. /\ MeasuredInOrder(Pushed(o))
      /\ Entries(Pushed(o)) = UNION {PushedBy(u, o) : u \in Thread}
    BY DEF MergeInv, PushedOK
<1>4. /\ pc \in [Thread -> PlacesOfThread] /\ op \in [Thread -> Ops]
      /\ iter \in [Thread -> Nat] /\ queue \in [Ops -> Seq(Token)]
      /\ vec \in [Thread -> [Ops -> Seq(Token)]]
    BY DEF TypeOK
<1>5. ASSUME Pushed(o)' = Pushed(o), PushedBy(t, o)' = PushedBy(t, o)
      PROVE  PushedOK(o)'
    <2>1. \A u \in Thread : PushedBy(u, o)' = PushedBy(u, o)
        BY <1>2, <1>5
    <2> QED
        BY <1>3, <1>5, <2>1 DEF PushedOK
<1>6. CASE PushLatency(t)
    <2>1. /\ pc[t] = "push" /\ pc'[t] = "book" /\ op' = op /\ iter' = iter /\ vec' = vec
          /\ totalLat' = totalLat
          /\ queue'[o] = IF o = op[t] THEN Append(queue[o], <<t, iter[t]>>) ELSE queue[o]
        BY <1>4, <1>6 DEF PushLatency, At, mainVars
    <2>2. CASE o # op[t]
        <3>1. Pushed(o)' = Pushed(o)
            BY <2>1, <2>2 DEF Pushed
        <3>2. PushedBy(t, o)' = PushedBy(t, o)
            BY <2>1, <2>2 DEF PushedBy
        <3> QED
            BY <1>5, <3>1, <3>2
    <2>3. CASE o = op[t]
        <3>1. PICK e \in Token : e = <<t, iter[t]>>
            BY SequencesTyped
        <3>2. PICK s \in Seq(Token) : s = Pushed(o)
            BY SequencesTyped
        <3>3. Pushed(o)' = Append(s, e)
            <4>1. PICK a, b \in Seq(Token) : a = totalLat[o] /\ b = queue[o]
                BY SequencesTyped
            <4>2. Pushed(o)' = a \o Append(b, e) /\ s = a \o b
                BY <2>1, <2>3, <3>1, <3>2, <4>1 DEF Pushed
            <4>3. a \o Append(b, e) = Append(a \o b, e)
                OBVIOUS
            <4> QED
                BY <4>2, <4>3
        <3>4. MeasuredInOrder(s) /\ Entries(s) = UNION {PushedBy(u, o) : u \in Thread}
            BY <1>3, <3>2
        <3>5. \A x \in Entries(s) : x[1] = e[1] => x[2] < e[2]
            <4>1. \A x \in Entries(s) : x[1] = t => x[2] < iter[t]
                BY <2>1, <3>2, NewestOfThread
            <4> QED
                BY <3>1, <4>1
        <3>6. MeasuredInOrder(Append(s, e)) /\ Entries(Append(s, e)) = Entries(s) \cup {e}
            BY <3>4, <3>5, OrderAppend, EntriesAppend
        <3>7. PushedBy(t, o)' = PushedBy(t, o) \cup {e}
            BY <2>1, <2>3, <3>1 DEF PushedBy
        <3>8. UNION {PushedBy(u, o)' : u \in Thread} = Entries(s) \cup {e}
            BY <1>2, <3>4, <3>7
        <3> QED
            BY <3>3, <3>6, <3>8 DEF PushedOK
    <2> QED
        BY <2>2, <2>3
<1>7. CASE BookLatency(t)
    <2>1. /\ pc[t] = "book" /\ pc'[t] = "loop" /\ queue' = queue /\ totalLat' = totalLat
        BY <1>4, <1>7 DEF BookLatency, At, mainVars
    <2>2. vec'[t][o] = IF o = op[t] THEN Append(vec[t][o], <<t, iter[t]>>) ELSE vec[t][o]
        <3>1. vec'[t] = [vec[t] EXCEPT ![op[t]] = Append(@, <<t, iter[t]>>)]
            BY <1>4, <1>7 DEF BookLatency
        <3> QED
            BY <1>4, <3>1
    <2>3. PushedBy(t, o)' = PushedBy(t, o)
        <3>1. CASE o = op[t]
            <4>1. Entries(vec'[t][o]) = Entries(vec[t][o]) \cup {<<t, iter[t]>>}
                <5>1. PICK b \in Seq(Token), e \in Token : b = vec[t][o] /\ e = <<t, iter[t]>>
                    BY SequencesTyped
                <5>2. Entries(Append(b, e)) = Entries(b) \cup {e}
                    BY EntriesAppend
                <5> QED
                    BY <2>2, <3>1, <5>1, <5>2
            <4> QED
                BY <2>1, <3>1, <4>1 DEF PushedBy
        <3>2. CASE o # op[t]
            BY <2>1, <2>2, <3>2 DEF PushedBy
        <3> QED
            BY <3>1, <3>2
    <2> QED
        BY <1>5, <2>1, <2>3 DEF Pushed
<1>8. CASE ~PushLatency(t) /\ ~BookLatency(t)
    <2>1. /\ pc[t] # "book" /\ pc'[t] # "book" /\ vec' = vec
          /\ queue' = queue /\ totalLat' = totalLat
        <3>1. CASE RmwRead(t)
            BY <1>4, <3>1 DEF RmwRead, At, mainVars
        <3>2. CASE ~RmwRead(t)
            BY <1>4, <1>8, <3>2 DEF ThreadStep, GetKvPair, DoPut, DoGet, RmwWrite, DoScan,
                                    Finish, At, mainVars
        <3> QED
            BY <3>1, <3>2
    <2> QED
        BY <1>5, <2>1 DEF Pushed, PushedBy
<1> QED
    BY <1>6, <1>7, <1>8

\* It books its own latencies, one per iteration, and writes no file.
LEMMA ThreadStepBooked ==
    ASSUME TypeOK, SafetyInv, ReportInv, MergeInv, NEW t \in Thread, ThreadStep(t),
           NEW u \in Thread, NEW o \in Ops
    PROVE  BookedOK(u, o)' /\ FileOK(u, o)'
<1>1. /\ u # t => pc'[u] = pc[u] /\ iter'[u] = iter[u] /\ vec'[u] = vec[u]
      /\ main' = main /\ mi' = mi /\ Workers' = Workers
    BY ThreadFrame, ResultsFrame DEF Workers
<1>2. threadLat' = threadLat
    BY DEF ThreadStep, GetKvPair, DoPut, DoGet, RmwRead, RmwWrite, DoScan,
           PushLatency, BookLatency, Finish, mainVars
<1>3. BookedOK(u, o) /\ FileOK(u, o)
    BY DEF MergeInv
<1>4. /\ pc \in [Thread -> PlacesOfThread] /\ op \in [Thread -> Ops]
      /\ iter \in [Thread -> Nat] /\ vec \in [Thread -> [Ops -> Seq(Token)]]
    BY DEF TypeOK
<1>5. Reported(u)' = Reported(u)
    BY <1>1 DEF Reported
<1>6. CASE u # t
    BY <1>1, <1>2, <1>3, <1>5, <1>6 DEF BookedOK, FileOK
<1>7. CASE u = t
    <2>1. ~Reported(t)
        <3>1. pc[t] # "finished"
            BY FinishedRests
        <3> QED
            BY <3>1 DEF Reported, ReportInv, JoinedFinished
    <2>2. FileOK(t, o)'
        BY <1>2, <1>3, <1>5, <1>7, <2>1 DEF FileOK
    <2>3. pc'[t] # "unborn"
        <3>1. CASE RmwRead(t)
            BY <1>4, <3>1 DEF RmwRead, At
        <3>2. CASE ~RmwRead(t)
            BY <1>4, <3>2 DEF ThreadStep, GetKvPair, DoPut, DoGet, RmwWrite, DoScan,
                              PushLatency, BookLatency, Finish, At
        <3> QED
            BY <3>1, <3>2
    <2>4. BookedOK(t, o)'
        <3>1. CASE BookLatency(t)
            <4>1. iter'[t] = iter[t] + 1
                BY <1>4, <3>1 DEF BookLatency
            <4>2. vec'[t][o] = IF o = op[t] THEN Append(vec[t][o], <<t, iter[t]>>) ELSE vec[t][o]
                <5>1. vec'[t] = [vec[t] EXCEPT ![op[t]] = Append(@, <<t, iter[t]>>)]
                    BY <1>4, <3>1 DEF BookLatency
                <5> QED
                    BY <1>4, <5>1
            <4>3. PICK b \in Seq(Token), e \in Token : b = vec[t][o] /\ e = <<t, iter[t]>>
                BY SequencesTyped
            <4>4. PICK i \in Nat : i = iter[t]
                BY <1>4
            <4>5. /\ MeasuredInOrder(b)
                  /\ \A x \in Entries(b) : x[1] = t /\ x[2] < i /\ x[2] \in Nat
                <5>1. \A x \in Entries(b) : x \in Token
                    BY <4>3 DEF Entries
                <5>2. MeasuredInOrder(b) /\ \A x \in Entries(b) : x[1] = t /\ x[2] < i
                    BY <1>3, <1>7, <4>3, <4>4 DEF BookedOK
                <5> QED
                    BY <5>1, <5>2 DEF Token
            <4>6. MeasuredInOrder(Append(b, e)) /\ Entries(Append(b, e)) = Entries(b) \cup {e}
                BY <4>3, <4>4, <4>5, OrderAppend, EntriesAppend
            <4>7. \A x \in Entries(b) \cup {e} : x[1] = t /\ x[2] < i + 1
                BY <4>3, <4>4, <4>5
            <4>8. CASE o = op[t]
                BY <2>3, <4>1, <4>2, <4>3, <4>4, <4>6, <4>7, <4>8 DEF BookedOK
            <4>9. CASE o # op[t]
                BY <2>3, <4>1, <4>2, <4>3, <4>4, <4>5, <4>7, <4>9 DEF BookedOK
            <4> QED
                BY <4>8, <4>9
        <3>2. CASE ~BookLatency(t)
            <4>1. vec' = vec /\ iter' = iter
                BY <3>2 DEF ThreadStep, GetKvPair, DoPut, DoGet, RmwRead, RmwWrite, DoScan,
                            PushLatency, Finish
            <4> QED
                BY <1>3, <1>7, <2>3, <4>1 DEF BookedOK
        <3> QED
            BY <3>1, <3>2
    <2> QED
        BY <1>7, <2>2, <2>4
<1> QED
    BY <1>6, <1>7

\* No thread pushes any more when the queues are drained.
LEMMA ThreadStepDrained ==
    ASSUME TypeOK, SafetyInv, ReportInv, MergeInv, NEW t \in Thread, ThreadStep(t)
    PROVE  DrainedOK' /\ main \notin {"report", "drain", "exit"}
<1>1. main' = main
    BY ThreadFrame
<1>2. pc[t] # "unborn" /\ pc[t] # "finished"
    BY ThreadKeepsOwn, FinishedRests
<1>3. t \in Workers
    BY <1>2 DEF SafetyInv, OnlyWorkersRun
<1>4. main \notin {"report", "drain", "exit"}
    BY <1>2, <1>3 DEF ReportInv, JoinedFinished
<1> QED
    BY <1>1, <1>4 DEF DrainedOK

LEMMA ThreadStepMerge ==
    ASSUME TypeOK, SafetyInv, ReportInv, MergeInv, NEW t \in Thread, ThreadStep(t)
    PROVE  MergeInv'
    BY ThreadStepPushed, ThreadStepBooked, ThreadStepDrained DEF MergeInv

\* The six queues are those of the operations.
LEMMA OrderOfOps ==
    /\ OpOrder \in Seq(Ops) /\ Len(OpOrder) = 6
    /\ \A k \in 1 .. 6 : OpOrder[k] \in Ops
    /\ \A o \in Ops : \E k \in 1 .. 6 : o = OpOrder[k]
<1>1. /\ Len(OpOrder) = 6
      /\ OpOrder[1] = "PUT" /\ OpOrder[2] = "UPDATE" /\ OpOrder[3] = "GET"
      /\ OpOrder[4] = "DELETE" /\ OpOrder[5] = "SCAN" /\ OpOrder[6] = "RMW"
    BY DEF OpOrder
<1>2. OpOrder \in Seq(Ops)
    BY DEF OpOrder, Ops
<1>3. \A k \in 1 .. 6 : OpOrder[k] \in Ops
    <2> TAKE k \in 1 .. 6
    <2>1. k = 1 \/ k = 2 \/ k = 3 \/ k = 4 \/ k = 5 \/ k = 6
        BY SMT
    <2> QED
        BY <1>1, <2>1 DEF Ops
<1>4. \A o \in Ops : \E k \in 1 .. 6 : o = OpOrder[k]
    BY <1>1 DEF Ops
<1> QED
    BY <1>1, <1>2, <1>3, <1>4

\* Popping moves the head of a queue to the end of its total file.
LEMMA DrainPopMerge ==
    ASSUME TypeOK, MergeInv, DrainPop
    PROVE  MergeInv'
<1> DEFINE p == OpOrder[mi + 1]
<1>1. /\ main = "drain" /\ main' = main /\ mi' = mi /\ mi \in Nat /\ mi < 6 /\ J' = J
      /\ threadVars' = threadVars /\ threadLat' = threadLat
    BY OrderOfOps DEF DrainPop, TypeOK, J
<1>2. p \in Ops
    BY <1>1, OrderOfOps
<1>3. /\ queue[p] # <<>>
      /\ \A o \in Ops : /\ o # p => queue'[o] = queue[o] /\ totalLat'[o] = totalLat[o]
                        /\ o = p => /\ queue'[o] = Tail(queue[o])
                                    /\ totalLat'[o] = Append(totalLat[o], Head(queue[o]))
    BY <1>2 DEF DrainPop, TypeOK
<1>4. \A o \in Ops : Pushed(o)' = Pushed(o)
    <2> TAKE o \in Ops
    <2>1. PICK a, b \in Seq(Token) : a = totalLat[o] /\ b = queue[o]
        BY SequencesTyped
    <2>2. b # <<>> => Append(a, Head(b)) \o Tail(b) = a \o b
        BY ConcatShift
    <2>3. CASE o = p
        BY <1>3, <2>1, <2>2, <2>3 DEF Pushed
    <2>4. CASE o # p
        BY <1>3, <2>4 DEF Pushed
    <2> QED
        BY <2>3, <2>4
<1>5. pc' = pc /\ vec' = vec /\ iter' = iter /\ op' = op
    BY <1>1 DEF threadVars
<1>6. \A o \in Ops : PushedOK(o)'
    BY <1>4, <1>5 DEF MergeInv, PushedOK, PushedBy
<1>7. \A t \in Thread, o \in Ops : BookedOK(t, o)' /\ FileOK(t, o)'
    BY <1>1, <1>5 DEF MergeInv, BookedOK, FileOK, Reported, Workers
<1>8. DrainedOK'
    <2>1. \A k \in 1 .. mi : OpOrder[k] # p
        <3> TAKE k \in 1 .. mi
        <3>1. queue[OpOrder[k]] = <<>>
            BY <1>1 DEF MergeInv, DrainedOK
        <3> QED
            BY <1>3, <3>1
    <2>2. \A k \in 1 .. mi : OpOrder[k] \in Ops
        BY <1>1, OrderOfOps
    <2> QED
        BY <1>1, <1>3, <2>1, <2>2 DEF MergeInv, DrainedOK
<1> QED
    BY <1>6, <1>7, <1>8 DEF MergeInv

\* The other steps of the main thread push nothing.
LEMMA MainStepMerge ==
    ASSUME TypeOK, SafetyInv, ReportInv, MergeInv, MainStep
    PROVE  MergeInv'
<1>1. /\ \A o \in Ops : PushedOK(o)
      /\ \A t \in Thread, o \in Ops : BookedOK(t, o) /\ FileOK(t, o)
      /\ DrainedOK
    BY DEF MergeInv
<1>2. CASE NextJob
    <2>1. \A o \in Ops : totalLat'[o] = <<>> /\ queue'[o] = <<>> /\ \A t \in Thread :
            vec'[t][o] = <<>> /\ threadLat'[t][o] = <<>> /\ pc'[t] = "unborn"
        BY <1>2 DEF NextJob, PerThread, PerOp
    <2>2. main' = "spawn"
        BY <1>2 DEF NextJob
    <2>3. ASSUME NEW o \in Ops
          PROVE  PushedOK(o)'
        <3>1. \A t \in Thread : PushedBy(t, o)' = {}
            BY <2>1, EmptyEntries DEF PushedBy
        <3>2. Pushed(o)' = <<>>
            BY <2>1 DEF Pushed
        <3>3. MeasuredInOrder(Pushed(o))' /\ Entries(Pushed(o))' = {}
            BY <3>2, EmptyEntries
        <3> QED
            BY <3>1, <3>3 DEF PushedOK
    <2>4. ASSUME NEW t \in Thread, NEW o \in Ops
          PROVE  BookedOK(t, o)' /\ FileOK(t, o)'
        <3>1. vec'[t][o] = <<>> /\ threadLat'[t][o] = <<>>
            BY <2>1
        <3>2. Entries(vec'[t][o]) = {} /\ MeasuredInOrder(vec'[t][o])
            BY <3>1, EmptyEntries
        <3> QED
            BY <3>1, <3>2 DEF BookedOK, FileOK
    <2> QED
        BY <2>2, <2>3, <2>4 DEF MergeInv, DrainedOK
<1>3. CASE DrainPop
    BY <1>3, DrainPopMerge
<1>4. CASE Spawn \/ Join \/ Report \/ DrainNext
    <2>1. /\ J' = J /\ queue' = queue /\ totalLat' = totalLat /\ vec' = vec /\ iter' = iter
          /\ op' = op /\ Workers' = Workers
        BY <1>4 DEF Spawn, Join, Report, DrainNext, threadVars, J, Workers
    <2>2. \A t \in Thread : pc'[t] = pc[t] \/ (pc[t] = "unborn" /\ pc'[t] = "loop")
        <3>1. CASE Spawn
            <4>1. main = "spawn" /\ pc' = [pc EXCEPT ![mi] = "loop"] /\ mi \in Nat
                BY <3>1 DEF Spawn, Advance, TypeOK
            <4>2. \A t \in Thread : t = mi => pc[t] = "unborn"
                BY <4>1, SMT DEF SafetyInv, OnlyWorkersRun
            <4> QED
                BY <4>1, <4>2 DEF TypeOK
        <3>2. CASE Join \/ Report \/ DrainNext
            BY <3>2 DEF Join, Report, DrainNext, threadVars
        <3> QED
            BY <1>4, <3>1, <3>2
    <2>3. \A o \in Ops : PushedOK(o)'
        BY <1>1, <2>1, <2>2 DEF PushedOK, PushedBy, Pushed
    <2>4. \A t \in Thread, o \in Ops : BookedOK(t, o)'
        BY <1>1, <2>1, <2>2 DEF BookedOK
    <2>5. \A t \in Thread, o \in Ops : FileOK(t, o)'
        <3>1. CASE Report
            <4>1. /\ main = "report" /\ threadLat' = [threadLat EXCEPT ![mi] = vec[mi]]
                  /\ mi \in Nat /\ mi < J.threads
                  /\ \/ mi' = mi + 1 /\ main' = "report"
                     \/ ~(mi + 1 < J.threads) /\ main' = "drain"
                BY <3>1 DEF Report, Advance, TypeOK
            <4>2. \A t \in Thread : Reported(t)' <=> Reported(t) \/ t = mi
                <5>1. J.threads \in 1 .. MaxThreads
                    BY CurrentJob, JobSizes DEF TypeOK
                <5> QED
                    BY <2>1, <4>1, <5>1, SizingAssumption, SMT DEF Reported, Workers, Thread
            <4>3. \A t \in Thread, o \in Ops :
                    threadLat'[t][o] = IF t = mi THEN vec[t][o] ELSE threadLat[t][o]
                BY <4>1 DEF TypeOK
            <4> QED
                BY <1>1, <2>1, <4>2, <4>3 DEF FileOK
        <3>2. CASE Spawn \/ Join \/ DrainNext
            <4>1. threadLat' = threadLat
                BY <3>2 DEF Spawn, Join, DrainNext
            <4>2. \A t \in Thread : Reported(t)' <=> Reported(t)
                <5>1. CASE Spawn
                    BY <2>1, <5>1 DEF Spawn, Advance, Reported
                <5>2. CASE Join
                    BY <2>1, <5>2, SMT DEF Join, Advance, Reported, Thread
                <5>3. CASE DrainNext
                    BY <2>1, <5>3 DEF DrainNext, Advance, Reported
                <5> QED
                    BY <3>2, <5>1, <5>2, <5>3
            <4> QED
                BY <1>1, <2>1, <4>1, <4>2 DEF FileOK
        <3> QED
            BY <1>4, <3>1, <3>2
    <2>6. DrainedOK'
        <3>1. CASE DrainNext
            <4>1. /\ main = "drain" /\ queue[OpOrder[mi + 1]] = <<>> /\ mi \in Nat /\ mi < 6
                  /\ \/ mi + 1 < 6 /\ mi' = mi + 1 /\ main' = "drain"
                     \/ ~(mi + 1 < 6) /\ main' = "exit"
                BY <3>1, OrderOfOps DEF DrainNext, Advance, TypeOK
            <4>2. \A k \in 1 .. mi + 1 : queue[OpOrder[k]] = <<>>
                <5> TAKE k \in 1 .. mi + 1
                <5>1. k \in 1 .. mi \/ k = mi + 1
                    BY <4>1, SMT
                <5> QED
                    BY <1>1, <4>1, <5>1 DEF DrainedOK
            <4>3. CASE mi + 1 < 6
                BY <2>1, <4>1, <4>2, <4>3 DEF DrainedOK
            <4>4. CASE ~(mi + 1 < 6)
                <5>1. mi + 1 = 6
                    BY <4>1, <4>4, SMT
                <5>2. \A o \in Ops : queue[o] = <<>>
                    BY <4>2, <5>1, OrderOfOps
                <5> QED
                    BY <2>1, <4>1, <4>4, <5>2 DEF DrainedOK
            <4> QED
                BY <4>3, <4>4
        <3>2. CASE Spawn \/ Join \/ Report
            <4>1. main' # "exit" /\ (main' = "drain" => mi' = 0)
                BY <3>2 DEF Spawn, Join, Report, Advance
            <4> QED
                BY <4>1, SMT DEF DrainedOK
        <3> QED
            BY <1>4, <3>1, <3>2
    <2> QED
        BY <2>3, <2>4, <2>5, <2>6 DEF MergeInv
<1> QED
    BY <1>2, <1>3, <1>4 DEF MainStep

LEMMA StutterMerge ==
    ASSUME MergeInv, UNCHANGED vars
    PROVE  MergeInv'
    BY DEF MergeInv, PushedOK, PushedBy, Pushed, BookedOK, FileOK, Reported, DrainedOK, Workers,
           vars, mainVars, threadVars, J

\* Queues, vectors and files agree in every reachable state.
THEOREM Merging == Spec => []MergeInv
<1>1. TypeOK /\ SafetyInv /\ ReportInv /\ MergeInv /\ [Next]_vars => MergeInv'
    BY ThreadStepMerge, MainStepMerge, StutterMerge DEF Next, Terminated
<1> QED
    BY <1>1, InitMerge, TypeCorrect, Safety, Reporting, PTL DEF Spec

\* result_output: a total file is the files of the threads merged, with no
\* latency lost, doubled or out of its thread's order, whatever the threads
\* pushed between one another.
THEOREM TotalFilesMerge == Spec => []TotalFileIsMerge
<1>1. TypeOK /\ SafetyInv /\ ReportInv /\ MergeInv => TotalFileIsMerge
    <2> SUFFICES ASSUME TypeOK, SafetyInv, ReportInv, MergeInv, main = "exit", NEW o \in Ops
                 PROVE  /\ queue[o] = <<>>
                        /\ MeasuredInOrder(totalLat[o])
                        /\ \A t \in Thread :
                            /\ MeasuredInOrder(threadLat[t][o])
                            /\ Entries(threadLat[t][o]) = {e \in Entries(totalLat[o]) : e[1] = t}
        BY DEF TotalFileIsMerge
    <2>1. queue[o] = <<>>
        BY DEF MergeInv, DrainedOK
    <2>2. Pushed(o) = totalLat[o]
        BY <2>1, SequencesTyped, EmptyEntries DEF Pushed
    <2>3. \A t \in Thread : pc[t] # "book" /\ threadLat[t][o] = vec[t][o]
        <3> TAKE t \in Thread
        <3>1. CASE t \in Workers
            BY <3>1 DEF MergeInv, FileOK, Reported, ReportInv, JoinedFinished
        <3>2. CASE t \notin Workers
            BY <3>2 DEF MergeInv, FileOK, BookedOK, Reported, SafetyInv, OnlyWorkersRun
        <3> QED
            BY <3>1, <3>2
    <2>4. /\ MeasuredInOrder(totalLat[o])
          /\ Entries(totalLat[o]) = UNION {Entries(vec[t][o]) : t \in Thread}
        <3>1. \A t \in Thread : PushedBy(t, o) = Entries(vec[t][o])
            BY <2>3 DEF PushedBy
        <3> QED
            BY <2>2, <3>1 DEF MergeInv, PushedOK
    <2>5. \A t \in Thread : MeasuredInOrder(vec[t][o]) /\ \A e \in Entries(vec[t][o]) : e[1] = t
        BY DEF MergeInv, BookedOK
    <2>6. \A t \in Thread : Entries(vec[t][o]) = {e \in Entries(totalLat[o]) : e[1] = t}
        BY <2>4, <2>5
    <2> QED
        BY <2>1, <2>3, <2>4, <2>5, <2>6
<1> QED
    BY <1>1, Merging, TypeCorrect, Safety, Reporting, PTL
=============================================================================
