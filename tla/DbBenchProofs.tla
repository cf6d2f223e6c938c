---------------------------- MODULE DbBenchProofs ----------------------------
(***************************************************************************)
(* Proofs about db_bench and its generator, for every prime modulus,       *)
(* multiplier, seed, command line and fault of the store.                  *)
(***************************************************************************)
EXTENDS DbBenchProperties, SequenceTheorems, Counting

USE LehmerAssumption, DbBenchAssumption, FaultsAssumption DEF Thread
-----------------------------------------------------------------------------
(***************************************************************************)
(* The generator.                                                          *)
(***************************************************************************)
\* A remainder is known by what it leaves.
LEMMA RemainderIs ==
    ASSUME NEW k \in Nat, NEW m \in Nat \ {0}, NEW x \in 0 .. m - 1
    PROVE  (k * m + x) % m = x
<1> DEFINE n == k * m + x
           d == n \div m
           y == n % m
<1>1. n \in Nat
    BY SMT
<1>2. n = m * d + y /\ y \in 0 .. m - 1 /\ d \in Int
    BY <1>1, SMT
<1> HIDE DEF d, y
<1>3. m * d = d * m /\ (d + 1) * m = d * m + m /\ (k + 1) * m = k * m + m
      /\ d * m \in Int /\ k * m \in Int
    BY <1>2, SMT
<1>4. ~(d >= k + 1)
    <2>1. SUFFICES ASSUME d >= k + 1 PROVE FALSE
        OBVIOUS
    <2>2. (k + 1) * m <= d * m
        BY <1>2, <2>1, TimesMonotone
    <2> QED
        BY <1>2, <1>3, <2>2, SMT
<1>5. ~(k >= d + 1)
    <2>1. SUFFICES ASSUME k >= d + 1 PROVE FALSE
        OBVIOUS
    <2>2. (d + 1) * m <= k * m
        BY <1>2, <2>1, TimesMonotone
    <2> QED
        BY <1>2, <1>3, <2>2, SMT
<1>6. d = k
    BY <1>2, <1>4, <1>5, SMT
<1> QED
    BY <1>2, <1>3, <1>6, SMT DEF y

\* Random::Next computes the remainder random.h speaks of, and "mod == M is not
\* possible": all products stay below 2^62, and the folded sum below 2^32.
THEOREM NextIsRemainder ==
    ASSUME NEW s \in 1 .. M - 1
    PROVE  NextSeed(s) = (s * A) % M /\ NextSeed(s) \in 1 .. M - 1
<1> DEFINE p == s * A
           W == M + 1
           q == p \div W
           r == p % W
<1>1. W \in Nat \ {0} /\ M \in Nat /\ s \in Nat /\ A \in Nat
    BY SMT
<1>2. p \in Nat /\ 1 <= p /\ p < M * M
    <2>1. s * A <= (M - 1) * A
        BY <1>1, TimesMonotone
    <2>2. A * (M - 1) <= (M - 1) * (M - 1)
        BY <1>1, TimesMonotone
    <2>3. (M - 1) * A = A * (M - 1) /\ (M - 1) * (M - 1) = M * M - 2 * M + 1
        BY <1>1, SMT
    <2>4. 1 * A <= s * A
        BY <1>1, TimesMonotone
    <2>5. p \in Nat /\ M * M \in Nat
        BY <1>1, SMT
    <2> QED
        BY <1>1, <2>1, <2>2, <2>3, <2>4, <2>5, SMT
<1>3. p = q * W + r /\ r \in 0 .. M /\ q \in Int
    BY <1>1, <1>2, SMT
<1> HIDE DEF p, q, r
<1>4. q * W = q * M + q /\ q * M \in Int
    BY <1>1, <1>3, SMT
<1>5. q >= 0
    <2>1. SUFFICES ASSUME q <= 0 - 1 PROVE FALSE
        BY <1>3, SMT
    <2>2. q * W <= (0 - 1) * W
        BY <1>1, <1>3, <2>1, TimesMonotone
    <2> QED
        BY <1>1, <1>2, <1>3, <2>2, SMT
<1>6. q < M
    <2>1. SUFFICES ASSUME q >= M PROVE FALSE
        BY <1>1, <1>3, SMT
    <2>2. M * M <= q * M
        BY <1>1, <1>3, <2>1, TimesMonotone
    <2>3. M * M \in Nat
        BY <1>1, SMT
    <2> QED
        BY <1>1, <1>2, <1>3, <1>4, <2>1, <2>2, <2>3, SMT
<1>7. Folded(s) = q + r
    <2>1. Uint32 \in Nat \ {0} /\ Uint32 * Uint32 \in Nat \ {0} /\ p < Uint32 * Uint32
        <3>1. Uint32 * Uint32 = 4 * (M * M) + 8 * M + 4
            BY <1>1, SMT DEF Uint32
        <3>2. M * M \in Nat
            BY <1>1, SMT
        <3> QED
            BY <1>1, <1>2, <3>1, <3>2, SMT DEF Uint32
    <2>2. Product(s) = p
        BY <1>2, <2>1, SMT DEF Product, p
    <2>3. q + r \in Nat /\ q + r < Uint32
        BY <1>1, <1>3, <1>5, <1>6, SMT DEF Uint32
    <2>4. Folded(s) = (q + r) % Uint32
        BY <2>2, <1>1 DEF Folded, q, r
    <2>5. (q + r) % Uint32 = q + r
        BY <2>1, <2>3, SMT
    <2> QED
        BY <2>4, <2>5
<1>8. p % M # 0
    BY <1>1 DEF p
<1>9. CASE q + r < M
    <2>1. p = q * M + (q + r) /\ q + r \in 0 .. M - 1 /\ q \in Nat
        BY <1>1, <1>3, <1>4, <1>5, <1>9, SMT
    <2>2. p % M = q + r
        BY <1>1, <2>1, RemainderIs
    <2>3. NextSeed(s) = q + r
        BY <1>1, <1>3, <1>7, <1>9, SMT DEF NextSeed
    <2> QED
        BY <1>1, <1>8, <2>1, <2>2, <2>3, SMT DEF p
<1>10. CASE q + r >= M
    <2>1. (q + 1) * M = q * M + M /\ q + 1 \in Nat
        BY <1>1, <1>3, <1>5, SMT
    <2>2. p = (q + 1) * M + (q + r - M) /\ q + r - M \in 0 .. M - 1
        BY <1>1, <1>3, <1>4, <1>6, <1>10, <2>1, SMT
    <2>3. p % M = q + r - M
        BY <1>1, <2>1, <2>2, RemainderIs
    <2>4. q + r # M
        BY <1>1, <1>3, <1>8, <2>3, SMT
    <2>5. NextSeed(s) = q + r - M
        BY <1>1, <1>3, <1>7, <1>10, <2>4, SMT DEF NextSeed
    <2> QED
        BY <1>1, <1>3, <1>8, <2>2, <2>3, <2>5, SMT DEF p
<1> QED
    BY <1>1, <1>3, <1>9, <1>10, SMT

\* A generator starts at a good seed.
LEMMA RandomType ==
    ASSUME NEW n \in Nat
    PROVE  Random(n) \in 1 .. M - 1
<1>1. n % (M + 1) \in 0 .. M
    BY SMT
<1> QED
    BY <1>1, SMT DEF Random
-----------------------------------------------------------------------------
(***************************************************************************)
(* Types.                                                                  *)
(***************************************************************************)
LEMMA JobType ==
    ASSUME job \in Jobs
    PROVE  /\ job.threads \in 1 .. MaxThreads /\ job.work \in Nat /\ job.keys \in Nat \ {0}
           /\ Count \in Int /\ Quota \in Nat /\ Count <= Quota
<1>1. job \in Job
    BY DEF Job
<1>2. job.threads \in 1 .. MaxThreads /\ job.work \in Nat /\ job.keys \in Nat \ {0}
    BY <1>1 DEF Job
<1> DEFINE size == ValueLength * job.threads
           span == 2 * (IntMax + 1)
<1>3. size \in Nat \ {0} /\ span \in Nat \ {0}
    BY <1>2, SMT
<1> HIDE DEF size
<1>4. job.work \div size \in Int
    BY <1>2, <1>3, SMT
<1>5. (job.work \div size) % span \in Int
    BY <1>3, <1>4, SMT
<1>6. Count \in Int
    BY <1>3, <1>5, SMT DEF Count, size
<1> HIDE DEF span
<1> QED
    BY <1>2, <1>6, SMT DEF Quota

LEMMA StoredType ==
    ASSUME NEW d, d \in [DOMAIN d -> Value], NEW k, NEW v \in Value
    PROVE  /\ Stored(d, k, v) \in [DOMAIN Stored(d, k, v) -> Value]
           /\ DOMAIN Stored(d, k, v) = DOMAIN d \cup {k}
    BY DEF Stored

LEMMA InitType == Init => TypeOK
<1> SUFFICES ASSUME Init PROVE TypeOK
    OBVIOUS
<1>1. \A t \in Thread : Random(FirstSeed + t) \in 1 .. M - 1
    BY RandomType
<1>2. seed \in [Thread -> 1 .. M - 1]
    BY <1>1 DEF Init, NewBenchmarks
<1>3. tally \in [Thread -> [count : Nat, success : Nat]]
    BY DEF Init, NewTally
<1>4. <<>> \in Seq(Thread \X Nat) /\ <<>> \in Seq([count : Nat, success : Nat])
    OBVIOUS
<1>5. /\ vec \in [Thread -> Seq(Thread \X Nat)] /\ lat \in [Phases -> Seq(Thread \X Nat)]
      /\ result \in [Phases -> Seq([count : Nat, success : Nat])]
    BY <1>4 DEF Init, Phases
<1>6. db \in [DOMAIN db -> Value]
    BY DEF Init
<1>7. mi \in 0 .. job.threads - 1 /\ job \in Jobs
    BY JobType DEF Init
<1>8. pc \in [Thread -> {"unborn", "loop", "finished"}] /\ iter \in [Thread -> Nat]
    BY DEF Init
<1> QED
    BY <1>2, <1>3, <1>5, <1>6, <1>7, <1>8 DEF Init, TypeOK, Phases

\* An iteration of thread t keeps the types, whatever the call did.
LEMMA IterateType ==
    ASSUME TypeOK, NEW t \in Thread, NEW ok, Iterate(t, ok)
    PROVE  /\ seed' \in [Thread -> 1 .. M - 1] /\ iter' \in [Thread -> Nat]
           /\ tally' \in [Thread -> [count : Nat, success : Nat]]
           /\ vec' \in [Thread -> Seq(Thread \X Nat)]
           /\ UNCHANGED <<job, phase, main, mi, pc, result, lat>>
<1>1. NextSeed(seed[t]) \in 1 .. M - 1
    BY NextIsRemainder DEF TypeOK
<1>2. seed' \in [Thread -> 1 .. M - 1]
    BY <1>1 DEF Iterate, TypeOK
<1>3. iter' \in [Thread -> Nat]
    <2>1. iter \in [Thread -> Nat]
        BY DEF TypeOK
    <2>2. iter' = [iter EXCEPT ![t] = iter[t] + 1]
        BY DEF Iterate
    <2>3. iter[t] + 1 \in Nat
        BY <2>1
    <2> QED
        BY <2>1, <2>2, <2>3
<1>4. tally' \in [Thread -> [count : Nat, success : Nat]]
    <2> DEFINE new == [count |-> tally[t].count + 1, success |-> tally[t].success + (IF ok THEN 1 ELSE 0)]
    <2>1. tally[t] \in [count : Nat, success : Nat]
        BY DEF TypeOK
    <2>2. new \in [count : Nat, success : Nat]
        BY <2>1
    <2>3. tally' = [tally EXCEPT ![t] = new]
        BY DEF Iterate
    <2> HIDE DEF new
    <2> QED
        BY <2>2, <2>3 DEF TypeOK
<1>5. vec' \in [Thread -> Seq(Thread \X Nat)]
    <2>1. vec[t] \in Seq(Thread \X Nat) /\ <<t, iter[t]>> \in Thread \X Nat
        BY DEF TypeOK
    <2>2. Append(vec[t], <<t, iter[t]>>) \in Seq(Thread \X Nat)
        BY <2>1
    <2> QED
        BY <2>2 DEF Iterate, TypeOK
<1> QED
    BY <1>2, <1>3, <1>4, <1>5 DEF Iterate

LEMMA BufferType ==
    ASSUME TypeOK, NEW t \in Thread
    PROVE  Uid(t) \in 1 .. M - 1 /\ Buffer(t) \in Value
<1>1. seed[t] \in 1 .. M - 1
    BY DEF TypeOK
<1>2. Uid(t) \in 1 .. M - 1
    BY <1>1, NextIsRemainder DEF Uid
<1> QED
    BY <1>2 DEF Buffer, Value

\* What a Put leaves in the store, and what it answers.
LEMMA PutLeaves ==
    ASSUME TypeOK, NEW t \in Thread, DoPut(t)
    PROVE  /\ phase = 1 /\ \E ok : Iterate(t, ok) /\ ("write" \notin Faults => ok = TRUE)
           /\ db' \in [DOMAIN db' -> Value] /\ DOMAIN db \subseteq DOMAIN db'
           /\ "write" \notin Faults => KeyOf(Uid(t)) \in DOMAIN db'
<1> DEFINE k == KeyOf(Uid(t))
<1>1. PICK out \in PutOutcomes(db, k, Buffer(t)) : Iterate(t, out.ok) /\ db' = out.db
    BY DEF DoPut
<1>2. \/ out = [db |-> Stored(db, k, Buffer(t)), ok |-> TRUE]
      \/ "write" \in Faults /\ out.ok = FALSE /\ out.db \in {db, Stored(db, k, Buffer(t))}
    <2>1. CASE "write" \in Faults
        BY <2>1 DEF PutOutcomes
    <2>2. CASE "write" \notin Faults
        BY <2>2 DEF PutOutcomes
    <2> QED
        BY <2>1, <2>2
<1>3. db \in [DOMAIN db -> Value] /\ Buffer(t) \in Value
    BY BufferType DEF TypeOK
<1>4. /\ Stored(db, k, Buffer(t)) \in [DOMAIN Stored(db, k, Buffer(t)) -> Value]
      /\ DOMAIN Stored(db, k, Buffer(t)) = DOMAIN db \cup {k}
    BY <1>3, StoredType
<1>5. phase = 1
    BY DEF DoPut
<1> HIDE DEF k
<1>6. "write" \notin Faults => out.ok = TRUE
    BY <1>2
<1>7. out.db = db \/ out.db = Stored(db, k, Buffer(t))
    BY <1>2
<1>8. db' \in [DOMAIN db' -> Value] /\ DOMAIN db \subseteq DOMAIN db'
    BY <1>1, <1>3, <1>4, <1>7
<1>9. "write" \notin Faults => k \in DOMAIN db'
    BY <1>1, <1>2, <1>4
<1> QED
    BY <1>1, <1>5, <1>6, <1>8, <1>9 DEF k

\* What a Get answers.
LEMMA GetAnswers ==
    ASSUME NEW t \in Thread, DoGet(t)
    PROVE  /\ phase = 2 /\ db' = db
           /\ \E ok : /\ Iterate(t, ok)
                      /\ "read" \notin Faults /\ KeyOf(Uid(t)) \in DOMAIN db => ok = TRUE
<1> DEFINE k == KeyOf(Uid(t))
<1>1. PICK out \in GetOutcomes(db, k, Buffer(t)) : Iterate(t, out.ok) /\ db' = db
    BY DEF DoGet
<1>2. ASSUME "read" \notin Faults, k \in DOMAIN db PROVE out.ok = TRUE
    <2>1. out = [buf |-> CopyOut(db[k], Buffer(t)), ok |-> TRUE]
        BY <1>1, <1>2 DEF GetOutcomes
    <2> QED
        BY <2>1
<1>3. phase = 2
    BY DEF DoGet
<1> QED
    BY <1>1, <1>2, <1>3

LEMMA AdvanceType ==
    ASSUME TypeOK, NEW here \in {"spawn", "join", "report"},
           NEW next \in {"join", "report", "next", "exited"}, Advance(here, next), job' = job
    PROVE  /\ mi' \in 0 .. job.threads - 1 /\ mi \in Thread
           /\ main' \in {"spawn", "join", "report", "next", "exited"}
<1>1. mi \in 0 .. job.threads - 1 /\ job.threads \in 1 .. MaxThreads
    BY JobType DEF TypeOK
<1>2. CASE mi + 1 < job.threads
    BY <1>1, <1>2 DEF Advance
<1>3. CASE ~(mi + 1 < job.threads)
    BY <1>1, <1>3 DEF Advance
<1> QED
    BY <1>2, <1>3

LEMMA NextType == TypeOK /\ [Next]_vars => TypeOK'
<1> SUFFICES ASSUME TypeOK, [Next]_vars PROVE TypeOK'
    OBVIOUS
<1>1. CASE Spawn
    <2>1. mi' \in 0 .. job.threads - 1 /\ main' \in {"spawn", "join", "report", "next", "exited"}
        BY <1>1, AdvanceType DEF Spawn
    <2> QED
        BY <1>1, <2>1 DEF Spawn, TypeOK
<1>2. CASE Join
    <2>1. mi' \in 0 .. job.threads - 1 /\ main' \in {"spawn", "join", "report", "next", "exited"}
        BY <1>2, AdvanceType DEF Join
    <2> QED
        BY <1>2, <2>1 DEF Join, TypeOK
<1>3. CASE Report
    <2>1. PICK next \in {"next", "exited"} : Advance("report", next)
        BY <1>3 DEF Report
    <2>2. /\ mi' \in 0 .. job.threads - 1 /\ mi \in Thread
          /\ main' \in {"spawn", "join", "report", "next", "exited"}
        BY <1>3, <2>1, AdvanceType DEF Report
    <2>3. phase \in Phases /\ tally[mi] \in [count : Nat, success : Nat]
          /\ vec[mi] \in Seq(Thread \X Nat)
        BY <2>2 DEF TypeOK
    <2>4. Append(result[phase], tally[mi]) \in Seq([count : Nat, success : Nat])
        BY <2>3 DEF TypeOK
    <2>5. result' \in [Phases -> Seq([count : Nat, success : Nat])]
        BY <1>3, <2>3, <2>4 DEF Report, TypeOK
    <2>6. lat' \in [Phases -> Seq(Thread \X Nat)]
        BY <1>3, <2>3 DEF Report, TypeOK
    <2> QED
        BY <1>3, <2>2, <2>5, <2>6 DEF Report, TypeOK
<1>4. CASE StartGet
    <2>1. \A t \in Thread : Random(FirstSeed + t) \in 1 .. M - 1
        BY RandomType
    <2>2. seed' \in [Thread -> 1 .. M - 1]
        BY <1>4, <2>1 DEF StartGet, NewBenchmarks
    <2>3. tally' \in [Thread -> [count : Nat, success : Nat]]
        BY <1>4 DEF StartGet, NewTally
    <2>4. <<>> \in Seq(Thread \X Nat)
        OBVIOUS
    <2>5. vec' \in [Thread -> Seq(Thread \X Nat)]
        BY <1>4, <2>4 DEF StartGet
    <2> QED
        BY <1>4, <2>2, <2>3, <2>5 DEF StartGet, TypeOK, Phases
<1>5. ASSUME NEW t \in Thread, DoPut(t) PROVE TypeOK'
    <2>1. PICK ok : Iterate(t, ok)
        BY <1>5, PutLeaves
    <2>2. db' \in [DOMAIN db' -> Value]
        BY <1>5, PutLeaves
    <2> QED
        BY <2>1, <2>2, IterateType DEF TypeOK
<1>6. ASSUME NEW t \in Thread, DoGet(t) PROVE TypeOK'
    <2>1. db' = db /\ \E ok : Iterate(t, ok)
        BY <1>6, GetAnswers
    <2> QED
        BY <2>1, IterateType DEF TypeOK
<1>7. ASSUME NEW t \in Thread, Finish(t) PROVE TypeOK'
    BY <1>7 DEF Finish, TypeOK
<1>8. CASE UNCHANGED vars
    BY <1>8 DEF vars, TypeOK
<1> QED
    BY <1>1, <1>2, <1>3, <1>4, <1>5, <1>6, <1>7, <1>8
    DEF Next, MainStep, ThreadStep, Terminated
-----------------------------------------------------------------------------
(***************************************************************************)
(* The inductive invariant.                                                *)
(***************************************************************************)
\* Threads main has waited for.
Joined(t) ==
    \/ main = "join" /\ t < mi
    \/ main \in {"report", "next", "exited"} /\ t < job.threads

\* A thread stays within its count and finishes only when it has reached it.
LoopOK(t) ==
    /\ iter[t] <= Quota
    /\ pc[t] # "unborn" => t < job.threads
    /\ pc[t] = "unborn" => iter[t] = 0
    /\ pc[t] = "finished" => iter[t] = Quota
    /\ Joined(t) => pc[t] = "finished"

\* Every call that cannot have failed is counted as a success: those on a store
\* without faults, and Puts on one that only fails reads.
NeverFails == Faults = {} \/ (phase = 1 /\ "write" \notin Faults)

\* The latencies of the first n iterations of thread t.
Latencies(t, n) == [i \in 1 .. n |-> <<t, i - 1>>]

BookOK(t) ==
    /\ tally[t].count = iter[t]
    /\ tally[t].success <= iter[t]
    /\ NeverFails => tally[t].success = iter[t]
    /\ vec[t] = Latencies(t, iter[t])

\* f is the path thread t's generator has taken in SINGLE_PUT, its keys are in
\* the store, and the generator of the phase at work is on it.
OnPath(t, f) ==
    /\ f \in [0 .. Puts(t) -> 1 .. M - 1]
    /\ f[0] = Random(FirstSeed + t)
    /\ \A i \in 1 .. Puts(t) : f[i] = NextSeed(f[i - 1])
    /\ "write" \notin Faults => \A i \in 1 .. Puts(t) : KeyOf(f[i]) \in DOMAIN db
    /\ iter[t] <= Puts(t)
    /\ seed[t] = f[iter[t]]

\* How many threads' results of phase p have been written.
Written(p) ==
    IF p < phase THEN job.threads
    ELSE IF p > phase THEN 0
    ELSE IF main = "report" THEN mi
    ELSE IF main \in {"next", "exited"} THEN job.threads
    ELSE 0

RowOK(p, row) ==
    /\ row.count = Quota /\ row.success <= Quota
    /\ p = 1 /\ "write" \notin Faults => row.success = Quota

ReportOK(p) ==
    /\ Len(result[p]) = Written(p)
    /\ \A l \in DOMAIN result[p] : RowOK(p, result[p][l])
    /\ lat[p] = IF Written(p) = 0 THEN <<>> ELSE Latencies(Written(p) - 1, Quota)

BenchInv ==
    /\ main = "next" => phase = 1
    /\ main = "next" => mi = 0
    /\ \A t \in Thread : LoopOK(t) /\ BookOK(t)
    /\ \A t \in Thread : \E f : OnPath(t, f)
    /\ \A p \in Phases : ReportOK(p)

LEMMA Typed ==
    ASSUME TypeOK
    PROVE  /\ job \in Jobs /\ job.threads \in 1 .. MaxThreads /\ mi \in 0 .. job.threads - 1
           /\ mi \in Thread /\ phase \in {1, 2}
           /\ Quota \in Nat /\ Count \in Int /\ Count <= Quota
           /\ (Count > 0 => Quota = Count) /\ (~(Count > 0) => Quota = 0)
           /\ \A t \in Thread : iter[t] \in Nat /\ seed[t] \in 1 .. M - 1
<1>1. job \in Jobs /\ mi \in 0 .. job.threads - 1 /\ phase \in {1, 2}
    BY DEF TypeOK, Phases
<1>2. /\ job.threads \in 1 .. MaxThreads
      /\ Quota \in Nat /\ Count \in Int /\ Count <= Quota
    BY <1>1, JobType
<1>3. mi \in Thread
    BY <1>1, <1>2
<1>4. \A t \in Thread : iter[t] \in Nat /\ seed[t] \in 1 .. M - 1
    BY DEF TypeOK
<1> QED
    BY <1>1, <1>2, <1>3, <1>4 DEF Quota

\* The command line does not change.
LEMMA QuotaStays ==
    ASSUME job' = job
    PROVE  Quota' = Quota /\ Count' = Count
    BY DEF Quota, Count

LEMMA Appended ==
    ASSUME NEW S, NEW s \in Seq(S), NEW e \in S
    PROVE  Append(s, e) \in [1 .. Len(s) + 1 -> S]
<1>1. Append(s, e) \in Seq(S) /\ Len(Append(s, e)) = Len(s) + 1
    OBVIOUS
<1>2. Append(s, e) \in [1 .. Len(Append(s, e)) -> S]
    BY <1>1, LenProperties
<1> QED
    BY <1>1, <1>2

\* The latencies of one more iteration.
LEMMA LatenciesGrow ==
    ASSUME NEW t \in Thread, NEW n \in Nat
    PROVE  /\ Append(Latencies(t, n), <<t, n>>) = Latencies(t, n + 1)
           /\ Latencies(t, n) = <<>> <=> n = 0
<1>1. Latencies(t, n) \in Seq(Thread \X Nat) /\ Len(Latencies(t, n)) = n
    BY DEF Latencies
<1>2. Append(Latencies(t, n), <<t, n>>) = Latencies(t, n + 1)
    <2> DEFINE s == Append(Latencies(t, n), <<t, n>>)
    <2>1. DOMAIN s = 1 .. n + 1 /\ s \in [1 .. n + 1 -> Thread \X Nat]
        <3>1. <<t, n>> \in Thread \X Nat
            OBVIOUS
        <3>2. s \in [1 .. Len(Latencies(t, n)) + 1 -> Thread \X Nat]
            BY <1>1, <3>1, Appended
        <3> HIDE DEF s
        <3>3. s \in [1 .. n + 1 -> Thread \X Nat]
            BY <1>1, <3>2
        <3> QED
            BY <3>3
    <2>2. ASSUME NEW i \in 1 .. n + 1 PROVE s[i] = <<t, i - 1>>
        <3>1. CASE i = n + 1
            BY <1>1, <3>1
        <3>2. CASE i # n + 1
            <4>1. i \in 1 .. n
                BY <3>2
            <4>2. s[i] = Latencies(t, n)[i]
                BY <1>1, <4>1
            <4> QED
                BY <4>1, <4>2 DEF Latencies
        <3> QED
            BY <3>1, <3>2
    <2> HIDE DEF s
    <2>3. s = [i \in 1 .. n + 1 |-> <<t, i - 1>>]
        BY <2>1, <2>2
    <2> QED
        BY <2>3 DEF s, Latencies
<1>3. Latencies(t, n) = <<>> <=> n = 0
    <2>1. Len(Latencies(t, n)) = n
        BY <1>1
    <2>2. n = 0 => DOMAIN Latencies(t, n) = {}
        BY DEF Latencies
    <2> QED
        BY <1>1, <2>1, <2>2
<1> QED
    BY <1>2, <1>3

LEMMA InitInv == Init => BenchInv
<1> SUFFICES ASSUME Init PROVE BenchInv
    OBVIOUS
<1>1. TypeOK
    BY InitType
<1>2. \A t \in Thread : LoopOK(t)
    BY <1>1, Typed DEF Init, LoopOK, Joined
<1>3. ASSUME NEW t \in Thread PROVE BookOK(t)
    <2>1. tally[t].count = 0 /\ tally[t].success = 0 /\ iter[t] = 0 /\ vec[t] = <<>>
        BY DEF Init, NewTally
    <2>2. Latencies(t, 0) = <<>>
        BY LatenciesGrow
    <2> QED
        BY <2>1, <2>2 DEF BookOK
<1>4. ASSUME NEW t \in Thread PROVE \E f : OnPath(t, f)
    <2> DEFINE g == [i \in 0 .. 0 |-> Random(FirstSeed + t)]
    <2>1. Puts(t) = 0 /\ iter[t] = 0 /\ seed[t] = Random(FirstSeed + t)
        BY DEF Init, Puts, NewBenchmarks
    <2>2. Random(FirstSeed + t) \in 1 .. M - 1
        BY RandomType
    <2>3. OnPath(t, g)
        BY <2>1, <2>2 DEF OnPath
    <2> QED
        BY <2>3
<1>5. ASSUME NEW p \in Phases PROVE ReportOK(p)
    <2>1. Written(p) = 0
        BY DEF Init, Written, Phases
    <2>2. result[p] = <<>> /\ lat[p] = <<>>
        BY DEF Init, Phases
    <2> QED
        BY <2>1, <2>2 DEF ReportOK
<1> QED
    BY <1>2, <1>3, <1>4, <1>5 DEF Init, BenchInv

\* A number that SINGLE_GET comes to is one that SINGLE_PUT came to.
LEMMA Finds ==
    ASSUME TypeOK, BenchInv, phase = 2, "write" \notin Faults,
           NEW t \in Thread, pc[t] = "loop", iter[t] < Count
    PROVE  KeyOf(Uid(t)) \in DOMAIN db
<1>1. t < job.threads
    BY DEF BenchInv, LoopOK
<1>2. Puts(t) = Quota
    BY <1>1 DEF Puts
<1>3. iter[t] + 1 \in 1 .. Quota
    BY Typed
<1>4. PICK f : OnPath(t, f)
    BY DEF BenchInv
<1>5. f[iter[t] + 1] = NextSeed(seed[t])
    <2>1. PICK i \in 1 .. Quota : i = iter[t] + 1
        BY <1>3
    <2>2. i - 1 = iter[t]
        BY <2>1, Typed
    <2> QED
        BY <1>2, <1>4, <2>1, <2>2 DEF OnPath
<1> QED
    BY <1>2, <1>3, <1>4, <1>5 DEF OnPath, Uid

\* GetPhaseFinds follows from the invariant.
LEMMA InvFinds == TypeOK /\ BenchInv => GetPhaseFinds
<1> SUFFICES ASSUME TypeOK, BenchInv PROVE GetPhaseFinds
    OBVIOUS
<1>1. ASSUME "write" \notin Faults, phase = 2, NEW t \in Thread, pc[t] = "loop", iter[t] < Count
      PROVE  KeyOf(Uid(t)) \in DOMAIN db
    BY <1>1, Finds
<1>2. ASSUME Faults = {}, NEW t \in Thread PROVE tally[t].success = tally[t].count
    BY <1>2 DEF BenchInv, BookOK, NeverFails
<1> QED
    BY <1>1, <1>2 DEF GetPhaseFinds

\* An iteration of a thread books the call.
LEMMA IterateBooks ==
    ASSUME TypeOK, BenchInv, NEW t \in Thread, NEW ok, Iterate(t, ok), NeverFails => ok = TRUE
    PROVE  /\ \A u \in Thread : LoopOK(u)' /\ BookOK(u)'
           /\ \A p \in Phases : ReportOK(p)'
<1>1. UNCHANGED <<job, phase, main, mi, pc, result, lat>>
    BY DEF Iterate
<1>2. Quota' = Quota
    BY <1>1, QuotaStays
<1>3. /\ iter[t] \in Nat /\ iter'[t] = iter[t] + 1 /\ iter'[t] <= Quota
      /\ pc[t] = "loop"
    <2>1. iter[t] \in Nat /\ iter[t] < Count /\ pc[t] = "loop"
        BY Typed DEF Iterate
    <2>2. iter \in [Thread -> Nat]
        BY DEF TypeOK
    <2>3. iter'[t] = iter[t] + 1
        BY <2>2 DEF Iterate
    <2>4. iter[t] + 1 <= Quota
        BY <2>1, Typed
    <2> QED
        BY <2>1, <2>3, <2>4
<1>4. ASSUME NEW u \in Thread, u # t
      PROVE  iter'[u] = iter[u] /\ tally'[u] = tally[u] /\ vec'[u] = vec[u]
    BY <1>4 DEF Iterate, TypeOK
<1>5. ASSUME NEW u \in Thread PROVE LoopOK(u)'
    <2>1. LoopOK(u)
        BY DEF BenchInv
    <2>2. Joined(u)' <=> Joined(u)
        BY <1>1 DEF Joined
    <2>3. CASE u = t
        BY <1>1, <1>2, <1>3, <2>1, <2>2, <2>3 DEF LoopOK
    <2>4. CASE u # t
        BY <1>1, <1>2, <1>4, <2>1, <2>2, <2>4 DEF LoopOK
    <2> QED
        BY <2>3, <2>4
<1>6. ASSUME NEW u \in Thread PROVE BookOK(u)'
    <2>1. BookOK(u) /\ (NeverFails' <=> NeverFails)
        BY <1>1 DEF BenchInv, NeverFails
    <2>2. CASE u = t
        <3>1. /\ tally'[t].count = tally[t].count + 1
              /\ tally'[t].success = tally[t].success + (IF ok THEN 1 ELSE 0)
            BY DEF Iterate, TypeOK
        <3>2. vec'[t] = Latencies(t, iter[t] + 1)
            <4>1. vec'[t] = Append(vec[t], <<t, iter[t]>>)
                BY DEF Iterate, TypeOK
            <4> QED
                BY <1>3, <2>1, <2>2, <4>1, LatenciesGrow DEF BookOK
        <3>3. tally[t].success \in Nat
            BY DEF TypeOK
        <3>4. /\ tally'[t].count = iter'[t] /\ tally'[t].success <= iter'[t]
              /\ NeverFails => tally'[t].success = iter'[t]
            BY <1>3, <2>1, <2>2, <3>1, <3>3 DEF BookOK
        <3>5. vec'[t] = Latencies(t, iter'[t])
            BY <1>3, <3>2
        <3> QED
            BY <2>1, <2>2, <3>4, <3>5 DEF BookOK, Latencies
    <2>3. CASE u # t
        BY <1>4, <2>1, <2>3 DEF BookOK, Latencies
    <2> QED
        BY <2>2, <2>3
<1>7. ASSUME NEW p \in Phases PROVE ReportOK(p)'
    BY <1>1, <1>2 DEF BenchInv, ReportOK, Written, RowOK, Latencies
<1> QED
    BY <1>5, <1>6, <1>7

\* Every call that cannot fail answers true.
LEMMA PutIterates ==
    ASSUME TypeOK, NEW t \in Thread, DoPut(t)
    PROVE  \E ok : Iterate(t, ok) /\ (NeverFails => ok = TRUE)
<1>1. PICK ok : Iterate(t, ok) /\ ("write" \notin Faults => ok = TRUE)
    BY PutLeaves
<1> QED
    BY <1>1 DEF NeverFails

LEMMA GetIterates ==
    ASSUME TypeOK, BenchInv, NEW t \in Thread, DoGet(t)
    PROVE  \E ok : Iterate(t, ok) /\ (NeverFails => ok = TRUE)
<1>1. phase = 2
    BY GetAnswers
<1>2. PICK ok : /\ Iterate(t, ok)
                /\ "read" \notin Faults /\ KeyOf(Uid(t)) \in DOMAIN db => ok = TRUE
    BY GetAnswers
<1>3. pc[t] = "loop" /\ iter[t] < Count
    BY <1>2 DEF Iterate
<1>4. NeverFails => Faults = {}
    BY <1>1 DEF NeverFails
<1>5. NeverFails => KeyOf(Uid(t)) \in DOMAIN db
    BY <1>1, <1>3, <1>4, Finds
<1> QED
    BY <1>2, <1>4, <1>5

\* A path stays one while the generator, the count and the job stay and the
\* store keeps its keys.
LEMMA PathStays ==
    ASSUME NEW u \in Thread, NEW f, OnPath(u, f), Puts(u)' = Puts(u), job' = job,
           iter'[u] = iter[u], seed'[u] = seed[u], DOMAIN db \subseteq DOMAIN db'
    PROVE  OnPath(u, f)'
    BY DEF OnPath, KeyOf

LEMMA PutPath ==
    ASSUME TypeOK, BenchInv, NEW t \in Thread, DoPut(t), NEW u \in Thread
    PROVE  \E f : OnPath(u, f)'
<1>1. PICK ok : Iterate(t, ok)
    BY PutLeaves
<1>2. phase = 1 /\ phase' = 1 /\ job' = job /\ DOMAIN db \subseteq DOMAIN db'
    BY <1>1, PutLeaves DEF Iterate
<1>3. PICK f : OnPath(u, f)
    BY DEF BenchInv
<1>4. CASE u # t
    <2>1. iter'[u] = iter[u] /\ seed'[u] = seed[u]
        BY <1>1, <1>4 DEF Iterate, TypeOK
    <2>2. Puts(u)' = Puts(u)
        BY <1>2, <2>1 DEF Puts
    <2> QED
        BY <1>2, <1>3, <2>1, <2>2, PathStays
<1>5. CASE u = t
    <2>1. PICK n \in Nat : n = iter[t]
        BY Typed
    <2>2. PICK x \in 1 .. M - 1 : x = Uid(t)
        BY BufferType
    <2>3. iter'[t] = n + 1 /\ seed'[t] = x
        BY <1>1, <2>1, <2>2 DEF Iterate, TypeOK, Uid
    <2>4. Puts(t) = n /\ Puts(t)' = n + 1
        BY <1>2, <2>1, <2>3 DEF Puts
    <2>5. x = NextSeed(f[n])
        BY <1>3, <1>5, <2>1, <2>2 DEF OnPath, Uid
    <2> DEFINE g == [i \in 0 .. n + 1 |-> IF i = n + 1 THEN x ELSE f[i]]
    <2>6. f \in [0 .. n -> 1 .. M - 1]
        BY <1>3, <1>5, <2>4 DEF OnPath
    <2>7. g \in [0 .. n + 1 -> 1 .. M - 1]
        <3>1. ASSUME NEW i \in 0 .. n + 1, i # n + 1 PROVE f[i] \in 1 .. M - 1
            <4>1. i \in 0 .. n
                BY <3>1
            <4> QED
                BY <2>6, <4>1
        <3> QED
            BY <3>1
    <2>8. g[n + 1] = x /\ \A i \in 0 .. n : g[i] = f[i]
        OBVIOUS
    <2> HIDE DEF g
    <2>9. g[0] = Random(FirstSeed + t)
        BY <1>3, <1>5, <2>8 DEF OnPath
    <2>10. ASSUME NEW i \in 1 .. n + 1 PROVE g[i] = NextSeed(g[i - 1])
        <3>1. CASE i = n + 1
            <4>1. g[i - 1] = f[n]
                BY <2>8, <3>1
            <4> QED
                BY <2>5, <2>8, <3>1, <4>1
        <3>2. CASE i # n + 1
            <4>1. i \in 1 .. n /\ i \in 0 .. n /\ i - 1 \in 0 .. n
                BY <3>2
            <4>2. f[i] = NextSeed(f[i - 1])
                BY <1>3, <1>5, <2>4, <4>1 DEF OnPath
            <4> QED
                BY <2>8, <4>1, <4>2
        <3> QED
            BY <3>1, <3>2
    <2>11. ASSUME "write" \notin Faults, NEW i \in 1 .. n + 1 PROVE KeyOf(g[i]) \in DOMAIN db'
        <3>1. CASE i = n + 1
            <4>1. KeyOf(Uid(t)) \in DOMAIN db'
                BY <2>11, PutLeaves
            <4> QED
                BY <2>2, <2>8, <3>1, <4>1 DEF KeyOf
        <3>2. CASE i # n + 1
            <4>1. i \in 1 .. n /\ i \in 0 .. n
                BY <3>2
            <4>2. KeyOf(f[i]) \in DOMAIN db
                BY <1>3, <1>5, <2>4, <2>11, <4>1 DEF OnPath
            <4> QED
                BY <1>2, <2>8, <4>1, <4>2
        <3> QED
            BY <3>1, <3>2
    <2>12. OnPath(t, g)'
        BY <1>2, <2>3, <2>4, <2>7, <2>8, <2>9, <2>10, <2>11 DEF OnPath, KeyOf
    <2> QED
        BY <1>5, <2>12
<1> QED
    BY <1>4, <1>5

LEMMA GetPath ==
    ASSUME TypeOK, BenchInv, NEW t \in Thread, DoGet(t), NEW u \in Thread
    PROVE  \E f : OnPath(u, f)'
<1>1. PICK ok : Iterate(t, ok)
    BY GetAnswers
<1>2. phase = 2 /\ phase' = 2 /\ job' = job /\ db' = db
    BY <1>1, GetAnswers DEF Iterate
<1>3. PICK f : OnPath(u, f)
    BY DEF BenchInv
<1>4. Puts(u)' = Puts(u)
    BY <1>2, QuotaStays DEF Puts
<1>5. CASE u # t
    <2>1. iter'[u] = iter[u] /\ seed'[u] = seed[u]
        BY <1>1, <1>5 DEF Iterate, TypeOK
    <2> QED
        BY <1>2, <1>3, <1>4, <2>1, PathStays
<1>6. CASE u = t
    <2>1. PICK n \in Nat : n = iter[t]
        BY Typed
    <2>2. iter'[t] = n + 1 /\ seed'[t] = NextSeed(f[n])
        BY <1>1, <1>3, <1>6, <2>1 DEF Iterate, TypeOK, OnPath
    <2>3. t < job.threads /\ n + 1 \in 1 .. Quota
        BY <1>1, <2>1, Typed DEF Iterate, BenchInv, LoopOK
    <2>4. Puts(t) = Quota
        BY <1>2, <2>3 DEF Puts
    <2>5. f[n + 1] = NextSeed(f[n])
        <3>1. PICK i \in 1 .. Quota : i = n + 1 /\ i - 1 = n
            BY <2>1, <2>3
        <3> QED
            BY <1>3, <1>6, <2>4, <3>1 DEF OnPath
    <2>6. n + 1 <= Puts(t)
        BY <2>1, <2>3, <2>4, Typed
    <2> QED
        BY <1>2, <1>3, <1>4, <1>6, <2>2, <2>5, <2>6 DEF OnPath, KeyOf
<1> QED
    BY <1>5, <1>6

LEMMA PutGetInv ==
    ASSUME TypeOK, BenchInv, NEW t \in Thread, DoPut(t) \/ DoGet(t)
    PROVE  BenchInv'
<1>1. PICK ok : Iterate(t, ok) /\ (NeverFails => ok = TRUE)
    BY PutIterates, GetIterates
<1>2. /\ \A u \in Thread : LoopOK(u)' /\ BookOK(u)'
      /\ \A p \in Phases : ReportOK(p)'
    BY <1>1, IterateBooks
<1>3. \A u \in Thread : \E f : OnPath(u, f)'
    BY PutPath, GetPath
<1>4. UNCHANGED <<main, mi, phase>>
    BY <1>1 DEF Iterate
<1> QED
    BY <1>2, <1>3, <1>4 DEF BenchInv

\* The steps that change neither the books nor the generators.
LEMMA BooksStay ==
    ASSUME BenchInv, UNCHANGED <<job, phase, iter, seed, tally, vec, db>>, NEW u \in Thread
    PROVE  BookOK(u)' /\ \E f : OnPath(u, f)'
<1>1. BookOK(u)'
    BY DEF BenchInv, BookOK, NeverFails, Latencies
<1>2. PICK f : OnPath(u, f)
    BY DEF BenchInv
<1>3. Puts(u)' = Puts(u)
    BY QuotaStays DEF Puts
<1>4. OnPath(u, f)'
    BY <1>2, <1>3, PathStays
<1> QED
    BY <1>1, <1>4

LEMMA ReportsStay ==
    ASSUME BenchInv, UNCHANGED <<job, result, lat>>, NEW p \in Phases, Written(p)' = Written(p)
    PROVE  ReportOK(p)'
    BY QuotaStays DEF BenchInv, ReportOK, RowOK, Latencies

LEMMA FinishInv ==
    ASSUME TypeOK, BenchInv, NEW t \in Thread, Finish(t)
    PROVE  BenchInv'
<1>1. /\ UNCHANGED <<job, phase, main, mi, iter, seed, tally, vec, db, result, lat>>
      /\ pc[t] = "loop" /\ iter[t] >= Count /\ pc' = [pc EXCEPT ![t] = "finished"]
    BY DEF Finish
<1>2. ASSUME NEW u \in Thread PROVE LoopOK(u)'
    <2>1. LoopOK(u) /\ Quota' = Quota /\ (Joined(u)' <=> Joined(u))
        BY <1>1, QuotaStays DEF BenchInv, Joined
    <2>2. pc \in [Thread -> {"unborn", "loop", "finished"}]
        BY DEF TypeOK
    <2>3. CASE u = t
        <3>1. pc'[u] = "finished"
            BY <1>1, <2>2, <2>3
        <3>2. iter[u] = Quota
            BY <1>1, <2>1, <2>3, Typed DEF LoopOK
        <3> QED
            BY <1>1, <2>1, <2>3, <3>1, <3>2, Typed DEF LoopOK
    <2>4. CASE u # t
        <3>1. pc'[u] = pc[u]
            BY <1>1, <2>2, <2>4
        <3> QED
            BY <1>1, <2>1, <3>1 DEF LoopOK
    <2> QED
        BY <2>3, <2>4
<1>3. ASSUME NEW p \in Phases PROVE ReportOK(p)'
    <2>1. Written(p)' = Written(p)
        BY <1>1 DEF Written
    <2> QED
        BY <1>1, <2>1, ReportsStay
<1> QED
    BY <1>1, <1>2, <1>3, BooksStay DEF BenchInv

LEMMA SpawnInv ==
    ASSUME TypeOK, BenchInv, Spawn
    PROVE  BenchInv'
<1>1. /\ UNCHANGED <<job, phase, iter, seed, tally, vec, db, result, lat>>
      /\ pc' = [pc EXCEPT ![mi] = "loop"] /\ main = "spawn"
      /\ main' = "spawn" \/ (main' = "join" /\ mi' = 0)
    BY DEF Spawn, Advance
<1>2. ASSUME NEW u \in Thread PROVE LoopOK(u)'
    <2>1. LoopOK(u) /\ Quota' = Quota /\ ~Joined(u)'
        BY <1>1, QuotaStays DEF BenchInv, Joined
    <2>2. mi \in Thread /\ mi < job.threads /\ pc \in [Thread -> {"unborn", "loop", "finished"}]
        <3>1. mi \in Thread /\ mi < job.threads
            BY Typed
        <3> QED
            BY <3>1 DEF TypeOK
    <2>3. CASE u = mi
        <3>1. pc'[u] = "loop"
            BY <1>1, <2>2, <2>3
        <3> QED
            BY <1>1, <2>1, <2>2, <2>3, <3>1 DEF LoopOK
    <2>4. CASE u # mi
        <3>1. pc'[u] = pc[u]
            BY <1>1, <2>2, <2>4
        <3> QED
            BY <1>1, <2>1, <3>1 DEF LoopOK
    <2> QED
        BY <2>3, <2>4
<1>3. ASSUME NEW p \in Phases PROVE ReportOK(p)'
    <2>1. Written(p)' = Written(p)
        BY <1>1 DEF Written
    <2> QED
        BY <1>1, <2>1, ReportsStay
<1> QED
    BY <1>1, <1>2, <1>3, BooksStay DEF BenchInv

LEMMA JoinInv ==
    ASSUME TypeOK, BenchInv, Join
    PROVE  BenchInv'
<1>1. /\ UNCHANGED <<job, phase, pc, iter, seed, tally, vec, db, result, lat>>
      /\ pc[mi] = "finished" /\ main = "join"
      /\ \/ main' = "join" /\ mi' = mi + 1
         \/ main' = "report" /\ mi' = 0 /\ ~(mi + 1 < job.threads)
    BY DEF Join, Advance
<1>2. ASSUME NEW u \in Thread PROVE LoopOK(u)'
    <2>1. LoopOK(u) /\ Quota' = Quota
        BY <1>1, QuotaStays DEF BenchInv
    <2>2. Joined(u)' => u < mi \/ u = mi
        BY <1>1, Typed DEF Joined
    <2>3. Joined(u)' => pc[u] = "finished"
        BY <1>1, <2>1, <2>2 DEF LoopOK, Joined
    <2> QED
        BY <1>1, <2>1, <2>3 DEF LoopOK
<1>3. ASSUME NEW p \in Phases PROVE ReportOK(p)'
    <2>1. Written(p)' = Written(p)
        BY <1>1 DEF Written
    <2> QED
        BY <1>1, <2>1, ReportsStay
<1> QED
    BY <1>1, <1>2, <1>3, BooksStay DEF BenchInv

LEMMA WriteInv ==
    ASSUME TypeOK, BenchInv, Report
    PROVE  BenchInv'
<1>1. /\ UNCHANGED <<job, phase, pc, iter, seed, tally, vec, db>> /\ main = "report"
      /\ \/ main' = "report" /\ mi' = mi + 1
         \/ /\ main' = IF phase = 1 THEN "next" ELSE "exited"
            /\ mi' = 0 /\ ~(mi + 1 < job.threads)
    BY DEF Report, Advance
<1>2. /\ result' = [result EXCEPT ![phase] = Append(@, tally[mi])]
      /\ lat' = IF vec[mi] = <<>> THEN lat ELSE [lat EXCEPT ![phase] = vec[mi]]
    BY DEF Report
<1>3. /\ mi \in Thread /\ mi \in Nat /\ mi < job.threads /\ job.threads \in Nat
      /\ phase \in {1, 2} /\ Quota \in Nat /\ Quota' = Quota
    <2>1. mi \in Thread /\ mi \in 0 .. job.threads - 1 /\ job.threads \in 1 .. MaxThreads
          /\ phase \in {1, 2} /\ Quota \in Nat
        BY Typed
    <2> QED
        BY <1>1, <2>1, QuotaStays
<1>4. ASSUME NEW u \in Thread PROVE LoopOK(u)'
    <2>1. LoopOK(u) /\ (Joined(u)' => Joined(u))
        BY <1>1 DEF BenchInv, Joined
    <2> QED
        BY <1>1, <1>3, <2>1 DEF LoopOK
<1>5. /\ iter[mi] = Quota /\ RowOK(phase, tally[mi]) /\ vec[mi] = Latencies(mi, Quota)
    <2>1. LoopOK(mi) /\ BookOK(mi)
        BY <1>3 DEF BenchInv
    <2>2. pc[mi] = "finished"
        BY <1>1, <1>3, <2>1 DEF LoopOK, Joined
    <2>3. iter[mi] = Quota
        BY <2>1, <2>2 DEF LoopOK
    <2>4. RowOK(phase, tally[mi])
        BY <2>1, <2>3 DEF BookOK, RowOK, NeverFails
    <2> QED
        BY <2>1, <2>3, <2>4 DEF BookOK
<1>6. ReportOK(phase)'
    <2>1. Written(phase) = mi /\ Written(phase)' = mi + 1
        BY <1>1, <1>3 DEF Written
    <2>2. ReportOK(phase) /\ phase \in Phases
        BY <1>3 DEF BenchInv, Phases
    <2>3. result[phase] \in Seq([count : Nat, success : Nat]) /\ tally[mi] \in [count : Nat, success : Nat]
        BY <1>3, <2>2 DEF TypeOK
    <2>4. result'[phase] = Append(result[phase], tally[mi])
        BY <1>2, <2>2 DEF TypeOK
    <2>5. Len(result'[phase]) = mi + 1
        BY <2>1, <2>2, <2>3, <2>4 DEF ReportOK
    <2>6. ASSUME NEW l \in DOMAIN result'[phase] PROVE RowOK(phase, result'[phase][l])
        <3>1. /\ Len(result[phase]) = mi /\ l \in 1 .. mi + 1
              /\ DOMAIN result[phase] = 1 .. mi
            BY <2>1, <2>2, <2>3, <2>4, <2>6 DEF ReportOK
        <3>2. CASE l = mi + 1
            BY <1>5, <2>3, <2>4, <3>1, <3>2
        <3>3. CASE l # mi + 1
            <4>1. l \in DOMAIN result[phase]
                BY <1>3, <3>1, <3>3
            <4>2. result'[phase][l] = result[phase][l]
                BY <2>3, <2>4, <4>1
            <4> QED
                BY <2>2, <4>1, <4>2 DEF ReportOK
        <3> QED
            BY <3>2, <3>3
    <2>7. lat'[phase] = Latencies(mi, Quota)
        <3>1. CASE vec[mi] = <<>>
            <4>1. Quota = 0 /\ Latencies(mi, Quota) = <<>>
                BY <1>3, <1>5, <3>1, LatenciesGrow
            <4>2. mi # 0 => mi - 1 \in Thread
                BY <1>3
            <4>3. mi # 0 => Latencies(mi - 1, Quota) = <<>>
                BY <1>3, <4>1, <4>2, LatenciesGrow
            <4>4. lat[phase] = <<>>
                BY <2>1, <2>2, <4>3 DEF ReportOK
            <4> QED
                BY <1>2, <3>1, <4>1, <4>4
        <3>2. CASE vec[mi] # <<>>
            BY <1>2, <1>5, <2>2, <3>2 DEF TypeOK
        <3> QED
            BY <3>1, <3>2
    <2>8. mi + 1 # 0 /\ (mi + 1) - 1 = mi
        BY <1>3
    <2> QED
        BY <1>1, <1>3, <2>1, <2>5, <2>6, <2>7, <2>8 DEF ReportOK, RowOK, Latencies
<1>7. ASSUME NEW p \in Phases, p # phase PROVE ReportOK(p)'
    <2>1. result'[p] = result[p] /\ lat'[p] = lat[p]
        BY <1>2, <1>7 DEF TypeOK
    <2>2. Written(p)' = Written(p)
        BY <1>1, <1>3, <1>7 DEF Written, Phases
    <2> QED
        BY <1>3, <2>1, <2>2 DEF BenchInv, ReportOK, RowOK, Latencies
<1>8. /\ main' = "next" => phase' = 1
      /\ main' = "next" => mi' = 0
    BY <1>1
<1>9. \A p \in Phases : ReportOK(p)'
    BY <1>1, <1>6, <1>7
<1> QED
    BY <1>1, <1>4, <1>8, <1>9, BooksStay DEF BenchInv

LEMMA StartGetInv ==
    ASSUME TypeOK, BenchInv, StartGet
    PROVE  BenchInv'
<1>1. /\ UNCHANGED <<job, mi, db, result, lat>> /\ main = "next" /\ phase = 1 /\ mi = 0
      /\ phase' = 2 /\ main' = "spawn"
    BY DEF StartGet, BenchInv
<1>2. ASSUME NEW u \in Thread
      PROVE  /\ pc'[u] = "unborn" /\ iter'[u] = 0 /\ seed'[u] = Random(FirstSeed + u)
             /\ tally'[u] = [count |-> 0, success |-> 0] /\ vec'[u] = <<>>
    BY DEF StartGet, NewBenchmarks, NewTally
<1>3. Quota' = Quota /\ Quota \in Nat
    BY <1>1, QuotaStays, Typed
<1>4. ASSUME NEW u \in Thread PROVE LoopOK(u)'
    <2>1. ~Joined(u)'
        BY <1>1 DEF Joined
    <2> QED
        BY <1>2, <1>3, <2>1 DEF LoopOK
<1>5. ASSUME NEW u \in Thread PROVE BookOK(u)'
    <2>1. Latencies(u, 0) = <<>>
        BY LatenciesGrow
    <2> QED
        BY <1>2, <2>1 DEF BookOK, Latencies
<1>6. ASSUME NEW u \in Thread PROVE \E f : OnPath(u, f)'
    <2>1. PICK f : OnPath(u, f)
        BY DEF BenchInv
    <2>2. Puts(u)' = Puts(u)
        <3>1. LoopOK(u)
            BY DEF BenchInv
        <3>2. CASE u < job.threads
            <4>1. iter[u] = Quota
                BY <1>1, <3>1, <3>2 DEF LoopOK, Joined
            <4> QED
                BY <1>1, <1>3, <3>2, <4>1 DEF Puts
        <3>3. CASE ~(u < job.threads)
            <4>1. pc[u] = "unborn" /\ iter[u] = 0
                BY <3>1, <3>3 DEF LoopOK, TypeOK
            <4> QED
                BY <1>1, <3>3, <4>1 DEF Puts
        <3> QED
            BY <3>2, <3>3
    <2>3. Puts(u) \in Nat
        BY <1>1, Typed DEF Puts
    <2>4. OnPath(u, f)'
        BY <1>1, <1>2, <2>1, <2>2, <2>3 DEF OnPath, KeyOf
    <2> QED
        BY <2>4
<1>7. ASSUME NEW p \in Phases PROVE ReportOK(p)'
    <2>1. Written(p)' = Written(p)
        BY <1>1 DEF Written, Phases
    <2> QED
        BY <1>1, <2>1, ReportsStay
<1> QED
    BY <1>1, <1>4, <1>5, <1>6, <1>7 DEF BenchInv

LEMMA NextInv == TypeOK /\ BenchInv /\ [Next]_vars => BenchInv'
<1> SUFFICES ASSUME TypeOK, BenchInv, [Next]_vars PROVE BenchInv'
    OBVIOUS
<1>1. CASE UNCHANGED vars
    <2>1. UNCHANGED <<job, phase, main, mi, pc, iter, seed, tally, vec, db, result, lat>>
        BY <1>1 DEF vars
    <2>2. ASSUME NEW u \in Thread PROVE LoopOK(u)'
        BY <2>1, QuotaStays DEF BenchInv, LoopOK, Joined
    <2>3. ASSUME NEW p \in Phases PROVE ReportOK(p)'
        <3>1. Written(p)' = Written(p)
            BY <2>1 DEF Written
        <3> QED
            BY <2>1, <3>1, ReportsStay
    <2> QED
        BY <2>1, <2>2, <2>3, BooksStay DEF BenchInv
<1>2. CASE MainStep
    BY <1>2, SpawnInv, JoinInv, WriteInv, StartGetInv DEF MainStep
<1>3. ASSUME NEW t \in Thread, ThreadStep(t) PROVE BenchInv'
    BY <1>3, PutGetInv, FinishInv DEF ThreadStep
<1> QED
    BY <1>1, <1>2, <1>3 DEF Next, Terminated
-----------------------------------------------------------------------------
(***************************************************************************)
(* The theorems.                                                           *)
(***************************************************************************)
\* start_workload, Run and thread_task never leave the invariant.
THEOREM Benching == Spec => [](TypeOK /\ BenchInv)
<1>1. Init => TypeOK /\ BenchInv
    BY InitType, InitInv
<1>2. TypeOK /\ BenchInv /\ [Next]_vars => (TypeOK /\ BenchInv)'
    BY NextType, NextInv
<1> QED
    BY <1>1, <1>2, PTL DEF Spec

\* Every variable of db_bench keeps its type; in particular no generator ever
\* reaches 0 or M.
THEOREM BenchTypeCorrect == Spec => []TypeOK
    BY Benching, PTL

\* SINGLE_GET looks for keys that SINGLE_PUT has put.
THEOREM GetsFind == Spec => []GetPhaseFinds
<1>1. TypeOK /\ BenchInv => GetPhaseFinds
    BY InvFinds
<1> QED
    BY <1>1, Benching, PTL

\* The quota of a thread is what comes of its share in an int.
LEMMA RoundsInInt ==
    ASSUME job.threads \in Nat \ {0}, job.work \in Nat
    PROVE  InInt(job.work \div (ValueLength * job.threads), Quota)
<1>1. ValueLength * job.threads \in Nat \ {0}
    BY SMT
<1>2. PICK n \in Nat : n = job.work \div (ValueLength * job.threads)
    BY <1>1, Quotient
<1>3. Count = Wrapped(n, IntMax)
    BY <1>2 DEF Count, Wrapped
<1>4. Quota = IF Wrapped(n, IntMax) > 0 THEN Wrapped(n, IntMax) ELSE 0
    BY <1>3 DEF Quota
<1> QED
    BY <1>2, <1>4, WrappedRounds DEF InInt

\* Run: the result of a phase has a full line for each thread, and its latency
\* file is the last thread's.
THEOREM BenchReports == Spec => []ReportMatches
<1>1. TypeOK /\ BenchInv => ReportMatches
    <2> SUFFICES ASSUME TypeOK, BenchInv, NEW p \in ReportedPhases
                 PROVE  /\ Len(result[p]) = job.threads
                        /\ \A l \in DOMAIN result[p] : RowOK(p, result[p][l])
                        /\ InInt(job.work \div (ValueLength * job.threads), Quota)
                        /\ lat[p] = Latencies(job.threads - 1, Quota)
        BY DEF ReportMatches, RowOK, Latencies
    <2>1. p \in Phases /\ Written(p) = job.threads
        BY Typed DEF ReportedPhases, Phases, Written
    <2>2. job.threads # 0
        BY Typed
    <2>3. job.threads \in Nat \ {0} /\ job.work \in Nat
        <3>1. job.threads \in 1 .. MaxThreads /\ job.work \in Nat
            BY Typed, JobType
        <3> QED
            BY <3>1, SMT
    <2>4. InInt(job.work \div (ValueLength * job.threads), Quota)
        BY <2>3, RoundsInInt
    <2>5. ReportOK(p)
        BY <2>1 DEF BenchInv
    <2> QED
        BY <2>1, <2>2, <2>4, <2>5 DEF ReportOK
<1> QED
    BY <1>1, Benching, PTL
-----------------------------------------------------------------------------
(***************************************************************************)
(* What SINGLE_PUT leaves in the store.                                    *)
(***************************************************************************)
\* The sequence of remainders exists, and NextSeed steps through it.
LEMMA RemaindersAre ==
    ASSUME NEW s \in 1 .. M - 1
    PROVE  /\ Remainders(s) \in [Nat -> 1 .. M - 1] /\ Remainders(s)[0] = s
           /\ \A n \in Nat : Remainders(s)[n + 1] = NextSeed(Remainders(s)[n])
<1> DEFINE S == 1 .. M - 1
           g == [x \in S |-> NextSeed(x)]
           Rem(x) == (x * A) % M
           Eq(f) == f = [n \in Nat |-> IF n = 0 THEN s ELSE Rem(f[n - 1])]
           R == Remainders(s)
<1>1. \A x \in S : NextSeed(x) = Rem(x) /\ NextSeed(x) \in S
    BY NextIsRemainder
<1>2. R = CHOOSE f : Eq(f)
    BY Zenon DEF Remainders
<1> HIDE DEF Rem, R
<1>3. g \in [S -> S]
    BY <1>1
<1>13. PICK h : Iterates(h, S, s, g)
    <2> HIDE DEF g, S
    <2>1. s \in S
        BY DEF S
    <2> QED
        BY <1>3, <2>1, Iterated
<1>4. h \in [Nat -> S] /\ h[0] = s /\ \A n \in Nat : h[n + 1] = g[h[n]]
    BY <1>13, Zenon DEF Iterates
<1>5. \A n \in Nat : h[n] \in S /\ h[n + 1] = NextSeed(h[n]) /\ h[n + 1] = Rem(h[n])
    <2> SUFFICES ASSUME NEW n \in Nat
                 PROVE  h[n] \in S /\ h[n + 1] = NextSeed(h[n]) /\ h[n + 1] = Rem(h[n])
        OBVIOUS
    <2>1. h[n] \in S
        BY <1>4
    <2>2. h[n + 1] = g[h[n]]
        BY <1>4
    <2>3. g[h[n]] = NextSeed(h[n])
        BY <2>1
    <2> QED
        BY <1>1, <2>1, <2>2, <2>3
<1> HIDE DEF S, g
<1>6. Eq(h)
    <2>1. ASSUME NEW n \in Nat PROVE h[n] = IF n = 0 THEN s ELSE Rem(h[n - 1])
        <3>1. CASE n = 0
            BY <1>4, <3>1
        <3>2. CASE n # 0
            <4>1. n - 1 \in Nat /\ (n - 1) + 1 = n
                BY <3>2
            <4>2. h[(n - 1) + 1] = Rem(h[n - 1])
                BY <1>5, <4>1
            <4> QED
                BY <3>2, <4>1, <4>2
        <3> QED
            BY <3>1, <3>2
    <2> QED
        BY <1>4, <2>1
<1>7. Eq(R)
    <2> HIDE DEF Eq
    <2> QED
        BY <1>2, <1>6, Zenon
<1>8. R[0] = s
    BY <1>7
<1>9. ASSUME NEW n \in Nat, R[n] = h[n] PROVE R[n + 1] = h[n + 1]
    <2>1. n + 1 \in Nat /\ n + 1 # 0 /\ (n + 1) - 1 = n
        OBVIOUS
    <2>2. R[n + 1] = Rem(R[(n + 1) - 1])
        BY <1>7, <2>1
    <2> QED
        BY <1>5, <1>9, <2>1, <2>2
<1> DEFINE N == {n \in Nat : R[n] = h[n]}
<1>10. N \in SUBSET Nat /\ 0 \in N /\ \A n \in N : n + 1 \in N
    BY <1>4, <1>8, <1>9
<1>11. N = Nat
    <2> HIDE DEF N
    <2> QED
        BY <1>10, Induction
<1>12. \A n \in Nat : R[n] = h[n]
    BY <1>11
<1>14. R = h
    <2>1. DOMAIN R = Nat /\ R = [n \in DOMAIN R |-> R[n]]
        BY <1>7
    <2> QED
        BY <1>4, <1>12, <2>1
<1> QED
    BY <1>4, <1>5, <1>14 DEF R, S

\* A thread's numbers.
LEMMA LehmerIs ==
    ASSUME NEW t \in Thread
    PROVE  /\ Lehmer(t) \in [Nat -> 1 .. M - 1] /\ Lehmer(t)[0] = Random(FirstSeed + t)
           /\ \A n \in Nat : Lehmer(t)[n + 1] = NextSeed(Lehmer(t)[n])
<1>1. Random(FirstSeed + t) \in 1 .. M - 1
    BY RandomType
<1> QED
    BY <1>1, RemaindersAre DEF Lehmer

\* The path of a thread is the beginning of its sequence.
LEMMA PathIsLehmer ==
    ASSUME TypeOK, NEW t \in Thread, NEW f, OnPath(t, f), NEW m \in 0 .. Puts(t)
    PROVE  f[m] = Lehmer(t)[m]
<1> DEFINE L == Lehmer(t)
           N == {n \in Nat : n <= Puts(t) => f[n] = L[n]}
<1>0. Puts(t) \in Nat
    BY Typed DEF Puts
<1>1. L[0] = Random(FirstSeed + t) /\ \A n \in Nat : L[n + 1] = NextSeed(L[n])
    BY LehmerIs
<1> HIDE DEF L
<1>2. 0 \in N
    BY <1>1 DEF OnPath
<1>3. ASSUME NEW n \in N PROVE n + 1 \in N
    <2> SUFFICES ASSUME n + 1 <= Puts(t) PROVE f[n + 1] = L[n + 1]
        BY <1>3
    <2>1. n \in Nat /\ n <= Puts(t)
        BY <1>0, <1>3
    <2>2. n + 1 \in 1 .. Puts(t) /\ (n + 1) - 1 = n
        BY <1>0, <2>1
    <2>3. f[n + 1] = NextSeed(f[(n + 1) - 1])
        BY <2>2 DEF OnPath
    <2>4. f[n] = L[n]
        BY <1>3, <2>1
    <2>5. L[n + 1] = NextSeed(L[n])
        BY <1>1, <2>1
    <2> QED
        BY <2>2, <2>3, <2>4, <2>5
<1>4. N = Nat
    <2>1. N \in SUBSET Nat
        OBVIOUS
    <2> HIDE DEF N
    <2> QED
        BY <1>2, <1>3, <2>1, Induction
<1>5. m \in N /\ m <= Puts(t)
    BY <1>0, <1>4
<1> QED
    BY <1>5 DEF L
\* The number a thread moves to is the next one of its sequence.
LEMMA UidIsLehmer ==
    ASSUME TypeOK, BenchInv, NEW t \in Thread
    PROVE  seed[t] = Lehmer(t)[iter[t]] /\ Uid(t) = Lehmer(t)[iter[t] + 1]
<1>1. PICK f : OnPath(t, f)
    BY DEF BenchInv
<1>2. iter[t] \in Nat /\ iter[t] <= Puts(t) /\ seed[t] = f[iter[t]]
    BY <1>1, Typed DEF OnPath
<1>3. Puts(t) \in Nat
    BY Typed DEF Puts
<1>4. iter[t] \in 0 .. Puts(t)
    BY <1>2, <1>3
<1>5. seed[t] = Lehmer(t)[iter[t]]
    BY <1>1, <1>2, <1>4, PathIsLehmer
<1> QED
    BY <1>2, <1>5, LehmerIs DEF Uid

\* A Put leaves the other records as they are.
LEMMA PutRecords ==
    ASSUME TypeOK, NEW t \in Thread, DoPut(t), NEW k \in DOMAIN db'
    PROVE  \/ k \in DOMAIN db /\ db'[k] = db[k]
           \/ k = KeyOf(Uid(t)) /\ db'[k] = Buffer(t)
<1> DEFINE x == KeyOf(Uid(t))
<1>1. PICK out \in PutOutcomes(db, x, Buffer(t)) : db' = out.db
    BY DEF DoPut
<1>2. out.db = db \/ out.db = Stored(db, x, Buffer(t))
    BY DEF PutOutcomes
<1> HIDE DEF x
<1>3. CASE db' = db
    BY <1>3
<1>4. CASE db' = Stored(db, x, Buffer(t))
    <2>1. db' = [y \in DOMAIN db \cup {x} |-> IF y = x THEN Buffer(t) ELSE db[y]]
        BY <1>4 DEF Stored
    <2> QED
        BY <2>1 DEF x
<1> QED
    BY <1>1, <1>2, <1>3, <1>4

\* No step takes a Put back.
LEMMA PutsGrow ==
    ASSUME TypeOK, BenchInv, [Next]_vars, NEW t \in Thread
    PROVE  /\ Puts(t) \in Nat /\ Puts(t)' \in Nat /\ Puts(t) <= Puts(t)' /\ job' = job
           /\ ~(\E u \in Thread : DoPut(u)) => db' = db
<1>1. Puts(t) \in Nat /\ iter[t] \in Nat /\ Quota \in Nat
    BY Typed DEF Puts
<1>2. job' = job => Quota' = Quota
    BY QuotaStays
<1>3. ASSUME NEW u \in Thread, DoPut(u)
      PROVE Puts(t)' \in Nat /\ Puts(t) <= Puts(t)' /\ job' = job
    <2>1. PICK ok : phase = 1 /\ Iterate(u, ok)
        BY <1>3, PutLeaves
    <2>2. iter' = [iter EXCEPT ![u] = iter[u] + 1] /\ phase' = phase /\ job' = job
        BY <2>1 DEF Iterate
    <2>3. iter \in [Thread -> Nat]
        BY DEF TypeOK
    <2>4. iter'[t] \in Nat /\ iter[t] <= iter'[t]
        BY <2>2, <2>3
    <2> QED
        BY <2>1, <2>2, <2>4 DEF Puts
<1>4. ASSUME NEW u \in Thread, DoGet(u)
      PROVE Puts(t)' = Puts(t) /\ job' = job /\ db' = db
    <2>1. PICK ok : phase = 2 /\ db' = db /\ Iterate(u, ok)
        BY <1>4, GetAnswers
    <2>2. phase' = phase /\ job' = job
        BY <2>1 DEF Iterate
    <2> QED
        BY <1>2, <2>1, <2>2 DEF Puts
<1>5. CASE StartGet
    <2>1. /\ job' = job /\ db' = db /\ main = "next" /\ phase = 1 /\ mi = 0 /\ phase' = 2
        BY <1>5 DEF StartGet, BenchInv
    <2>2. LoopOK(t)
        BY DEF BenchInv
    <2>3. CASE t < job.threads
        <3>1. iter[t] = Quota
            BY <2>1, <2>2, <2>3 DEF LoopOK, Joined
        <3> QED
            BY <1>1, <1>2, <2>1, <2>3, <3>1 DEF Puts
    <2>4. CASE ~(t < job.threads)
        <3>1. pc[t] = "unborn" /\ iter[t] = 0
            BY <2>2, <2>4 DEF LoopOK, TypeOK
        <3> QED
            BY <1>1, <2>1, <2>4, <3>1 DEF Puts
    <2> QED
        BY <1>1, <2>1, <2>3, <2>4
<1>6. CASE UNCHANGED <<job, phase, iter, db>>
    BY <1>1, <1>2, <1>6 DEF Puts
<1>7. \/ StartGet \/ UNCHANGED <<job, phase, iter, db>>
      \/ \E u \in Thread : DoPut(u) \/ DoGet(u)
    BY DEF Next, MainStep, ThreadStep, Spawn, Join, Report, Finish, Terminated, vars
<1> QED
    BY <1>1, <1>3, <1>4, <1>5, <1>6, <1>7

LEMMA InitRecords == Init => RecordsOfPaths
<1> SUFFICES ASSUME Init PROVE RecordsOfPaths
    OBVIOUS
<1>1. DOMAIN db = {}
    BY DEF Init
<1> QED
    BY <1>1 DEF RecordsOfPaths

LEMMA NextRecords == TypeOK /\ BenchInv /\ RecordsOfPaths /\ [Next]_vars => RecordsOfPaths'
<1> SUFFICES ASSUME TypeOK, BenchInv, RecordsOfPaths, [Next]_vars, NEW k \in DOMAIN db'
             PROVE  /\ k = KeyOf(db[k].head)' /\ db'[k].len = ValueLength
                    /\ \E t \in Thread : \E n \in 1 .. Puts(t)' : db'[k].head = Lehmer(t)[n]
    BY DEF RecordsOfPaths, Lehmer, Remainders
<1>0. job' = job
    <2>1. 0 \in Thread
        OBVIOUS
    <2> QED
        BY <2>1, PutsGrow
<1>1. CASE k \in DOMAIN db /\ db'[k] = db[k]
    <2>1. k = KeyOf(db[k].head) /\ db[k].len = ValueLength
        BY <1>1 DEF RecordsOfPaths
    <2>2. PICK t \in Thread, n \in Nat : n \in 1 .. Puts(t) /\ db[k].head = Lehmer(t)[n]
        BY <1>1, PutsGrow DEF RecordsOfPaths
    <2>3. n \in 1 .. Puts(t)'
        BY <2>2, PutsGrow
    <2> QED
        BY <1>0, <1>1, <2>1, <2>2, <2>3 DEF KeyOf
<1>2. ASSUME NEW t \in Thread, DoPut(t), k = KeyOf(Uid(t)), db'[k] = Buffer(t)
      PROVE  /\ k = KeyOf(db[k].head)' /\ db'[k].len = ValueLength
             /\ \E u \in Thread : \E n \in 1 .. Puts(u)' : db'[k].head = Lehmer(u)[n]
    <2>1. db'[k].head = Uid(t) /\ db'[k].len = ValueLength
        BY <1>2 DEF Buffer
    <2>2. PICK ok : phase = 1 /\ Iterate(t, ok)
        BY <1>2, PutLeaves
    <2>3. iter'[t] = iter[t] + 1 /\ phase' = 1 /\ iter[t] \in Nat
        BY <2>2, Typed DEF Iterate, TypeOK
    <2>4. iter[t] + 1 \in 1 .. Puts(t)'
        BY <2>3 DEF Puts
    <2>5. Uid(t) = Lehmer(t)[iter[t] + 1]
        BY UidIsLehmer
    <2>6. k = KeyOf(db[k].head)'
        BY <1>0, <1>2, <2>1 DEF KeyOf
    <2> QED
        BY <2>1, <2>4, <2>5, <2>6
<1>3. CASE \E t \in Thread : DoPut(t)
    BY <1>1, <1>2, <1>3, PutRecords
<1>4. CASE ~\E t \in Thread : DoPut(t)
    <2>1. 0 \in Thread
        OBVIOUS
    <2>2. db' = db
        BY <1>4, <2>1, PutsGrow
    <2> QED
        BY <1>1, <2>2
<1> QED
    BY <1>3, <1>4

\* SINGLE_PUT and SINGLE_GET never leave the invariant, nor the store the numbers
\* of the generators.
THEOREM Recording == Spec => [](TypeOK /\ BenchInv /\ RecordsOfPaths)
<1>1. Init => TypeOK /\ BenchInv /\ RecordsOfPaths
    BY InitType, InitInv, InitRecords
<1>2. TypeOK /\ BenchInv /\ RecordsOfPaths /\ [Next]_vars => (TypeOK /\ BenchInv /\ RecordsOfPaths)'
    BY NextType, NextInv, NextRecords
<1> QED
    BY <1>1, <1>2, PTL DEF Spec

LEMMA PathsStored ==
    ASSUME TypeOK, BenchInv, "write" \notin Faults, NEW t \in Thread, NEW n \in 1 .. Puts(t)
    PROVE  KeyOf(Lehmer(t)[n]) \in DOMAIN db
<1>1. PICK f : OnPath(t, f)
    BY DEF BenchInv
<1>2. KeyOf(f[n]) \in DOMAIN db
    BY <1>1 DEF OnPath
<1>3. n \in 0 .. Puts(t)
    OBVIOUS
<1>4. f[n] = Lehmer(t)[n]
    BY <1>1, <1>3, PathIsLehmer
<1> QED
    BY <1>2, <1>4

\* thread_task: the store holds exactly what the generators' sequences say.
THEOREM PutsAreExact == Spec => []PutPhaseExact
<1>1. TypeOK /\ BenchInv /\ RecordsOfPaths => PutPhaseExact
    BY PathsStored DEF PutPhaseExact
<1> QED
    BY <1>1, Recording, PTL
\* From its n-th number on, a thread's sequence is that of this number.
LEMMA LaterNumbers ==
    ASSUME NEW t \in Thread, NEW n \in Nat, NEW m \in Nat
    PROVE  Remainders(Lehmer(t)[n])[m] = Lehmer(t)[n + m]
<1> DEFINE L == Lehmer(t)
           R == Remainders(L[n])
           N == {l \in Nat : R[l] = L[n + l]}
<1>1. L \in [Nat -> 1 .. M - 1] /\ \A l \in Nat : L[l + 1] = NextSeed(L[l])
    BY LehmerIs
<1> HIDE DEF L
<1>2. L[n] \in 1 .. M - 1
    BY <1>1
<1>3. R[0] = L[n] /\ \A l \in Nat : R[l + 1] = NextSeed(R[l])
    BY <1>2, RemaindersAre
<1> HIDE DEF R
<1>4. 0 \in N
    BY <1>3
<1>5. ASSUME NEW l \in N PROVE l + 1 \in N
    <2>1. l \in Nat /\ n + l \in Nat /\ n + (l + 1) = (n + l) + 1
        OBVIOUS
    <2>2. L[(n + l) + 1] = NextSeed(L[n + l])
        BY <1>1, <2>1
    <2>3. R[l + 1] = NextSeed(R[l]) /\ R[l] = L[n + l]
        BY <1>3, <2>1
    <2> QED
        BY <2>1, <2>2, <2>3
<1>6. N = Nat
    <2>1. N \in SUBSET Nat
        OBVIOUS
    <2> HIDE DEF N
    <2> QED
        BY <1>4, <1>5, <2>1, Induction
<1> QED
    BY <1>6 DEF R, L

\* Among its first M - 1 numbers none comes twice.
LEMMA NoReturn ==
    ASSUME NEW t \in Thread, NEW n \in 1 .. M - 1, NEW l \in 1 .. M - 1, n < l
    PROVE  Lehmer(t)[n] # Lehmer(t)[l]
<1>1. n \in Nat /\ l - n \in 1 .. M - 2 /\ l - n \in Nat /\ n + (l - n) = l
    OBVIOUS
<1>2. Lehmer(t)[n] \in 1 .. M - 1
    BY <1>1, LehmerIs
<1>3. Remainders(Lehmer(t)[n])[l - n] # Lehmer(t)[n]
    BY <1>1, <1>2, PrimitiveRootAssumption
<1>4. Remainders(Lehmer(t)[n])[l - n] = Lehmer(t)[n + (l - n)]
    BY <1>1, LaterNumbers
<1> QED
    BY <1>1, <1>3, <1>4

LEMMA Distinct ==
    ASSUME NEW t \in Thread, NEW n \in 1 .. M - 1, NEW l \in 1 .. M - 1, Lehmer(t)[n] = Lehmer(t)[l]
    PROVE  n = l
<1>1. ~(n < l) /\ ~(l < n)
    BY NoReturn
<1> QED
    BY <1>1

\* With one thread and keys that are long enough, the keys in the store are the
\* numbers drawn so far.
LEMMA KeysAreNumbers ==
    ASSUME TypeOK, BenchInv, RecordsOfPaths, job.threads = 1, job.keys >= M, phase = 1,
           "write" \notin Faults
    PROVE  DOMAIN db = {Lehmer(0)[n] : n \in 1 .. iter[0]}
<1>0. 0 \in Thread /\ Puts(0) = iter[0] /\ iter[0] \in Nat /\ job.keys \in Nat
    BY Typed DEF Puts, Job
<1>1. ASSUME NEW x \in 1 .. M - 1 PROVE KeyOf(x) = x
    <2>1. x \in 0 .. job.keys - 1
        BY <1>0
    <2>2. \A k \in Nat \ {0} : x \in 0 .. k - 1 => x % k = x
        BY SMT
    <2> QED
        BY <1>0, <2>1, <2>2 DEF KeyOf
<1>2. ASSUME NEW k \in DOMAIN db PROVE k \in {Lehmer(0)[n] : n \in 1 .. iter[0]}
    <2>0. PICK t \in Thread : \E n \in 1 .. Puts(t) : k = KeyOf(db[k].head) /\ db[k].head = Lehmer(t)[n]
        BY DEF RecordsOfPaths
    <2>1. PICK n \in 1 .. Puts(t) : k = KeyOf(db[k].head) /\ db[k].head = Lehmer(t)[n]
        BY <2>0
    <2>2. iter[t] \in Nat /\ n \in 1 .. iter[t]
        BY <2>1, Typed DEF Puts
    <2>3. t < job.threads
        <3>1. pc[t] # "unborn"
            BY <2>2 DEF BenchInv, LoopOK
        <3> QED
            BY <3>1 DEF BenchInv, LoopOK
    <2>4. t = 0
        BY <2>3
    <2>5. Lehmer(0)[n] \in 1 .. M - 1
        BY <1>0, <2>2, LehmerIs
    <2>6. k = Lehmer(0)[n]
        BY <1>1, <2>1, <2>4, <2>5
    <2> QED
        BY <2>2, <2>4, <2>6
<1>3. ASSUME NEW n \in 1 .. iter[0] PROVE Lehmer(0)[n] \in DOMAIN db
    <2>1. KeyOf(Lehmer(0)[n]) \in DOMAIN db
        BY <1>0, PathsStored
    <2>2. Lehmer(0)[n] \in 1 .. M - 1
        BY <1>0, LehmerIs
    <2> QED
        BY <1>1, <2>1, <2>2
<1> QED
    BY <1>2, <1>3

\* random.h: one thread overwrites nothing before it has put all of 1 .. M - 1.
THEOREM PeriodIsFull == Spec => []FullPeriod
<1>1. ASSUME TypeOK, BenchInv, RecordsOfPaths, job.threads = 1, job.keys >= M, phase = 1,
             "write" \notin Faults
      PROVE  Cardinality(DOMAIN db) = IF iter[0] < M THEN iter[0] ELSE M - 1
    <2> DEFINE L == Lehmer(0)
    <2>0. 0 \in Thread /\ iter[0] \in Nat
        BY <1>1, Typed
    <2>1. DOMAIN db = {L[n] : n \in 1 .. iter[0]}
        BY <1>1, KeysAreNumbers
    <2>2. L \in [Nat -> 1 .. M - 1]
        BY <2>0, LehmerIs
    <2>3. \A n, l \in 1 .. M - 1 : L[n] = L[l] => n = l
        BY <2>0, Distinct
    <2> HIDE DEF L
    <2>4. CASE iter[0] < M
        <3>1. PICK i \in Nat : i = iter[0]
            BY <2>0
        <3>2. \A n, l \in 1 .. i : L[n] = L[l] => n = l
            BY <2>3, <2>4, <3>1
        <3>3. Cardinality({L[n] : n \in 1 .. i}) = i
            BY <3>2, ImageSize
        <3> QED
            BY <2>1, <2>4, <3>1, <3>3
    <2>5. CASE ~(iter[0] < M)
        <3> DEFINE V == {L[n] : n \in 1 .. M - 1}
                   W == 1 .. M - 1
        <3>1. Cardinality(V) = M - 1
            <4>1. PICK m \in Nat : m = M - 1
                OBVIOUS
            <4>2. \A n, l \in 1 .. m : L[n] = L[l] => n = l
                BY <2>3, <4>1
            <4>3. Cardinality({L[n] : n \in 1 .. m}) = m
                BY <4>2, ImageSize
            <4> QED
                BY <4>1, <4>3
        <3>2. IsFiniteSet(W) /\ Cardinality(W) = M - 1
            <4>1. 1 \in Int /\ M - 1 \in Int /\ ~(1 > M - 1) /\ (M - 1) - 1 + 1 = M - 1
                OBVIOUS
            <4> QED
                BY <4>1, FS_Interval
        <3>3. V \in SUBSET W
            BY <2>2
        <3>4. V = W
            <4> HIDE DEF V, W
            <4> QED
                BY <3>1, <3>2, <3>3, FS_Subset, Zenon
        <3>5. V \subseteq DOMAIN db
            BY <2>0, <2>1, <2>5
        <3>6. DOMAIN db \subseteq W
            BY <2>1, <2>2
        <3> HIDE DEF V, W
        <3>7. DOMAIN db = W
            BY <3>4, <3>5, <3>6
        <3>8. Cardinality(DOMAIN db) = M - 1
            BY <3>2, <3>7, Zenon
        <3> QED
            BY <2>5, <3>8
    <2> QED
        BY <2>4, <2>5
<1>2. TypeOK /\ BenchInv /\ RecordsOfPaths => FullPeriod
    BY <1>1 DEF FullPeriod
<1> QED
    BY <1>2, Recording, PTL
=============================================================================
