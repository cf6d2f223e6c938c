------------------------------ MODULE Counting ------------------------------
(***************************************************************************)
(* Facts about numbers, induction and sums that the proofs about several   *)
(* components rest on.  No definition of a model is used here.             *)
(***************************************************************************)
EXTENDS Integers, FiniteSets, Functions, FiniteSetTheorems, WellFoundedInduction, TLAPS

\* A number times a natural number is monotone.
LEMMA TimesMonotone ==
    ASSUME NEW a \in Int, NEW b \in Int, NEW c \in Nat, a <= b
    PROVE  a * c <= b * c
<1>1. (b - a) * c >= 0
    BY SMT
<1>2. (b - a) * c = b * c - a * c
    BY SMT
<1> QED
    BY <1>1, <1>2, SMT

LEMMA Quotient ==
    ASSUME NEW a \in Nat, NEW b \in Nat \ {0}
    PROVE  /\ a \div b \in Nat /\ a % b \in 0 .. b - 1
           /\ a = (a \div b) * b + (a % b)
<1>1. a = b * (a \div b) + (a % b) /\ a % b \in 0 .. b - 1 /\ a \div b \in Int
    BY SMT
<1>2. b * (a \div b) = (a \div b) * b
    BY <1>1, SMT
<1>3. a \div b >= 0
    <2> DEFINE q == a \div b
    <2>0. q \in Int
        BY <1>1
    <2> HIDE DEF q
    <2> SUFFICES ASSUME q <= -1 PROVE FALSE
        BY <2>0, SMT DEF q
    <2>1. q * b <= (-1) * b
        BY <2>0, TimesMonotone, SMT
    <2> QED
        BY <1>1, <1>2, <2>1, SMT DEF q
<1> QED
    BY <1>1, <1>2, <1>3, SMT

\* The quotient is the number whose multiples the dividend is between.
LEMMA QuotientIs ==
    ASSUME NEW a \in Nat, NEW b \in Nat \ {0}, NEW c \in Nat
    PROVE  (a \div b = c) <=> (c * b <= a /\ a < (c + 1) * b)
<1> DEFINE q == a \div b
<1>1. q \in Nat /\ q * b <= a /\ a < (q + 1) * b
    <2>1. q \in Nat /\ (q + 1) * b = q * b + b
        BY Quotient, SMT
    <2> QED
        BY <2>1, Quotient, SMT
<1> HIDE DEF q
<1>2. ASSUME c * b <= a, a < (c + 1) * b PROVE q = c
    <2>1. CASE q < c
        <3>1. (q + 1) * b <= c * b
            BY <1>1, <2>1, TimesMonotone, SMT
        <3> QED
            BY <1>1, <1>2, <3>1, SMT
    <2>2. CASE q > c
        <3>1. (c + 1) * b <= q * b
            BY <1>1, <2>2, TimesMonotone, SMT
        <3> QED
            BY <1>1, <1>2, <3>1, SMT
    <2> QED
        BY <1>1, <2>1, <2>2, SMT
<1>3. ASSUME q = c PROVE c * b <= a /\ a < (c + 1) * b
    BY <1>1, <1>3
<1> QED
    BY <1>2, <1>3 DEF q

\* A natural number as an int in two's complement whose largest value is m.
Wrapped(n, m) ==
    LET span == 2 * (m + 1)
        low  == n % span
    IN  IF low <= m THEN low ELSE low - span

\* A loop that counts up to it makes n rounds if n fits the int, none if the
\* sign bit is set, and never more than the int holds.
LEMMA WrappedRounds ==
    ASSUME NEW n \in Nat, NEW m \in Nat, NEW r, r = IF Wrapped(n, m) > 0 THEN Wrapped(n, m) ELSE 0
    PROVE  /\ Wrapped(n, m) \in Int
           /\ r \in 0 .. m
           /\ n <= m => r = n
           /\ n \in m + 1 .. 2 * m + 1 => r = 0
<1>1. PICK s \in Nat \ {0} : s = 2 * (m + 1)
    BY SMT
<1>2. n \div s \in Nat /\ n % s \in 0 .. s - 1 /\ n = (n \div s) * s + (n % s)
    BY Quotient
<1>3. ASSUME n < s PROVE n % s = n
    <2>1. 0 * s <= n /\ n < (0 + 1) * s /\ 0 \in Nat /\ 0 * s = 0
        BY <1>1, <1>3, SMT
    <2>2. n \div s = 0
        BY <2>1, QuotientIs
    <2> QED
        BY <1>2, <2>1, <2>2, SMT
<1> DEFINE low == n % s
<1>4. low \in Int /\ low >= 0 /\ low <= s - 1 /\ (n < s => low = n)
    BY <1>1, <1>2, <1>3, SMT
<1>5. Wrapped(n, m) = IF low <= m THEN low ELSE low - s
    BY <1>1 DEF Wrapped
<1> HIDE DEF low
<1> QED
    BY <1>1, <1>4, <1>5, SMT

\* Induction: a set of natural numbers that holds 0 and every successor of its
\* members holds them all, for otherwise one that it misses would be the least.
LEMMA Least ==
    ASSUME NEW T \in SUBSET Nat, T # {}
    PROVE  \E x \in T : \A y \in T : x <= y
<1> DEFINE R == {ss \in Nat \X Nat : ss[1] < ss[2]}
<1>1. IsWellFoundedOn(R, Nat)
    BY NatLessThanWellFounded DEF OpToRel
<1>2. PICK x \in T : \A y \in T : ~(<<y, x>> \in R)
    BY <1>1, WFMin
<1>3. \A y \in T : x <= y
    <2> TAKE y \in T
    <2>1. ~(<<y, x>> \in R)
        BY <1>2
    <2> QED
        BY <2>1, SMT
<1> QED
    BY <1>3

LEMMA Induction ==
    ASSUME NEW S \in SUBSET Nat, 0 \in S, \A n \in S : n + 1 \in S
    PROVE  S = Nat
<1> SUFFICES ASSUME Nat \ S # {} PROVE FALSE
    OBVIOUS
<1>1. PICK x \in Nat \ S : \A y \in Nat \ S : x <= y
    BY Least
<1>2. x # 0 /\ x - 1 \in Nat /\ ~(x <= x - 1)
    BY SMT
<1>3. x - 1 \in S
    BY <1>1, <1>2
<1>4. x - 1 + 1 = x
    BY SMT
<1> QED
    BY <1>3, <1>4
-----------------------------------------------------------------------------
(***************************************************************************)
(* Sums.                                                                   *)
(***************************************************************************)
\* g tells what f adds up to on every subset of S.
AddsUp(S, f, g) ==
    /\ DOMAIN f = S /\ g \in [SUBSET S -> Nat] /\ g[{}] = 0
    /\ \A s \in SUBSET S : \A x \in s : g[s] = f[x] + g[s \ {x}]

\* What the library computes a sum with.
Summing(S, f, it) ==
    it = [s \in SUBSET S |-> IF s = {} THEN 0
          ELSE f[CHOOSE x \in s : TRUE] + it[s \ {CHOOSE x \in s : TRUE}]]

LEMMA FoldUnfolds ==
    ASSUME NEW S, NEW f, NEW g, AddsUp(S, f, g)
    PROVE  \E it : SumFunction(f) = it[S] /\ Summing(S, f, it)
<1> DEFINE Step(it) == [s \in SUBSET S |-> IF s = {} THEN 0
                            ELSE f[CHOOSE x \in s : TRUE] + it[s \ {CHOOSE x \in s : TRUE}]]
           it == CHOOSE h : h = Step(h)
<1>1. g = Step(g)
    <2>1. \A s \in SUBSET S : g[s] = Step(g)[s]
        <3> TAKE s \in SUBSET S
        <3>1. CASE s = {}
            BY <3>1 DEF AddsUp
        <3>2. CASE s # {}
            BY <3>2 DEF AddsUp
        <3> QED
            BY <3>1, <3>2
    <2> QED
        BY <2>1 DEF AddsUp
<1>2. it = Step(it)
    <2> HIDE DEF Step
    <2> QED
        BY <1>1, Zenon
<1>3. SumFunction(f) = it[S]
    BY Zenon DEF AddsUp, SumFunction, SumFunctionOnSet, FoldFunctionOnSet, MapThenFoldSet
<1> QED
    BY <1>2, <1>3 DEF Summing

\* What adds one index at a time is the sum, whatever order the library takes.
LEMMA SumIs ==
    ASSUME NEW S, IsFiniteSet(S), NEW f, NEW g, AddsUp(S, f, g)
    PROVE  SumFunction(f) = g[S]
<1>1. PICK it : SumFunction(f) = it[S] /\ Summing(S, f, it)
    BY FoldUnfolds, Zenon
<1> DEFINE Same(n) == \A s \in SUBSET S : Cardinality(s) = n => it[s] = g[s]
           N == {n \in Nat : Same(n)}
<1>2. Same(0)
    <2> SUFFICES ASSUME NEW s \in SUBSET S, Cardinality(s) = 0 PROVE it[s] = g[s]
        OBVIOUS
    <2>1. s = {}
        BY FS_Subset, FS_EmptySet
    <2>2. it[s] = 0
        BY <1>1, <2>1 DEF Summing
    <2> QED
        BY <2>1, <2>2 DEF AddsUp
<1>3. ASSUME NEW n \in Nat, Same(n) PROVE Same(n + 1)
    <2> SUFFICES ASSUME NEW s \in SUBSET S, Cardinality(s) = n + 1 PROVE it[s] = g[s]
        OBVIOUS
    <2> DEFINE x == CHOOSE y \in s : TRUE
    <2>1. IsFiniteSet(s)
        BY FS_Subset
    <2>2. s # {}
        BY <2>1, FS_EmptySet
    <2>3. x \in s
        BY <2>2
    <2>4. it[s] = f[x] + it[s \ {x}]
        BY <1>1, <2>2 DEF Summing
    <2>5. g[s] = f[x] + g[s \ {x}]
        BY <2>3 DEF AddsUp
    <2> HIDE DEF x
    <2>6. Cardinality(s \ {x}) = n
        <3>1. Cardinality(s \ {x}) = Cardinality(s) - 1
            BY <2>1, <2>3, FS_RemoveElement, Zenon
        <3> QED
            BY <3>1
    <2>7. it[s \ {x}] = g[s \ {x}]
        BY <1>3, <2>6
    <2> QED
        BY <2>4, <2>5, <2>7
<1>4. N = Nat
    <2>1. N \in SUBSET Nat /\ 0 \in N
        BY <1>2
    <2>2. \A n \in N : n + 1 \in N
        BY <1>3
    <2> HIDE DEF N
    <2> QED
        BY <2>1, <2>2, Induction
<1>5. Cardinality(S) \in Nat
    BY FS_CardinalityType
<1>6. Same(Cardinality(S))
    BY <1>4, <1>5
<1>7. it[S] = g[S]
    BY <1>6
<1> QED
    BY <1>1, <1>7

Apart(S, A) ==
    /\ \A t \in S : IsFiniteSet(A[t])
    /\ \A t, u \in S : t # u => A[t] \cap A[u] = {}

\* The sizes of parts that have nothing in common add up to that of the whole.
LEMMA SumOfParts ==
    ASSUME NEW S, IsFiniteSet(S), NEW A, Apart(S, A)
    PROVE  /\ IsFiniteSet(UNION {A[t] : t \in S})
           /\ SumFunction([t \in S |-> Cardinality(A[t])]) = Cardinality(UNION {A[t] : t \in S})
<1> DEFINE Part(s) == UNION {A[t] : t \in s}
           g == [s \in SUBSET S |-> Cardinality(Part(s))]
           f == [t \in S |-> Cardinality(A[t])]
<1>1. ASSUME NEW s \in SUBSET S PROVE IsFiniteSet(Part(s))
    <2>1. IsFiniteSet(s)
        BY FS_Subset
    <2>2. IsFiniteSet({A[t] : t \in s})
        <3>1. [t \in s |-> A[t]] \in Surjection(s, {A[t] : t \in s})
            BY DEF Surjection
        <3> QED
            BY <2>1, <3>1, FS_Surjection
    <2> QED
        BY <2>2, FS_UNION DEF Apart
<1>2. g \in [SUBSET S -> Nat]
    BY <1>1, FS_CardinalityType
<1>3. g[{}] = 0
    <2>1. Part({}) = {}
        OBVIOUS
    <2> QED
        BY <2>1, FS_EmptySet
<1>4. ASSUME NEW s \in SUBSET S, NEW x \in s PROVE g[s] = f[x] + g[s \ {x}]
    <2>1. Part(s) = A[x] \cup Part(s \ {x})
        OBVIOUS
    <2>2. A[x] \cap Part(s \ {x}) = {}
        BY DEF Apart
    <2>3. IsFiniteSet(A[x]) /\ IsFiniteSet(Part(s \ {x}))
        BY <1>1 DEF Apart
    <2>4. g[s] = Cardinality(Part(s)) /\ g[s \ {x}] = Cardinality(Part(s \ {x})) /\ f[x] = Cardinality(A[x])
        OBVIOUS
    <2> HIDE DEF Part, f, g
    <2>5. Cardinality(A[x] \cup Part(s \ {x}))
            = Cardinality(A[x]) + Cardinality(Part(s \ {x})) - Cardinality(A[x] \cap Part(s \ {x}))
        BY <2>3, FS_Union
    <2>6. Cardinality(A[x]) \in Nat /\ Cardinality(Part(s \ {x})) \in Nat
        BY <2>3, FS_CardinalityType
    <2>7. Cardinality({}) = 0
        BY FS_EmptySet
    <2>8. Cardinality(Part(s)) = Cardinality(A[x] \cup Part(s \ {x}))
        BY <2>1, Zenon
    <2>9. Cardinality(A[x] \cap Part(s \ {x})) = 0
        BY <2>2, <2>7, Zenon
    <2> QED
        BY <2>4, <2>5, <2>6, <2>8, <2>9
<1>5. DOMAIN f = S
    OBVIOUS
<1>6. g[S] = Cardinality(Part(S))
    OBVIOUS
<1>7. SumFunction(f) = g[S]
    <2>1. \A s \in SUBSET S : \A x \in s : g[s] = f[x] + g[s \ {x}]
        BY <1>4
    <2> HIDE DEF f, g
    <2>2. AddsUp(S, f, g)
        BY <1>2, <1>3, <1>5, <2>1 DEF AddsUp
    <2> QED
        BY <2>2, SumIs, Zenon
<1> QED
    BY <1>1, <1>6, <1>7
-----------------------------------------------------------------------------
(***************************************************************************)
(* Sequences that a step function computes.                                *)
(***************************************************************************)
\* The first n steps of g from s.
Steps(f, S, s, g, n) ==
    /\ f \in [0 .. n -> S] /\ f[0] = s
    /\ \A m \in 0 .. n - 1 : f[m + 1] = g[f[m]]

LEMMA StepsAgree ==
    ASSUME NEW S, NEW s, NEW g, NEW n \in Nat, NEW l \in Nat, NEW f, NEW h,
           Steps(f, S, s, g, n), Steps(h, S, s, g, l), NEW m \in Nat, m <= n, m <= l
    PROVE  f[m] = h[m]
<1> DEFINE Same(k) == k <= n /\ k <= l => f[k] = h[k]
           N == {k \in Nat : Same(k)}
<1>1. Same(0)
    BY DEF Steps
<1>2. ASSUME NEW k \in Nat, Same(k) PROVE Same(k + 1)
    <2> SUFFICES ASSUME k + 1 <= n, k + 1 <= l PROVE f[k + 1] = h[k + 1]
        OBVIOUS
    <2>1. k \in 0 .. n - 1 /\ k \in 0 .. l - 1
        BY <1>2
    <2>2. f[k + 1] = g[f[k]] /\ h[k + 1] = g[h[k]]
        BY <2>1 DEF Steps
    <2>3. f[k] = h[k]
        BY <1>2
    <2> QED
        BY <2>2, <2>3
<1>3. N \in SUBSET Nat /\ 0 \in N /\ \A k \in N : k + 1 \in N
    BY <1>1, <1>2
<1>4. N = Nat
    <2> HIDE DEF N
    <2> QED
        BY <1>3, Induction
<1> QED
    BY <1>4

LEMMA StepsExist ==
    ASSUME NEW S, NEW s \in S, NEW g \in [S -> S], NEW n \in Nat
    PROVE  \E f : Steps(f, S, s, g, n)
<1> DEFINE N == {k \in Nat : \E f : Steps(f, S, s, g, k)}
<1>1. 0 \in N
    <2>1. Steps([k \in 0 .. 0 |-> s], S, s, g, 0)
        BY DEF Steps
    <2> QED
        BY <2>1
<1>2. ASSUME NEW k \in N PROVE k + 1 \in N
    <2>1. PICK f : Steps(f, S, s, g, k)
        OBVIOUS
    <2> DEFINE h == [m \in 0 .. k + 1 |-> IF m = k + 1 THEN g[f[k]] ELSE f[m]]
    <2>2. k \in Nat /\ \A m \in 0 .. k : f[m] \in S
        BY <2>1 DEF Steps
    <2>3. h \in [0 .. k + 1 -> S]
        <3>1. ASSUME NEW m \in 0 .. k + 1, m # k + 1 PROVE f[m] \in S
            BY <2>2, <3>1
        <3>2. g[f[k]] \in S
            BY <2>2
        <3> QED
            BY <3>1, <3>2
    <2>4. h[0] = s
        BY <2>1, <2>2 DEF Steps
    <2>5. ASSUME NEW m \in 0 .. k PROVE h[m + 1] = g[h[m]]
        <3>1. h[m] = f[m]
            BY <2>2
        <3>2. CASE m = k
            BY <2>2, <3>1, <3>2
        <3>3. CASE m # k
            <4>1. m \in 0 .. k - 1 /\ m + 1 # k + 1 /\ m + 1 \in 0 .. k + 1
                BY <2>2, <3>3
            <4> QED
                BY <2>1, <3>1, <4>1 DEF Steps
        <3> QED
            BY <3>2, <3>3
    <2> HIDE DEF h
    <2>6. Steps(h, S, s, g, k + 1)
        BY <2>2, <2>3, <2>4, <2>5 DEF Steps
    <2> QED
        BY <2>2, <2>6
<1>3. N = Nat
    <2>1. N \in SUBSET Nat
        OBVIOUS
    <2> HIDE DEF N
    <2> QED
        BY <1>1, <1>2, <2>1, Induction
<1> QED
    BY <1>3

Iterates(f, S, s, g) ==
    /\ f \in [Nat -> S] /\ f[0] = s
    /\ \A n \in Nat : f[n + 1] = g[f[n]]

\* A step function has its infinite sequence.
LEMMA Iterated ==
    ASSUME NEW S, NEW s \in S, NEW g \in [S -> S]
    PROVE  \E f : Iterates(f, S, s, g)
<1> DEFINE H(n) == CHOOSE h : Steps(h, S, s, g, n)
           f == [n \in Nat |-> H(n)[n]]
<1>1. ASSUME NEW n \in Nat PROVE Steps(H(n), S, s, g, n)
    BY StepsExist
<1> HIDE DEF H
<1>2. f \in [Nat -> S]
    <2> SUFFICES ASSUME NEW n \in Nat PROVE H(n)[n] \in S
        OBVIOUS
    <2> QED
        BY <1>1 DEF Steps
<1>3. f[0] = s
    BY <1>1 DEF Steps
<1>4. ASSUME NEW n \in Nat PROVE f[n + 1] = g[f[n]]
    <2>1. n + 1 \in Nat /\ n <= n + 1 /\ n <= n /\ n \in 0 .. (n + 1) - 1
        OBVIOUS
    <2>2. Steps(H(n + 1), S, s, g, n + 1) /\ Steps(H(n), S, s, g, n)
        BY <1>1, <2>1
    <2>3. H(n + 1)[n + 1] = g[H(n + 1)[n]]
        BY <2>1, <2>2 DEF Steps
    <2>4. H(n + 1)[n] = H(n)[n]
        BY <2>1, <2>2, StepsAgree
    <2> QED
        BY <2>1, <2>3, <2>4
<1> HIDE DEF f
<1> QED
    BY <1>2, <1>3, <1>4 DEF Iterates
\* As many values as places, when no value comes twice.
LEMMA ImageSize ==
    ASSUME NEW n \in Nat, NEW f, \A k, l \in 1 .. n : f[k] = f[l] => k = l
    PROVE  IsFiniteSet({f[k] : k \in 1 .. n}) /\ Cardinality({f[k] : k \in 1 .. n}) = n
<1> DEFINE R == 1 .. n
           V == {f[k] : k \in R}
           h == [k \in R |-> f[k]]
<1>1. h \in Bijection(R, V)
    <2>1. h \in [R -> V]
        OBVIOUS
    <2>2. h \in Injection(R, V)
        BY <2>1 DEF Injection, IsInjective
    <2>3. h \in Surjection(R, V)
        BY <2>1 DEF Surjection
    <2> QED
        BY <2>2, <2>3 DEF Bijection
<1>2. IsFiniteSet(R) /\ Cardinality(R) = n
    <2>1. 1 \in Int /\ n \in Int
        OBVIOUS
    <2>2. IsFiniteSet(R) /\ Cardinality(R) = IF 1 > n THEN 0 ELSE n - 1 + 1
        BY <2>1, FS_Interval
    <2> HIDE DEF R
    <2> QED
        BY <2>2
<1> HIDE DEF R, V, h
<1>3. ExistsBijection(R, V)
    BY <1>1 DEF ExistsBijection
<1>4. IsFiniteSet(V) /\ Cardinality(V) = Cardinality(R)
    BY <1>2, <1>3, FS_Bijection
<1> QED
    BY <1>2, <1>4 DEF V, R
=============================================================================
