---------------------------- MODULE LehmerRandom ----------------------------
(***************************************************************************)
(* benchmark/dbbench/random.h, LevelDB's generator, with the widths of its *)
(* machine integers.  M is 2^31 - 1 in the code, so that M + 1 is the 2^31 *)
(* of a shift by 31, 2 * (M + 1) the range of a uint32_t, and the square   *)
(* of that the range of a uint64_t.                                        *)
(***************************************************************************)
EXTENDS Naturals

CONSTANTS M, A  \* 2147483647 and 16807

\* No product of a seed is a multiple of M, since M is prime.
ASSUME LehmerAssumption ==
    /\ M \in Nat \ {0, 1}
    /\ A \in 1 .. M - 1
    /\ \A s \in 1 .. M - 1 : (s * A) % M # 0

\* The sequence random.h says it computes, seed_ = (seed_ * A) % M, from s on.
Remainders(s) == LET f[n \in Nat] == IF n = 0 THEN s ELSE (f[n - 1] * A) % M IN f

\* A is a primitive root of M: no seed comes back before all have been seen.
ASSUME PrimitiveRootAssumption ==
    \A s \in 1 .. M - 1 : \A n \in 1 .. M - 2 : Remainders(s)[n] # s

Uint32 == 2 * (M + 1)

\* Mutation: a seed of 0 is kept.
RandomKeepsZero(s) == LET low == s % (M + 1) IN IF low = M THEN 1 ELSE low

\* Random::Random: the bad seeds 0 and M are avoided.
Random(s) == LET low == s % (M + 1) IN IF low \in {0, M} THEN 1 ELSE low

Product(seed) == (seed * A) % (Uint32 * Uint32)

\* (product >> 31) + (product & M), as a uint32_t.
Folded(seed) == ((Product(seed) \div (M + 1)) + (Product(seed) % (M + 1))) % Uint32

\* Mutation: the sum is masked to its lower bits.
NextSeedMasked(seed) == Folded(seed) % (M + 1)

\* Random::Next: product modulo M without a division.
NextSeed(seed) == IF Folded(seed) > M THEN Folded(seed) - M ELSE Folded(seed)
=============================================================================
