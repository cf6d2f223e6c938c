--------------------------- MODULE Distributions ---------------------------
(***************************************************************************)
(* benchmark/facebook: the arithmetic by which a random draw becomes a     *)
(* query, with the 64-bit integers of C.  An option set is what one of     *)
(* rocksdb_predef_bench_options says, without what is 0, 1 or 8 in all of  *)
(* them; the two exponential terms enter as the shares step 3 makes of     *)
(* them, the key distributions as a function from draws to 64-bit numbers. *)
(***************************************************************************)
EXTENDS Integers, Sequences, Functions

CONSTANTS Half,     \* 2^63
          MaxNum,   \* bound on flags_num
          RangeMax, \* range_max = 1000
          Hash      \* draw to Random64(key_seed).Next(), read as an int64_t

Kinds == <<"Get", "Put", "SeekForPrev">>
Kind == {"Get", "Put", "SeekForPrev"}

\* access: the keyrange_access of step 3, <<>> without prefix modelling; flat:
\* key_dist_a and key_dist_b are 0; monitor: monitor_range_num.
Options == [bench : {"MixGraph", "ReadRandom", "MixRandom"}, num : 1 .. MaxNum,
            access : Seq(Nat), flat : BOOLEAN, ratio : Seq(Nat), monitor : Nat, value : Nat]

ASSUME DistributionsAssumption ==
    /\ Half \in Nat \ {0}
    /\ MaxNum \in 1 .. Half
    /\ RangeMax \in Nat \ {0}
    /\ Hash \in [0 .. MaxNum - 1 -> -Half .. Half - 1]

\* Division and remainder of C truncate towards zero.
CQuotient(a, n) == IF a >= 0 THEN a \div n ELSE -((-a) \div n)
CRemainder(a, n) == IF a >= 0 THEN a % n ELSE -((-a) % n)

\* GenerateKeyFromInt writes the eight bytes of a uint64_t, the highest first;
\* ConvertKeyToInt shifts them into an int64_t.
GenerateKeyFromInt(v) == v % (2 * Half)

\* Mutation: the number read back has no sign.
ConvertKeyUnsigned(text) == text

ConvertKeyToInt(text) == IF text < Half THEN text ELSE text - 2 * Half
-----------------------------------------------------------------------------
(***************************************************************************)
(* GenerateTwoTermExpKeys.                                                 *)
(***************************************************************************)
\* Step 4 swaps key ranges at random.
Shuffled(access) ==
    {[i \in 0 .. Len(access) - 1 |-> access[p[i]]] :
        p \in Bijection(0 .. Len(access) - 1, 1 .. Len(access))}

\* Step 5: a key range starts where the one before it ends.  The last start is
\* the end of all of them, keyrange_rand_max_.
Starts(access, n) ==
    {s \in [0 .. n -> 0 .. SumFunction(access)] :
        s[0] = 0 /\ \A i \in 0 .. n - 1 : s[i + 1] = s[i] + access[i]}

KeyrangeSize(o) == o.num \div Len(o.access)

\* The key of key range id.
DistGetKeyID(o, ini, id) ==
    KeyrangeSize(o) * id + (IF o.flat THEN ini % KeyrangeSize(o)
                                      ELSE CRemainder(Hash[ini], KeyrangeSize(o)))

\* MixGraph without prefix modelling.
GraphKey(o, ini) == IF o.flat THEN ini ELSE (Hash[ini] % (2 * Half)) % o.num
-----------------------------------------------------------------------------
(***************************************************************************)
(* QueryDecider.                                                           *)
(***************************************************************************)
\* ceil(range_max * (ratio / sum)), and type_[i - 1], their running sum.
RatioShare(o, i) == (RangeMax * o.ratio[i] + SumFunction(o.ratio) - 1) \div SumFunction(o.ratio)
TypeBound(o, i) == SumFunction([j \in 1 .. i |-> RatioShare(o, j)])

\* Draws are not negative.  The loop finds the first bound above pos.
GetType(o, draw) ==
    LET pos == draw % TypeBound(o, Len(o.ratio))
        First(i) == pos < TypeBound(o, i) /\ \A j \in 1 .. i - 1 : pos >= TypeBound(o, j)
    IN  IF \E i \in 1 .. 3 : i <= Len(o.ratio) /\ First(i)
        THEN Kinds[CHOOSE i \in 1 .. 3 : i <= Len(o.ratio) /\ First(i)]
        ELSE "Get"
=============================================================================
