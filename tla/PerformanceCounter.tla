------------------------- MODULE PerformanceCounter -------------------------
(***************************************************************************)
(* benchmark/facebook/rocksdb_benchtools.h: the counters a Benchmark keeps *)
(* of the queries it has made, in total and per range of keys.  Sums of    *)
(* bytes and the clock are left out.                                       *)
(***************************************************************************)
EXTENDS Distributions

CONSTANT DefaultRangeSize   \* default_range_size = 100000

ASSUME CounterAssumption == DefaultRangeSize \in Nat \ {0}

RangeSize(o) == IF o.monitor > 0 THEN o.num \div o.monitor ELSE DefaultRangeSize

RangeNum(o) == IF o.monitor > 0 THEN o.monitor ELSE (o.num - 1) \div DefaultRangeSize + 1

RangeIndex(o) == 0 .. RangeNum(o) - 1

\* InitiateCounter: range i is the interval [Low, High).
Low(o, i) == i * RangeSize(o)
High(o, i) == IF i < RangeNum(o) - 1 THEN (i + 1) * RangeSize(o) ELSE o.num + 1

RangeCounter == [access : Nat, read : Nat, write : Nat]
Counters(o) == [times : [Kind -> Nat], total : Nat, ranges : [RangeIndex(o) -> RangeCounter]]

NewCounter(o) ==
    [times |-> [k \in Kind |-> 0],
     total |-> 0,
     ranges |-> [i \in RangeIndex(o) |-> [access |-> 0, read |-> 0, write |-> 0]]]

Bit(b) == IF b THEN 1 ELSE 0

\* What AddOpRecord does between lock and unlock.  Its vector has grown by
\* doubling: the element after the last of 30 is in spare memory of the vector,
\* and what is added there is in no range.
Recorded(o, c, type, key) ==
    LET idx == CQuotient(key, RangeSize(o))
    IN  [times |-> [c.times EXCEPT ![type] = @ + 1],
         total |-> c.total + 1,
         ranges |-> IF idx \in RangeIndex(o)
                    THEN [c.ranges EXCEPT ![idx] =
                            [access |-> @.access + 1,
                             read |-> @.read + Bit(type = "Get"),
                             write |-> @.write + Bit(type = "Put")]]
                    ELSE c.ranges]
=============================================================================
