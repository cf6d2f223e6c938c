--------------------------- MODULE MCTailLatency ---------------------------
(***************************************************************************)
(* Every file of up to five latencies, and factors that choose the first,  *)
(* a middle and the last latency of windows this short.                    *)
(***************************************************************************)
EXTENDS TailLatency

AllFiles == UNION {[1 .. n -> 1 .. 3] : n \in 1 .. 5}

Part(n, d) == [num |-> n, den |-> d]

Factors == <<Part(0, 1), Part(1, 2), Part(99, 100)>>
Quantiles == <<Part(1, 4), Part(2, 3), Part(99, 100)>>
=============================================================================
