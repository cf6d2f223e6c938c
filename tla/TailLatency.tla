---------------------------- MODULE TailLatency ----------------------------
(***************************************************************************)
(* benchmark/ycsb/detail.cc: what detail_handler makes of one .lat file.   *)
(* For the average and for every tail it cuts the latencies into windows   *)
(* and writes a line for each; then it sorts the file and prints the       *)
(* average and the tails of the whole.  A factor p enters as a fraction,   *)
(* its products exactly; averages are truncated, as by the uint64_t they   *)
(* are stored in.                                                          *)
(***************************************************************************)
EXTENDS Integers, Sequences, FiniteSets, Functions

CONSTANTS Files,      \* what the runner may have written
          Intervals,  \* second argument of the program
          Windowed,   \* the factors of tail_latency_handler
          Overall     \* the factors of get_tail_latency

Fraction == {p \in [num : Nat, den : Nat \ {0}] : p.num < p.den}

\* The runner writes no empty file, and i % 0 is the end of the program.
ASSUME TailLatencyAssumption ==
    /\ Files \subseteq Seq(Nat) \ {<<>>}
    /\ Intervals \subseteq Nat \ {0}
    /\ Windowed \in Seq(Fraction)
    /\ Overall \in Seq(Fraction)

VARIABLES
    input,      \* the latencies of the file
    interval,
    vec,        \* vec_opt_latency
    stage,      \* the call of detail_handler under way
    i,          \* loop index of tail_latency_handler
    tmp,        \* vec_tmp
    tail,       \* vec_tail_latency
    out,        \* the files written, one for each call
    printed     \* the average and the tails of the whole file

vars == <<input, interval, vec, stage, i, tmp, tail, out, printed>>

\* Mutation: std::sort is not called.
Unsorted(s) == s

\* std::sort: none comes after a larger one.
Sorted(s) ==
    LET order == CHOOSE p \in Bijection(DOMAIN s, DOMAIN s) :
                     \A k, l \in DOMAIN s : k < l => s[p[k]] <= s[p[l]]
    IN  [k \in DOMAIN s |-> s[order[k]]]

\* Only idx of sorted latencies come before the one that is chosen.
Ranked(s, p) == s[((Len(s) * p.num) \div p.den) + 1]

Average(s) == SumFunction(s) \div Len(s)

Summary(s, p) == IF p.num = 0 THEN Average(s) ELSE Ranked(Sorted(s), p)

Init ==
    /\ input \in Files
    /\ interval \in Intervals
    /\ vec = input
    /\ stage = 1
    /\ i = 0
    /\ tmp = <<>>
    /\ tail = <<>>
    /\ out = <<>>
    /\ printed = <<>>
-----------------------------------------------------------------------------
\* tail_latency_handler is at latency i.
Handling == stage <= Len(Windowed) /\ i < Len(vec)

Push ==
    /\ Handling
    /\ i % interval # 0
    /\ tmp' = Append(tmp, vec[i + 1])
    /\ i' = i + 1
    /\ UNCHANGED <<input, interval, vec, stage, tail, out, printed>>

\* Mutation: vec_tmp is not cleared.
CloseAndKeep ==
    /\ Handling
    /\ i % interval = 0
    /\ tail' = Append(tail, Summary(Append(tmp, vec[i + 1]), Windowed[stage]))
    /\ tmp' = Append(tmp, vec[i + 1])
    /\ i' = i + 1
    /\ UNCHANGED <<input, interval, vec, stage, out, printed>>

Close ==
    /\ Handling
    /\ i % interval = 0
    /\ tail' = Append(tail, Summary(Append(tmp, vec[i + 1]), Windowed[stage]))
    /\ tmp' = <<>>
    /\ i' = i + 1
    /\ UNCHANGED <<input, interval, vec, stage, out, printed>>

\* result_output; what is left in vec_tmp is lost, and the next call begins.
Output ==
    /\ stage <= Len(Windowed)
    /\ i = Len(vec)
    /\ out' = Append(out, [k \in DOMAIN tail |-> <<interval * (k - 1), tail[k]>>])
    /\ stage' = stage + 1
    /\ i' = 0
    /\ tmp' = <<>>
    /\ tail' = <<>>
    /\ UNCHANGED <<input, interval, vec, printed>>

Totals ==
    /\ stage = Len(Windowed) + 1
    /\ vec' = Sorted(vec)
    /\ printed' = <<Average(vec)>> \o [k \in DOMAIN Overall |-> Ranked(vec', Overall[k])]
    /\ stage' = stage + 1
    /\ UNCHANGED <<input, interval, i, tmp, tail, out>>

Terminated == stage > Len(Windowed) + 1 /\ UNCHANGED vars

Next == Push \/ Close \/ Output \/ Totals \/ Terminated

Spec == Init /\ [][Next]_vars
-----------------------------------------------------------------------------
\* The windows that have closed when n latencies have been read.
Closed(n) == (n + interval - 1) \div interval

\* Window k ends with latency interval * (k - 1), counted from 0: the first
\* window is that latency alone, every other one is full.
Window(k) == IF k = 1 THEN SubSeq(input, 1, 1)
             ELSE SubSeq(input, interval * (k - 2) + 2, interval * (k - 1) + 1)

\* detail.cc: a line of a file is about the window its label ends, whole and
\* with nothing of another one; every window that closes has its line, and the
\* latencies after the last are in none.
WindowsAligned ==
    /\ Len(out) = (IF stage > Len(Windowed) THEN Len(Windowed) ELSE stage - 1)
    /\ \A s \in DOMAIN out :
        /\ Len(out[s]) = Closed(Len(input))
        /\ \A k \in DOMAIN out[s] :
            out[s][k] = <<interval * (k - 1), Summary(Window(k), Windowed[s])>>

\* v is where the sorted latencies s reach the factor p: no more than p of them
\* are smaller, and more than p of them are not larger.
AtFactor(v, s, p) ==
    /\ Cardinality({j \in DOMAIN s : s[j] < v}) * p.den <= Len(s) * p.num
    /\ Cardinality({j \in DOMAIN s : s[j] <= v}) * p.den > Len(s) * p.num

\* detail.cc: every tail is the tail of its window, and the tails printed at the
\* end are those of all latencies of the file, however it was sorted before.
TailsRanked ==
    /\ \A s \in DOMAIN out : Windowed[s].num > 0 =>
        \A k \in DOMAIN out[s] : AtFactor(out[s][k][2], Window(k), Windowed[s])
    /\ \A k \in DOMAIN Overall : printed # <<>> => AtFactor(printed[k + 1], input, Overall[k])
=============================================================================
