----------------------------- MODULE MCFbBench -----------------------------
(***************************************************************************)
(* Option sets with the shapes of the predefined ones, and keys few enough *)
(* for TLC.                                                                *)
(***************************************************************************)
EXTENDS FbBenchProperties

\* 64-bit numbers of four bits, some of them negative.
SmallHash == [d \in 0 .. 6 |-> IF d = 3 THEN -8 ELSE IF d % 2 = 0 THEN d + 1 ELSE 2 - d]

OptionSet(bench, num, access, flat, ratio, monitor) ==
    [bench |-> bench, num |-> num, access |-> access, flat |-> flat,
     ratio |-> ratio, monitor |-> monitor, value |-> 1]

Ratio == <<2, 1, 1>>
\* Three key ranges of two keys, of seven keys; the one in the middle may have
\* no part of the draws.
ZippyDB == OptionSet("MixGraph", 7, <<1, 0, 3>>, TRUE, Ratio, 3)
PrefixDist == [ZippyDB EXCEPT !.flat = FALSE]
UDB == OptionSet("MixGraph", 7, <<>>, FALSE, Ratio, 0)
AllRandomSet == OptionSet("MixGraph", 7, <<>>, TRUE, Ratio, 3)
ReadRandomSet == OptionSet("ReadRandom", 7, <<>>, TRUE, Ratio, 3)
MixRandomSet(num) == OptionSet("MixRandom", num, <<>>, TRUE, <<4, 1>>, 3)

Run(opt, threads, size) ==
    [prog |-> "runner", opt |-> opt, threads |-> threads, size |-> size, valueLength |-> 2]

Test(opt, times) ==
    [prog |-> "test", opt |-> opt, threads |-> 2, size |-> times, valueLength |-> 1]

\* 16 bytes are two operations for each of two threads, 6 three for one; 18
\* bytes are nine, which is -7 in four bits.
SmallJobs == {
    Run(ZippyDB, 2, 16), Run(ZippyDB, 1, 6), Run(PrefixDist, 1, 6), Run(UDB, 2, 16),
    Run(AllRandomSet, 2, 16), Run(AllRandomSet, 1, 14), Run(ReadRandomSet, 1, 6),
    Run(UDB, 1, 18), Test(MixRandomSet(3), 2)}

SmallStreams == {<<5, 6, 0, 1, 12, 4>>, <<2, 10, 4, 3, 0>>}

OneJob == {Test(MixRandomSet(4), 1)}
OneStream == {<<0>>}
=============================================================================
