----------------------------- MODULE MCWorkload -----------------------------
(***************************************************************************)
(* Campaigns small enough for TLC.  A value is two bytes, so that divisions*)
(* truncate; the int of a count has four bits, so that it can wrap.        *)
(***************************************************************************)
EXTENDS WorkloadRefinement, TLC

CLI(btype, zipf, dbsize, testsize, threads) ==
    [btype |-> btype, zipf |-> zipf, dbsize |-> dbsize,
     testsize |-> testsize, threads |-> threads]

\* Two threads, two keys each out of slices of four.
LoadByTwo == CLI("warmup", FALSE, 17, 0, 2)
\* Three threads, one key each out of slices of three.
LoadByThree == CLI("warmup", TRUE, 19, 0, 3)
\* One thread loads the two keys 2 and 3.
LoadByOne == CLI("warmup", FALSE, 5, 0, 1)
\* The count 9 is -7 in four bits: nothing is loaded.
LoadWraps == CLI("warmup", FALSE, 18, 0, 1)

\* Two threads with one operation each, and one thread with two, on two keys.
ByTwo(btype, zipf) == CLI(btype, zipf, 5, 8, 2)
ByOne(btype, zipf) == CLI(btype, zipf, 5, 4, 1)

MixedCampaigns ==
    {<<LoadByTwo, ByTwo(b, z)>> : b \in {"ycsb-a", "ycsb-f"}, z \in BOOLEAN}
    \cup {<<LoadByTwo, ByOne(b, FALSE)>> : b \in {"ycsb-a", "ycsb-e", "ycsb-f"}}
    \cup {<<LoadByThree>>, <<LoadWraps, ByOne("ycsb-c", TRUE)>>}
    \cup {<<ByTwo("write", TRUE), ByTwo("ycsb-e", TRUE)>>}

HitCampaigns ==
    {<<LoadByOne, ByTwo(b, z)>> : b \in {"ycsb-a", "ycsb-b", "ycsb-d", "ycsb-f"}, z \in BOOLEAN}
    \cup {<<LoadByThree, ByOne("ycsb-c", FALSE)>>, <<LoadByTwo, ByOne("write", FALSE)>>}

FullSizeCampaigns == {<<CLI("warmup", FALSE, 16, 0, 2)>>}
=============================================================================
