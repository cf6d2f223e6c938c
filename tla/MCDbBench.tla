----------------------------- MODULE MCDbBench -----------------------------
(***************************************************************************)
(* Command lines small enough for TLC.                                     *)
(***************************************************************************)
EXTENDS DbBenchProperties

CLI(threads, size, keys) == [threads |-> threads, dbsize |-> size, work |-> size, keys |-> keys]

\* One thread goes through all numbers and meets the first again; two threads
\* with keys too short for their numbers; three threads, two with one seed; a
\* count of 9 that is -7 in four bits.
SmallJobs == {CLI(1, 14, 8), CLI(2, 13, 4), CLI(3, 13, 8), CLI(1, 18, 8)}
=============================================================================
