------------------------ MODULE WorkloadRefinement ------------------------
(***************************************************************************)
(* WorkloadGenerator implements BenchmarkRun: an operation is performed    *)
(* when its latency is booked, and a job reports when the last thread has  *)
(* been joined.                                                            *)
(***************************************************************************)
EXTENDS WorkloadProperties

Promise == INSTANCE BenchmarkRun WITH
    phase <- IF main \in {"spawn", "join"} THEN "running" ELSE "reported",
    done  <- iter

\* Every behaviour of the threads, the joins and the store is one the user is
\* promised: a read-modify-write shows as no write at all, a refused put as a
\* write or as nothing, everything after the joins as the report.
KeepsPromise == Promise!Spec
=============================================================================
