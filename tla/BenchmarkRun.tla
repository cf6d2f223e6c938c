---------------------------- MODULE BenchmarkRun ----------------------------
(***************************************************************************)
(* What a campaign of tester processes promises its user, without threads' *)
(* steps, queues or files: every thread of a job performs the number of    *)
(* operations it was given, one after the other; meanwhile only whole      *)
(* records of keys in range enter the store, and none if the workload does *)
(* not write; the job reports when all operations are done and not before; *)
(* the next job finds the store as it was left.                            *)
(***************************************************************************)
EXTENDS Naturals, Sequences, YcsbSizing

CONSTANT Campaigns   \* the sequences of jobs to consider

VARIABLES
    campaign,   \* the sequence of jobs
    cur,        \* the job running
    phase,      \* "running" or "reported"
    done,       \* the operations each thread has performed
    db          \* the store

vars == <<campaign, cur, phase, done, db>>

J == campaign[cur]

Quota(j) == IF OpCount(j) > 0 THEN OpCount(j) ELSE 0

Record(k) == [head |-> k, len |-> ValueLength]

Init ==
    /\ campaign \in Campaigns
    /\ cur = 1
    /\ phase = "running"
    /\ done = [t \in Thread |-> 0]
    /\ db = << >>

\* A thread completes an operation.
Perform(t) ==
    /\ phase = "running"
    /\ done[t] < Quota(J)
    /\ done' = [done EXCEPT ![t] = @ + 1]
    /\ UNCHANGED <<campaign, cur, phase, db>>

\* An operation under way stores a record.
Write(k) ==
    /\ phase = "running"
    /\ J.btype \notin {"ycsb-c", "ycsb-f"}
    /\ \E t \in Thread : done[t] < Quota(J)
    /\ db' = [x \in DOMAIN db \cup {k} |-> IF x = k THEN Record(k) ELSE db[x]]
    /\ UNCHANGED <<campaign, cur, phase, done>>

Report ==
    /\ phase = "running"
    /\ \A t \in 0 .. J.threads - 1 : done[t] = Quota(J)
    /\ phase' = "reported"
    /\ UNCHANGED <<campaign, cur, done, db>>

NextJob ==
    /\ phase = "reported"
    /\ cur < Len(campaign)
    /\ cur' = cur + 1
    /\ phase' = "running"
    /\ done' = [t \in Thread |-> 0]
    /\ UNCHANGED <<campaign, db>>

Next ==
    \/ \E t \in Thread : Perform(t)
    \/ \E k \in 1 .. KeyRange(J) + 1 : Write(k)
    \/ Report
    \/ NextJob

Spec == Init /\ [][Next]_vars
=============================================================================
