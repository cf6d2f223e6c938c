-------------------------- MODULE GoYcsbProperties --------------------------
(***************************************************************************)
(* What must hold of the go-ycsb replayer.                                 *)
(***************************************************************************)
EXTENDS GoYcsb, FiniteSets, Functions

Origins == {1, 2} \X (Nat \ {0})

OperatorType == [type : Kind, skew : Seq(Nat \ {0}), from : Origins]

Key == [1 .. KeySize -> Nat]

\* Every variable has its type.
TypeOK ==
    /\ trace \in [1 .. 2 -> File]
    /\ phase \in {1, 2}
    /\ main \in {"read", "spawn", "join", "closed"}
    /\ mi \in Thread
    /\ numOpt \in Nat
    /\ vecOpt \in [Thread -> Seq(OperatorType)]
    /\ pc \in [Thread -> {"unborn", "loop", "finished"}]
    /\ pos \in [Thread -> Nat]
    /\ cnt \in [Thread -> [Counter -> Nat]]
    /\ DOMAIN db \subseteq Key
    /\ alive \in BOOLEAN

\* The n-th word of file p is an operation that has been read.
Taken(p, n) ==
    /\ p \in {1, 2} /\ trace[p].open
    /\ n \in 1 .. Len(trace[p].words)
    /\ Accepted(trace[p].words[n])
    /\ p < phase \/ (p = phase /\ (main = "read" => n <= numOpt))

Before(o1, o2) == o1[1] < o2[1] \/ (o1[1] = o2[1] /\ o1[2] < o2[2])

\* read_ycsb_file: every operation read so far is in exactly one vector, once,
\* as it stands in the file; nothing else is, in particular not the words of
\* go-ycsb's summary; and a thread's operations keep the order of the trace,
\* those of the load file first.
EachOnceInOrder ==
    /\ \A t \in Thread : \A i \in DOMAIN vecOpt[t] :
        \E p \in {1, 2} : \E n \in 1 .. Len(trace[p].words) :
            Taken(p, n) /\ vecOpt[t][i] = Operator(p, n) /\ t = Slot(n - 1)
    /\ \A p \in {1, 2} : \A n \in 1 .. Len(trace[p].words) :
        Taken(p, n) => \E i \in DOMAIN vecOpt[Slot(n - 1)] : vecOpt[Slot(n - 1)][i].from = <<p, n>>
    /\ \A t \in Thread : \A i, j \in DOMAIN vecOpt[t] :
        i < j => Before(vecOpt[t][i].from, vecOpt[t][j].from)

Spawned(t) == main \in {"join", "closed"} \/ (main = "spawn" /\ t < mi)

ThreadInPhase(t) ==
    /\ pos[t] <= Len(vecOpt[t])
    /\ pc[t] = "loop" => Spawned(t)
    /\ Spawned(t) => pc[t] # "unborn"
    /\ Spawned(t) /\ pc[t] = "finished" => pos[t] = Len(vecOpt[t])
    /\ ~Spawned(t) => \A i \in 1 .. pos[t] : vecOpt[t][i].from[1] < phase
    /\ (main = "join" /\ t < mi) \/ main = "closed" => pc[t] = "finished"

\* run_workload: the loops of the two phases do not run into each other.  While
\* a file is read no thread runs, a thread that has not been started in this
\* phase is past operations of the phase before at most, and when the last
\* join returns every thread is at the end of its vector.
InPhase ==
    /\ main = "read" /\ trace[phase].open => numOpt <= Len(trace[phase].words)
    /\ main = "read" => mi = 0
    /\ \A t \in Thread : ThreadInPhase(t)

\* Thread t is past the i-th operation of its vector.  Those of the load file
\* have all been performed before the run file is read, and are repeated.
Performed(t, i) == vecOpt[t][i].from[1] < phase \/ i <= pos[t]

Writes(t, i) == vecOpt[t][i].type \in {"INSERT", "UPDATE"}

\* run_thread: whatever the order of the threads, and also after the process
\* has died in the middle, the store holds whole records only, each under its
\* own key and written by an operation some thread is past; a store that works
\* holds all of those.
StoreIsReplay ==
    /\ \A k \in DOMAIN db :
        /\ db[k] = Record(k)
        /\ \E t \in Thread : \E i \in DOMAIN vecOpt[t] :
            Writes(t, i) /\ Performed(t, i) /\ k = GeneratorKv(vecOpt[t][i].skew)
    /\ "write" \notin Faults =>
        \A t \in Thread : \A i \in DOMAIN vecOpt[t] :
            Writes(t, i) /\ Performed(t, i) => GeneratorKv(vecOpt[t][i].skew) \in DOMAIN db

\* What each counter that run_thread prints is to count.
Counted == [insert |-> "INSERT", update |-> "UPDATE", read |-> "READ"]

\* The operations of a type that thread t has replayed in this phase.
Replays(t, kind) == {i \in 1 .. pos[t] : vecOpt[t][i].type = kind}

\* run_thread: at any time a thread's counters tell what it has replayed.
CountsMatch ==
    \A t \in Thread : \A c \in DOMAIN Counted : cnt[t][c] = Cardinality(Replays(t, Counted[c]))

\* The operations of a type in the files up to the one at work.
InTrace(kind) ==
    {x \in (1 .. phase) \X (1 .. 1 + Len(trace[1].words) + Len(trace[2].words)) :
        Taken(x[1], x[2]) /\ trace[x[1]].words[x[2]].word = kind}

Total(counter) == SumFunction([t \in Thread |-> cnt[t][counter]])

\* run_workload: what the threads print when they have been joined adds up to
\* the operations of all files read so far: the run phase performs and counts
\* the load once more, and SCANs appear nowhere.
CountsCoverTrace ==
    main = "closed" =>
        /\ Total("insert") = Cardinality(InTrace("INSERT"))
        /\ Total("update") = Cardinality(InTrace("UPDATE"))
        /\ Total("read") = Cardinality(InTrace("READ"))

\* A read that finds its key kills the process: none is ever reported, and on
\* a store that works a READ of the run file that did return is of a key the
\* load file does not write.  Only the joins between the phases make sure that
\* the load is complete by then.
HitsAreFatal ==
    /\ \A t \in Thread : cnt[t]["readOk"] = 0
    /\ Faults = {} =>
        \A t \in Thread : \A i \in 1 .. pos[t] :
            vecOpt[t][i].type = "READ" /\ vecOpt[t][i].from[1] = 2
                => \A u \in Thread : \A l \in DOMAIN vecOpt[u] :
                    Writes(u, l) /\ vecOpt[u][l].from[1] = 1
                        => GeneratorKv(vecOpt[u][l].skew) # GeneratorKv(vecOpt[t][i].skew)

\* generator_kv: keys of at most kKeySize digits never share a record.
TextsKeepApart ==
    \A t, u \in Thread : \A i \in DOMAIN vecOpt[t], j \in DOMAIN vecOpt[u] :
        LET s == vecOpt[t][i].skew
            r == vecOpt[u][j].skew
        IN  Len(s) <= KeySize /\ Len(r) <= KeySize /\ GeneratorKv(s) = GeneratorKv(r) => s = r

\* Both phases end, or the process does: the threads wait for nothing, and
\* main waits for threads it has started.
Ends == <>(main = "closed" \/ ~alive)

\* db.h: Get key-value pair from database.  A READ of the trace returns.
ReadsReturn == alive
=============================================================================
