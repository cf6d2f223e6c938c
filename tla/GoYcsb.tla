------------------------------- MODULE GoYcsb -------------------------------
(***************************************************************************)
(* benchmark/go-ycsb: replay of a trace printed by the go-ycsb tool.       *)
(* run_workload reads a file into one vector of operations per thread,     *)
(* round robin, and runs the threads; main calls it for the load file and  *)
(* then for the run file, on the same database and the same vectors.       *)
(*                                                                         *)
(* A word is what one iteration of the loop of read_ycsb_file consumes: an *)
(* operation with the rest of its line, the name of an operation and a     *)
(* word that is not "usertable" (as in the summary go-ycsb prints), or any *)
(* other single word.  A key is a sequence of digits without "user", 0 is  *)
(* the NUL byte.  Lines that are cut short are not modelled.               *)
(***************************************************************************)
EXTENDS Naturals, Sequences, DbAdapter

CONSTANTS NumThread,   \* kNumThread = 8
          KeySize,     \* kKeySize = 20
          ValueSize,   \* kValueSize = 4096
          Traces       \* the pairs of a load file and a run file to consider

Kind == {"READ", "UPDATE", "INSERT", "SCAN"}

Word == [word : Kind \cup {"other"}, usertable : BOOLEAN, text : Seq(Nat \ {0})]

\* A file that cannot be opened is replayed like one without operations.
File == [open : BOOLEAN, words : Seq(Word)]

ASSUME GoYcsbAssumption ==
    /\ NumThread \in Nat \ {0}
    /\ KeySize \in Nat \ {0}
    /\ ValueSize \in Nat \ {0}
    /\ Traces \subseteq [1 .. 2 -> File]

VARIABLES
    trace,    \* the two files, fixed at the start
    phase,    \* which of them run_workload works on
    main,     \* where the main thread is
    mi,       \* its loop index
    numOpt,   \* _num_opt
    vecOpt,   \* g_vec_opt
    pc,       \* where each run_thread is
    pos,      \* how many operations of its vector it has replayed
    cnt,      \* its four counters
    db,       \* the contents of the store
    alive     \* whether the process is

vars == <<trace, phase, main, mi, numOpt, vecOpt, pc, pos, cnt, db, alive>>

Thread == 0 .. NumThread - 1

Counter == {"insert", "update", "read", "readOk"}

NoCounts == [c \in Counter |-> 0]

Init ==
    /\ trace \in Traces
    /\ phase = 1
    /\ main = "read"
    /\ mi = 0
    /\ numOpt = 0
    /\ vecOpt = [t \in Thread |-> <<>>]
    /\ pc = [t \in Thread |-> "unborn"]
    /\ pos = [t \in Thread |-> 0]
    /\ cnt = [t \in Thread |-> NoCounts]
    /\ db = << >>
    /\ alive = TRUE
-----------------------------------------------------------------------------
(***************************************************************************)
(* read_ycsb_file.                                                         *)
(***************************************************************************)
\* handle_read, handle_update, handle_insert and handle_scan.
Accepted(w) == w.word \in Kind /\ w.usertable

Slot(n) == n % NumThread

\* The n-th word of file p as a ycsb_operator_t.  The object is known by its
\* origin, which stands for its address.
Operator(p, n) ==
    [type |-> trace[p].words[n].word, skew |-> trace[p].words[n].text, from |-> <<p, n>>]

\* Mutation: the answer of the handlers is ignored.
ReadWordUnchecked ==
    /\ alive /\ main = "read"
    /\ trace[phase].open /\ numOpt < Len(trace[phase].words)
    /\ vecOpt' = IF trace[phase].words[numOpt + 1].word \in Kind
                 THEN [vecOpt EXCEPT ![Slot(numOpt)] = Append(@, Operator(phase, numOpt + 1))]
                 ELSE vecOpt
    /\ numOpt' = numOpt + 1
    /\ UNCHANGED <<trace, phase, main, mi, pc, pos, cnt, db, alive>>

\* _num_opt counts words, whether or not they are operations.
ReadWord ==
    /\ alive /\ main = "read"
    /\ trace[phase].open /\ numOpt < Len(trace[phase].words)
    /\ vecOpt' = IF Accepted(trace[phase].words[numOpt + 1])
                 THEN [vecOpt EXCEPT ![Slot(numOpt)] = Append(@, Operator(phase, numOpt + 1))]
                 ELSE vecOpt
    /\ numOpt' = numOpt + 1
    /\ UNCHANGED <<trace, phase, main, mi, pc, pos, cnt, db, alive>>

\* The read that meets the end of the file is one more iteration; the word it
\* leaves in _line is the last one, but nothing can follow it.
EndOfFile ==
    /\ alive /\ main = "read"
    /\ trace[phase].open => numOpt = Len(trace[phase].words)
    /\ numOpt' = IF trace[phase].open THEN numOpt + 1 ELSE numOpt
    /\ main' = "spawn"
    /\ UNCHANGED <<trace, phase, mi, vecOpt, pc, pos, cnt, db, alive>>
-----------------------------------------------------------------------------
(***************************************************************************)
(* run_thread.                                                             *)
(***************************************************************************)
\* Mutation: one byte is kept for the end of the string.
GeneratorKvShort(skew) ==
    [n \in 1 .. KeySize |-> IF n <= Len(skew) /\ n < KeySize THEN skew[n] ELSE 0]

\* generator_kv: the key is cut or filled with NUL to kKeySize bytes.
GeneratorKv(skew) == [n \in 1 .. KeySize |-> IF n <= Len(skew) THEN skew[n] ELSE 0]

Record(k) == [head |-> k, len |-> ValueSize]

NullBuffer == [head |-> <<>>, len |-> 0]

\* Thread t is about to replay an operation of one of these types.
At(t, types) ==
    /\ alive /\ pc[t] = "loop"
    /\ pos[t] < Len(vecOpt[t])
    /\ vecOpt[t][pos[t] + 1].type \in types

Operand(t) == GeneratorKv(vecOpt[t][pos[t] + 1].skew)

Count(t, cs) ==
    cnt' = [cnt EXCEPT ![t] = [c \in Counter |-> IF c \in cs THEN cnt[t][c] + 1 ELSE cnt[t][c]]]

Replayed(t) == pos' = [pos EXCEPT ![t] = @ + 1]

\* Mutation: an UPDATE is counted only.
ReplayInsert(t) ==
    /\ At(t, {"INSERT", "UPDATE"})
    /\ IF vecOpt[t][pos[t] + 1].type = "INSERT"
       THEN /\ \E out \in PutOutcomes(db, Operand(t), Record(Operand(t))) : db' = out.db
            /\ Count(t, {"insert"})
       ELSE db' = db /\ Count(t, {"update"})
    /\ Replayed(t)
    /\ UNCHANGED <<trace, phase, main, mi, numOpt, vecOpt, pc, alive>>

\* INSERT and UPDATE both call DB::Put; nobody looks at its answer.
ReplayPut(t) ==
    /\ At(t, {"INSERT", "UPDATE"})
    /\ \E out \in PutOutcomes(db, Operand(t), Record(Operand(t))) : db' = out.db
    /\ IF vecOpt[t][pos[t] + 1].type = "INSERT" THEN Count(t, {"insert"}) ELSE Count(t, {"update"})
    /\ Replayed(t)
    /\ UNCHANGED <<trace, phase, main, mi, numOpt, vecOpt, pc, alive>>

\* A READ passes the null pointer for the value.  A call that has nothing to
\* copy to it returns.
ReplayRead(t) ==
    /\ At(t, {"READ"})
    /\ \E out \in GetOutcomes(db, Operand(t), NullBuffer) :
        /\ out.buf.len = 0
        /\ IF out.ok THEN Count(t, {"read", "readOk"}) ELSE Count(t, {"read"})
    /\ Replayed(t)
    /\ UNCHANGED <<trace, phase, main, mi, numOpt, vecOpt, pc, db, alive>>

\* memcpy of a value to the null pointer ends the process.
ReadIsFatal(t) ==
    /\ At(t, {"READ"})
    /\ \E out \in GetOutcomes(db, Operand(t), NullBuffer) : out.buf.len > 0
    /\ alive' = FALSE
    /\ UNCHANGED <<trace, phase, main, mi, numOpt, vecOpt, pc, pos, cnt, db>>

\* Mutation: the iterator does not advance.
ReplayScanAgain(t) == At(t, {"SCAN"}) /\ UNCHANGED vars

\* No branch of run_thread is for SCAN.
ReplayScan(t) ==
    /\ At(t, {"SCAN"})
    /\ Replayed(t)
    /\ UNCHANGED <<trace, phase, main, mi, numOpt, vecOpt, pc, cnt, db, alive>>

Finish(t) ==
    /\ alive /\ pc[t] = "loop"
    /\ pos[t] = Len(vecOpt[t])
    /\ pc' = [pc EXCEPT ![t] = "finished"]
    /\ UNCHANGED <<trace, phase, main, mi, numOpt, vecOpt, pos, cnt, db, alive>>

ThreadStep(t) ==
    ReplayPut(t) \/ ReplayRead(t) \/ ReadIsFatal(t) \/ ReplayScan(t) \/ Finish(t)
-----------------------------------------------------------------------------
(***************************************************************************)
(* run_workload and main.                                                  *)
(***************************************************************************)
\* Mutations: the counters are static; one thread too many is started.
SpawnStatic ==
    /\ alive /\ main = "spawn"
    /\ pc' = [pc EXCEPT ![mi] = "loop"]
    /\ pos' = [pos EXCEPT ![mi] = 0]
    /\ IF mi + 1 < NumThread THEN mi' = mi + 1 /\ main' = main
                             ELSE mi' = 0 /\ main' = "join"
    /\ UNCHANGED <<trace, phase, numOpt, vecOpt, cnt, db, alive>>

SpawnOneMore ==
    /\ alive /\ main = "spawn"
    /\ pc' = [pc EXCEPT ![mi] = "loop"]
    /\ pos' = [pos EXCEPT ![mi] = 0]
    /\ cnt' = [cnt EXCEPT ![mi] = NoCounts]
    /\ IF mi + 1 <= NumThread THEN mi' = mi + 1 /\ main' = main
                              ELSE mi' = 0 /\ main' = "join"
    /\ UNCHANGED <<trace, phase, numOpt, vecOpt, db, alive>>

\* The locals of run_thread start from nothing.
Spawn ==
    /\ alive /\ main = "spawn"
    /\ pc' = [pc EXCEPT ![mi] = "loop"]
    /\ pos' = [pos EXCEPT ![mi] = 0]
    /\ cnt' = [cnt EXCEPT ![mi] = NoCounts]
    /\ IF mi + 1 < NumThread THEN mi' = mi + 1 /\ main' = main
                             ELSE mi' = 0 /\ main' = "join"
    /\ UNCHANGED <<trace, phase, numOpt, vecOpt, db, alive>>

\* Mutation: the threads are not waited for.
JoinDetached ==
    /\ alive /\ main = "join"
    /\ mi + 1 < NumThread
    /\ mi' = mi + 1
    /\ UNCHANGED <<trace, phase, main, numOpt, vecOpt, pc, pos, cnt, db, alive>>

Join ==
    /\ alive /\ main = "join"
    /\ mi + 1 < NumThread
    /\ pc[mi] = "finished"
    /\ mi' = mi + 1
    /\ UNCHANGED <<trace, phase, main, numOpt, vecOpt, pc, pos, cnt, db, alive>>

\* The last join.  The next run_workload begins with a new _num_opt, but the
\* vectors keep what they hold; after the second one main closes the database.
JoinLast ==
    /\ alive /\ main = "join"
    /\ mi + 1 = NumThread
    /\ pc[mi] = "finished"
    /\ IF phase = 1
       THEN phase' = 2 /\ main' = "read" /\ numOpt' = 0
       ELSE phase' = phase /\ main' = "closed" /\ numOpt' = numOpt
    /\ mi' = 0
    /\ UNCHANGED <<trace, vecOpt, pc, pos, cnt, db, alive>>

MainStep == ReadWord \/ EndOfFile \/ Spawn \/ Join \/ JoinLast

Terminated == (~alive \/ main = "closed") /\ UNCHANGED vars

Next == MainStep \/ (\E t \in Thread : ThreadStep(t)) \/ Terminated

Spec == Init /\ [][Next]_vars

\* The threads of the process keep running, and a call into the store returns.
FairSpec == Spec /\ WF_vars(MainStep) /\ \A t \in Thread : WF_vars(ThreadStep(t))
=============================================================================
