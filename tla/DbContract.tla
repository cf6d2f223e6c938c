----------------------------- MODULE DbContract -----------------------------
(***************************************************************************)
(* A client of kv_benchmark::DB that calls Put, Update, Delete and Get in  *)
(* any order on one adapter, and what include/db.h promises it.  `may`     *)
(* records what the answers so far allow each key to hold: exactly what    *)
(* the last acknowledged write wrote, or besides it what a later write     *)
(* that returned false tried to write.                                     *)
(***************************************************************************)
EXTENDS DbAdapter, FiniteSets

CONSTANTS Keys,             \* the keys the client uses
          Lengths,          \* the lengths of the values it writes
          BackendsInUse     \* the adapters under consideration

ASSUME ContractAssumption ==
    /\ Keys \subseteq Nat
    /\ Lengths \subseteq Nat
    /\ BackendsInUse \subseteq Backends

VARIABLES backend,  \* the adapter linked into the program
          db,       \* the contents of the store
          buf,      \* the client's _value and _value_length
          call,     \* the last call: its name, key and answer
          may       \* history: the values each key may hold

vars == <<backend, db, buf, call, may>>

Absent == [head |-> 0, len |-> 0, absent |-> TRUE]

Answer(name, k, ok) == [name |-> name, key |-> k, ok |-> ok]

\* The client learns from the answer of a write of v under k.
Learn(k, v, ok) == may' = [may EXCEPT ![k] = IF ok THEN {v} ELSE @ \cup {v}]

Init ==
    /\ backend \in BackendsInUse
    /\ db = << >>
    /\ buf = [head |-> 0, len |-> 0]
    /\ call = [name |-> "Open", key |-> 0, ok |-> TRUE]
    /\ may = [k \in Keys |-> {Absent}]

Put(k, v) ==
    \E out \in PutOutcomes(db, k, v) :
        /\ db' = out.db
        /\ call' = Answer("Put", k, out.ok)
        /\ Learn(k, v, out.ok)
        /\ UNCHANGED <<backend, buf>>

Update(k, v) ==
    \E out \in UpdateOutcomes(db, k, v) :
        /\ db' = out.db
        /\ call' = Answer("Update", k, out.ok)
        /\ Learn(k, v, out.ok)
        /\ UNCHANGED <<backend, buf>>

Delete(k) ==
    \E out \in DeleteOutcomes(backend, db, k) :
        /\ db' = out.db
        /\ call' = Answer("Delete", k, out.ok)
        /\ Learn(k, Absent, out.ok)
        /\ UNCHANGED <<backend, buf>>

\* The client sets its own head to 0 before the call, as test.cc does.
Get(k) ==
    \E out \in GetOutcomes(db, k, [buf EXCEPT !.head = 0]) :
        /\ buf' = out.buf
        /\ call' = Answer("Get", k, out.ok)
        /\ UNCHANGED <<backend, db, may>>

Next == \E k \in Keys :
    \/ \E n \in Lengths : Put(k, [head |-> k, len |-> n]) \/ Update(k, [head |-> k, len |-> n])
    \/ Delete(k)
    \/ Get(k)

Spec == Init /\ [][Next]_vars
-----------------------------------------------------------------------------
\* The store holds values under the client's keys, the client has one buffer.
TypeOK ==
    /\ backend \in BackendsInUse
    /\ DOMAIN db \subseteq Keys
    /\ db \in [DOMAIN db -> Value]
    /\ buf \in Value
    /\ call \in [name : {"Open", "Put", "Update", "Delete", "Get"}, key : Nat, ok : BOOLEAN]
    /\ may \in [Keys -> SUBSET (Value \cup {Absent})]

\* A Get answers what the calls before it allow: a hit returns a value that
\* the last acknowledged write wrote or a failed write after it may have, and
\* a miss of a store that works means that the key may be gone.  A length of 0
\* copies nothing, so the head stays the client's.
ReadsWhatWasWritten ==
    call.name = "Get" =>
        /\ call.ok => \E v \in may[call.key] \ {Absent} : buf = CopyOut(v, [head |-> 0, len |-> 0])
        /\ ~call.ok => buf = [head |-> 0, len |-> 0] /\ ("read" \notin Faults => Absent \in may[call.key])
=============================================================================
