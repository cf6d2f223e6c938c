--------------------------- MODULE ContractProofs ---------------------------
(***************************************************************************)
(* Every adapter but novelsm answers reads as db.h lets a client expect,   *)
(* for every set of keys, lengths and faults.                              *)
(***************************************************************************)
EXTENDS DbContract, TLAPS

\* What the store holds under a key is one of the values the answers so far
\* allow, and a key the store does not have is one they allow to be gone.
Explained(k) == IF k \in DOMAIN db THEN db[k] \in may[k] ELSE Absent \in may[k]

ContractInv ==
    /\ TypeOK
    /\ \A k \in Keys : Explained(k)
    /\ ReadsWhatWasWritten

\* The marker of an absent key is no value.
LEMMA AbsentIsNoValue == Absent \notin Value
<1>1. "absent" \in DOMAIN Absent
    BY DEF Absent
<1>2. \A v \in Value : DOMAIN v = {"head", "len"}
    BY DEF Value
<1> QED
    BY <1>1, <1>2

\* What a write may do to the store: nothing, or put v under k.
LEMMA PutEffect ==
    ASSUME NEW d, NEW k \in Keys, NEW v \in Value, NEW out \in PutOutcomes(d, k, v),
           DOMAIN d \subseteq Keys, d \in [DOMAIN d -> Value]
    PROVE  /\ out.ok \in BOOLEAN
           /\ out.db = Stored(d, k, v) \/ (out.db = d /\ ~out.ok)
           /\ DOMAIN out.db \subseteq Keys
           /\ out.db \in [DOMAIN out.db -> Value]
<1>1. out.ok \in BOOLEAN /\ (out.db = Stored(d, k, v) \/ (out.db = d /\ ~out.ok))
    <2>1. \/ out = [db |-> Stored(d, k, v), ok |-> TRUE]
          \/ out = [db |-> d, ok |-> FALSE]
          \/ out = [db |-> Stored(d, k, v), ok |-> FALSE]
        <3>1. CASE "write" \in Faults
            BY <3>1 DEF PutOutcomes
        <3>2. CASE "write" \notin Faults
            BY <3>2 DEF PutOutcomes
        <3> QED
            BY <3>1, <3>2
    <2>2. out.ok \in BOOLEAN
        <3>1. out.ok = TRUE \/ out.ok = FALSE
            BY <2>1
        <3> QED
            BY <3>1
    <2>3. out.db = Stored(d, k, v) \/ (out.db = d /\ ~out.ok)
        BY <2>1
    <2> QED
        BY <2>2, <2>3
<1>2. DOMAIN Stored(d, k, v) \subseteq Keys /\ Stored(d, k, v) \in [DOMAIN Stored(d, k, v) -> Value]
    BY DEF Stored
<1> QED
    BY <1>1, <1>2

\* A write the client learned of is explained, and no other key is touched.
LEMMA WriteExplained ==
    ASSUME ContractInv, NEW k \in Keys, NEW v \in Value, NEW ok \in BOOLEAN,
           Learn(k, v, ok), db' = Stored(db, k, v) \/ (db' = db /\ ~ok)
    PROVE  (\A x \in Keys : Explained(x)') /\ may' \in [Keys -> SUBSET (Value \cup {Absent})]
<1>1. may \in [Keys -> SUBSET (Value \cup {Absent})] /\ \A x \in Keys : Explained(x)
    BY DEF ContractInv, TypeOK
<1>2. /\ may' \in [Keys -> SUBSET (Value \cup {Absent})]
      /\ may'[k] = IF ok THEN {v} ELSE may[k] \cup {v}
      /\ \A x \in Keys : x # k => may'[x] = may[x]
    BY <1>1 DEF Learn
<1>3. CASE db' = Stored(db, k, v)
    <2>1. ASSUME NEW x \in Keys
          PROVE  Explained(x)'
        <3>1. CASE x = k
            BY <1>2, <1>3, <3>1 DEF Explained, Stored
        <3>2. CASE x # k
            BY <1>1, <1>2, <1>3, <3>2 DEF Explained, Stored
        <3> QED
            BY <3>1, <3>2
    <2> QED
        BY <1>2, <2>1
<1>4. CASE db' = db /\ ~ok
    BY <1>1, <1>2, <1>4 DEF Explained
<1> QED
    BY <1>3, <1>4

\* The initial state keeps the contract.
LEMMA InitContract == Init => ContractInv
<1> SUFFICES ASSUME Init PROVE ContractInv
    OBVIOUS
<1>1. TypeOK
    BY DEF Init, TypeOK, Value
<1> QED
    BY <1>1 DEF Init, ContractInv, Explained, ReadsWhatWasWritten

\* Put and Update, which are the same call to the store, keep it.
LEMMA WriteKeepsContract ==
    ASSUME ContractInv, NEW k \in Keys, NEW n \in Lengths,
           Put(k, [head |-> k, len |-> n]) \/ Update(k, [head |-> k, len |-> n])
    PROVE  ContractInv'
<1> DEFINE v == [head |-> k, len |-> n]
<1>1. v \in Value /\ k \in Nat
    BY ContractAssumption DEF Value
<1>2. PICK out \in PutOutcomes(db, k, v), name \in {"Put", "Update"} :
        /\ db' = out.db
        /\ call' = Answer(name, k, out.ok)
        /\ Learn(k, v, out.ok)
        /\ UNCHANGED <<backend, buf>>
    BY DEF Put, Update, UpdateOutcomes
<1> HIDE DEF v
<1>3. DOMAIN db \subseteq Keys /\ db \in [DOMAIN db -> Value]
    BY DEF ContractInv, TypeOK
<1>4. /\ out.ok \in BOOLEAN
      /\ db' = Stored(db, k, v) \/ (db' = db /\ ~out.ok)
      /\ DOMAIN db' \subseteq Keys /\ db' \in [DOMAIN db' -> Value]
    BY <1>1, <1>2, <1>3, PutEffect
<1>5. (\A x \in Keys : Explained(x)') /\ may' \in [Keys -> SUBSET (Value \cup {Absent})]
    BY <1>1, <1>2, <1>4, WriteExplained
<1>6. TypeOK'
    BY <1>1, <1>2, <1>4, <1>5 DEF ContractInv, TypeOK, Answer
<1>7. call'.name # "Get"
    BY <1>2 DEF Answer
<1> QED
    BY <1>5, <1>6, <1>7 DEF ContractInv, ReadsWhatWasWritten

\* Delete keeps it: it removes the key, or says that it may not have.
LEMMA DeleteKeepsContract ==
    ASSUME ContractInv, NEW k \in Keys, Delete(k), "novelsm" \notin BackendsInUse
    PROVE  ContractInv'
<1>1. PICK out \in DeleteOutcomes(backend, db, k) :
        /\ db' = out.db
        /\ call' = Answer("Delete", k, out.ok)
        /\ Learn(k, Absent, out.ok)
        /\ UNCHANGED <<backend, buf>>
    BY DEF Delete
<1>2. TypeOK /\ k \in Nat /\ backend # "novelsm"
    BY ContractAssumption DEF ContractInv, TypeOK
<1>3. /\ out.ok \in BOOLEAN
      /\ out.db = Removed(db, k) \/ (out.db = db /\ ~out.ok)
    <2>1. \/ out = [db |-> Removed(db, k), ok |-> TRUE]
          \/ out = [db |-> db, ok |-> FALSE]
          \/ out = [db |-> Removed(db, k), ok |-> FALSE]
        <3>1. CASE backend \in {"rocksdb", "silk", "matrixkv"} /\ "write" \in Faults
            BY <3>1 DEF DeleteOutcomes
        <3>2. CASE backend \in {"rocksdb", "silk", "matrixkv"} /\ "write" \notin Faults
            BY <3>2 DEF DeleteOutcomes
        <3>3. CASE backend \notin {"rocksdb", "silk", "matrixkv"}
            <4>1. (backend = "novelsm") = FALSE
                BY <1>2
            <4> QED
                BY <3>3, <4>1 DEF DeleteOutcomes
        <3> QED
            BY <3>1, <3>2, <3>3
    <2>2. out.ok \in BOOLEAN
        <3>1. out.ok = TRUE \/ out.ok = FALSE
            BY <2>1
        <3> QED
            BY <3>1
    <2>3. out.db = Removed(db, k) \/ (out.db = db /\ ~out.ok)
        BY <2>1
    <2> QED
        BY <2>2, <2>3
<1>4. /\ may' \in [Keys -> SUBSET (Value \cup {Absent})]
      /\ Absent \in may'[k]
      /\ ~out.ok => may[k] \subseteq may'[k]
      /\ \A x \in Keys : x # k => may'[x] = may[x]
    BY <1>1, <1>2 DEF Learn, TypeOK
<1>5. \A x \in Keys : Explained(x)
    BY DEF ContractInv
<1>6. CASE out.db = Removed(db, k)
    <2>1. /\ DOMAIN db' \subseteq Keys
          /\ db' \in [DOMAIN db' -> Value]
        BY <1>1, <1>2, <1>6 DEF TypeOK, Removed
    <2>2. \A x \in Keys : Explained(x)'
        BY <1>1, <1>4, <1>5, <1>6 DEF Explained, Removed
    <2>3. TypeOK'
        BY <1>1, <1>2, <1>3, <1>4, <2>1 DEF TypeOK, Answer
    <2> QED
        BY <1>1, <2>2, <2>3 DEF ContractInv, ReadsWhatWasWritten, Answer
<1>7. CASE out.db = db /\ ~out.ok
    <2>1. \A x \in Keys : Explained(x)'
        BY <1>1, <1>4, <1>5, <1>7 DEF Explained
    <2>2. TypeOK'
        BY <1>1, <1>2, <1>3, <1>4, <1>7 DEF TypeOK, Answer
    <2> QED
        BY <1>1, <2>1, <2>2 DEF ContractInv, ReadsWhatWasWritten, Answer
<1> QED
    BY <1>3, <1>6, <1>7

\* Get keeps it: a hit returns what the store holds, a miss returns nothing.
LEMMA GetKeepsContract ==
    ASSUME ContractInv, NEW k \in Keys, Get(k)
    PROVE  ContractInv'
<1> DEFINE b == [buf EXCEPT !.head = 0]
<1>1. PICK out \in GetOutcomes(db, k, b) :
        /\ buf' = out.buf
        /\ call' = Answer("Get", k, out.ok)
        /\ UNCHANGED <<backend, db, may>>
    BY DEF Get
<1>2. TypeOK /\ k \in Nat /\ Explained(k)
    BY ContractAssumption DEF ContractInv, TypeOK
<1>3. b \in Value /\ b.head = 0
    BY <1>2 DEF TypeOK, Value
<1> HIDE DEF b
<1>4. \/ out.ok = TRUE /\ k \in DOMAIN db /\ buf' = CopyOut(db[k], b)
      \/ out.ok = FALSE /\ ("read" \notin Faults => k \notin DOMAIN db) /\ buf' = Emptied(b)
    BY <1>1 DEF GetOutcomes
<1>5. Emptied(b) = [head |-> 0, len |-> 0] /\ Emptied([head |-> 0, len |-> 0]) = [head |-> 0, len |-> 0]
    BY <1>3 DEF Emptied
<1>6. call'.name = "Get" /\ call'.key = k /\ call'.ok = out.ok
    BY <1>1 DEF Answer
<1>7. CASE out.ok = TRUE
    <2>1. db[k] \in Value /\ db[k] \in may[k] \ {Absent}
        BY <1>2, <1>4, <1>7, AbsentIsNoValue DEF TypeOK, Explained
    <2>2. buf' = CopyOut(db[k], [head |-> 0, len |-> 0]) /\ buf' \in Value
        BY <1>4, <1>5, <1>7, <2>1 DEF CopyOut, Value
    <2>3. TypeOK'
        <3>1. out.ok \in BOOLEAN
            BY <1>7
        <3> QED
            BY <1>1, <1>2, <2>2, <3>1 DEF TypeOK, Answer
    <2> QED
        BY <1>1, <1>6, <1>7, <2>1, <2>2, <2>3 DEF ContractInv, ReadsWhatWasWritten, Explained
<1>8. CASE out.ok = FALSE
    <2>1. buf' = [head |-> 0, len |-> 0] /\ buf' \in Value
        BY <1>4, <1>5, <1>8 DEF Value
    <2>2. "read" \notin Faults => Absent \in may'[k]
        BY <1>1, <1>2, <1>4, <1>8 DEF Explained
    <2>3. TypeOK'
        <3>1. out.ok \in BOOLEAN
            BY <1>8
        <3> QED
            BY <1>1, <1>2, <2>1, <3>1 DEF TypeOK, Answer
    <2> QED
        BY <1>1, <1>6, <1>8, <2>1, <2>2, <2>3 DEF ContractInv, ReadsWhatWasWritten, Explained
<1> QED
    BY <1>4, <1>7, <1>8

LEMMA ContractHolds ==
    ASSUME "novelsm" \notin BackendsInUse
    PROVE  Spec => []ContractInv
<1>1. ASSUME ContractInv, [Next]_vars
      PROVE  ContractInv'
    <2>1. CASE Next
        BY <1>1, <2>1, WriteKeepsContract, DeleteKeepsContract, GetKeepsContract DEF Next
    <2>2. CASE UNCHANGED vars
        BY <1>1, <2>2 DEF vars, ContractInv, TypeOK, Explained, ReadsWhatWasWritten
    <2> QED
        BY <1>1, <2>1, <2>2
<1> QED
    BY <1>1, InitContract, PTL DEF Spec

\* Without novelsm, the store holds values under keys of the client, and the
\* client's buffer a value.
THEOREM ContractTypeCorrect ==
    ASSUME "novelsm" \notin BackendsInUse
    PROVE  Spec => []TypeOK
<1>1. ContractInv => TypeOK
    BY DEF ContractInv
<1> QED
    BY <1>1, ContractHolds, PTL

\* Without novelsm, whose Delete only claims to delete, every Get answers what
\* the calls before it allow.
THEOREM ReadsAnswerWrites ==
    ASSUME "novelsm" \notin BackendsInUse
    PROVE  Spec => []ReadsWhatWasWritten
<1>1. ContractInv => ReadsWhatWasWritten
    BY DEF ContractInv
<1> QED
    BY <1>1, ContractHolds, PTL
=============================================================================
