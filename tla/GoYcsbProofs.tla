---------------------------- MODULE GoYcsbProofs ----------------------------
(***************************************************************************)
(* Proofs about the go-ycsb replayer, for all traces, numbers of threads,  *)
(* sizes of keys and values, and faults of the store.                      *)
(***************************************************************************)
EXTENDS GoYcsbProperties, Counting

USE GoYcsbAssumption, FaultsAssumption DEF Thread

\* What is known of the word about to be read.
LEMMA WordType ==
    ASSUME TypeOK, NEW p \in {1, 2}, NEW n \in 1 .. Len(trace[p].words)
    PROVE  /\ trace[p].words[n] \in Word
           /\ Accepted(trace[p].words[n]) => Operator(p, n) \in OperatorType
<1>1. trace[p] \in File
    BY DEF TypeOK
<1>2. trace[p].words \in Seq(Word)
    BY <1>1 DEF File
<1>3. trace[p].words[n] \in Word
    BY <1>2
<1>4. ASSUME Accepted(trace[p].words[n]) PROVE Operator(p, n) \in OperatorType
    <2>1. trace[p].words[n].word \in Kind /\ trace[p].words[n].text \in Seq(Nat \ {0})
        BY <1>3, <1>4 DEF Accepted, Word
    <2>2. <<p, n>> \in Origins
        BY <1>2 DEF Origins
    <2> QED
        BY <2>1, <2>2 DEF Operator, OperatorType
<1> QED
    BY <1>3, <1>4

\* Slot is a thread, and the key of a text is a key.
LEMMA SlotType == \A n \in Nat : Slot(n) \in Thread
    BY DEF Slot

LEMMA KeyType ==
    ASSUME NEW s \in Seq(Nat \ {0})
    PROVE  GeneratorKv(s) \in Key
<1>1. \A n \in 1 .. KeySize : (IF n <= Len(s) THEN s[n] ELSE 0) \in Nat
    OBVIOUS
<1> QED
    BY <1>1 DEF GeneratorKv, Key

\* The operation thread t is about to replay.
LEMMA CurrentOperator ==
    ASSUME TypeOK, NEW t \in Thread, NEW types, At(t, types)
    PROVE  /\ pos[t] \in Nat /\ pos[t] + 1 \in DOMAIN vecOpt[t]
           /\ vecOpt[t][pos[t] + 1] \in OperatorType
           /\ Operand(t) \in Key
<1>1. vecOpt[t] \in Seq(OperatorType) /\ pos[t] \in Nat
    BY DEF TypeOK
<1>2. pos[t] < Len(vecOpt[t])
    BY DEF At
<1>3. pos[t] + 1 \in DOMAIN vecOpt[t] /\ vecOpt[t][pos[t] + 1] \in OperatorType
    BY <1>1, <1>2
<1>4. vecOpt[t][pos[t] + 1].skew \in Seq(Nat \ {0})
    BY <1>3 DEF OperatorType
<1> QED
    BY <1>1, <1>3, <1>4, KeyType DEF Operand

\* What a Put of the replay leaves: the store as it was, or with the record.
LEMMA PutLeaves ==
    ASSUME NEW t \in Thread, ReplayPut(t)
    PROVE  \/ db' = db /\ "write" \in Faults
           \/ /\ DOMAIN db' = DOMAIN db \cup {Operand(t)}
              /\ \A k \in DOMAIN db' : db'[k] = IF k = Operand(t) THEN Record(k) ELSE db[k]
<1> DEFINE k == Operand(t)
<1>1. PICK out \in PutOutcomes(db, k, Record(k)) : db' = out.db
    BY DEF ReplayPut
<1>2. \/ out.db = Stored(db, k, Record(k))
      \/ out.db = db /\ "write" \in Faults
    <2>1. CASE "write" \in Faults
        BY <2>1 DEF PutOutcomes
    <2>2. CASE "write" \notin Faults
        BY <2>2 DEF PutOutcomes
    <2> QED
        BY <2>1, <2>2
<1>3. /\ DOMAIN Stored(db, k, Record(k)) = DOMAIN db \cup {k}
      /\ \A x \in DOMAIN Stored(db, k, Record(k)) :
            Stored(db, k, Record(k))[x] = IF x = k THEN Record(x) ELSE db[x]
    BY DEF Stored
<1> HIDE DEF k
<1>4. \/ db' = db /\ "write" \in Faults
      \/ /\ DOMAIN db' = DOMAIN db \cup {k}
         /\ \A x \in DOMAIN db' : db'[x] = IF x = k THEN Record(x) ELSE db[x]
    BY <1>1, <1>2, <1>3
<1> QED
    BY <1>4 DEF k

LEMMA CountType ==
    ASSUME TypeOK, NEW t \in Thread, NEW cs, Count(t, cs)
    PROVE  cnt' \in [Thread -> [Counter -> Nat]]
<1> DEFINE counts == [c \in Counter |-> IF c \in cs THEN cnt[t][c] + 1 ELSE cnt[t][c]]
<1>1. cnt \in [Thread -> [Counter -> Nat]] /\ cnt[t] \in [Counter -> Nat]
    BY DEF TypeOK
<1>2. counts \in [Counter -> Nat]
    BY <1>1
<1>3. cnt' = [cnt EXCEPT ![t] = counts]
    BY DEF Count
<1> HIDE DEF counts
<1> QED
    BY <1>1, <1>2, <1>3

LEMMA InitType == Init => TypeOK
<1> SUFFICES ASSUME Init PROVE TypeOK
    OBVIOUS
<1>1. <<>> \in Seq(OperatorType)
    OBVIOUS
<1>2. trace \in [1 .. 2 -> File]
    BY DEF Init
<1>3. vecOpt \in [Thread -> Seq(OperatorType)]
    BY <1>1 DEF Init
<1>4. /\ pc \in [Thread -> {"unborn", "loop", "finished"}] /\ pos \in [Thread -> Nat]
      /\ cnt \in [Thread -> [Counter -> Nat]]
    BY DEF Init, NoCounts
<1>5. DOMAIN db \subseteq Key
    BY DEF Init
<1>6. alive \in BOOLEAN /\ mi \in Thread
    BY DEF Init
<1> QED
    BY <1>2, <1>3, <1>4, <1>5, <1>6 DEF Init, TypeOK

LEMMA NextType == TypeOK /\ [Next]_vars => TypeOK'
<1> SUFFICES ASSUME TypeOK, [Next]_vars PROVE TypeOK'
    OBVIOUS
<1>1. CASE ReadWord
    <2>1. phase \in {1, 2} /\ numOpt \in Nat /\ trace[phase] \in File
        BY DEF TypeOK
    <2>2. Len(trace[phase].words) \in Nat
        BY <2>1 DEF File
    <2>3. numOpt + 1 \in 1 .. Len(trace[phase].words)
        BY <1>1, <2>1, <2>2 DEF ReadWord
    <2>4. vecOpt' \in [Thread -> Seq(OperatorType)]
        <3>1. CASE Accepted(trace[phase].words[numOpt + 1])
            <4>1. Operator(phase, numOpt + 1) \in OperatorType
                BY <2>1, <2>3, <3>1, WordType
            <4>2. vecOpt' = [vecOpt EXCEPT ![Slot(numOpt)] = Append(@, Operator(phase, numOpt + 1))]
                BY <1>1, <3>1 DEF ReadWord
            <4>3. Slot(numOpt) \in Thread /\ vecOpt \in [Thread -> Seq(OperatorType)]
                BY <2>1, SlotType DEF TypeOK
            <4>4. Append(vecOpt[Slot(numOpt)], Operator(phase, numOpt + 1)) \in Seq(OperatorType)
                BY <4>1, <4>3
            <4> QED
                BY <4>2, <4>3, <4>4
        <3>2. CASE ~Accepted(trace[phase].words[numOpt + 1])
            BY <1>1, <3>2 DEF ReadWord, TypeOK
        <3> QED
            BY <3>1, <3>2
    <2>5. numOpt' \in Nat /\ alive' \in BOOLEAN
        BY <1>1, <2>1 DEF ReadWord, TypeOK
    <2> QED
        BY <1>1, <2>1, <2>4, <2>5 DEF ReadWord, TypeOK
<1>2. CASE EndOfFile
    BY <1>2 DEF EndOfFile, TypeOK
<1>3. CASE Spawn
    <2>1. mi \in Thread /\ mi' \in Thread
        BY <1>3 DEF Spawn, TypeOK
    <2>2. NoCounts \in [Counter -> Nat]
        BY DEF NoCounts
    <2>3. main' \in {"read", "spawn", "join", "closed"}
        BY <1>3 DEF Spawn, TypeOK
    <2> QED
        BY <1>3, <2>1, <2>2, <2>3 DEF Spawn, TypeOK
<1>4. CASE Join
    BY <1>4 DEF Join, TypeOK
<1>5. CASE JoinLast
    BY <1>5 DEF JoinLast, TypeOK
<1>6. ASSUME NEW t \in Thread, ReplayPut(t) PROVE TypeOK'
    <2>1. pos[t] \in Nat /\ Operand(t) \in Key
        BY <1>6, CurrentOperator DEF ReplayPut
    <2>2. DOMAIN db' \subseteq Key
        <3>1. db' = db \/ DOMAIN db' = DOMAIN db \cup {Operand(t)}
            BY <1>6, PutLeaves, Zenon
        <3>2. DOMAIN db \subseteq Key
            BY DEF TypeOK
        <3> QED
            BY <2>1, <3>1, <3>2
    <2>3. cnt' \in [Thread -> [Counter -> Nat]]
        BY <1>6, CountType DEF ReplayPut
    <2>4. pos' \in [Thread -> Nat]
        <3>1. Replayed(t)
            BY <1>6 DEF ReplayPut
        <3>2. pos \in [Thread -> Nat]
            BY DEF TypeOK
        <3> QED
            BY <3>1, <3>2 DEF Replayed
    <2>5. alive' \in BOOLEAN
        BY <1>6 DEF ReplayPut, TypeOK
    <2> QED
        BY <1>6, <2>2, <2>3, <2>4, <2>5 DEF ReplayPut, TypeOK
<1>7. ASSUME NEW t \in Thread, ReplayRead(t) PROVE TypeOK'
    <2>1. pos' \in [Thread -> Nat]
        <3>1. Replayed(t)
            BY <1>7 DEF ReplayRead
        <3>2. pos \in [Thread -> Nat]
            BY DEF TypeOK
        <3> QED
            BY <3>1, <3>2 DEF Replayed
    <2>2. cnt' \in [Thread -> [Counter -> Nat]]
        BY <1>7, CountType DEF ReplayRead
    <2>3. alive' \in BOOLEAN
        BY <1>7 DEF ReplayRead, TypeOK
    <2> QED
        BY <1>7, <2>1, <2>2, <2>3 DEF ReplayRead, TypeOK
<1>8. ASSUME NEW t \in Thread, ReadIsFatal(t) PROVE TypeOK'
    BY <1>8 DEF ReadIsFatal, TypeOK
<1>9. ASSUME NEW t \in Thread, ReplayScan(t) PROVE TypeOK'
    <2>1. Replayed(t)
        BY <1>9 DEF ReplayScan
    <2>2. pos' \in [Thread -> Nat]
        BY <2>1 DEF Replayed, TypeOK
    <2> QED
        BY <1>9, <2>2 DEF ReplayScan, TypeOK
<1>10. ASSUME NEW t \in Thread, Finish(t) PROVE TypeOK'
    BY <1>10 DEF Finish, TypeOK
<1>11. CASE UNCHANGED vars
    BY <1>11 DEF vars, TypeOK
<1> QED
    BY <1>1, <1>2, <1>3, <1>4, <1>5, <1>6, <1>7, <1>8, <1>9, <1>10, <1>11
    DEF Next, MainStep, ThreadStep, Terminated

-----------------------------------------------------------------------------
(***************************************************************************)
(* How the vectors grow, and the phases.                                   *)
(***************************************************************************)
\* What the vectors are, apart from the operations in them.
LEMMA Vectors ==
    ASSUME TypeOK
    PROVE  /\ phase \in {1, 2} /\ numOpt \in Nat /\ mi \in Thread /\ pos \in [Thread -> Nat]
           /\ pc \in [Thread -> {"unborn", "loop", "finished"}]
           /\ \A p \in {1, 2} : Len(trace[p].words) \in Nat
           /\ \A t \in Thread : /\ Len(vecOpt[t]) \in Nat
                                /\ DOMAIN vecOpt[t] = 1 .. Len(vecOpt[t])
                                /\ \A i \in DOMAIN vecOpt[t] : vecOpt[t][i] \in OperatorType
<1>1. \A p \in {1, 2} : trace[p].words \in Seq(Word)
    BY DEF TypeOK, File
<1>2. \A t \in Thread : vecOpt[t] \in Seq(OperatorType)
    BY DEF TypeOK
<1> QED
    BY <1>1, <1>2 DEF TypeOK

LEMMA Appended ==
    ASSUME NEW S, NEW s \in Seq(S), NEW e \in S
    PROVE  /\ Len(Append(s, e)) = Len(s) + 1
           /\ DOMAIN Append(s, e) = 1 .. Len(s) + 1
           /\ \A i \in DOMAIN s : Append(s, e)[i] = s[i]
           /\ Append(s, e)[Len(s) + 1] = e
    OBVIOUS

\* One vector may grow by the word read; the others stay.
LEMMA ReadAppends ==
    ASSUME TypeOK, ReadWord
    PROVE  /\ numOpt + 1 \in 1 .. Len(trace[phase].words)
           /\ \A t \in Thread :
                \/ /\ vecOpt'[t] = vecOpt[t]
                   /\ ~(t = Slot(numOpt) /\ Accepted(trace[phase].words[numOpt + 1]))
                \/ /\ t = Slot(numOpt) /\ Accepted(trace[phase].words[numOpt + 1])
                   /\ Len(vecOpt'[t]) = Len(vecOpt[t]) + 1
                   /\ DOMAIN vecOpt'[t] = 1 .. Len(vecOpt[t]) + 1
                   /\ \A i \in DOMAIN vecOpt[t] : vecOpt'[t][i] = vecOpt[t][i]
                   /\ vecOpt'[t][Len(vecOpt[t]) + 1] = Operator(phase, numOpt + 1)
<1>1. numOpt + 1 \in 1 .. Len(trace[phase].words)
    BY Vectors DEF ReadWord
<1>2. vecOpt \in [Thread -> Seq(OperatorType)] /\ Slot(numOpt) \in Thread
    BY Vectors, SlotType DEF TypeOK
<1>3. CASE ~Accepted(trace[phase].words[numOpt + 1])
    BY <1>1, <1>3 DEF ReadWord
<1>4. CASE Accepted(trace[phase].words[numOpt + 1])
    <2>1. Operator(phase, numOpt + 1) \in OperatorType
        BY <1>1, <1>4, Vectors, WordType
    <2>2. vecOpt' = [vecOpt EXCEPT ![Slot(numOpt)] = Append(@, Operator(phase, numOpt + 1))]
        BY <1>4 DEF ReadWord
    <2>3. ASSUME NEW t \in Thread, t # Slot(numOpt) PROVE vecOpt'[t] = vecOpt[t]
        BY <1>2, <2>2, <2>3
    <2>4. vecOpt'[Slot(numOpt)] = Append(vecOpt[Slot(numOpt)], Operator(phase, numOpt + 1))
        BY <1>2, <2>2
    <2>5. vecOpt[Slot(numOpt)] \in Seq(OperatorType)
        BY <1>2
    <2>6. /\ Len(vecOpt'[Slot(numOpt)]) = Len(vecOpt[Slot(numOpt)]) + 1
          /\ DOMAIN vecOpt'[Slot(numOpt)] = 1 .. Len(vecOpt[Slot(numOpt)]) + 1
          /\ \A i \in DOMAIN vecOpt[Slot(numOpt)] :
                vecOpt'[Slot(numOpt)][i] = vecOpt[Slot(numOpt)][i]
          /\ vecOpt'[Slot(numOpt)][Len(vecOpt[Slot(numOpt)]) + 1] = Operator(phase, numOpt + 1)
        BY <2>1, <2>4, <2>5, Appended
    <2> QED
        BY <1>1, <1>4, <2>3, <2>6, Zenon
<1> QED
    BY <1>3, <1>4, Zenon

\* The operations in the vectors are of the files read so far.
LEMMA FromPast ==
    ASSUME TypeOK, EachOnceInOrder, NEW t \in Thread, NEW i \in DOMAIN vecOpt[t]
    PROVE  vecOpt[t][i].from[1] \in {1, 2} /\ vecOpt[t][i].from[1] <= phase
<1>1. PICK p, n : /\ p \in {1, 2} /\ n \in 1 .. Len(trace[p].words)
                  /\ Taken(p, n) /\ vecOpt[t][i] = Operator(p, n)
    BY DEF EachOnceInOrder
<1>2. p <= phase
    BY <1>1, Vectors DEF Taken
<1>3. vecOpt[t][i].from[1] = p
    BY <1>1 DEF Operator
<1> QED
    BY <1>1, <1>2, <1>3

LEMMA InitPhase == Init => InPhase
    BY DEF Init, InPhase, ThreadInPhase, Spawned

LEMMA NextPhase == TypeOK /\ EachOnceInOrder /\ InPhase /\ [Next]_vars => InPhase'
<1> SUFFICES ASSUME TypeOK, EachOnceInOrder, InPhase, [Next]_vars PROVE InPhase'
    OBVIOUS
<1>1. CASE ReadWord
    <2>1. \A t \in Thread : ~Spawned(t) /\ ~Spawned(t)'
        BY <1>1 DEF ReadWord, Spawned
    <2>2. ASSUME NEW t \in Thread PROVE ThreadInPhase(t)'
        <3>1. ThreadInPhase(t) /\ pos[t] \in Nat /\ Len(vecOpt[t]) \in Nat
              /\ DOMAIN vecOpt[t] = 1 .. Len(vecOpt[t])
            BY Vectors DEF InPhase
        <3>2. Len(vecOpt[t]) <= Len(vecOpt'[t])
              /\ \A i \in DOMAIN vecOpt[t] : vecOpt'[t][i] = vecOpt[t][i]
            BY <1>1, <3>1, ReadAppends
        <3>3. pos[t] <= Len(vecOpt'[t])
            <4>1. Len(vecOpt'[t]) = Len(vecOpt[t]) \/ Len(vecOpt'[t]) = Len(vecOpt[t]) + 1
                BY <1>1, ReadAppends
            <4> QED
                BY <3>1, <4>1 DEF ThreadInPhase
        <3>4. ASSUME NEW i \in 1 .. pos[t] PROVE vecOpt'[t][i].from[1] < phase
            <4>1. i \in DOMAIN vecOpt[t]
                BY <3>1 DEF ThreadInPhase
            <4>2. vecOpt[t][i].from[1] < phase
                BY <2>1, <3>1 DEF ThreadInPhase
            <4> QED
                BY <3>2, <4>1, <4>2
        <3> QED
            BY <1>1, <2>1, <3>1, <3>3, <3>4 DEF ReadWord, ThreadInPhase
    <2>3. numOpt' <= Len(trace[phase].words)
        BY <1>1, Vectors DEF ReadWord
    <2> QED
        BY <1>1, <2>2, <2>3 DEF ReadWord, InPhase
<1>2. CASE EndOfFile
    <2>1. mi = 0
        BY <1>2 DEF InPhase, EndOfFile
    <2>2. \A t \in Thread : ~Spawned(t) /\ ~Spawned(t)'
        BY <1>2, <2>1 DEF EndOfFile, Spawned
    <2> QED
        BY <1>2, <2>2 DEF EndOfFile, InPhase, ThreadInPhase
<1>3. CASE Spawn
    <2>1. \A t \in Thread : Spawned(t)' <=> Spawned(t) \/ t = mi
        BY <1>3, Vectors DEF Spawn, Spawned
    <2>2. main' \in {"spawn", "join"} /\ (main' = "join" => mi' = 0)
        BY <1>3, Vectors DEF Spawn
    <2>3. ASSUME NEW t \in Thread PROVE ThreadInPhase(t)'
        <3>1. CASE t = mi
            <4>1. pc'[t] = "loop" /\ pos'[t] = 0 /\ vecOpt' = vecOpt /\ Spawned(t)'
                BY <1>3, <2>1, <3>1, Vectors DEF Spawn
            <4>2. 0 <= Len(vecOpt[t]) /\ ~(t < 0)
                BY Vectors
            <4> QED
                BY <2>2, <4>1, <4>2 DEF ThreadInPhase
        <3>2. CASE t # mi
            <4>1. pc'[t] = pc[t] /\ pos'[t] = pos[t] /\ vecOpt' = vecOpt /\ phase' = phase
                BY <1>3, <3>2, Vectors DEF Spawn
            <4>2. (Spawned(t)' <=> Spawned(t)) /\ ~(t < 0)
                BY <2>1, <3>2
            <4>3. ThreadInPhase(t)
                BY DEF InPhase
            <4> QED
                BY <2>2, <4>1, <4>2, <4>3 DEF ThreadInPhase
        <3> QED
            BY <3>1, <3>2
    <2> QED
        BY <2>2, <2>3 DEF InPhase
<1>4. CASE Join
    <2>1. \A t \in Thread : Spawned(t) /\ Spawned(t)'
        BY <1>4 DEF Join, Spawned
    <2>2. ASSUME NEW t \in Thread PROVE ThreadInPhase(t)'
        <3>1. t < mi + 1 => t < mi \/ t = mi
            BY Vectors
        <3> QED
            BY <1>4, <2>1, <3>1 DEF Join, InPhase, ThreadInPhase
    <2> QED
        BY <1>4, <2>2 DEF Join, InPhase
<1>5. CASE JoinLast
    <2>1. \A t \in Thread : Spawned(t) /\ pc[t] = "finished" /\ pos[t] = Len(vecOpt[t])
        BY <1>5, Vectors DEF JoinLast, Spawned, InPhase, ThreadInPhase
    <2>2. mi' = 0 /\ vecOpt' = vecOpt /\ pos' = pos /\ pc' = pc
        BY <1>5 DEF JoinLast
    <2>3. CASE phase = 1
        <3>1. phase' = 2 /\ main' = "read" /\ numOpt' = 0 /\ trace' = trace
            BY <1>5, <2>3 DEF JoinLast
        <3>2. ASSUME NEW t \in Thread PROVE ThreadInPhase(t)'
            <4>1. ~Spawned(t)'
                BY <3>1 DEF Spawned
            <4>2. ASSUME NEW i \in 1 .. pos[t] PROVE vecOpt[t][i].from[1] < 2
                <5>1. i \in DOMAIN vecOpt[t]
                    BY <2>1, Vectors
                <5> QED
                    BY <2>3, <5>1, FromPast
            <4>3. pos[t] <= Len(vecOpt[t])
                BY <2>1, Vectors
            <4> QED
                BY <2>1, <2>2, <3>1, <4>1, <4>2, <4>3 DEF ThreadInPhase
        <3>3. 0 <= Len(trace[2].words)
            BY Vectors
        <3> QED
            BY <2>2, <3>1, <3>2, <3>3 DEF InPhase
    <2>4. CASE phase = 2
        <3>1. main' = "closed" /\ \A t \in Thread : Spawned(t)'
            BY <1>5, <2>4 DEF JoinLast, Spawned
        <3> QED
            BY <2>1, <2>2, <3>1, Vectors DEF InPhase, ThreadInPhase
    <2> QED
        BY <2>3, <2>4, Vectors
<1>6. ASSUME NEW t \in Thread, ReplayPut(t) \/ ReplayRead(t) \/ ReplayScan(t) PROVE InPhase'
    <2>1. pc[t] = "loop" /\ pos[t] < Len(vecOpt[t]) /\ Replayed(t)
        BY <1>6 DEF ReplayPut, ReplayRead, ReplayScan, At
    <2>2. UNCHANGED <<trace, phase, main, mi, numOpt, vecOpt, pc>>
        BY <1>6 DEF ReplayPut, ReplayRead, ReplayScan
    <2>3. pos'[t] = pos[t] + 1 /\ \A u \in Thread : u # t => pos'[u] = pos[u]
        BY <2>1, Vectors DEF Replayed
    <2>4. \A u \in Thread : Spawned(u)' <=> Spawned(u)
        BY <2>2 DEF Spawned
    <2>5. ASSUME NEW u \in Thread PROVE ThreadInPhase(u)'
        <3>1. ThreadInPhase(u)
            BY DEF InPhase
        <3>2. CASE u = t
            <4>1. Spawned(t)' /\ pos'[t] <= Len(vecOpt[t])
                BY <2>1, <2>3, <2>4, <3>1, <3>2, Vectors DEF ThreadInPhase
            <4> QED
                BY <2>1, <2>2, <3>1, <3>2, <4>1 DEF ThreadInPhase
        <3>3. CASE u # t
            BY <2>2, <2>3, <2>4, <3>1, <3>3 DEF ThreadInPhase
        <3> QED
            BY <3>2, <3>3
    <2> QED
        BY <2>2, <2>5 DEF InPhase
<1>7. ASSUME NEW t \in Thread, ReadIsFatal(t) PROVE InPhase'
    BY <1>7 DEF ReadIsFatal, InPhase, ThreadInPhase, Spawned
<1>8. ASSUME NEW t \in Thread, Finish(t) PROVE InPhase'
    <2>1. pc'[t] = "finished" /\ pos[t] = Len(vecOpt[t]) /\ \A u \in Thread : u # t => pc'[u] = pc[u]
        BY <1>8, Vectors DEF Finish
    <2>2. \A u \in Thread : Spawned(u)' <=> Spawned(u)
        BY <1>8 DEF Finish, Spawned
    <2> QED
        BY <1>8, <2>1, <2>2, Vectors DEF Finish, InPhase, ThreadInPhase
<1>9. CASE UNCHANGED vars
    BY <1>9 DEF vars, InPhase, ThreadInPhase, Spawned
<1> QED
    BY <1>1, <1>2, <1>3, <1>4, <1>5, <1>6, <1>7, <1>8, <1>9
    DEF Next, MainStep, ThreadStep, Terminated
-----------------------------------------------------------------------------
(***************************************************************************)
(* Every operation of the trace in exactly one place.  EachOnceInOrder is  *)
(* the conjunction of the three parts named here.                          *)
(***************************************************************************)
FromTrace == \A t \in Thread : \A i \in DOMAIN vecOpt[t] :
    \E p \in {1, 2} : \E n \in 1 .. Len(trace[p].words) :
        Taken(p, n) /\ vecOpt[t][i] = Operator(p, n) /\ t = Slot(n - 1)

NothingLost == \A p \in {1, 2} : \A n \in 1 .. Len(trace[p].words) :
    Taken(p, n) => \E i \in DOMAIN vecOpt[Slot(n - 1)] : vecOpt[Slot(n - 1)][i].from = <<p, n>>

InOrder == \A t \in Thread : \A i, j \in DOMAIN vecOpt[t] :
    i < j => Before(vecOpt[t][i].from, vecOpt[t][j].from)

LEMMA Parts == EachOnceInOrder <=> FromTrace /\ NothingLost /\ InOrder
    BY DEF EachOnceInOrder, FromTrace, NothingLost, InOrder

LEMMA InitOrder == Init => EachOnceInOrder
<1> SUFFICES ASSUME Init PROVE EachOnceInOrder
    OBVIOUS
<1>1. \A t \in Thread : DOMAIN vecOpt[t] = {}
    BY DEF Init
<1>2. trace \in [1 .. 2 -> File]
    BY DEF Init
<1>3. ASSUME NEW p \in {1, 2}, NEW n \in 1 .. Len(trace[p].words) PROVE ~Taken(p, n)
    <2>1. trace[p].words \in Seq(Word)
        BY <1>2 DEF File
    <2> QED
        BY <2>1 DEF Init, Taken
<1> QED
    BY <1>1, <1>3 DEF EachOnceInOrder

\* Reading a word adds that word, if it is an operation, to those taken.
LEMMA TakenByRead ==
    ASSUME TypeOK, ReadWord, NEW p \in {1, 2}, NEW n \in 1 .. Len(trace[p].words)
    PROVE  /\ Taken(p, n) => Taken(p, n)'
           /\ Taken(p, n)' => \/ Taken(p, n)
                              \/ p = phase /\ n = numOpt + 1 /\ Accepted(trace[phase].words[numOpt + 1])
           /\ p = phase /\ n = numOpt + 1 /\ Accepted(trace[phase].words[numOpt + 1])
                => Taken(p, n)'
           /\ p = phase /\ Taken(p, n) => n <= numOpt
<1>1. trace' = trace /\ phase' = phase /\ main = "read" /\ main' = "read" /\ numOpt' = numOpt + 1
      /\ trace[phase].open
    BY DEF ReadWord
<1>2. n \in Nat /\ numOpt \in Nat /\ phase \in {1, 2} /\ numOpt + 1 \in 1 .. Len(trace[phase].words)
    BY Vectors, ReadAppends
<1>3. Taken(p, n) => Taken(p, n)'
    BY <1>1, <1>2 DEF Taken, Accepted
<1>4. Taken(p, n)' => \/ Taken(p, n)
                      \/ p = phase /\ n = numOpt + 1 /\ Accepted(trace[phase].words[numOpt + 1])
    <2>1. n <= numOpt + 1 => n <= numOpt \/ n = numOpt + 1
        BY <1>2
    <2> QED
        BY <1>1, <1>2, <2>1 DEF Taken, Accepted
<1>5. p = phase /\ n = numOpt + 1 /\ Accepted(trace[phase].words[numOpt + 1]) => Taken(p, n)'
    BY <1>1, <1>2 DEF Taken, Accepted
<1>6. p = phase /\ Taken(p, n) => n <= numOpt
    BY <1>1, <1>2 DEF Taken
<1> QED
    BY <1>3, <1>4, <1>5, <1>6

\* The other steps take no word and move no operation.
LEMMA TakenOtherwise ==
    ASSUME TypeOK, InPhase, [Next]_vars, ~ReadWord, NEW p \in {1, 2},
           NEW n \in 1 .. Len(trace[p].words)
    PROVE  Taken(p, n)' <=> Taken(p, n)
<1>1. n \in Nat /\ phase \in {1, 2} /\ numOpt \in Nat
    BY Vectors
<1>2. CASE EndOfFile
    <2>1. n <= Len(trace[p].words)
        BY Vectors
    <2>2. p = phase /\ trace[p].open => n <= numOpt
        BY <1>2, <2>1 DEF EndOfFile
    <2> QED
        BY <1>1, <1>2, <2>2 DEF EndOfFile, Taken, Accepted
<1>3. CASE JoinLast
    <2>1. CASE phase = 1
        <3>1. phase' = 2 /\ main = "join" /\ main' = "read" /\ numOpt' = 0 /\ trace' = trace
            BY <1>3, <2>1 DEF JoinLast
        <3> QED
            BY <1>1, <2>1, <3>1 DEF Taken, Accepted
    <2>2. CASE phase = 2
        BY <1>1, <1>3, <2>2 DEF JoinLast, Taken, Accepted
    <2> QED
        BY <1>1, <2>1, <2>2
<1>4. CASE Spawn
    BY <1>4 DEF Spawn, Taken, Accepted
<1>5. CASE UNCHANGED <<trace, phase, main, numOpt>>
    BY <1>5 DEF Taken, Accepted
<1> QED
    BY <1>2, <1>3, <1>4, <1>5
    DEF Next, MainStep, ThreadStep, Terminated, Join, ReplayPut, ReplayRead,
        ReadIsFatal, ReplayScan, Finish, vars

LEMMA VectorsStay ==
    ASSUME [Next]_vars, ~ReadWord
    PROVE  vecOpt' = vecOpt /\ trace' = trace
    BY DEF Next, MainStep, ThreadStep, Terminated, EndOfFile, Spawn, Join, JoinLast,
        ReplayPut, ReplayRead, ReadIsFatal, ReplayScan, Finish, vars

LEMMA OperatorStays ==
    ASSUME trace' = trace, NEW p, NEW n
    PROVE  Operator(p, n)' = Operator(p, n)
    BY DEF Operator

LEMMA NextOrder == TypeOK /\ InPhase /\ EachOnceInOrder /\ [Next]_vars => EachOnceInOrder'
<1> SUFFICES ASSUME TypeOK, InPhase, EachOnceInOrder, [Next]_vars PROVE EachOnceInOrder'
    OBVIOUS
<1>1. FromTrace /\ NothingLost /\ InOrder
    BY Parts
<1>2. CASE ReadWord
    <2> DEFINE read == Accepted(trace[phase].words[numOpt + 1])
    <2>1. PICK q, m : q \in {1, 2} /\ m \in 1 .. Len(trace[q].words) /\ q = phase /\ m = numOpt + 1
        BY <1>2, Vectors, ReadAppends
    <2>2. trace' = trace /\ m \in Nat /\ numOpt \in Nat /\ m - 1 = numOpt
        BY <1>2, <2>1, Vectors DEF ReadWord
    <2>3. ASSUME NEW t \in Thread, NEW i \in DOMAIN vecOpt'[t]
          PROVE  \/ i \in DOMAIN vecOpt[t] /\ vecOpt'[t][i] = vecOpt[t][i]
                 \/ /\ vecOpt'[t][i] = Operator(q, m) /\ t = Slot(m - 1) /\ read
                    /\ i = Len(vecOpt[t]) + 1
        <3>1. Len(vecOpt[t]) \in Nat /\ DOMAIN vecOpt[t] = 1 .. Len(vecOpt[t])
            BY Vectors
        <3>2. CASE vecOpt'[t] = vecOpt[t]
            BY <3>2
        <3>3. CASE /\ t = Slot(numOpt) /\ read
                   /\ DOMAIN vecOpt'[t] = 1 .. Len(vecOpt[t]) + 1
                   /\ \A l \in DOMAIN vecOpt[t] : vecOpt'[t][l] = vecOpt[t][l]
                   /\ vecOpt'[t][Len(vecOpt[t]) + 1] = Operator(phase, numOpt + 1)
            <4>1. i \in DOMAIN vecOpt[t] \/ i = Len(vecOpt[t]) + 1
                BY <3>1, <3>3
            <4> QED
                BY <2>1, <2>2, <3>3, <4>1
        <3> QED
            BY <1>2, <3>2, <3>3, ReadAppends
    <2>4. FromTrace'
        <3> SUFFICES ASSUME NEW t \in Thread, NEW i \in DOMAIN vecOpt'[t]
                     PROVE  \E p \in {1, 2} : \E n \in 1 .. Len(trace[p].words) :
                                Taken(p, n)' /\ vecOpt'[t][i] = Operator(p, n) /\ t = Slot(n - 1)
            BY <2>2, OperatorStays DEF FromTrace
        <3>1. CASE i \in DOMAIN vecOpt[t] /\ vecOpt'[t][i] = vecOpt[t][i]
            <4>1. PICK p, n : /\ p \in {1, 2} /\ n \in 1 .. Len(trace[p].words)
                              /\ Taken(p, n) /\ vecOpt[t][i] = Operator(p, n) /\ t = Slot(n - 1)
                BY <1>1, <3>1 DEF FromTrace
            <4>2. Taken(p, n)'
                BY <1>2, <4>1, TakenByRead
            <4> QED
                BY <3>1, <4>1, <4>2
        <3>2. CASE vecOpt'[t][i] = Operator(q, m) /\ t = Slot(m - 1) /\ read
            <4>1. Taken(q, m)'
                BY <1>2, <2>1, <3>2, TakenByRead
            <4> QED
                BY <2>1, <3>2, <4>1
        <3> QED
            BY <2>3, <3>1, <3>2
    <2>5. NothingLost'
        <3> SUFFICES ASSUME NEW p \in {1, 2}, NEW n \in 1 .. Len(trace[p].words), Taken(p, n)'
                     PROVE  \E i \in DOMAIN vecOpt'[Slot(n - 1)] :
                                vecOpt'[Slot(n - 1)][i].from = <<p, n>>
            BY <2>2 DEF NothingLost
        <3>1. PICK u \in Thread : u = Slot(n - 1)
            <4>1. n - 1 \in Nat
                BY Vectors
            <4> QED
                BY <4>1, SlotType
        <3>2. CASE Taken(p, n)
            <4>1. PICK i \in DOMAIN vecOpt[u] : vecOpt[u][i].from = <<p, n>>
                BY <1>1, <3>1, <3>2 DEF NothingLost
            <4>2. DOMAIN vecOpt[u] = 1 .. Len(vecOpt[u]) /\ Len(vecOpt[u]) \in Nat
                BY Vectors
            <4>3. i \in DOMAIN vecOpt'[u] /\ vecOpt'[u][i] = vecOpt[u][i]
                BY <1>2, <4>1, <4>2, ReadAppends
            <4> QED
                BY <3>1, <4>1, <4>3
        <3>3. CASE p = q /\ n = m /\ read
            <4>0. u = Slot(numOpt)
                BY <2>2, <3>1, <3>3
            <4>1. /\ DOMAIN vecOpt'[u] = 1 .. Len(vecOpt[u]) + 1
                  /\ vecOpt'[u][Len(vecOpt[u]) + 1] = Operator(p, n)
                BY <1>2, <2>1, <3>3, <4>0, ReadAppends
            <4>2. Len(vecOpt[u]) \in Nat
                BY Vectors
            <4>3. Operator(p, n).from = <<p, n>>
                BY DEF Operator
            <4>4. Len(vecOpt[u]) + 1 \in DOMAIN vecOpt'[u]
                BY <4>1, <4>2
            <4>5. vecOpt'[u][Len(vecOpt[u]) + 1].from = <<p, n>>
                BY <4>1, <4>3
            <4> QED
                BY <3>1, <4>4, <4>5
        <3> QED
            BY <1>2, <2>1, <3>2, <3>3, TakenByRead
    <2>6. InOrder'
        <3> SUFFICES ASSUME NEW t \in Thread, NEW i \in DOMAIN vecOpt'[t],
                            NEW j \in DOMAIN vecOpt'[t], i < j
                     PROVE  Before(vecOpt'[t][i].from, vecOpt'[t][j].from)
            BY DEF InOrder
        <3>1. i \in Nat /\ j \in Nat /\ i \in DOMAIN vecOpt[t] /\ vecOpt'[t][i] = vecOpt[t][i]
            <4>1. Len(vecOpt[t]) \in Nat /\ DOMAIN vecOpt[t] = 1 .. Len(vecOpt[t])
                BY Vectors
            <4>2. DOMAIN vecOpt'[t] = 1 .. Len(vecOpt[t]) \/ DOMAIN vecOpt'[t] = 1 .. Len(vecOpt[t]) + 1
                BY <1>2, <4>1, ReadAppends
            <4>3. i \in Nat /\ j \in Nat /\ i # Len(vecOpt[t]) + 1
                BY <4>1, <4>2
            <4> QED
                BY <2>3, <4>3
        <3>2. CASE j \in DOMAIN vecOpt[t] /\ vecOpt'[t][j] = vecOpt[t][j]
            BY <1>1, <3>1, <3>2 DEF InOrder
        <3>3. CASE vecOpt'[t][j] = Operator(q, m)
            <4>1. PICK p, n : /\ p \in {1, 2} /\ n \in 1 .. Len(trace[p].words)
                              /\ Taken(p, n) /\ vecOpt[t][i] = Operator(p, n) /\ t = Slot(n - 1)
                BY <1>1, <3>1 DEF FromTrace
            <4>2. p < q \/ (p = q /\ n < m)
                <5>1. p = q => n <= numOpt
                    BY <1>2, <2>1, <4>1, TakenByRead
                <5>2. p <= phase
                    BY <4>1, Vectors DEF Taken
                <5>3. n \in Nat /\ phase \in {1, 2}
                    BY <4>1, Vectors
                <5> QED
                    BY <2>1, <2>2, <4>1, <5>1, <5>2, <5>3
            <4> QED
                BY <3>1, <3>3, <4>1, <4>2 DEF Operator, Before
        <3> QED
            BY <2>3, <3>2, <3>3
    <2> QED
        BY <2>4, <2>5, <2>6, Parts, PTL
<1>3. CASE ~ReadWord
    <2>1. vecOpt' = vecOpt /\ trace' = trace
        BY <1>3, VectorsStay
    <2>2. FromTrace'
        BY <1>1, <1>3, <2>1, TakenOtherwise, OperatorStays DEF FromTrace
    <2>3. NothingLost'
        BY <1>1, <1>3, <2>1, TakenOtherwise DEF NothingLost
    <2>4. InOrder'
        BY <1>1, <2>1 DEF InOrder
    <2> QED
        BY <2>2, <2>3, <2>4, Parts, PTL
<1> QED
    BY <1>2, <1>3
-----------------------------------------------------------------------------
(***************************************************************************)
(* What the replay leaves in the store.                                    *)
(***************************************************************************)
Replay(t) == ReplayPut(t) \/ ReplayRead(t) \/ ReplayScan(t)

\* A replay step performs the next operation of its thread and no other.
LEMMA ReplayPerforms ==
    ASSUME TypeOK, NEW t \in Thread, Replay(t)
    PROVE  /\ vecOpt' = vecOpt /\ phase' = phase /\ trace' = trace
           /\ pos'[t] = pos[t] + 1 /\ \A u \in Thread : u # t => pos'[u] = pos[u]
           /\ pos[t] + 1 \in DOMAIN vecOpt[t]
           /\ \A u \in Thread : \A i \in DOMAIN vecOpt[u] :
                Performed(u, i)' <=> Performed(u, i) \/ (u = t /\ i = pos[t] + 1)
<1>1. vecOpt' = vecOpt /\ phase' = phase /\ trace' = trace
    BY DEF Replay, ReplayPut, ReplayRead, ReplayScan
<1>2. pos[t] < Len(vecOpt[t]) /\ pos \in [Thread -> Nat] /\ Replayed(t)
    BY Vectors DEF Replay, ReplayPut, ReplayRead, ReplayScan, At
<1>3. pos'[t] = pos[t] + 1 /\ \A u \in Thread : u # t => pos'[u] = pos[u]
    BY <1>2 DEF Replayed
<1>4. pos[t] + 1 \in DOMAIN vecOpt[t]
    BY <1>2, Vectors
<1>5. ASSUME NEW u \in Thread, NEW i \in DOMAIN vecOpt[u]
      PROVE  Performed(u, i)' <=> Performed(u, i) \/ (u = t /\ i = pos[t] + 1)
    <2>1. i \in Nat /\ pos[u] \in Nat
        <3>1. i \in 1 .. Len(vecOpt[u]) /\ Len(vecOpt[u]) \in Nat
            BY <1>5, Vectors, Zenon
        <3> QED
            BY <1>2, <3>1
    <2>2. CASE u = t
        <3>1. i <= pos'[u] <=> i <= pos[u] \/ i = pos[t] + 1
            BY <1>3, <2>1, <2>2
        <3> QED
            BY <1>1, <2>2, <3>1 DEF Performed
    <2>3. CASE u # t
        BY <1>1, <1>3, <2>3 DEF Performed
    <2> QED
        BY <2>2, <2>3
<1> QED
    BY <1>1, <1>3, <1>4, <1>5

\* The other steps leave the store, the counters' reads and what has been
\* performed as it was, and a word just read has not been performed.
LEMMA OthersPerformNothing ==
    ASSUME TypeOK, InPhase, EachOnceInOrder, [Next]_vars, ~ \E t \in Thread : Replay(t),
           NEW u \in Thread
    PROVE  /\ db' = db
           /\ \A i \in DOMAIN vecOpt[u] :
                /\ i \in DOMAIN vecOpt'[u] /\ vecOpt'[u][i] = vecOpt[u][i]
                /\ Performed(u, i)' <=> Performed(u, i)
           /\ \A i \in DOMAIN vecOpt'[u] \ DOMAIN vecOpt[u] :
                ~Performed(u, i)' /\ vecOpt'[u][i].from[1] = phase
           /\ pos'[u] \in {0, pos[u]}
           /\ cnt'[u]["readOk"] \in {0, cnt[u]["readOk"]}
<1>0. pos[u] \in Nat /\ Len(vecOpt[u]) \in Nat /\ DOMAIN vecOpt[u] = 1 .. Len(vecOpt[u])
      /\ phase \in {1, 2} /\ pos[u] <= Len(vecOpt[u])
    BY Vectors DEF InPhase, ThreadInPhase
<1>1. CASE ReadWord
    <2>1. db' = db /\ pos' = pos /\ phase' = phase /\ cnt' = cnt
        BY <1>1 DEF ReadWord
    <2>2. CASE vecOpt'[u] = vecOpt[u]
        BY <2>1, <2>2 DEF Performed
    <2>3. CASE /\ DOMAIN vecOpt'[u] = 1 .. Len(vecOpt[u]) + 1
               /\ \A i \in DOMAIN vecOpt[u] : vecOpt'[u][i] = vecOpt[u][i]
               /\ vecOpt'[u][Len(vecOpt[u]) + 1] = Operator(phase, numOpt + 1)
        <3>1. \A i \in DOMAIN vecOpt[u] :
                /\ i \in DOMAIN vecOpt'[u] /\ vecOpt'[u][i] = vecOpt[u][i]
                /\ Performed(u, i)' <=> Performed(u, i)
            BY <1>0, <2>1, <2>3 DEF Performed
        <3>2. ASSUME NEW i \in DOMAIN vecOpt'[u] \ DOMAIN vecOpt[u]
              PROVE  ~Performed(u, i)' /\ vecOpt'[u][i].from[1] = phase
            <4>1. i = Len(vecOpt[u]) + 1
                BY <1>0, <2>3, <3>2
            <4>2. vecOpt'[u][i].from[1] = phase
                BY <2>3, <4>1 DEF Operator
            <4>3. ~(i <= pos[u]) /\ ~(phase < phase)
                BY <1>0, <4>1
            <4> QED
                BY <2>1, <4>2, <4>3 DEF Performed
        <3> QED
            BY <2>1, <3>1, <3>2
    <2> QED
        BY <1>1, <2>2, <2>3, ReadAppends
<1>2. CASE Spawn
    <2>1. db' = db /\ vecOpt' = vecOpt /\ phase' = phase
        BY <1>2 DEF Spawn
    <2>2. CASE u = mi
        <3>1. ~Spawned(u)
            BY <1>2, <2>2, Vectors DEF Spawn, Spawned
        <3>2. \A i \in 1 .. pos[u] : vecOpt[u][i].from[1] < phase
            BY <3>1 DEF InPhase, ThreadInPhase
        <3>3. pos'[u] = 0 /\ cnt'[u] = NoCounts
            BY <1>2, <2>2, Vectors DEF Spawn, TypeOK
        <3>4. cnt'[u]["readOk"] = 0
            BY <3>3 DEF NoCounts, Counter
        <3>5. \A i \in DOMAIN vecOpt[u] : Performed(u, i)' <=> Performed(u, i)
            BY <1>0, <2>1, <3>2, <3>3 DEF Performed
        <3> QED
            BY <2>1, <3>3, <3>4, <3>5
    <2>3. CASE u # mi
        <3>1. pos'[u] = pos[u] /\ cnt'[u] = cnt[u]
            BY <1>2, <2>3, Vectors DEF Spawn, TypeOK
        <3> QED
            BY <2>1, <3>1 DEF Performed
    <2> QED
        BY <2>2, <2>3
<1>3. CASE JoinLast
    <2>1. db' = db /\ vecOpt' = vecOpt /\ pos' = pos /\ cnt' = cnt
        BY <1>3 DEF JoinLast
    <2>2. pos[u] = Len(vecOpt[u])
        BY <1>3, Vectors DEF JoinLast, Spawned, InPhase, ThreadInPhase
    <2>3. \A i \in DOMAIN vecOpt[u] : i <= pos[u]
        BY <1>0, <2>2
    <2> QED
        BY <2>1, <2>3 DEF Performed
<1>4. CASE UNCHANGED <<phase, vecOpt, pos, cnt, db>>
    BY <1>4 DEF Performed
<1> QED
    BY <1>1, <1>2, <1>3, <1>4
    DEF Next, MainStep, ThreadStep, Terminated, EndOfFile, Join, Replay, ReadIsFatal, Finish, vars

\* A READ that returns has not found its key, unless its record is empty.
LEMMA ReadMisses ==
    ASSUME StoreIsReplay, NEW t \in Thread, ReplayRead(t)
    PROVE  /\ Count(t, {"read"})
           /\ "read" \notin Faults => Operand(t) \notin DOMAIN db
<1> DEFINE k == Operand(t)
<1>1. PICK out \in GetOutcomes(db, k, NullBuffer) :
        /\ out.buf.len = 0
        /\ IF out.ok THEN Count(t, {"read", "readOk"}) ELSE Count(t, {"read"})
    BY DEF ReplayRead
<1>2. \/ k \in DOMAIN db /\ out = [buf |-> CopyOut(db[k], NullBuffer), ok |-> TRUE]
      \/ /\ "read" \in Faults \/ k \notin DOMAIN db
         /\ out = [buf |-> Emptied(NullBuffer), ok |-> FALSE]
    <2>1. CASE k \in DOMAIN db /\ "read" \in Faults
        BY <1>1, <2>1 DEF GetOutcomes
    <2>2. CASE k \in DOMAIN db /\ "read" \notin Faults
        BY <1>1, <2>2 DEF GetOutcomes
    <2>3. CASE k \notin DOMAIN db
        BY <1>1, <2>3 DEF GetOutcomes
    <2> QED
        BY <2>1, <2>2, <2>3
<1>3. ASSUME k \in DOMAIN db, out = [buf |-> CopyOut(db[k], NullBuffer), ok |-> TRUE] PROVE FALSE
    <2>1. db[k] = Record(k)
        BY <1>3 DEF StoreIsReplay
    <2>2. Record(k).len = ValueSize /\ ValueSize # 0
        BY GoYcsbAssumption DEF Record
    <2>3. CopyOut(db[k], NullBuffer) = Record(k)
        BY <2>1, <2>2 DEF CopyOut
    <2>4. out.buf.len = ValueSize
        BY <1>3, <2>2, <2>3
    <2> QED
        BY <1>1, <2>2, <2>4
<1>4. ("read" \in Faults \/ k \notin DOMAIN db) /\ out.ok = FALSE
    BY <1>2, <1>3
<1> QED
    BY <1>1, <1>4

\* A step of the replay that is not a Put leaves the store, and reads or skips.
LEMMA NoPut ==
    ASSUME NEW t \in Thread, ReplayRead(t) \/ ReplayScan(t)
    PROVE  db' = db /\ ~Writes(t, pos[t] + 1)
    BY DEF ReplayRead, ReplayScan, At, Writes

\* The parts of StoreIsReplay.
WrittenByReplay(k) ==
    \E t \in Thread : \E i \in DOMAIN vecOpt[t] :
        Writes(t, i) /\ Performed(t, i) /\ k = GeneratorKv(vecOpt[t][i].skew)

Whole == \A k \in DOMAIN db : db[k] = Record(k) /\ WrittenByReplay(k)

NothingMissing ==
    "write" \notin Faults =>
        \A t \in Thread : \A i \in DOMAIN vecOpt[t] :
            Writes(t, i) /\ Performed(t, i) => GeneratorKv(vecOpt[t][i].skew) \in DOMAIN db

LEMMA StoreParts == StoreIsReplay <=> Whole /\ NothingMissing
    BY DEF StoreIsReplay, Whole, WrittenByReplay, NothingMissing

LEMMA InitStore == Init => StoreIsReplay
<1> SUFFICES ASSUME Init PROVE StoreIsReplay
    OBVIOUS
<1>1. DOMAIN db = {} /\ \A t \in Thread : DOMAIN vecOpt[t] = {}
    BY DEF Init
<1> QED
    BY <1>1 DEF StoreIsReplay

LEMMA NextStore ==
    TypeOK /\ InPhase /\ EachOnceInOrder /\ StoreIsReplay /\ [Next]_vars => StoreIsReplay'
<1> SUFFICES ASSUME TypeOK, InPhase, EachOnceInOrder, StoreIsReplay, [Next]_vars
             PROVE  Whole' /\ NothingMissing'
    BY StoreParts, PTL
<1>1. Whole /\ NothingMissing
    BY StoreParts
<1>2. ASSUME NEW t \in Thread, Replay(t) PROVE Whole' /\ NothingMissing'
    <2>1. PICK n \in DOMAIN vecOpt[t] : n = pos[t] + 1
        BY <1>2, ReplayPerforms
    <2>2. /\ vecOpt' = vecOpt
          /\ \A u \in Thread : \A i \in DOMAIN vecOpt[u] :
                Performed(u, i)' <=> Performed(u, i) \/ (u = t /\ i = n)
        BY <1>2, <2>1, ReplayPerforms
    <2>3. \A u \in Thread : \A i \in DOMAIN vecOpt[u] : Writes(u, i)' <=> Writes(u, i)
        BY <2>2 DEF Writes
    <2>4. \A k : WrittenByReplay(k) => WrittenByReplay(k)'
        BY <2>2, <2>3 DEF WrittenByReplay
    <2>5. CASE db' = db /\ (Writes(t, n) => "write" \in Faults)
        <3>1. Whole'
            BY <1>1, <2>4, <2>5 DEF Whole
        <3>2. NothingMissing'
            BY <1>1, <2>2, <2>3, <2>5 DEF NothingMissing
        <3> QED
            BY <3>1, <3>2
    <2>6. CASE /\ Writes(t, n)
               /\ DOMAIN db' = DOMAIN db \cup {Operand(t)}
               /\ \A k \in DOMAIN db' : db'[k] = IF k = Operand(t) THEN Record(k) ELSE db[k]
        <3>1. PICK x : x = Operand(t)
            OBVIOUS
        <3>2. x = GeneratorKv(vecOpt[t][n].skew)
            BY <2>1, <3>1 DEF Operand
        <3>3. \A k \in DOMAIN db' : db'[k] = Record(k) /\ WrittenByReplay(k)'
            <4>1. WrittenByReplay(x)'
                <5>1. n \in DOMAIN vecOpt'[t] /\ Writes(t, n)' /\ Performed(t, n)'
                    BY <2>2, <2>3, <2>6
                <5>2. x = GeneratorKv(vecOpt'[t][n].skew)
                    BY <2>2, <3>2
                <5> QED
                    BY <5>1, <5>2 DEF WrittenByReplay
            <4>2. ASSUME NEW k \in DOMAIN db', k # x PROVE k \in DOMAIN db /\ db'[k] = db[k]
                BY <2>6, <3>1, <4>2
            <4>3. ASSUME NEW k \in DOMAIN db' PROVE db'[k] = Record(k) /\ WrittenByReplay(k)'
                <5>1. CASE k = x
                    BY <2>6, <3>1, <4>1, <5>1
                <5>2. CASE k # x
                    BY <1>1, <2>4, <4>2, <5>2 DEF Whole
                <5> QED
                    BY <5>1, <5>2
            <4> QED
                BY <4>3
        <3>4. Whole'
            BY <3>3 DEF Whole
        <3>5. NothingMissing'
            BY <1>1, <2>2, <2>3, <2>6, <3>1, <3>2 DEF NothingMissing
        <3> QED
            BY <3>4, <3>5
    <2>7. CASE ReplayPut(t)
        <3>1. Writes(t, n)
            BY <2>1, <2>7 DEF ReplayPut, At, Writes
        <3> QED
            BY <2>5, <2>6, <2>7, <3>1, PutLeaves
    <2>8. CASE ReplayRead(t) \/ ReplayScan(t)
        BY <2>1, <2>5, <2>8, NoPut
    <2> QED
        BY <1>2, <2>7, <2>8 DEF Replay
<1>3. CASE ~ \E t \in Thread : Replay(t)
    <2>1. db' = db
        <3>1. PICK t \in Thread : TRUE
            BY SlotType
        <3> QED
            BY <1>3, <3>1, OthersPerformNothing
    <2>2. ASSUME NEW t \in Thread, NEW i \in DOMAIN vecOpt'[t], Performed(t, i)'
          PROVE  i \in DOMAIN vecOpt[t]
        BY <1>3, <2>2, OthersPerformNothing
    <2>3. ASSUME NEW t \in Thread, NEW i \in DOMAIN vecOpt[t]
          PROVE  /\ i \in DOMAIN vecOpt'[t] /\ vecOpt'[t][i] = vecOpt[t][i]
                 /\ Performed(t, i)' <=> Performed(t, i)
                 /\ Writes(t, i)' <=> Writes(t, i)
        <3>1. /\ i \in DOMAIN vecOpt'[t] /\ vecOpt'[t][i] = vecOpt[t][i]
              /\ Performed(t, i)' <=> Performed(t, i)
            BY <1>3, OthersPerformNothing
        <3> QED
            BY <3>1 DEF Writes
    <2>4. Whole'
        BY <1>1, <2>1, <2>3 DEF Whole, WrittenByReplay
    <2>5. NothingMissing'
        BY <1>1, <2>1, <2>2, <2>3 DEF NothingMissing
    <2> QED
        BY <2>4, <2>5
<1> QED
    BY <1>2, <1>3
-----------------------------------------------------------------------------
(***************************************************************************)
(* Reads of keys that the load wrote do not return.                        *)
(***************************************************************************)
\* A READ of the run file at the i-th place of a vector; a write of the load
\* file; that no write of the load file has the key of the i-th operation.
RunRead(t, i) == vecOpt[t][i].type = "READ" /\ vecOpt[t][i].from[1] = 2

LoadWrite(u, l) == Writes(u, l) /\ vecOpt[u][l].from[1] = 1

NotLoaded(t, i) ==
    \A u \in Thread : \A l \in DOMAIN vecOpt[u] :
        LoadWrite(u, l) => GeneratorKv(vecOpt[u][l].skew) # GeneratorKv(vecOpt[t][i].skew)

NoneCounted == \A t \in Thread : cnt[t]["readOk"] = 0

AllMissed ==
    Faults = {} => \A t \in Thread : \A i \in 1 .. pos[t] : RunRead(t, i) => NotLoaded(t, i)

LEMMA HitParts == HitsAreFatal <=> NoneCounted /\ AllMissed
    BY DEF HitsAreFatal, NoneCounted, AllMissed, RunRead, LoadWrite, NotLoaded

LEMMA InitHits == Init => HitsAreFatal
<1> SUFFICES ASSUME Init PROVE NoneCounted /\ AllMissed
    BY HitParts
<1>1. NoneCounted
    BY DEF Init, NoCounts, Counter, NoneCounted
<1>2. \A t \in Thread : pos[t] = 0
    BY DEF Init
<1>3. 1 .. 0 = {}
    OBVIOUS
<1> QED
    BY <1>1, <1>2, <1>3 DEF AllMissed

\* No step counts a READ as a hit.
LEMMA NextCounted ==
    TypeOK /\ InPhase /\ EachOnceInOrder /\ StoreIsReplay /\ NoneCounted /\ [Next]_vars
        => NoneCounted'
<1> SUFFICES ASSUME TypeOK, InPhase, EachOnceInOrder, StoreIsReplay, NoneCounted, [Next]_vars
             PROVE  NoneCounted'
    OBVIOUS
<1>1. cnt \in [Thread -> [Counter -> Nat]] /\ "readOk" \in Counter
    BY DEF TypeOK, Counter
<1>2. ASSUME NEW t \in Thread, NEW cs, "readOk" \notin cs, Count(t, cs) PROVE NoneCounted'
    BY <1>1, <1>2 DEF Count, NoneCounted
<1>3. ASSUME NEW t \in Thread, ReplayPut(t) PROVE NoneCounted'
    <2>1. Count(t, {"insert"}) \/ Count(t, {"update"})
        BY <1>3 DEF ReplayPut
    <2> QED
        BY <1>2, <2>1
<1>4. ASSUME NEW t \in Thread, ReplayRead(t) PROVE NoneCounted'
    BY <1>2, <1>4, ReadMisses
<1>5. ASSUME NEW t \in Thread, ReplayScan(t) PROVE NoneCounted'
    BY <1>5 DEF ReplayScan, NoneCounted
<1>6. CASE ~ \E t \in Thread : Replay(t)
    BY <1>6, OthersPerformNothing DEF NoneCounted
<1> QED
    BY <1>3, <1>4, <1>5, <1>6 DEF Replay

\* When the run file is replayed, the whole load is in the store.
LEMMA LoadIsStored ==
    ASSUME StoreIsReplay, "write" \notin Faults, phase = 2,
           NEW u \in Thread, NEW l \in DOMAIN vecOpt[u], LoadWrite(u, l)
    PROVE  GeneratorKv(vecOpt[u][l].skew) \in DOMAIN db
<1>1. Writes(u, l) /\ Performed(u, l)
    BY DEF LoadWrite, Performed
<1> QED
    BY <1>1 DEF StoreIsReplay

LEMMA NextMissed ==
    TypeOK /\ InPhase /\ EachOnceInOrder /\ StoreIsReplay /\ AllMissed /\ [Next]_vars => AllMissed'
<1> SUFFICES ASSUME TypeOK, InPhase, EachOnceInOrder, StoreIsReplay, AllMissed, [Next]_vars,
                    Faults = {}, NEW t \in Thread, NEW i \in 1 .. pos'[t], RunRead(t, i)'
             PROVE  NotLoaded(t, i)'
    BY DEF AllMissed
<1>0. /\ pos[t] \in Nat /\ pos[t] <= Len(vecOpt[t]) /\ Len(vecOpt[t]) \in Nat
      /\ DOMAIN vecOpt[t] = 1 .. Len(vecOpt[t]) /\ phase \in {1, 2}
    BY Vectors DEF InPhase, ThreadInPhase
<1>1. CASE \E s \in Thread : Replay(s)
    <2>1. PICK s \in Thread : Replay(s)
        BY <1>1
    <2>2. vecOpt' = vecOpt /\ RunRead(t, i)
        BY <2>1, ReplayPerforms DEF RunRead
    <2>3. NotLoaded(t, i)' <=> NotLoaded(t, i)
        BY <2>2 DEF NotLoaded, LoadWrite, Writes
    <2>4. CASE i \in 1 .. pos[t]
        BY <2>2, <2>3, <2>4 DEF AllMissed
    <2>5. CASE i \notin 1 .. pos[t]
        <3>1. t = s /\ i = pos[t] + 1 /\ i \in DOMAIN vecOpt[t]
            <4>1. t = s
                BY <2>1, <2>5, ReplayPerforms
            <4>2. pos'[t] = pos[t] + 1 /\ pos[t] + 1 \in DOMAIN vecOpt[t]
                BY <2>1, <4>1, ReplayPerforms
            <4>3. i = pos[t] + 1
                BY <1>0, <2>5, <4>2
            <4> QED
                BY <4>1, <4>2, <4>3
        <3>2. ReplayRead(t)
            BY <2>1, <2>2, <3>1 DEF Replay, ReplayPut, ReplayScan, At, RunRead
        <3>3. GeneratorKv(vecOpt[t][i].skew) \notin DOMAIN db
            <4>1. Operand(t) \notin DOMAIN db
                BY <3>2, ReadMisses
            <4> QED
                BY <3>1, <4>1 DEF Operand
        <3>4. phase = 2
            <4>1. vecOpt[t][i].from[1] <= phase /\ vecOpt[t][i].from[1] = 2
                BY <2>2, <3>1, FromPast DEF RunRead
            <4> QED
                BY <1>0, <4>1
        <3>5. NotLoaded(t, i)
            BY <3>3, <3>4, LoadIsStored DEF NotLoaded
        <3> QED
            BY <2>3, <3>5
    <2> QED
        BY <2>4, <2>5
<1>2. CASE ~ \E s \in Thread : Replay(s)
    <2>1. i \in 1 .. pos[t] /\ i \in DOMAIN vecOpt[t]
        <3>1. pos'[t] \in {0, pos[t]}
            BY <1>2, OthersPerformNothing
        <3> QED
            BY <1>0, <3>1
    <2>2. vecOpt'[t][i] = vecOpt[t][i]
        BY <1>2, <2>1, OthersPerformNothing
    <2>3. RunRead(t, i)
        BY <2>2 DEF RunRead
    <2>4. NotLoaded(t, i) /\ phase = 2
        <3>1. NotLoaded(t, i)
            BY <2>1, <2>3 DEF AllMissed
        <3>2. vecOpt[t][i].from[1] <= phase /\ vecOpt[t][i].from[1] = 2
            BY <2>1, <2>3, FromPast DEF RunRead
        <3> QED
            BY <1>0, <3>1, <3>2
    <2>5. ASSUME NEW u \in Thread, NEW l \in DOMAIN vecOpt'[u], LoadWrite(u, l)'
          PROVE  l \in DOMAIN vecOpt[u] /\ vecOpt'[u][l] = vecOpt[u][l] /\ LoadWrite(u, l)
        <3>1. vecOpt'[u][l].from[1] = 1
            BY <2>5 DEF LoadWrite
        <3>2. l \in DOMAIN vecOpt[u]
            BY <1>2, <2>4, <3>1, OthersPerformNothing
        <3>3. vecOpt'[u][l] = vecOpt[u][l]
            BY <1>2, <3>2, OthersPerformNothing
        <3> QED
            BY <2>5, <3>2, <3>3 DEF LoadWrite, Writes
    <2> QED
        BY <2>2, <2>4, <2>5 DEF NotLoaded
<1> QED
    BY <1>1, <1>2
-----------------------------------------------------------------------------
(***************************************************************************)
(* The theorems.                                                           *)
(***************************************************************************)
\* The inductive invariant: what has been read, which thread may run, what has
\* been performed, and what the store holds, each of which needs the others.
ReplayInv == TypeOK /\ InPhase /\ EachOnceInOrder /\ StoreIsReplay /\ NoneCounted /\ AllMissed

\* main, run_workload and run_thread never leave ReplayInv.
THEOREM Replaying == Spec => []ReplayInv
<1>1. Init => ReplayInv
    BY InitType, InitPhase, InitOrder, InitStore, InitHits, HitParts DEF ReplayInv
<1>2. ReplayInv /\ [Next]_vars => ReplayInv'
    BY NextType, NextPhase, NextOrder, NextStore, NextCounted, NextMissed DEF ReplayInv
<1> QED
    BY <1>1, <1>2, PTL DEF Spec

\* Every variable of the replayer keeps its type.
THEOREM ReplayTypeCorrect == Spec => []TypeOK
<1>1. ReplayInv => TypeOK
    BY DEF ReplayInv
<1> QED
    BY <1>1, Replaying, PTL

\* run_workload: the joins keep the loops of the two phases apart.
THEOREM PhasesApart == Spec => []InPhase
<1>1. ReplayInv => InPhase
    BY DEF ReplayInv
<1> QED
    BY <1>1, Replaying, PTL

\* read_ycsb_file: each operation of the trace is dealt to one thread, once and
\* in the order of the file.
THEOREM DealtOnce == Spec => []EachOnceInOrder
<1>1. ReplayInv => EachOnceInOrder
    BY DEF ReplayInv
<1> QED
    BY <1>1, Replaying, PTL

\* run_thread: the store holds what the operations performed so far wrote,
\* whatever the order of the threads.
THEOREM StoreFollowsTrace == Spec => []StoreIsReplay
<1>1. ReplayInv => StoreIsReplay
    BY DEF ReplayInv
<1> QED
    BY <1>1, Replaying, PTL

\* run_thread: a READ that returns has missed, so none of a loaded key returns.
THEOREM HitsKill == Spec => []HitsAreFatal
<1>1. ReplayInv => HitsAreFatal
    BY HitParts DEF ReplayInv
<1> QED
    BY <1>1, Replaying, PTL
-----------------------------------------------------------------------------
(***************************************************************************)
(* Keys.                                                                   *)
(***************************************************************************)
\* The digits of a key that fits are followed by NUL only, and NUL is no digit:
\* the record tells the length of its key.
LEMMA SameLength ==
    ASSUME NEW s \in Seq(Nat \ {0}), NEW r \in Seq(Nat \ {0}),
           Len(s) <= KeySize, Len(r) <= KeySize, GeneratorKv(s) = GeneratorKv(r)
    PROVE  ~(Len(s) < Len(r))
<1> SUFFICES ASSUME Len(s) < Len(r) PROVE FALSE
    OBVIOUS
<1> DEFINE n == Len(s) + 1
<1>1. n \in 1 .. KeySize /\ n \in 1 .. Len(r) /\ ~(n <= Len(s))
    OBVIOUS
<1>2. GeneratorKv(s)[n] = 0
    BY <1>1 DEF GeneratorKv
<1>3. GeneratorKv(r)[n] = r[n]
    BY <1>1 DEF GeneratorKv
<1>4. r[n] \in Nat \ {0}
    BY <1>1
<1> QED
    BY <1>2, <1>3, <1>4

LEMMA TextOfKey ==
    ASSUME NEW s \in Seq(Nat \ {0}), NEW r \in Seq(Nat \ {0}),
           Len(s) <= KeySize, Len(r) <= KeySize, GeneratorKv(s) = GeneratorKv(r)
    PROVE  s = r
<1>1. Len(s) = Len(r)
    BY SameLength
<1>2. ASSUME NEW n \in 1 .. Len(s) PROVE s[n] = r[n]
    <2>1. n \in 1 .. KeySize
        OBVIOUS
    <2>2. GeneratorKv(s)[n] = s[n]
        BY <2>1 DEF GeneratorKv
    <2>3. GeneratorKv(r)[n] = r[n]
        BY <1>1, <2>1 DEF GeneratorKv
    <2> QED
        BY <2>2, <2>3
<1> QED
    BY <1>1, <1>2

\* generator_kv: two keys that fit are cut nowhere, and get records of their own.
THEOREM TextsApart == Spec => []TextsKeepApart
<1>1. TypeOK => TextsKeepApart
    <2> SUFFICES ASSUME TypeOK, NEW t \in Thread, NEW u \in Thread,
                        NEW i \in DOMAIN vecOpt[t], NEW j \in DOMAIN vecOpt[u]
                 PROVE  LET s == vecOpt[t][i].skew
                            r == vecOpt[u][j].skew
                        IN  Len(s) <= KeySize /\ Len(r) <= KeySize /\ GeneratorKv(s) = GeneratorKv(r)
                            => s = r
        BY DEF TextsKeepApart
    <2>1. vecOpt[t] \in Seq(OperatorType) /\ vecOpt[u] \in Seq(OperatorType)
        BY DEF TypeOK
    <2>2. vecOpt[t][i] \in OperatorType /\ vecOpt[u][j] \in OperatorType
        BY <2>1
    <2>3. vecOpt[t][i].skew \in Seq(Nat \ {0}) /\ vecOpt[u][j].skew \in Seq(Nat \ {0})
        BY <2>2 DEF OperatorType
    <2> QED
        BY <2>3, TextOfKey
<1> QED
    BY <1>1, ReplayTypeCorrect, PTL
-----------------------------------------------------------------------------
(***************************************************************************)
(* The counters, and what they add up to.                                  *)
(***************************************************************************)
LEMMA CountedNames ==
    /\ DOMAIN Counted = {"insert", "update", "read"}
    /\ \A c \in DOMAIN Counted : c \in Counter /\ Counted[c] \in {"INSERT", "UPDATE", "READ"}
    /\ Counted["insert"] = "INSERT" /\ Counted["update"] = "UPDATE" /\ Counted["read"] = "READ"
<1>1. DOMAIN Counted = {"insert", "update", "read"}
    BY DEF Counted
<1>2. Counted["insert"] = "INSERT" /\ Counted["update"] = "UPDATE" /\ Counted["read"] = "READ"
    BY DEF Counted
<1> QED
    BY <1>1, <1>2 DEF Counter

LEMMA ReplaysFinite ==
    ASSUME TypeOK, NEW t \in Thread, NEW kind
    PROVE  IsFiniteSet(Replays(t, kind))
<1>1. pos[t] \in Nat
    BY DEF TypeOK
<1>2. IsFiniteSet(1 .. pos[t])
    BY <1>1, FS_Interval
<1>3. Replays(t, kind) \in SUBSET (1 .. pos[t])
    BY DEF Replays
<1> QED
    BY <1>2, <1>3, FS_Subset

\* Nothing replayed is nothing counted.
LEMMA NoReplays ==
    ASSUME NEW S, S = {}
    PROVE  Cardinality(S) = 0
    BY FS_EmptySet

LEMMA InitCounts == Init => CountsMatch
<1> SUFFICES ASSUME Init, NEW t \in Thread, NEW c \in DOMAIN Counted
             PROVE  cnt[t][c] = Cardinality(Replays(t, Counted[c]))
    BY DEF CountsMatch
<1>1. cnt[t][c] = 0
    BY CountedNames DEF Init, NoCounts
<1>2. Replays(t, Counted[c]) = {}
    BY DEF Init, Replays
<1> QED
    BY <1>1, <1>2, NoReplays

\* A thread that is neither started nor replays anything keeps its count.
LEMMA CountStays ==
    ASSUME TypeOK, CountsMatch, NEW t \in Thread, NEW c \in DOMAIN Counted,
           cnt'[t] = cnt[t], pos'[t] = pos[t],
           \A i \in 1 .. pos[t] : vecOpt'[t][i] = vecOpt[t][i]
    PROVE  cnt'[t][c] = Cardinality(Replays(t, Counted[c])')
<1>1. Replays(t, Counted[c])' = Replays(t, Counted[c])
    <2>1. Counted' = Counted
        BY DEF Counted
    <2> QED
        BY <2>1 DEF Replays
<1> QED
    BY <1>1 DEF CountsMatch

\* One more operation of a type is one more counted.
LEMMA CountGrows ==
    ASSUME TypeOK, CountsMatch, NEW t \in Thread, NEW c \in DOMAIN Counted,
           pos[t] + 1 \in DOMAIN vecOpt[t], pos'[t] = pos[t] + 1, vecOpt' = vecOpt,
           cnt'[t][c] = IF vecOpt[t][pos[t] + 1].type = Counted[c] THEN cnt[t][c] + 1 ELSE cnt[t][c]
    PROVE  cnt'[t][c] = Cardinality(Replays(t, Counted[c])')
<1> DEFINE n == pos[t] + 1
           S == Replays(t, Counted[c])
<1>0. pos[t] \in Nat /\ Counted' = Counted
    BY DEF TypeOK, Counted
<1>1. n \notin S
    BY <1>0 DEF Replays
<1>2. IsFiniteSet(S) /\ cnt[t][c] = Cardinality(S)
    BY ReplaysFinite DEF CountsMatch
<1>3. CASE vecOpt[t][n].type = Counted[c]
    <2>1. Replays(t, Counted[c])' = S \cup {n}
        BY <1>0, <1>3 DEF Replays
    <2> HIDE DEF S
    <2>2. Cardinality(S \cup {n}) = Cardinality(S) + 1
        BY <1>1, <1>2, FS_AddElement, Zenon
    <2>3. cnt'[t][c] = cnt[t][c] + 1
        BY <1>3
    <2>4. Cardinality(Replays(t, Counted[c])') = Cardinality(S \cup {n})
        BY <2>1, Zenon
    <2> QED
        BY <1>2, <2>2, <2>3, <2>4
<1>4. CASE vecOpt[t][n].type # Counted[c]
    <2>1. Replays(t, Counted[c])' = S
        BY <1>0, <1>4 DEF Replays
    <2> QED
        BY <1>2, <1>4, <2>1
<1> QED
    BY <1>3, <1>4

\* What Count does to the counters.
LEMMA CountAdds ==
    ASSUME TypeOK, NEW t \in Thread, NEW cs, Count(t, cs)
    PROVE  /\ \A u \in Thread : u # t => cnt'[u] = cnt[u]
           /\ \A c \in Counter : cnt'[t][c] = IF c \in cs THEN cnt[t][c] + 1 ELSE cnt[t][c]
    BY DEF Count, TypeOK

\* An operation is counted under its type, a SCAN under none.
LEMMA ReplayCounts ==
    ASSUME TypeOK, NEW t \in Thread, ReplayPut(t) \/ ReplayRead(t) \/ ReplayScan(t)
    PROVE  /\ pos[t] + 1 \in DOMAIN vecOpt[t] /\ vecOpt' = vecOpt
           /\ pos'[t] = pos[t] + 1
           /\ \A u \in Thread : u # t => pos'[u] = pos[u] /\ cnt'[u] = cnt[u]
           /\ \A c \in DOMAIN Counted :
                cnt'[t][c] = IF vecOpt[t][pos[t] + 1].type = Counted[c] THEN cnt[t][c] + 1
                             ELSE cnt[t][c]
<1> DEFINE type == vecOpt[t][pos[t] + 1].type
<1>1. /\ vecOpt' = vecOpt /\ Replayed(t)
      /\ At(t, {"INSERT", "UPDATE", "READ", "SCAN"})
    BY DEF ReplayPut, ReplayRead, ReplayScan, At
<1>2. pos[t] + 1 \in DOMAIN vecOpt[t]
    BY <1>1, CurrentOperator
<1>3. pos'[t] = pos[t] + 1 /\ \A u \in Thread : u # t => pos'[u] = pos[u]
    BY <1>1 DEF Replayed, TypeOK
<1>4. CASE ReplayPut(t)
    <2>1. type \in {"INSERT", "UPDATE"}
        BY <1>4 DEF ReplayPut, At
    <2>2. Count(t, IF type = "INSERT" THEN {"insert"} ELSE {"update"})
        BY <1>4 DEF ReplayPut
    <2>3. \A u \in Thread : u # t => cnt'[u] = cnt[u]
        BY <2>2, CountAdds
    <2>4. \A c \in Counter : cnt'[t][c] = IF c \in (IF type = "INSERT" THEN {"insert"} ELSE {"update"})
                                          THEN cnt[t][c] + 1 ELSE cnt[t][c]
        BY <2>2, CountAdds
    <2> QED
        BY <1>1, <1>2, <1>3, <2>1, <2>3, <2>4, CountedNames DEF Counter
<1>5. CASE ReplayRead(t)
    <2>1. type = "READ"
        BY <1>5 DEF ReplayRead, At
    <2>2. PICK cs : Count(t, cs) /\ cs \in {{"read"}, {"read", "readOk"}}
        BY <1>5 DEF ReplayRead
    <2>3. \A u \in Thread : u # t => cnt'[u] = cnt[u]
        BY <2>2, CountAdds
    <2>4. \A c \in Counter : cnt'[t][c] = IF c \in cs THEN cnt[t][c] + 1 ELSE cnt[t][c]
        BY <2>2, CountAdds
    <2>5. \A c \in DOMAIN Counted : c \in cs <=> c = "read"
        BY <2>2, CountedNames
    <2> QED
        BY <1>1, <1>2, <1>3, <2>1, <2>3, <2>4, <2>5, CountedNames DEF Counter
<1>6. CASE ReplayScan(t)
    <2>1. type = "SCAN" /\ cnt' = cnt
        BY <1>6 DEF ReplayScan, At
    <2>2. \A c \in DOMAIN Counted : type # Counted[c]
        BY <2>1, CountedNames
    <2> QED
        BY <1>1, <1>2, <1>3, <2>1, <2>2
<1> QED
    BY <1>4, <1>5, <1>6

LEMMA NextCounts == TypeOK /\ InPhase /\ CountsMatch /\ [Next]_vars => CountsMatch'
<1> SUFFICES ASSUME TypeOK, InPhase, CountsMatch, [Next]_vars,
                    NEW t \in Thread, NEW c \in DOMAIN Counted
             PROVE  cnt'[t][c] = Cardinality(Replays(t, Counted[c])')
    BY DEF CountsMatch, Counted
<1>0. pos[t] \in Nat /\ Len(vecOpt[t]) \in Nat /\ DOMAIN vecOpt[t] = 1 .. Len(vecOpt[t])
      /\ pos[t] <= Len(vecOpt[t])
    BY Vectors DEF InPhase, ThreadInPhase
<1>1. CASE ReadWord
    <2>1. \A i \in DOMAIN vecOpt[t] : vecOpt'[t][i] = vecOpt[t][i]
        BY <1>1, ReadAppends
    <2>2. \A i \in 1 .. pos[t] : vecOpt'[t][i] = vecOpt[t][i]
        BY <1>0, <2>1
    <2> QED
        BY <1>1, <2>2, CountStays DEF ReadWord
<1>2. CASE Spawn
    <2>1. /\ mi \in Thread /\ vecOpt' = vecOpt
          /\ pos' = [pos EXCEPT ![mi] = 0] /\ cnt' = [cnt EXCEPT ![mi] = NoCounts]
          /\ pos \in [Thread -> Nat] /\ cnt \in [Thread -> [Counter -> Nat]]
        BY <1>2 DEF Spawn, TypeOK
    <2>2. CASE t = mi
        <3>1. pos'[t] = 0 /\ cnt'[t] = NoCounts
            BY <2>1, <2>2
        <3>2. cnt'[t][c] = 0
            BY <3>1, CountedNames DEF NoCounts
        <3>3. Replays(t, Counted[c])' = {}
            BY <3>1 DEF Replays
        <3> QED
            BY <3>2, <3>3, NoReplays
    <2>3. CASE t # mi
        <3>1. pos'[t] = pos[t] /\ cnt'[t] = cnt[t]
            BY <2>1, <2>3
        <3> QED
            BY <2>1, <3>1, CountStays
    <2> QED
        BY <2>2, <2>3
<1>3. ASSUME NEW u \in Thread, ReplayPut(u) \/ ReplayRead(u) \/ ReplayScan(u)
      PROVE  cnt'[t][c] = Cardinality(Replays(t, Counted[c])')
    <2>1. CASE u = t
        BY <1>3, <2>1, ReplayCounts, CountGrows
    <2>2. CASE u # t
        BY <1>3, <2>2, ReplayCounts, CountStays
    <2> QED
        BY <2>1, <2>2
<1>4. CASE UNCHANGED <<vecOpt, pos, cnt>>
    BY <1>4, CountStays
<1>5. \/ ReadWord \/ Spawn \/ UNCHANGED <<vecOpt, pos, cnt>>
      \/ \E u \in Thread : ReplayPut(u) \/ ReplayRead(u) \/ ReplayScan(u)
    BY DEF Next, MainStep, ThreadStep, EndOfFile, Join, JoinLast, ReadIsFatal, Finish, Terminated, vars
<1> QED
    BY <1>1, <1>2, <1>3, <1>4, <1>5
\* What the counters rest on, too.
CountInv == ReplayInv /\ CountsMatch

\* run_thread: the counters tell what has been replayed, at any time.
THEOREM CountsKept == Spec => []CountInv
<1>1. Init => CountInv
    BY InitType, InitPhase, InitOrder, InitStore, InitHits, HitParts, InitCounts DEF ReplayInv, CountInv
<1>2. CountInv /\ [Next]_vars => CountInv'
    BY NextType, NextPhase, NextOrder, NextStore, NextCounted, NextMissed, NextCounts
       DEF ReplayInv, CountInv
<1> QED
    BY <1>1, <1>2, PTL DEF Spec

\* The operations of a type that the trace has for thread t.
Part(t, kind) == {x \in InTrace(kind) : Slot(x[2] - 1) = t}

LEMMA InTraceFinite ==
    ASSUME TypeOK, NEW kind
    PROVE  IsFiniteSet(InTrace(kind))
<1> DEFINE n == 1 + Len(trace[1].words) + Len(trace[2].words)
<1>0. phase \in {1, 2} /\ Len(trace[1].words) \in Nat /\ Len(trace[2].words) \in Nat
    BY Vectors
<1>1. n \in Int /\ phase \in Int /\ 1 \in Int
    BY <1>0
<1> HIDE DEF n
<1>2. IsFiniteSet(1 .. phase) /\ IsFiniteSet(1 .. n)
    BY <1>1, FS_Interval
<1>3. IsFiniteSet((1 .. phase) \X (1 .. n))
    BY <1>2, FS_Product
<1>4. InTrace(kind) \in SUBSET ((1 .. phase) \X (1 .. n))
    BY DEF InTrace, n
<1> QED
    BY <1>3, <1>4, FS_Subset

\* The operations of a type in a vector that has been replayed to its end are
\* those the trace has for the thread, one for one.
LEMMA PartReplayed ==
    ASSUME TypeOK, EachOnceInOrder, NEW t \in Thread, pos[t] = Len(vecOpt[t]), NEW kind \in Kind,
           main = "closed"
    PROVE  Cardinality(Replays(t, kind)) = Cardinality(Part(t, kind))
<1> DEFINE R == Replays(t, kind)
           P == Part(t, kind)
           f == [i \in R |-> vecOpt[t][i].from]
<1>0. /\ DOMAIN vecOpt[t] = 1 .. pos[t] /\ pos[t] \in Nat
      /\ \A i \in DOMAIN vecOpt[t] : vecOpt[t][i] \in OperatorType
      /\ phase \in {1, 2} /\ Len(trace[1].words) \in Nat /\ Len(trace[2].words) \in Nat
    BY Vectors
<1>1. ASSUME NEW i \in DOMAIN vecOpt[t]
      PROVE  \E p \in {1, 2} : \E n \in 1 .. Len(trace[p].words) :
                /\ Taken(p, n) /\ t = Slot(n - 1) /\ vecOpt[t][i].from = <<p, n>>
                /\ vecOpt[t][i].type = trace[p].words[n].word
    <2>1. PICK p \in {1, 2} : \E n \in 1 .. Len(trace[p].words) :
                Taken(p, n) /\ vecOpt[t][i] = Operator(p, n) /\ t = Slot(n - 1)
        BY DEF EachOnceInOrder
    <2>2. PICK n \in 1 .. Len(trace[p].words) :
                Taken(p, n) /\ vecOpt[t][i] = Operator(p, n) /\ t = Slot(n - 1)
        BY <2>1
    <2>3. vecOpt[t][i].from = <<p, n>> /\ vecOpt[t][i].type = trace[p].words[n].word
        BY <2>2 DEF Operator
    <2> QED
        BY <2>2, <2>3
<1>2. ASSUME NEW p \in {1, 2}, NEW n \in 1 .. Len(trace[p].words), Taken(p, n),
             trace[p].words[n].word = kind
      PROVE  <<p, n>> \in InTrace(kind)
    <2>1. p \in 1 .. phase
        BY <1>0, <1>2 DEF Taken
    <2>2. n \in 1 .. 1 + Len(trace[1].words) + Len(trace[2].words)
        <3> DEFINE a == Len(trace[1].words)
                   b == Len(trace[2].words)
                   l == Len(trace[p].words)
        <3>1. a \in Nat /\ b \in Nat /\ n \in 1 .. l
            BY <1>0, <1>2
        <3>2. l = a \/ l = b
            BY <1>2
        <3> HIDE DEF a, b, l
        <3>3. n \in 1 .. 1 + a + b
            BY <3>1, <3>2
        <3> QED
            BY <3>3 DEF a, b
    <2> QED
        BY <1>2, <2>1, <2>2 DEF InTrace
<1>3. f \in [R -> P]
    <2> SUFFICES ASSUME NEW i \in R PROVE vecOpt[t][i].from \in P
        OBVIOUS
    <2>1. i \in DOMAIN vecOpt[t] /\ vecOpt[t][i].type = kind
        BY <1>0 DEF Replays
    <2>2. PICK p \in {1, 2} : \E n \in 1 .. Len(trace[p].words) :
                /\ Taken(p, n) /\ t = Slot(n - 1) /\ vecOpt[t][i].from = <<p, n>>
                /\ vecOpt[t][i].type = trace[p].words[n].word
        BY <1>1, <2>1
    <2>3. PICK n \in 1 .. Len(trace[p].words) :
                /\ Taken(p, n) /\ t = Slot(n - 1) /\ vecOpt[t][i].from = <<p, n>>
                /\ vecOpt[t][i].type = trace[p].words[n].word
        BY <2>2
    <2>4. <<p, n>> \in InTrace(kind)
        BY <1>2, <2>1, <2>3
    <2> QED
        BY <2>3, <2>4 DEF Part
<1>4. ASSUME NEW i \in R, NEW j \in R, f[i] = f[j] PROVE i = j
    <2>1. i \in DOMAIN vecOpt[t] /\ j \in DOMAIN vecOpt[t] /\ i \in Nat /\ j \in Nat
        BY <1>0 DEF Replays
    <2>2. vecOpt[t][i].from = vecOpt[t][j].from /\ vecOpt[t][i].from \in Origins
        BY <1>0, <1>4, <2>1 DEF OperatorType
    <2>3. ~Before(vecOpt[t][i].from, vecOpt[t][i].from)
        BY <2>2 DEF Before, Origins
    <2>4. ~(i < j) /\ ~(j < i)
        BY <2>1, <2>2, <2>3 DEF EachOnceInOrder
    <2> QED
        BY <2>1, <2>4
<1>5. ASSUME NEW x \in P PROVE \E i \in R : f[i] = x
    <2>1. /\ x \in InTrace(kind) /\ Slot(x[2] - 1) = t
        BY DEF Part
    <2>2. PICK p, n : x = <<p, n>> /\ Taken(p, n) /\ trace[p].words[n].word = kind
        BY <2>1 DEF InTrace
    <2>3. p \in {1, 2} /\ n \in 1 .. Len(trace[p].words) /\ Slot(n - 1) = t
        BY <2>1, <2>2 DEF Taken
    <2>4. PICK i \in DOMAIN vecOpt[t] : vecOpt[t][i].from = <<p, n>>
        BY <2>2, <2>3 DEF EachOnceInOrder
    <2>5. vecOpt[t][i].type = kind
        BY <1>1, <2>2, <2>4
    <2>6. i \in R
        BY <1>0, <2>4, <2>5 DEF Replays
    <2> QED
        BY <2>2, <2>4, <2>6
<1>6. f \in Bijection(R, P)
    <2> HIDE DEF R, P, f
    <2>1. f \in Injection(R, P)
        BY <1>3, <1>4 DEF Injection, IsInjective
    <2>2. f \in Surjection(R, P)
        BY <1>3, <1>5 DEF Surjection
    <2> QED
        BY <2>1, <2>2 DEF Bijection
<1>7. IsFiniteSet(R)
    BY ReplaysFinite
<1> HIDE DEF R, P, f
<1>8. ExistsBijection(R, P)
    BY <1>6 DEF ExistsBijection
<1>9. Cardinality(P) = Cardinality(R)
    BY <1>7, <1>8, FS_Bijection
<1> QED
    BY <1>9 DEF R, P

\* When all threads have finished, a counter of all of them is the number of
\* operations of its type in the trace.
LEMMA TotalIs ==
    ASSUME CountInv, main = "closed", NEW c \in DOMAIN Counted
    PROVE  Total(c) = Cardinality(InTrace(Counted[c]))
<1> DEFINE kind == Counted[c]
           A == [t \in Thread |-> Part(t, kind)]
<1>1. TypeOK /\ EachOnceInOrder /\ InPhase /\ CountsMatch
    BY DEF CountInv, ReplayInv
<1>2. kind \in Kind
    BY CountedNames DEF Kind
<1>3. ASSUME NEW t \in Thread PROVE cnt[t][c] = Cardinality(A[t])
    <2>1. pos[t] = Len(vecOpt[t])
        BY <1>1 DEF InPhase, ThreadInPhase, Spawned
    <2>2. cnt[t][c] = Cardinality(Replays(t, kind))
        BY <1>1 DEF CountsMatch
    <2> HIDE DEF kind
    <2>3. Cardinality(Replays(t, kind)) = Cardinality(Part(t, kind))
        BY <1>1, <1>2, <2>1, PartReplayed
    <2> QED
        BY <2>2, <2>3
<1>4. UNION {A[t] : t \in Thread} = InTrace(kind)
    <2>1. ASSUME NEW x \in InTrace(kind) PROVE Slot(x[2] - 1) \in Thread
        <3>1. x[2] - 1 \in Nat
            BY DEF InTrace
        <3> QED
            BY <3>1, SlotType
    <2> QED
        BY <2>1 DEF Part
<1>5. \A t \in Thread : IsFiniteSet(A[t])
    <2> SUFFICES ASSUME NEW t \in Thread PROVE IsFiniteSet(Part(t, kind))
        OBVIOUS
    <2>1. IsFiniteSet(InTrace(kind))
        BY <1>1, InTraceFinite
    <2>2. Part(t, kind) \in SUBSET InTrace(kind)
        BY DEF Part
    <2> QED
        BY <2>1, <2>2, FS_Subset
<1>6. \A t, u \in Thread : t # u => A[t] \cap A[u] = {}
    BY DEF Part
<1>7. IsFiniteSet(Thread)
    <2>1. 0 \in Int /\ NumThread - 1 \in Int
        OBVIOUS
    <2>2. IsFiniteSet(0 .. NumThread - 1)
        BY <2>1, FS_Interval
    <2> QED
        BY <2>2
<1>8. [t \in Thread |-> cnt[t][c]] = [t \in Thread |-> Cardinality(A[t])]
    BY <1>3
<1> HIDE DEF A, kind, Thread
<1>12. Apart(Thread, A)
    BY <1>5, <1>6 DEF Apart
<1>9. SumFunction([t \in Thread |-> Cardinality(A[t])]) = Cardinality(UNION {A[t] : t \in Thread})
    BY <1>7, <1>12, SumOfParts, Zenon
<1>10. Total(c) = SumFunction([t \in Thread |-> Cardinality(A[t])])
    BY <1>8, Zenon DEF Total
<1>11. Cardinality(UNION {A[t] : t \in Thread}) = Cardinality(InTrace(kind))
    BY <1>4, Zenon
<1> QED
    BY <1>9, <1>10, <1>11 DEF kind

\* run_workload: the counts printed after the last join are those of the trace.
THEOREM CountsCover == Spec => []CountsCoverTrace
<1>1. CountInv => CountsCoverTrace
    BY TotalIs, CountedNames DEF CountsCoverTrace
<1> QED
    BY <1>1, CountsKept, PTL
=============================================================================
