----------------------------- MODULE DbAdapter -----------------------------
(***************************************************************************)
(* The six adapters behind kv_benchmark::DB (include/db.h): leveldb,       *)
(* rocksdb, silk, matrixkv, novelsm and pebblesdb.  An adapter keeps no    *)
(* state of its own besides the handle of the underlying store, so a call  *)
(* is an operator from the contents of the store, the key and the caller's *)
(* value buffer to the set of its possible outcomes.                       *)
(*                                                                         *)
(* The store is a function from the keys it holds to values.  Of a value   *)
(* only two things are kept: the eight byte head, which every benchmark    *)
(* sets to the number of the key, and the length.                          *)
(***************************************************************************)
EXTENDS Naturals

CONSTANT Faults  \* the kinds of call the underlying store may fail with an error

ASSUME FaultsAssumption == Faults \subseteq {"read", "write"}

Value == [head : Nat, len : Nat]

Backends == {"leveldb", "rocksdb", "silk", "matrixkv", "novelsm", "pebblesdb"}

\* The underlying store holds v under k, whatever it held before.
Stored(d, k, v) == [x \in DOMAIN d \cup {k} |-> IF x = k THEN v ELSE d[x]]

Removed(d, k) == [x \in DOMAIN d \ {k} |-> d[x]]

\* value_length = _value.size(); memcpy(value, _value.data(), value_length):
\* nothing is copied out of an empty string, the caller's bytes stay.
\* Mutations: the miss also clears the caller's bytes; it reports length -1.
EmptiedAndCleared(buf) == [head |-> 0, len |-> 0]
EmptiedToMinusOne(buf) == [head |-> buf.head, len |-> 0 - 1]

Emptied(buf) == [head |-> buf.head, len |-> 0]

CopyOut(v, buf) == IF v.len = 0 THEN Emptied(buf) ELSE v

\* A call the store refuses returns a status that is not OK; whether the
\* write reached the log is not known to the caller.
PutOutcomes(d, k, v) ==
    {[db |-> Stored(d, k, v), ok |-> TRUE]} \cup
    (IF "write" \in Faults THEN {[db |-> e, ok |-> FALSE] : e \in {d, Stored(d, k, v)}} ELSE {})

\* Every adapter's Update is its Put under another name.
UpdateOutcomes(d, k, v) == PutOutcomes(d, k, v)

\* On a miss _value stays empty: the length becomes 0, the buffer is kept.
GetOutcomes(d, k, buf) ==
    (IF k \in DOMAIN d THEN {[buf |-> CopyOut(d[k], buf), ok |-> TRUE]} ELSE {}) \cup
    (IF "read" \in Faults \/ k \notin DOMAIN d
     THEN {[buf |-> Emptied(buf), ok |-> FALSE]} ELSE {})

\* Mutation: every adapter that has no Delete claims success.
DeleteClaimed(backend, d, k) == {[db |-> d, ok |-> TRUE]}

\* Three adapters forward Delete; two refuse it; novelsm claims success.
DeleteOutcomes(backend, d, k) ==
    IF backend \in {"rocksdb", "silk", "matrixkv"}
    THEN {[db |-> Removed(d, k), ok |-> TRUE]} \cup
         (IF "write" \in Faults THEN {[db |-> e, ok |-> FALSE] : e \in {d, Removed(d, k)}} ELSE {})
    ELSE {[db |-> d, ok |-> backend = "novelsm"]}
=============================================================================
