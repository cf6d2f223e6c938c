----------------------------- MODULE YcsbSizing -----------------------------
(***************************************************************************)
(* The arithmetic by which benchmark/ycsb turns a command line into work:  *)
(* how many keys there are (main.cc, start_workload), which slice of them  *)
(* a thread's YCSB object covers (ycsb.h), which operations a workload     *)
(* issues, and how many of them a thread performs (WorkloadGenerator::Run).*)
(*                                                                         *)
(* A job is one invocation of the tester: --btype, --zipf, --dbsize,       *)
(* --psize and --num_thread.  testsize stands for psize * dbsize, any      *)
(* number since psize is an arbitrary double.  Sizes are in bytes.         *)
(***************************************************************************)
EXTENDS Naturals, Integers

CONSTANTS ValueLength,   \* --value_length, the same for every job of a campaign
          MaxThreads,    \* 32, the size of the arrays of threads and benchmarks
          IntMax,        \* 2^31 - 1, the largest value of the int thread_param_t::count
          Percent        \* 100, the sides of the die that chooses an operation

ASSUME SizingAssumption ==
    /\ ValueLength \in Nat \ {0}
    /\ MaxThreads \in Nat \ {0}
    /\ IntMax \in Nat
    /\ Percent \in Nat \ {0}

Thread == 0 .. MaxThreads - 1

BTypes == {"warmup", "write", "ycsb-a", "ycsb-b", "ycsb-c", "ycsb-d", "ycsb-e", "ycsb-f"}

Ops == {"PUT", "UPDATE", "GET", "DELETE", "SCAN", "RMW"}

\* The invocations that run: a database of at least one value, since
\* uniform_next divides by the number of items.
Job == {j \in [btype : BTypes, zipf : BOOLEAN, dbsize : Nat, testsize : Nat,
               threads : 1 .. MaxThreads] : j.dbsize >= ValueLength}

IsWarmup(j) == j.btype = "warmup"

WorkloadSize(j) == IF IsWarmup(j) THEN j.dbsize ELSE j.testsize

KeyRange(j) == j.dbsize \div ValueLength          \* _range

EachRange(j) == KeyRange(j) \div j.threads        \* _each_range

\* Mutations: _key_base never advances; it advances by the whole range.
BaseKeyStays(j, t) == 1
BaseKeyByRange(j, t) == IF IsWarmup(j) THEN 1 + t * KeyRange(j) ELSE 1

\* _key_base advances by _each_range per thread in a warm up, else it stays 1.
BaseKey(j, t) == IF IsWarmup(j) THEN 1 + t * EachRange(j) ELSE 1

\* A warm up passes the end of the slice where the constructor takes its
\* length; SEQ keys do not depend on it.
YcsbRange(j, t) ==
    IF IsWarmup(j) THEN BaseKey(j, t) + EachRange(j) ELSE KeyRange(j)

\* init_zipf_generator(1, key_range_) sets a static shared by all threads:
\* the object constructed last decides it.
Items(j) == YcsbRange(j, j.threads - 1)

\* Mutation: sequential_key_id_++ for ++sequential_key_id_.
KeyChoicesPostIncrement(j, t, seq) ==
    IF IsWarmup(j) THEN {BaseKey(j, t) + seq}
    ELSE IF j.zipf THEN {BaseKey(j, t) + z : z \in 1 .. Items(j)}
    ELSE {BaseKey(j, t) + u : u \in 0 .. Items(j) - 1}

\* The keys get_kv_pair can return, given how many it has returned so far:
\* zipf_next yields 1..items, uniform_next 0..items-1.
KeyChoices(j, t, seq) ==
    IF IsWarmup(j) THEN {BaseKey(j, t) + seq + 1}
    ELSE IF j.zipf THEN {BaseKey(j, t) + z : z \in 1 .. Items(j)}
    ELSE {BaseKey(j, t) + u : u \in 0 .. Items(j) - 1}

\* random_get_put: what a roll of the die makes of a workload.
RandomGetPut(btype, roll) ==
    LET reaches(share) == roll >= (share * Percent) \div 100
    IN  CASE btype \in {"warmup", "write"}    -> "PUT"
          [] btype = "ycsb-a"                 -> IF reaches(50) THEN "UPDATE" ELSE "GET"
          [] btype \in {"ycsb-b", "ycsb-d"}   -> IF reaches(95) THEN "UPDATE" ELSE "GET"
          [] btype = "ycsb-c"                 -> "GET"
          [] btype = "ycsb-e"                 -> IF reaches(95) THEN "PUT" ELSE "SCAN"
          [] btype = "ycsb-f"                 -> IF reaches(50) THEN "RMW" ELSE "GET"

\* The die is uniform_next() % 100: with fewer items than sides it cannot show
\* its highest numbers.
OpChoices(j) == {RandomGetPut(j.btype, u % Percent) : u \in 0 .. Items(j) - 1}

\* uint64_t to int: the value modulo 2^32, in two's complement.
ToInt(n) ==
    LET span == 2 * (IntMax + 1)
        low  == n % span
    IN  IF low <= IntMax THEN low ELSE low - span

\* start_workload divides by the number of threads, and so does Run.
DataSize(j) == WorkloadSize(j) \div j.threads

OpCount(j) == ToInt(DataSize(j) \div (ValueLength * j.threads))
=============================================================================
