------------------------- MODULE TailLatencyProofs -------------------------
(***************************************************************************)
(* The windows of TailLatency and the tails of its lines, for all files,   *)
(* intervals and factors.                                                  *)
(***************************************************************************)
EXTENDS TailLatency, Counting, SequenceTheorems

\* Division, in a context with nothing else in it.
LEMMA Division ==
    ASSUME NEW a \in Nat, NEW d \in Nat \ {0}
    PROVE  a = d * (a \div d) + (a % d) /\ a % d \in 0 .. d - 1 /\ a \div d \in Int
    BY SMT

\* One less of a product.
LEMMA OneLess ==
    ASSUME NEW d \in Nat \ {0}, NEW c \in Nat \ {0}
    PROVE  /\ d * (c - 1) = d * c - d
           /\ d * (c - 1) >= 0 /\ d * (c - 1) \in Int /\ d * c \in Int
<1>1. c - 1 \in Nat
    BY SMT
<1>2. d * (c - 1) >= 0
    BY <1>1, SMT
<1> QED
    BY <1>2, SMT

\* A quotient is known by its remainder.
LEMMA QuotientFrom ==
    ASSUME NEW a \in Nat, NEW d \in Nat \ {0}, NEW q \in Nat, NEW r \in 0 .. d - 1,
           a = d * q + r
    PROVE  a \div d = q
<1> DEFINE p == a \div d
<1>1. a = d * p + (a % d) /\ a % d \in 0 .. d - 1 /\ p \in Int
    BY Division
<1> HIDE DEF p
<1>2. ~(p > q)
    <2> SUFFICES ASSUME p >= q + 1 PROVE FALSE
        BY <1>1, SMT
    <2>1. d * (p - (q + 1)) >= 0
        BY <1>1, SMT
    <2>2. d * (p - (q + 1)) = d * p - d * q - d
        BY <1>1, SMT
    <2> QED
        BY <1>1, <2>1, <2>2, SMT
<1>3. ~(p < q)
    <2> SUFFICES ASSUME q >= p + 1 PROVE FALSE
        BY <1>1, SMT
    <2>1. d * (q - (p + 1)) >= 0
        BY <1>1, SMT
    <2>2. d * (q - (p + 1)) = d * q - d * p - d
        BY <1>1, SMT
    <2> QED
        BY <1>1, <2>1, <2>2, SMT
<1> QED
    BY <1>1, <1>2, <1>3, SMT DEF p

\* A window closes with every latency whose index is a multiple of interval, and
\* with no other.
LEMMA ClosedNext ==
    ASSUME NEW n \in Nat, interval \in Nat \ {0}
    PROVE  /\ Closed(n) \in Nat /\ (n > 0 => Closed(n) > 0) /\ (n = 0 => Closed(n) = 0)
           /\ n % interval = 0 => interval * Closed(n) = n /\ Closed(n + 1) = Closed(n) + 1
           /\ n % interval # 0 => Closed(n + 1) = Closed(n)
<1> DEFINE q == n \div interval
           r == n % interval
<1>1. n = interval * q + r /\ r \in 0 .. interval - 1 /\ q \in Int
    BY Division
<1> HIDE DEF q, r
<1>2. q \in Nat
    <2> SUFFICES ASSUME q <= -1 PROVE FALSE
        BY <1>1, SMT
    <2>1. interval * (-1 - q) >= 0
        BY <1>1, SMT
    <2>2. interval * (-1 - q) = -interval - interval * q
        BY <1>1, SMT
    <2> QED
        BY <1>1, <2>1, <2>2, SMT
<1>3. interval * (q + 1) = interval * q + interval
    BY <1>2, SMT
<1>4. Closed(n + 1) = q + 1
    <2>1. n + 1 + interval - 1 = interval * (q + 1) + r /\ n + 1 + interval - 1 \in Nat
        BY <1>1, <1>3, SMT
    <2> QED
        BY <1>1, <1>2, <2>1, QuotientFrom DEF Closed
<1>5. CASE r = 0
    <2>1. n + interval - 1 = interval * q + (interval - 1)
        BY <1>1, <1>5, SMT
    <2>2. n + interval - 1 \in Nat /\ interval - 1 \in 0 .. interval - 1
        BY SMT
    <2>3. Closed(n) = q
        BY <1>2, <2>1, <2>2, QuotientFrom DEF Closed
    <2>4. q = 0 => interval * q = 0
        BY SMT
    <2>5. q > 0 => interval * q > 0
        <3> SUFFICES ASSUME q > 0 PROVE interval * q > 0
            OBVIOUS
        <3>1. interval * (q - 1) >= 0
            BY <1>2, SMT
        <3>2. interval * (q - 1) = interval * q - interval
            BY <1>2, SMT
        <3> QED
            BY <1>2, <3>1, <3>2, SMT
    <2> QED
        BY <1>1, <1>2, <1>4, <1>5, <2>3, <2>4, <2>5, SMT DEF r
<1>6. CASE r # 0
    <2>1. n + interval - 1 = interval * (q + 1) + (r - 1) /\ r - 1 \in 0 .. interval - 1
        BY <1>1, <1>3, <1>6, SMT
    <2>2. n + interval - 1 \in Nat /\ q + 1 \in Nat
        BY <1>2, SMT
    <2>3. Closed(n) = q + 1
        BY <1>2, <2>1, <2>2, QuotientFrom DEF Closed
    <2>4. n # 0
        BY <1>1, <1>2, <1>6, SMT DEF r
    <2> QED
        BY <1>2, <1>4, <1>6, <2>3, <2>4, SMT DEF r
<1> QED
    BY <1>5, <1>6

\* A table of n rows and one more.
LEMMA AppendRow ==
    ASSUME NEW n \in Nat, NEW f, NEW x, f = [k \in 1 .. n |-> f[k]]
    PROVE  /\ Len(f) = n /\ DOMAIN f = 1 .. n
           /\ Append(f, x) = [k \in 1 .. n + 1 |-> IF k = n + 1 THEN x ELSE f[k]]
<1> DEFINE S == {f[k] : k \in 1 .. n} \cup {x}
<1>1. f \in Seq(S) /\ x \in S
    <2>1. f \in [1 .. n -> S]
        OBVIOUS
    <2> QED
        BY <2>1, SMT
<1>2. DOMAIN f = 1 .. n
    OBVIOUS
<1> HIDE DEF S
<1>3. Len(f) = n
    BY <1>1, <1>2, SMT
<1>4. Append(f, x) \in Seq(S) /\ Len(Append(f, x)) = n + 1
    BY <1>1, <1>3, SMT
<1>5. \A k \in 1 .. n + 1 : Append(f, x)[k] = IF k = n + 1 THEN x ELSE f[k]
    BY <1>1, <1>3, SMT
<1>6. Append(f, x) = [k \in 1 .. n + 1 |-> Append(f, x)[k]]
    BY <1>4, SMT
<1> QED
    BY <1>2, <1>3, <1>5, <1>6
-----------------------------------------------------------------------------
\* Where the window that has not closed begins when n latencies have been read.
Begin(n) == IF n = 0 THEN 1 ELSE interval * (Closed(n) - 1) + 2

Lines(s) ==
    [k \in 1 .. Closed(Len(input)) |-> <<interval * (k - 1), Summary(Window(k), Windowed[s])>>]

TypeInv ==
    /\ input \in Files /\ interval \in Intervals
    /\ stage \in 1 .. Len(Windowed) + 2

\* Inside a call: vec_tmp is the window that has not closed, vec_tail_latency
\* has those that have, and the file is as it was read.
HandlerInv ==
    stage <= Len(Windowed) =>
        /\ vec = input
        /\ i \in 0 .. Len(input)
        /\ tmp = SubSeq(input, Begin(i), i)
        /\ tail = [k \in 1 .. Closed(i) |-> Summary(Window(k), Windowed[stage])]

OutInv == out = [s \in 1 .. (IF stage > Len(Windowed) THEN Len(Windowed) ELSE stage - 1) |-> Lines(s)]

WindowInv == TypeInv /\ HandlerInv /\ OutInv

\* What the assumptions say of the file and the interval.
LEMMA Given ==
    ASSUME TypeInv
    PROVE  /\ input \in Seq(Nat) /\ Len(input) \in Nat /\ input # <<>>
           /\ interval \in Nat \ {0}
           /\ Len(Windowed) \in Nat
    BY TailLatencyAssumption DEF TypeInv

\* Nothing has been read, and no window has closed.
LEMMA NothingRead ==
    ASSUME TypeInv
    PROVE  SubSeq(input, Begin(0), 0) = <<>> /\ 1 .. Closed(0) = {}
<1>1. Closed(0) = 0
    BY Given, ClosedNext
<1>2. SubSeq(input, 1, 0) = <<>>
    BY Given, SMT
<1> QED
    BY <1>1, <1>2 DEF Begin

LEMMA EmptyTable ==
    ASSUME NEW f, DOMAIN f = {}, f = [k \in DOMAIN f |-> f[k]]
    PROVE  f = <<>>
<1>1. f \in [1 .. 0 -> {}]
    BY SMT
<1>2. f \in Seq({}) /\ Len(f) = 0
    BY <1>1, SMT
<1> QED
    BY <1>2, SMT

LEMMA InitWindows == Init => WindowInv
<1> SUFFICES ASSUME Init PROVE WindowInv
    OBVIOUS
<1>1. TypeInv
    BY TailLatencyAssumption, SMT DEF Init, TypeInv
<1>2. HandlerInv
    <2>1. [k \in 1 .. Closed(0) |-> Summary(Window(k), Windowed[stage])] = <<>>
        BY <1>1, NothingRead, EmptyTable
    <2>2. i = 0 /\ tmp = <<>> /\ tail = <<>> /\ vec = input
        BY DEF Init
    <2>3. 0 \in 0 .. Len(input)
        BY <1>1, Given, SMT
    <2> QED
        BY <1>1, <2>1, <2>2, <2>3, NothingRead DEF HandlerInv
<1>3. OutInv
    <2>1. (IF stage > Len(Windowed) THEN Len(Windowed) ELSE stage - 1) = 0
        BY <1>1, Given, SMT DEF Init
    <2>2. [s \in 1 .. 0 |-> Lines(s)] = <<>>
        <3>1. 1 .. 0 = {}
            BY SMT
        <3> QED
            BY <3>1, EmptyTable
    <2> QED
        BY <2>1, <2>2 DEF Init, OutInv
<1> QED
    BY <1>1, <1>2, <1>3 DEF WindowInv
-----------------------------------------------------------------------------
\* The window of latency i grows by it.
LEMMA WindowGrows ==
    ASSUME TypeInv, i \in 0 .. Len(input) - 1
    PROVE  Append(SubSeq(input, Begin(i), i), input[i + 1]) = SubSeq(input, Begin(i), i + 1)
<1>1. Begin(i) \in 1 .. i + 1
    <2>1. CASE i = 0
        BY <2>1, SMT DEF Begin
    <2>2. CASE i # 0
        <3> DEFINE c == Closed(i)
        <3>0. i \in Nat /\ i > 0
            BY <2>2, Given, SMT
        <3>1. c \in Nat /\ c > 0
            BY <3>0, Given, ClosedNext
        <3>2. interval * (c - 1) + 2 <= i + 1 /\ interval * (c - 1) >= 0
            <4>1. c = (i + interval - 1) \div interval
                BY DEF Closed
            <4> HIDE DEF c
            <4>2. interval * c <= i + interval - 1
                <5> DEFINE a == i + interval - 1
                <5>1. a \in Nat /\ interval \in Nat \ {0}
                    BY Given, SMT
                <5> HIDE DEF a
                <5>2. a = interval * (a \div interval) + (a % interval)
                      /\ a % interval \in 0 .. interval - 1 /\ a \div interval \in Int
                    BY <5>1, Division
                <5> QED
                    BY <4>1, <5>1, <5>2, SMT DEF a
            <4>3. interval \in Nat \ {0}
                BY Given
            <4>4. /\ interval * (c - 1) = interval * c - interval /\ interval * (c - 1) >= 0
                  /\ interval * (c - 1) \in Int /\ interval * c \in Int
                BY <3>1, <4>3, OneLess
            <4> QED
                BY <3>0, <4>2, <4>3, <4>4, SMT
        <3>3. interval * (c - 1) \in Int
            BY <3>1, Given, OneLess
        <3> HIDE DEF c
        <3>4. interval * (c - 1) + 2 \in 1 .. i + 1
            BY <3>2, <3>3, SMT
        <3> QED
            BY <2>2, <3>4 DEF Begin, c
    <2> QED
        BY <2>1, <2>2
<1> DEFINE b == Begin(i)
<1> HIDE DEF b
<1>2. \A n \in 1 .. i + 1 :
        Append(SubSeq(input, n, i), input[i + 1]) = SubSeq(input, n, i + 1)
    BY Given, SMT
<1> QED
    BY <1>1, <1>2

LEMMA PushWindows ==
    ASSUME WindowInv, Push
    PROVE  WindowInv'
<1>1. TypeInv /\ HandlerInv /\ OutInv
    BY DEF WindowInv
<1>2. i \in 0 .. Len(input) - 1 /\ i \in Nat /\ stage <= Len(Windowed) /\ vec = input
    BY <1>1, Given, SMT DEF Push, Handling, HandlerInv
<1>3. Closed(i + 1) = Closed(i) /\ i # 0 /\ i + 1 # 0 /\ i + 1 \in 0 .. Len(input)
    <2>1. i % interval # 0
        BY DEF Push
    <2>2. i = 0 => i % interval = 0
        BY <1>1, Given, SMT
    <2> QED
        BY <1>1, <1>2, <2>1, <2>2, Given, ClosedNext, SMT
<1>4. Begin(i + 1) = Begin(i)
    BY <1>3 DEF Begin
<1>5. tmp' = SubSeq(input, Begin(i + 1), i + 1)
    BY <1>1, <1>2, <1>4, WindowGrows DEF Push, HandlerInv
<1>6. UNCHANGED <<input, interval, vec, stage, tail, out>> /\ i' = i + 1
    BY DEF Push
<1>7. TypeInv'
    BY <1>1, <1>6 DEF TypeInv
<1>8. HandlerInv'
    <2>1. tail = [k \in 1 .. Closed(i + 1) |-> Summary(Window(k), Windowed[stage])]
        BY <1>1, <1>2, <1>3 DEF HandlerInv
    <2> QED
        BY <1>2, <1>3, <1>5, <1>6, <2>1 DEF HandlerInv, Begin, Closed, Window
<1>9. OutInv'
    BY <1>1, <1>6 DEF OutInv, Lines, Closed, Window
<1> QED
    BY <1>7, <1>8, <1>9 DEF WindowInv

LEMMA CloseWindows ==
    ASSUME WindowInv, Close
    PROVE  WindowInv'
<1>1. TypeInv /\ HandlerInv /\ OutInv
    BY DEF WindowInv
<1>2. i \in 0 .. Len(input) - 1 /\ i \in Nat /\ stage <= Len(Windowed) /\ vec = input
    BY <1>1, Given, SMT DEF Close, Handling, HandlerInv
<1> DEFINE c == Closed(i)
<1>3. /\ c \in Nat /\ (i > 0 => c > 0) /\ (i = 0 => c = 0)
      /\ Closed(i + 1) = c + 1 /\ interval * c = i
      /\ i + 1 \in 0 .. Len(input) /\ i + 1 # 0
    <2>1. i % interval = 0
        BY DEF Close
    <2> QED
        BY <1>1, <1>2, <2>1, Given, ClosedNext, SMT
<1> HIDE DEF c
<1>4. UNCHANGED <<input, interval, vec, stage, out>> /\ i' = i + 1
    BY DEF Close
\* The window that closes is the next one.
<1>5. Append(tmp, vec[i + 1]) = Window(c + 1)
    <2>1. Append(tmp, vec[i + 1]) = SubSeq(input, Begin(i), i + 1)
        BY <1>1, <1>2, WindowGrows DEF HandlerInv
    <2>2. CASE i = 0
        BY <1>3, <2>1, <2>2, SMT DEF Window, Begin
    <2>3. CASE i # 0
        <3>1. c + 1 # 1 /\ (c + 1) - 2 = c - 1 /\ (c + 1) - 1 = c
            BY <1>2, <1>3, <2>3, SMT
        <3>2. Begin(i) = interval * (c - 1) + 2
            BY <2>3 DEF Begin, c
        <3> QED
            BY <1>3, <2>1, <3>1, <3>2 DEF Window
    <2> QED
        BY <2>2, <2>3
<1>6. tail' = [k \in 1 .. Closed(i + 1) |-> Summary(Window(k), Windowed[stage])]
    <2>1. tail = [k \in 1 .. c |-> Summary(Window(k), Windowed[stage])]
        BY <1>1, <1>2 DEF HandlerInv, c
    <2>2. tail = [k \in 1 .. c |-> tail[k]] /\ \A k \in 1 .. c : tail[k] = Summary(Window(k), Windowed[stage])
        BY <2>1
    <2>3. tail' = [k \in 1 .. c + 1 |->
                    IF k = c + 1 THEN Summary(Window(c + 1), Windowed[stage]) ELSE tail[k]]
        BY <1>3, <1>5, <2>2, AppendRow DEF Close
    <2>4. \A k \in 1 .. c + 1 : k = c + 1 \/ k \in 1 .. c
        BY <1>3, SMT
    <2>5. \A k \in 1 .. c + 1 :
            (IF k = c + 1 THEN Summary(Window(c + 1), Windowed[stage]) ELSE tail[k])
            = Summary(Window(k), Windowed[stage])
        BY <2>2, <2>4
    <2> QED
        BY <1>3, <2>3, <2>5
<1>7. tmp' = SubSeq(input, Begin(i + 1), i + 1)
    <2>1. Begin(i + 1) = i + 2
        <3>1. (c + 1) - 1 = c
            BY <1>3, SMT
        <3> QED
            BY <1>3, <3>1 DEF Begin
    <2>2. SubSeq(input, i + 2, i + 1) = <<>>
        BY <1>1, <1>2, Given, SMT
    <2> QED
        BY <2>1, <2>2 DEF Close
<1>8. TypeInv'
    BY <1>1, <1>4 DEF TypeInv
<1>9. HandlerInv'
    BY <1>2, <1>3, <1>4, <1>6, <1>7 DEF HandlerInv, Begin, Closed, Window
<1>10. OutInv'
    BY <1>1, <1>4 DEF OutInv, Lines, Closed, Window
<1> QED
    BY <1>8, <1>9, <1>10 DEF WindowInv

LEMMA OutputWindows ==
    ASSUME WindowInv, Output
    PROVE  WindowInv'
<1>1. TypeInv /\ HandlerInv /\ OutInv
    BY DEF WindowInv
<1>2. /\ stage \in 1 .. Len(Windowed) /\ stage - 1 \in Nat /\ stage + 1 \in 1 .. Len(Windowed) + 2
      /\ vec = input /\ i = Len(input)
      /\ tail = [k \in 1 .. Closed(Len(input)) |-> Summary(Window(k), Windowed[stage])]
    BY <1>1, Given, SMT DEF Output, HandlerInv, TypeInv
<1>3. /\ UNCHANGED <<input, interval, vec>> /\ stage' = stage + 1
      /\ i' = 0 /\ tmp' = <<>> /\ tail' = <<>>
    BY DEF Output
<1>4. out' = [s \in 1 .. stage |-> Lines(s)]
    <2>1. [k \in DOMAIN tail |-> <<interval * (k - 1), tail[k]>>] = Lines(stage)
        BY <1>2 DEF Lines
    <2>2. out = [s \in 1 .. stage - 1 |-> Lines(s)]
        <3>1. (IF stage > Len(Windowed) THEN Len(Windowed) ELSE stage - 1) = stage - 1
            BY <1>1, <1>2, Given, SMT
        <3> QED
            BY <1>1, <3>1 DEF OutInv
    <2>3. out = [s \in 1 .. stage - 1 |-> out[s]] /\ \A s \in 1 .. stage - 1 : out[s] = Lines(s)
        BY <2>2
    <2>4. out' = [s \in 1 .. (stage - 1) + 1 |-> IF s = (stage - 1) + 1 THEN Lines(stage) ELSE out[s]]
        <3> DEFINE m == stage - 1
        <3>1. m \in Nat /\ out = [s \in 1 .. m |-> out[s]]
            BY <1>2, <2>3
        <3>2. out' = Append(out, Lines(stage))
            BY <2>1 DEF Output
        <3> HIDE DEF m
        <3>3. Append(out, Lines(stage)) =
                [s \in 1 .. m + 1 |-> IF s = m + 1 THEN Lines(stage) ELSE out[s]]
            BY <3>1, AppendRow
        <3> QED
            BY <3>2, <3>3 DEF m
    <2>5. (stage - 1) + 1 = stage /\ \A s \in 1 .. stage : s = stage \/ s \in 1 .. stage - 1
        BY <1>2, <1>1, Given, SMT
    <2>6. \A s \in 1 .. stage : (IF s = stage THEN Lines(stage) ELSE out[s]) = Lines(s)
        BY <2>3, <2>5
    <2> QED
        BY <2>4, <2>5, <2>6
<1>5. TypeInv'
    BY <1>1, <1>2, <1>3 DEF TypeInv
<1>6. HandlerInv'
    <2>1. SubSeq(input, Begin(0), 0) = <<>> /\ 1 .. Closed(0) = {}
        BY <1>1, NothingRead
    <2>2. [k \in 1 .. Closed(0) |-> Summary(Window(k), Windowed[stage + 1])] = <<>>
        BY <2>1, EmptyTable
    <2>3. 0 \in 0 .. Len(input)
        BY <1>1, Given, SMT
    <2> QED
        BY <1>2, <1>3, <2>1, <2>2, <2>3 DEF HandlerInv, Begin, Closed, Window
<1>7. OutInv'
    <2>1. (IF stage + 1 > Len(Windowed) THEN Len(Windowed) ELSE (stage + 1) - 1) = stage
        BY <1>1, <1>2, Given, SMT
    <2> QED
        BY <1>3, <1>4, <2>1 DEF OutInv, Lines, Closed, Window
<1> QED
    BY <1>5, <1>6, <1>7 DEF WindowInv

LEMMA TotalsWindows ==
    ASSUME WindowInv, Totals
    PROVE  WindowInv'
<1>1. TypeInv /\ HandlerInv /\ OutInv
    BY DEF WindowInv
<1>2. /\ UNCHANGED <<input, interval, out>> /\ stage = Len(Windowed) + 1
      /\ stage' = Len(Windowed) + 2 /\ Len(Windowed) \in Nat
    BY <1>1, Given, SMT DEF Totals
<1>3. /\ stage > Len(Windowed) /\ stage' > Len(Windowed) /\ ~(stage' <= Len(Windowed))
      /\ stage' \in 1 .. Len(Windowed) + 2
    BY <1>2, SMT
<1>4. TypeInv'
    BY <1>1, <1>2, <1>3 DEF TypeInv
<1>5. HandlerInv'
    BY <1>3 DEF HandlerInv
<1>6. OutInv'
    BY <1>1, <1>2, <1>3 DEF OutInv, Lines, Closed, Window
<1> QED
    BY <1>4, <1>5, <1>6 DEF WindowInv

\* WindowInv is an invariant.
THEOREM WindowsHold == Spec => []WindowInv
<1>1. WindowInv /\ [Next]_vars => WindowInv'
    <2> SUFFICES ASSUME WindowInv, [Next]_vars PROVE WindowInv'
        OBVIOUS
    <2>1. CASE UNCHANGED vars
        BY <2>1 DEF vars, WindowInv, TypeInv, HandlerInv, OutInv, Lines, Begin, Closed, Window
    <2>2. CASE Next
        BY <2>1, <2>2, PushWindows, CloseWindows, OutputWindows, TotalsWindows
           DEF Next, Terminated
    <2> QED
        BY <2>1, <2>2
<1> QED
    BY <1>1, InitWindows, PTL DEF Spec

\* The property the run checks: every line of every file is about the window its
\* label ends, for files, intervals and factors of any number and size.
THEOREM LinesMatchWindows == Spec => []WindowsAligned
<1>1. WindowInv => WindowsAligned
    <2> SUFFICES ASSUME WindowInv PROVE WindowsAligned
        OBVIOUS
    <2> DEFINE n == IF stage > Len(Windowed) THEN Len(Windowed) ELSE stage - 1
    <2>1. n \in Nat /\ TypeInv
        BY Given, SMT DEF WindowInv, TypeInv
    <2>2. out = [s \in 1 .. n |-> Lines(s)]
        BY DEF WindowInv, OutInv
    <2>3. out = [s \in 1 .. n |-> out[s]] /\ \A s \in 1 .. n : out[s] = Lines(s)
        BY <2>2
    <2>4. Len(out) = n /\ DOMAIN out = 1 .. n
        BY <2>1, <2>3, AppendRow
    <2>5. ASSUME NEW s \in 1 .. n
          PROVE  /\ Len(out[s]) = Closed(Len(input))
                 /\ \A k \in DOMAIN out[s] :
                        out[s][k] = <<interval * (k - 1), Summary(Window(k), Windowed[s])>>
        <3>1. Closed(Len(input)) \in Nat
            BY <2>1, Given, ClosedNext
        <3>2. out[s] = Lines(s) /\ Lines(s) = [k \in 1 .. Closed(Len(input)) |-> Lines(s)[k]]
            BY <2>3 DEF Lines
        <3>3. Len(Lines(s)) = Closed(Len(input))
            BY <3>1, <3>2, AppendRow
        <3> QED
            BY <3>2, <3>3 DEF Lines
    <2> QED
        BY <2>4, <2>5 DEF WindowsAligned
<1> QED
    BY <1>1, WindowsHold, PTL
-----------------------------------------------------------------------------
(***************************************************************************)
(* Sorting, and what a place in the sorted latencies says.                 *)
(***************************************************************************)
Ascending(s, p) == \A k, l \in DOMAIN s : k < l => s[p[k]] <= s[p[l]]

\* The places of s up to j, in the order of the latencies there.
UpTo(s, j) == {l \in DOMAIN s : s[l] < s[j] \/ (s[l] = s[j] /\ l <= j)}

LEMMA UpToSize ==
    ASSUME NEW s \in Seq(Nat), NEW j \in DOMAIN s
    PROVE  /\ IsFiniteSet(UpTo(s, j)) /\ Cardinality(UpTo(s, j)) \in DOMAIN s
<1>0. DOMAIN s = 1 .. Len(s) /\ Len(s) \in Nat
    OBVIOUS
<1>1. IsFiniteSet(DOMAIN s) /\ Cardinality(DOMAIN s) = Len(s)
    <2>1. 1 \in Int /\ Len(s) \in Int
        BY <1>0
    <2>2. IsFiniteSet(1 .. Len(s)) /\ Cardinality(1 .. Len(s)) = IF 1 > Len(s) THEN 0 ELSE Len(s) - 1 + 1
        BY <2>1, FS_Interval
    <2> QED
        BY <1>0, <2>2
<1>2. UpTo(s, j) \in SUBSET DOMAIN s
    BY DEF UpTo
<1>3. IsFiniteSet(UpTo(s, j)) /\ Cardinality(UpTo(s, j)) <= Len(s)
    BY <1>1, <1>2, FS_Subset
<1>4. Cardinality(UpTo(s, j)) \in Nat
    BY <1>3, FS_CardinalityType
<1>5. Cardinality(UpTo(s, j)) # 0
    <2>1. s[j] \in Nat /\ j \in Nat
        BY <1>0
    <2>2. j \in UpTo(s, j)
        BY <2>1 DEF UpTo
    <2>3. UpTo(s, j) # {}
        BY <2>2
    <2> QED
        BY <1>3, <2>3, FS_EmptySet
<1> QED
    BY <1>0, <1>3, <1>4, <1>5

\* A smaller latency, or an equal one before it, has the smaller rank.
LEMMA UpToGrows ==
    ASSUME NEW s \in Seq(Nat), NEW j \in DOMAIN s, NEW k \in DOMAIN s,
           s[j] < s[k] \/ (s[j] = s[k] /\ j < k)
    PROVE  Cardinality(UpTo(s, j)) < Cardinality(UpTo(s, k))
<1>0. \A l \in DOMAIN s : s[l] \in Nat /\ l \in Nat
    OBVIOUS
<1>1. UpTo(s, j) \in SUBSET UpTo(s, k)
    BY <1>0 DEF UpTo
<1>2. k \in UpTo(s, k) /\ k \notin UpTo(s, j)
    BY <1>0 DEF UpTo
<1>3. IsFiniteSet(UpTo(s, k)) /\ Cardinality(UpTo(s, k)) \in Nat /\ Cardinality(UpTo(s, j)) \in Nat
    BY UpToSize
<1>4. Cardinality(UpTo(s, j)) <= Cardinality(UpTo(s, k))
    BY <1>1, <1>3, FS_Subset
<1>5. Cardinality(UpTo(s, j)) # Cardinality(UpTo(s, k))
    BY <1>1, <1>2, <1>3, FS_Subset
<1> QED
    BY <1>3, <1>4, <1>5

\* The inverse of the ranks puts the latencies in order.
LEMMA OrderExists ==
    ASSUME NEW s \in Seq(Nat)
    PROVE  \E p \in Bijection(DOMAIN s, DOMAIN s) : Ascending(s, p)
<1> DEFINE D == DOMAIN s
           rank == [j \in D |-> Cardinality(UpTo(s, j))]
           p == [k \in D |-> CHOOSE j \in D : rank[j] = k]
<1>0. D = 1 .. Len(s) /\ Len(s) \in Nat /\ \A j \in D : s[j] \in Nat /\ j \in Nat
    OBVIOUS
<1>1. rank \in [D -> D]
    BY UpToSize
<1>2. ASSUME NEW j \in D, NEW k \in D, s[j] < s[k] \/ (s[j] = s[k] /\ j < k)
      PROVE  rank[j] < rank[k]
    <2>1. rank[j] = Cardinality(UpTo(s, j)) /\ rank[k] = Cardinality(UpTo(s, k))
        OBVIOUS
    <2> QED
        BY <1>2, <2>1, UpToGrows
<1> HIDE DEF rank
<1>3. \A j \in D : rank[j] \in Nat
    BY <1>0, <1>1
<1>4. ASSUME NEW j \in D, NEW k \in D, rank[j] = rank[k] PROVE j = k
    <2>1. ~(s[j] < s[k]) /\ ~(s[k] < s[j]) /\ ~(s[j] = s[k] /\ j < k) /\ ~(s[k] = s[j] /\ k < j)
        BY <1>2, <1>3, <1>4
    <2> QED
        BY <1>0, <2>1
<1>5. rank \in Injection(D, D)
    <2> HIDE DEF D
    <2> QED
        BY <1>1, <1>4 DEF Injection, IsInjective
<1>6. IsFiniteSet(D)
    <2>1. 1 \in Int /\ Len(s) \in Int
        BY <1>0
    <2>2. IsFiniteSet(1 .. Len(s))
        BY <2>1, FS_Interval
    <2> QED
        BY <1>0, <2>2
<1> HIDE DEF D
<1>7. rank \in Surjection(D, D)
    BY <1>5, <1>6, FS_Injection
<1>8. ASSUME NEW k \in D PROVE p[k] \in D /\ rank[p[k]] = k
    <2>1. \E j \in D : rank[j] = k
        BY <1>7 DEF Surjection
    <2> QED
        BY <2>1
<1> HIDE DEF p
<1>9. p \in [D -> D]
    BY <1>8 DEF p
<1>10. p \in Injection(D, D)
    BY <1>8, <1>9 DEF Injection, IsInjective
<1>11. p \in Surjection(D, D)
    <2> SUFFICES ASSUME NEW j \in D PROVE \E k \in D : p[k] = j
        BY <1>9 DEF Surjection
    <2>1. rank[j] \in D
        BY <1>1
    <2>2. p[rank[j]] \in D /\ rank[p[rank[j]]] = rank[j]
        BY <1>8, <2>1
    <2>3. p[rank[j]] = j
        BY <1>4, <2>2
    <2> QED
        BY <2>1, <2>3
<1>12. ASSUME NEW k \in D, NEW l \in D, k < l PROVE s[p[k]] <= s[p[l]]
    <2>1. p[k] \in D /\ p[l] \in D /\ rank[p[k]] = k /\ rank[p[l]] = l
        BY <1>8
    <2>2. s[p[k]] \in Nat /\ s[p[l]] \in Nat /\ k \in Nat /\ l \in Nat
        BY <1>0, <2>1
    <2>3. ~(s[p[l]] < s[p[k]])
        <3> SUFFICES ASSUME s[p[l]] < s[p[k]] PROVE FALSE
            OBVIOUS
        <3>1. rank[p[l]] < rank[p[k]]
            BY <1>2, <2>1
        <3> QED
            BY <1>12, <2>1, <2>2, <3>1
    <2> QED
        BY <2>2, <2>3
<1>13. p \in Bijection(D, D)
    BY <1>10, <1>11 DEF Bijection
<1> QED
    BY <1>12, <1>13 DEF Ascending, D
\* What sorting leaves, without saying in which order equal latencies come.
LEMMA SortedIs ==
    ASSUME NEW s \in Seq(Nat)
    PROVE  \E p \in Bijection(DOMAIN s, DOMAIN s) :
                Ascending(s, p) /\ Sorted(s) = [k \in DOMAIN s |-> s[p[k]]]
<1> DEFINE B == Bijection(DOMAIN s, DOMAIN s)
           order == CHOOSE p \in B : Ascending(s, p)
<1>1. \E p \in B : Ascending(s, p)
    BY OrderExists
<1>2. order \in B /\ Ascending(s, order)
    <2> HIDE DEF B
    <2> QED
        BY <1>1
<1>3. Sorted(s) = [k \in DOMAIN s |-> s[order[k]]]
    BY DEF Sorted, Ascending
<1> HIDE DEF order
<1> QED
    BY <1>2, <1>3

\* The places of the k smallest latencies.
Places(p, k) == {p[l] : l \in 1 .. k}

LEMMA FirstPlaces ==
    ASSUME NEW D, NEW p \in Bijection(D, D), NEW k \in Nat, 1 .. k \in SUBSET D
    PROVE  IsFiniteSet(Places(p, k)) /\ Cardinality(Places(p, k)) = k
<1>1. \A l, m \in 1 .. k : p[l] = p[m] => l = m
    BY DEF Bijection, Injection, IsInjective
<1> QED
    BY <1>1, ImageSize DEF Places

\* As many are smaller than the k-th as come before it at most, and as many are
\* not larger as come up to it at least.
LEMMA PlaceOf ==
    ASSUME NEW s \in Seq(Nat), NEW k \in DOMAIN s
    PROVE  /\ Cardinality({j \in DOMAIN s : s[j] < Sorted(s)[k]}) \in 0 .. k - 1
           /\ Cardinality({j \in DOMAIN s : s[j] <= Sorted(s)[k]}) \in Nat
           /\ Cardinality({j \in DOMAIN s : s[j] <= Sorted(s)[k]}) >= k
<1> DEFINE D == DOMAIN s
<1>1. PICK p \in Bijection(D, D) : Ascending(s, p) /\ Sorted(s) = [m \in D |-> s[p[m]]]
    BY SortedIs
<1>0. D = 1 .. Len(s) /\ Len(s) \in Nat /\ \A j \in D : s[j] \in Nat
    OBVIOUS
<1>2. k \in Nat /\ k - 1 \in Nat /\ 1 .. k \in SUBSET D /\ 1 .. k - 1 \in SUBSET D
    BY <1>0
<1>3. p \in [D -> D] /\ \A j \in D : \E m \in D : p[m] = j
    BY DEF Bijection, Surjection
<1>4. PICK v \in Nat : v = Sorted(s)[k] /\ v = s[p[k]]
    BY <1>0, <1>1, <1>3
<1> DEFINE Less == {j \in D : s[j] < v}
           AtMost == {j \in D : s[j] <= v}
           Q == Places(p, k)
           P == Places(p, k - 1)
<1>5. IsFiniteSet(D)
    <2>1. 1 \in Int /\ Len(s) \in Int
        BY <1>0
    <2>2. IsFiniteSet(1 .. Len(s))
        BY <2>1, FS_Interval
    <2> QED
        BY <1>0, <2>2
<1>6. Less \in SUBSET P
    <2> SUFFICES ASSUME NEW j \in D, s[j] < v PROVE j \in P
        OBVIOUS
    <2>1. PICK m \in D : p[m] = j
        BY <1>3
    <2>2. m \in Nat /\ s[p[m]] \in Nat
        BY <1>0, <2>1
    <2>3. ~(k < m)
        BY <1>1, <1>4, <2>1, <2>2 DEF Ascending
    <2>4. m # k
        BY <1>4, <2>1, <2>2
    <2>5. m \in 1 .. k - 1
        BY <1>0, <1>2, <2>2, <2>3, <2>4
    <2> QED
        BY <2>1, <2>5 DEF Places
<1>7. Q \in SUBSET AtMost
    <2> SUFFICES ASSUME NEW l \in 1 .. k PROVE p[l] \in D /\ s[p[l]] <= v
        BY DEF Places
    <2>1. l \in D /\ p[l] \in D /\ s[p[l]] \in Nat
        BY <1>0, <1>2, <1>3
    <2>2. CASE l = k
        BY <1>4, <2>1, <2>2
    <2>3. CASE l # k
        <3>1. l < k
            BY <1>2, <2>3
        <3> QED
            BY <1>1, <1>4, <2>1, <3>1 DEF Ascending
    <2> QED
        BY <2>2, <2>3
<1>8. IsFiniteSet(Q) /\ Cardinality(Q) = k /\ IsFiniteSet(P) /\ Cardinality(P) = k - 1
    <2> HIDE DEF D
    <2>0. p \in Bijection(D, D)
        BY <1>1
    <2>1. IsFiniteSet(Q) /\ Cardinality(Q) = k
        BY <2>0, <1>2, FirstPlaces
    <2>2. IsFiniteSet(P) /\ Cardinality(P) = k - 1
        BY <2>0, <1>2, FirstPlaces
    <2> QED
        BY <2>1, <2>2
<1>9. AtMost \in SUBSET D
    OBVIOUS
<1> HIDE DEF D, Less, AtMost, P, Q
<1>10. IsFiniteSet(Less) /\ Cardinality(Less) <= k - 1
    BY <1>6, <1>8, FS_Subset
<1>11. IsFiniteSet(AtMost)
    BY <1>5, <1>9, FS_Subset
<1>12. k <= Cardinality(AtMost)
    BY <1>7, <1>8, <1>11, FS_Subset
<1>13. Cardinality(Less) \in Nat /\ Cardinality(AtMost) \in Nat
    BY <1>10, <1>11, FS_CardinalityType
<1>14. /\ Cardinality(Less) \in 0 .. k - 1 /\ Cardinality(AtMost) \in Nat
       /\ Cardinality(AtMost) >= k
    BY <1>2, <1>10, <1>12, <1>13
<1> QED
    BY <1>4, <1>14 DEF Less, AtMost, D

\* Products with a denominator, apart from everything else.
LEMMA ProductBounds ==
    ASSUME NEW n \in Nat \ {0}, NEW num \in Nat, NEW den \in Nat \ {0}, num < den,
           NEW c \in Nat, NEW l \in Nat
    PROVE  LET idx == (n * num) \div den IN
           /\ idx \in 0 .. n - 1
           /\ c <= idx => c * den <= n * num
           /\ l >= idx + 1 => l * den > n * num
<1> DEFINE a == n * num
           idx == a \div den
<1>1. a \in Nat /\ a < n * den /\ n * den \in Nat
    <2>1. num * n <= (den - 1) * n
        BY TimesMonotone
    <2>2. num * n = n * num /\ (den - 1) * n = n * den - n /\ n * num \in Nat /\ n * den \in Nat
        BY SMT
    <2> QED
        BY <2>1, <2>2
<1> HIDE DEF a
<1>2. idx \in Nat /\ a % den \in 0 .. den - 1 /\ a = idx * den + (a % den)
    BY <1>1, Quotient
<1> HIDE DEF idx
<1>3. idx * den \in Nat
    BY <1>2, SMT
<1>4. idx < n
    <2> SUFFICES ASSUME n <= idx PROVE FALSE
        BY <1>2
    <2>1. n * den <= idx * den
        BY <1>2, TimesMonotone
    <2> QED
        BY <1>1, <1>2, <1>3, <2>1
<1>5. ASSUME c <= idx PROVE c * den <= a
    <2>1. c * den <= idx * den /\ c * den \in Nat
        BY <1>2, <1>5, TimesMonotone
    <2> QED
        BY <1>1, <1>2, <1>3, <2>1
<1>6. ASSUME l >= idx + 1 PROVE l * den > a
    <2>1. (idx + 1) * den <= l * den
        BY <1>2, <1>6, TimesMonotone
    <2>2. (idx + 1) * den = idx * den + den /\ l * den \in Nat
        BY <1>2, SMT
    <2> QED
        BY <1>1, <1>2, <1>3, <2>1, <2>2
<1> QED
    BY <1>2, <1>4, <1>5, <1>6 DEF idx, a

\* The latency chosen for a factor is at this factor.
LEMMA RankedIsAtFactor ==
    ASSUME NEW s \in Seq(Nat), s # <<>>, NEW p \in Fraction
    PROVE  AtFactor(Ranked(Sorted(s), p), s, p)
<1> DEFINE n == Len(s)
           idx == (n * p.num) \div p.den
           v == Sorted(s)[idx + 1]
           c == Cardinality({j \in DOMAIN s : s[j] < v})
           l == Cardinality({j \in DOMAIN s : s[j] <= v})
<1>0. n \in Nat \ {0} /\ DOMAIN s = 1 .. n
    OBVIOUS
<1>1. p.num \in Nat /\ p.den \in Nat \ {0} /\ p.num < p.den
    BY DEF Fraction
<1>2. Len(Sorted(s)) = n
    <2>1. PICK q \in Bijection(DOMAIN s, DOMAIN s) : Sorted(s) = [k \in DOMAIN s |-> s[q[k]]]
        BY SortedIs
    <2>2. \A k \in DOMAIN s : q[k] \in DOMAIN s
        BY DEF Bijection, Surjection
    <2>3. Sorted(s) \in [1 .. n -> Nat]
        BY <1>0, <2>1, <2>2
    <2> HIDE DEF n
    <2>4. n \in Nat
        BY <1>0
    <2> QED
        BY <2>3, <2>4
<1>3. Ranked(Sorted(s), p) = v
    BY <1>2 DEF Ranked
<1> HIDE DEF n
<1>5. idx \in 0 .. n - 1
    BY <1>0, <1>1, ProductBounds
<1>6. PICK k \in DOMAIN s : k = idx + 1
    BY <1>0, <1>5
<1>7. c \in 0 .. k - 1 /\ l \in Nat /\ l >= k
    BY <1>6, PlaceOf
<1> HIDE DEF c, l, v
<1>8. c \in Nat /\ c <= idx /\ l >= idx + 1
    BY <1>5, <1>6, <1>7
<1>9. c * p.den <= n * p.num /\ l * p.den > n * p.num
    BY <1>0, <1>1, <1>7, <1>8, ProductBounds
<1> QED
    BY <1>3, <1>9 DEF AtFactor, c, l, n
\* What the end of the program prints is about the file as it was read.
PrintedInv ==
    /\ stage <= Len(Windowed) + 1 => vec = input /\ printed = <<>>
    /\ stage = Len(Windowed) + 2 =>
        \A k \in DOMAIN Overall : printed[k + 1] = Ranked(Sorted(input), Overall[k])

\* A line and what is appended to it.
LEMMA FirstThenRest ==
    ASSUME NEW n \in Nat, NEW a, NEW f, f = [k \in 1 .. n |-> f[k]]
    PROVE  \A k \in 1 .. n : (<<a>> \o f)[k + 1] = f[k]
<1> DEFINE S == {f[k] : k \in 1 .. n} \cup {a}
<1>1. f \in Seq(S) /\ <<a>> \in Seq(S) /\ Len(f) = n
    <2>1. f \in [1 .. n -> S] /\ a \in S
        OBVIOUS
    <2> HIDE DEF S
    <2> QED
        BY <2>1, SMT
<1> HIDE DEF S
<1>2. \A k \in 1 .. 1 + n : (<<a>> \o f)[k] = IF k <= 1 THEN <<a>>[k] ELSE f[k - 1]
    BY <1>1, ConcatProperties
<1> QED
    BY <1>2

LEMMA TotalsPrinted ==
    ASSUME TypeInv, PrintedInv, Totals
    PROVE  PrintedInv'
<1>1. Len(Windowed) \in Nat /\ Len(Overall) \in Nat /\ DOMAIN Overall = 1 .. Len(Overall)
    BY TailLatencyAssumption
<1>2. vec = input /\ stage' = Len(Windowed) + 2 /\ input' = input
    BY <1>1 DEF PrintedInv, Totals
<1>3. ~(stage' <= Len(Windowed) + 1)
    BY <1>1, <1>2
<1> DEFINE f == [k \in DOMAIN Overall |-> Ranked(Sorted(input), Overall[k])]
<1>4. printed' = <<Average(input)>> \o f
    BY <1>2 DEF Totals
<1>5. f = [k \in 1 .. Len(Overall) |-> f[k]]
    BY <1>1
<1>6. \A k \in DOMAIN Overall : f[k] = Ranked(Sorted(input), Overall[k])
    OBVIOUS
<1> DEFINE a == Average(input)
<1> HIDE DEF f, a
<1>7. \A k \in 1 .. Len(Overall) : (<<a>> \o f)[k + 1] = f[k]
    BY <1>1, <1>5, FirstThenRest
<1>8. \A k \in DOMAIN Overall : printed'[k + 1] = Ranked(Sorted(input), Overall[k])
    BY <1>1, <1>4, <1>6, <1>7 DEF a
<1> QED
    BY <1>2, <1>3, <1>8 DEF PrintedInv

THEOREM PrintedHold == Spec => []PrintedInv
<1>1. Init => PrintedInv
    <2> SUFFICES ASSUME Init PROVE PrintedInv
        OBVIOUS
    <2>1. Len(Windowed) \in Nat
        BY TailLatencyAssumption
    <2> QED
        BY <2>1, SMT DEF Init, PrintedInv
<1>2. WindowInv /\ PrintedInv /\ [Next]_vars => PrintedInv'
    <2> SUFFICES ASSUME TypeInv, PrintedInv, [Next]_vars PROVE PrintedInv'
        BY DEF WindowInv
    <2>0. Len(Windowed) \in Nat /\ stage \in Int
        BY Given DEF TypeInv
    <2>1. CASE Push \/ Close
        BY <2>0, <2>1 DEF PrintedInv, Push, Close, Handling
    <2>2. CASE Output
        BY <2>0, <2>2 DEF PrintedInv, Output
    <2>3. CASE Totals
        BY <2>3, TotalsPrinted
    <2>4. CASE UNCHANGED vars
        BY <2>4 DEF PrintedInv, vars
    <2> QED
        BY <2>1, <2>2, <2>3, <2>4 DEF Next, Terminated
<1> QED
    BY <1>1, <1>2, WindowsHold, PTL DEF Spec

LEMMA NotEmpty ==
    ASSUME NEW w \in Seq(Nat), Len(w) > 0
    PROVE  w # <<>>
    OBVIOUS

\* The last window that has closed ends before latency n.
LEMMA LastEnds ==
    ASSUME NEW n \in Nat, interval \in Nat \ {0}
    PROVE  interval * Closed(n) \in Int /\ interval * Closed(n) - interval < n
<1>1. n + interval - 1 \in Nat
    OBVIOUS
<1> DEFINE a == n + interval - 1
<1>2. a = interval * (a \div interval) + (a % interval) /\ a % interval \in 0 .. interval - 1
      /\ a \div interval \in Int
    BY <1>1, Division
<1>3. Closed(n) = a \div interval
    BY DEF Closed
<1> DEFINE r == a % interval
           q == a \div interval
<1>4. interval * q \in Int
    <2> HIDE DEF q
    <2> QED
        BY <1>2, SMT DEF q
<1> QED
    BY <1>2, <1>3, <1>4

\* A window that has closed has latencies, and only those of the file.
LEMMA WindowFull ==
    ASSUME TypeInv, NEW k \in 1 .. Closed(Len(input))
    PROVE  Window(k) \in Seq(Nat) /\ Window(k) # <<>>
<1>0. /\ input \in Seq(Nat) /\ Len(input) \in Nat /\ Len(input) > 0 /\ interval \in Nat \ {0}
      /\ \A j \in 1 .. Len(input) : input[j] \in Nat
    BY Given
<1>1. CASE k = 1
    <2>1. 1 \in Int /\ \A j \in 1 .. 1 : input[j] \in Nat
        BY <1>0
    <2>2. SubSeq(input, 1, 1) \in Seq(Nat) /\ Len(SubSeq(input, 1, 1)) = 1
        BY <2>1, SubSeqProperties
    <2>3. Window(k) = SubSeq(input, 1, 1)
        BY <1>1 DEF Window
    <2>4. PICK w \in Seq(Nat) : w = Window(k) /\ Len(w) = 1
        BY <2>2, <2>3, Zenon
    <2>5. w # <<>>
        BY <2>4
    <2> QED
        BY <2>4, <2>5
<1>2. CASE k # 1
    <2> DEFINE c == Closed(Len(input))
    <2>1. c \in Nat /\ interval * c - interval < Len(input) /\ interval * c \in Nat
        BY <1>0, ClosedNext, LastEnds, SMT
    <2> HIDE DEF c
    <2>2. PICK d \in Nat : d = k - 2
        BY <1>2, <2>1 DEF c
    <2>3. interval * (d + 1) = interval * d + interval /\ interval * d \in Nat
        BY <1>0, <2>2, SMT
    <2>4. (d + 1) * interval <= (c - 1) * interval
        <3>1. PICK x \in Nat, y \in Nat : x = d + 1 /\ y = c - 1 /\ x <= y
            BY <1>2, <2>1, <2>2 DEF c
        <3>2. x * interval <= y * interval
            BY <1>0, <3>1, TimesMonotone
        <3> QED
            BY <3>1, <3>2
    <2>5. interval * (d + 1) + 1 <= Len(input)
        <3>1. (c - 1) * interval = interval * c - interval /\ (d + 1) * interval = interval * (d + 1)
            BY <1>0, <2>1, <2>2, SMT
        <3>2. PICK e \in Nat, b \in Nat : e = interval * (d + 1) /\ b = interval * c
            BY <1>0, <2>1, <2>2, <2>3
        <3>3. e <= b - interval /\ b - interval < Len(input)
            BY <2>1, <2>4, <3>1, <3>2
        <3>4. e + 1 <= Len(input)
            BY <1>0, <3>2, <3>3
        <3> QED
            BY <3>2, <3>4
    <2>6. PICK m \in Nat, n \in Nat : m = interval * d + 2 /\ n = interval * (d + 1) + 1
        BY <1>0, <2>3
    <2>7. m <= n /\ 1 <= m /\ n <= Len(input)
        BY <1>0, <2>3, <2>5, <2>6
    <2>8. \A j \in m .. n : input[j] \in Nat
        BY <1>0, <2>7
    <2>9. SubSeq(input, m, n) \in Seq(Nat) /\ Len(SubSeq(input, m, n)) = n - m + 1
        BY <2>7, <2>8, SubSeqProperties
    <2>10. Window(k) = SubSeq(input, m, n)
        BY <1>2, <2>2, <2>6 DEF Window
    <2>11. Len(SubSeq(input, m, n)) > 0
        BY <2>6, <2>7, <2>9
    <2> QED
        BY <2>9, <2>10, <2>11, NotEmpty
<1> QED
    BY <1>1, <1>2

\* The property the run checks: the tails of the windows and those of the whole
\* file are where the latencies they are of reach the factor.
THEOREM TailsAreRanked == Spec => []TailsRanked
<1>1. ASSUME WindowInv, WindowsAligned, PrintedInv
      PROVE  TailsRanked
    <2>0. TypeInv /\ OutInv
        BY <1>1 DEF WindowInv
    <2>1. ASSUME NEW s \in DOMAIN out, Windowed[s].num > 0, NEW k \in DOMAIN out[s]
          PROVE  AtFactor(out[s][k][2], Window(k), Windowed[s])
        <3>1. s \in 1 .. Len(Windowed) /\ Windowed[s] \in Fraction
            BY <2>0, Given, TailLatencyAssumption DEF OutInv, TypeInv
        <3>2. k \in 1 .. Closed(Len(input))
            BY <2>0 DEF OutInv, Lines
        <3>3. out[s][k][2] = Ranked(Sorted(Window(k)), Windowed[s])
            BY <1>1, <2>1 DEF WindowsAligned, Summary
        <3> QED
            BY <2>0, <3>1, <3>2, <3>3, WindowFull, RankedIsAtFactor
    <2>2. ASSUME NEW k \in DOMAIN Overall, printed # <<>>
          PROVE  AtFactor(printed[k + 1], input, Overall[k])
        <3>1. Overall[k] \in Fraction
            BY TailLatencyAssumption
        <3>2. stage = Len(Windowed) + 2
            BY <1>1, <2>0, <2>2, Given DEF TypeInv, PrintedInv
        <3>3. printed[k + 1] = Ranked(Sorted(input), Overall[k])
            BY <1>1, <3>2 DEF PrintedInv
        <3> QED
            BY <2>0, <3>1, <3>3, Given, RankedIsAtFactor
    <2> QED
        BY <2>1, <2>2 DEF TailsRanked
<1> QED
    BY <1>1, WindowsHold, LinesMatchWindows, PrintedHold, PTL
=============================================================================
