------------------------- MODULE ClientParts_proofs -------------------------
(***************************************************************************)
(* Proofs about ClientParts, for all values of the constants that          *)
(* PartsAssumption allows: results of the daemon are not lost and only     *)
(* queued ones are overtaken (FifoInv), the TCP child forwards messages    *)
(* whole and in order (ChildInv), the timer keeps its correction within    *)
(* the limit (TimerInv), and the send path and the statistics inherit      *)
(* what UdpSend_proofs and ResultStats_proofs say of them.                 *)
(***************************************************************************)
EXTENDS ClientParts, ResultStats_proofs, FiniteSetTheorems, SequenceTheorems, TLAPS

-----------------------------------------------------------------------------
(* The result FIFO *)

\* Where a result is in a sequence: at one place at most, somewhere, before
\* another.
Once(s, r) == \A i, j \in 1 .. Len(s) : s[i] = r /\ s[j] = r => i = j
Has(s, r) == \E i \in 1 .. Len(s) : s[i] = r
Before(s, a, b) == \E i, j \in 1 .. Len(s) : i < j /\ s[i] = a /\ s[j] = b

\* What goes to the tail.
LEMMA AppendFacts ==
  ASSUME NEW S, NEW s \in Seq(S), NEW e \in S
  PROVE  /\ \A r \in S : Has(Append(s, e), r) <=> Has(s, r) \/ e = r
         /\ \A r \in S : Once(Append(s, e), r) <=> Once(s, r) /\ ~(Has(s, r) /\ e = r)
         /\ \A a, b \in S : Before(Append(s, e), a, b) <=> Before(s, a, b) \/ (Has(s, a) /\ e = b)
<1> DEFINE t == Append(s, e)
           n == Len(s)
<1>1. n \in Nat /\ Len(t) = n + 1 /\ t[n + 1] = e /\ (\A i \in 1 .. n : t[i] = s[i])
  OBVIOUS
<1>2. \A i : i \in 1 .. Len(t) <=> i \in 1 .. n \/ i = n + 1
  BY <1>1
<1>3. \A i \in 1 .. n : i < n + 1 /\ i # n + 1
  BY <1>1
<1> HIDE DEF t
<1>4. \A r \in S : Has(t, r) <=> Has(s, r) \/ e = r
  BY <1>1, <1>2 DEF Has
<1>5. \A r \in S : Once(t, r) <=> Once(s, r) /\ ~(Has(s, r) /\ e = r)
  BY <1>1, <1>2, <1>3 DEF Has, Once
<1> HIDE DEF n
<1>6. \A a, b \in S : Before(t, a, b) <=> Before(s, a, b) \/ (Has(s, a) /\ e = b)
  <2> SUFFICES ASSUME NEW a \in S, NEW b \in S
               PROVE  Before(t, a, b) <=> Before(s, a, b) \/ (Has(s, a) /\ e = b)
    OBVIOUS
  <2>1. ASSUME Before(t, a, b) PROVE Before(s, a, b) \/ (Has(s, a) /\ e = b)
    <3>1. PICK i, j \in 1 .. Len(t) : i < j /\ t[i] = a /\ t[j] = b
      BY <2>1 DEF Before
    <3>2. i \in 1 .. n
      BY <1>1, <1>2, <3>1
    <3>3. CASE j \in 1 .. n
      BY <1>1, <3>1, <3>2, <3>3 DEF Before, n
    <3>4. CASE j = n + 1
      BY <1>1, <3>1, <3>2, <3>4 DEF Has, n
    <3>5. QED
      BY <1>2, <3>3, <3>4
  <2>2. ASSUME Before(s, a, b) PROVE Before(t, a, b)
    <3>1. PICK i, j \in 1 .. n : i < j /\ s[i] = a /\ s[j] = b
      BY <2>2 DEF Before, n
    <3>2. i \in 1 .. Len(t) /\ j \in 1 .. Len(t) /\ t[i] = a /\ t[j] = b
      BY <1>1, <1>2, <3>1
    <3>3. QED
      BY <3>1, <3>2 DEF Before
  <2>3. ASSUME Has(s, a), e = b PROVE Before(t, a, b)
    <3>1. PICK i \in 1 .. n : s[i] = a
      BY <2>3 DEF Has, n
    <3>2. i \in 1 .. Len(t) /\ n + 1 \in 1 .. Len(t) /\ t[i] = a /\ t[n + 1] = b /\ i < n + 1
      BY <1>1, <1>2, <1>3, <2>3, <3>1
    <3>3. QED
      BY <3>2 DEF Before
  <2>4. QED
    BY <2>1, <2>2, <2>3
<1>7. QED
  BY <1>4, <1>5, <1>6 DEF t

\* What leaves from the head.
LEMMA TailFacts ==
  ASSUME NEW S, NEW s \in Seq(S), s # <<>>
  PROVE  /\ Head(s) \in S
         /\ \A r \in S : Has(s, r) <=> Head(s) = r \/ Has(Tail(s), r)
         /\ \A r \in S : Once(s, r) => Once(Tail(s), r) /\ ~(Head(s) = r /\ Has(Tail(s), r))
         /\ \A a, b \in S : Before(s, a, b) <=> Before(Tail(s), a, b) \/ (Head(s) = a /\ Has(Tail(s), b))
<1> DEFINE t == Tail(s)
           m == Len(t)
<1>1. m \in Nat /\ Len(s) = m + 1 /\ Head(s) = s[1] /\ (\A i \in 1 .. m : t[i] = s[i + 1]) /\ Head(s) \in S
  OBVIOUS
<1> HIDE DEF t
<1>2. \A i \in 1 .. m : i + 1 \in 1 .. Len(s) /\ i + 1 # 1 /\ 1 < i + 1
  BY <1>1
<1>3. 1 \in 1 .. Len(s) /\ \A k \in 1 .. Len(s) : k = 1 \/ (k - 1 \in 1 .. m /\ t[k - 1] = s[k] /\ k > 1 /\ (k - 1) + 1 = k)
  BY <1>1
<1> HIDE DEF m
<1>4. \A r \in S : Has(s, r) <=> Head(s) = r \/ Has(t, r)
  <2> SUFFICES ASSUME NEW r \in S PROVE Has(s, r) <=> Head(s) = r \/ Has(t, r)
    OBVIOUS
  <2>1. ASSUME Has(s, r) PROVE Head(s) = r \/ Has(t, r)
    BY <1>1, <1>3, <2>1 DEF Has, m
  <2>2. ASSUME Head(s) = r \/ Has(t, r) PROVE Has(s, r)
    BY <1>1, <1>2, <1>3, <2>2 DEF Has, m
  <2>3. QED
    BY <2>1, <2>2
<1>5. ASSUME NEW r \in S, Once(s, r) PROVE Once(t, r) /\ ~(Head(s) = r /\ Has(t, r))
  <2>1. ASSUME NEW i \in 1 .. m, NEW j \in 1 .. m, t[i] = r, t[j] = r PROVE i = j
    <3>1. i + 1 = j + 1
      BY <1>1, <1>2, <1>5, <2>1 DEF Once
    <3>2. QED
      BY <1>1, <3>1
  <2>2. ASSUME Head(s) = r, NEW i \in 1 .. m, t[i] = r PROVE FALSE
    BY <1>1, <1>2, <1>3, <1>5, <2>2 DEF Once
  <2>3. QED
    BY <2>1, <2>2 DEF Once, Has, m
<1>6. ASSUME NEW a \in S, NEW b \in S
      PROVE  Before(s, a, b) <=> Before(t, a, b) \/ (Head(s) = a /\ Has(t, b))
  <2>1. ASSUME Before(s, a, b) PROVE Before(t, a, b) \/ (Head(s) = a /\ Has(t, b))
    <3>1. PICK i, j \in 1 .. Len(s) : i < j /\ s[i] = a /\ s[j] = b
      BY <2>1 DEF Before
    <3>2. j - 1 \in 1 .. m /\ t[j - 1] = b
      BY <1>3, <3>1
    <3>3. CASE i = 1
      BY <1>1, <3>1, <3>2, <3>3 DEF Has, m
    <3>4. CASE i # 1
      <4>1. i - 1 \in 1 .. m /\ t[i - 1] = a /\ i - 1 < j - 1
        BY <1>1, <1>3, <3>1, <3>4
      <4>2. QED
        BY <3>2, <4>1 DEF Before, m
    <3>5. QED
      BY <3>3, <3>4
  <2>2. ASSUME Before(t, a, b) PROVE Before(s, a, b)
    <3>1. PICK i, j \in 1 .. m : i < j /\ t[i] = a /\ t[j] = b
      BY <2>2 DEF Before, m
    <3>2. i + 1 \in 1 .. Len(s) /\ j + 1 \in 1 .. Len(s) /\ s[i + 1] = a /\ s[j + 1] = b /\ i + 1 < j + 1
      BY <1>1, <1>2, <3>1
    <3>3. QED
      BY <3>2 DEF Before
  <2>3. ASSUME Head(s) = a, Has(t, b) PROVE Before(s, a, b)
    <3>1. PICK i \in 1 .. m : t[i] = b
      BY <2>3 DEF Has, m
    <3>2. s[1] = a /\ s[i + 1] = b /\ 1 < i + 1 /\ 1 \in 1 .. Len(s) /\ i + 1 \in 1 .. Len(s)
      BY <1>1, <1>2, <1>3, <2>3, <3>1
    <3>3. QED
      BY <3>2 DEF Before
  <2>4. QED
    BY <2>1, <2>2, <2>3
<1>7. QED
  BY <1>1, <1>4, <1>5, <1>6 DEF t

\* The result client_write_fifo() is working on, and what has been produced.
Arg(r) == fifo_pc \in {"flush", "direct"} /\ r_fifo = r
Made(r) == IF r = "x" THEN made # <<>> ELSE made = <<"x", "y">>

\* Types, and why the queue stays within its bound: a call is made when there is
\* room for its result in the queue or in the FIFO.
FifoTypes ==
  /\ Fifo!TypeOK /\ fifo_seen \in Seq(Fifo!Results)
  /\ made \in {<<>>, <<"x">>, <<"x", "y">>}
  /\ fifo_pc = "flush" => Len(fifoq) < fifoOf.MaxQ \/ Len(fifo) < fifoOf.Cap
  /\ fifo_pc = "direct" => Len(fifoq) < fifoOf.MaxQ

\* A result is at one place, and nowhere before it is produced.
OnePlace(r) ==
  /\ Once(fifoq, r) /\ Once(fifo, r) /\ Once(fifo_seen, r)
  /\ ~(Has(fifoq, r) /\ Has(fifo, r)) /\ ~(Has(fifoq, r) /\ Has(fifo_seen, r))
  /\ ~(Has(fifo, r) /\ Has(fifo_seen, r))
  /\ Arg(r) => ~Has(fifoq, r) /\ ~Has(fifo, r) /\ ~Has(fifo_seen, r) /\ r \notin held
  /\ Has(fifoq, r) => r \in held
  /\ ~Made(r) => ~Has(fifoq, r) /\ ~Has(fifo, r) /\ ~Has(fifo_seen, r) /\ ~Arg(r) /\ r \notin held
  /\ Made(r) /\ "lost" \notin held /\ fifo_pc # "dead" =>
       Has(fifoq, r) \/ Has(fifo, r) \/ Has(fifo_seen, r) \/ Arg(r)

\* y is nearer to the reader than x, or has been read before it.
Overtaken ==
  \/ Before(fifo_seen, "y", "x") \/ Before(fifo, "y", "x") \/ Before(fifoq, "y", "x")
  \/ Has(fifo_seen, "y") /\ (Has(fifo, "x") \/ Has(fifoq, "x"))
  \/ Has(fifo, "y") /\ Has(fifoq, "x")

FifoInv ==
  /\ FifoTypes /\ OnePlace("x") /\ OnePlace("y")
  /\ Arg("x") => ~Made("y")
  /\ Overtaken => "x" \in held /\ "y" \notin held

LEMMA FifoInit ==
  ASSUME Fifo!FifoAssumption, Fifo!Init PROVE FifoInv
<1>1. /\ fifoq = <<>> /\ fifo = <<>> /\ fifo_seen = <<>> /\ made = <<>> /\ held = {} /\ fifo_pc = "idle"
      /\ r_fifo = "o" /\ reader = TRUE /\ count_client_fifoq = 0 /\ count_client_fifoq_max = 0
  BY DEF Fifo!Init
<1>2. FifoTypes
  BY <1>1 DEF FifoTypes, Fifo!TypeOK, Fifo!Results, Fifo!FifoAssumption
<1>3. \A r, a, b : ~Has(fifoq, r) /\ Once(fifoq, r) /\ ~Before(fifoq, a, b)
  BY <1>1 DEF Has, Once, Before
<1>4. ~Made("x") /\ ~Made("y") /\ ~Arg("x") /\ ~Arg("y")
  BY <1>1 DEF Made, Arg
<1>5. QED
  BY <1>1, <1>2, <1>3, <1>4 DEF FifoInv, OnePlace, Overtaken

\* Types of what moves.
LEMMA FifoTypeFacts ==
  ASSUME FifoTypes
  PROVE  /\ fifoq \in Seq(Fifo!Results) /\ fifo \in Seq(Fifo!Results) /\ fifo_seen \in Seq(Fifo!Results)
         /\ r_fifo \in Fifo!Results /\ "x" \in Fifo!Results /\ "y" \in Fifo!Results
         /\ Len(fifoq) \in Nat /\ Len(fifo) \in Nat
BY DEF FifoTypes, Fifo!TypeOK, Fifo!Results

\* The second result produced.
LEMMA AppendSecond ==
  ASSUME NEW a, NEW b PROVE Append(<<a>>, b) = <<a, b>>
<1> DEFINE S == {a, b}
<1>1. <<a>> \in Seq(S) /\ <<a, b>> \in Seq(S) /\ Append(<<a>>, b) \in Seq(S)
  OBVIOUS
<1>2. Len(Append(<<a>>, b)) = Len(<<a, b>>)
  OBVIOUS
<1>3. \A i \in 1 .. Len(<<a, b>>) : Append(<<a>>, b)[i] = <<a, b>>[i]
  <2>1. Append(<<a>>, b)[1] = <<a, b>>[1]
    OBVIOUS
  <2>2. Append(<<a>>, b)[2] = <<a, b>>[2]
    OBVIOUS
  <2>3. QED
    BY <2>1, <2>2
<1> HIDE DEF S
<1>4. QED
  BY <1>1, <1>2, <1>3, SeqEqual

LEMMA CallStep ==
  ASSUME Fifo!FifoAssumption, FifoInv, (\E r \in {"x", "y"} : Fifo!Call(r)) \/ Fifo!CallOther
  PROVE  FifoInv'
<1>1. /\ fifo_pc = "idle" /\ fifo_pc' = "flush" /\ (Len(fifoq) < fifoOf.MaxQ \/ Len(fifo) < fifoOf.Cap)
      /\ UNCHANGED <<fifoq, count_client_fifoq, count_client_fifoq_max, fifo, reader, fifo_seen, held>>
  BY DEF Fifo!Call, Fifo!CallOther
<1>2. \/ r_fifo' = "x" /\ made = <<>> /\ made' = <<"x">>
      \/ r_fifo' = "y" /\ made = <<"x">> /\ made' = <<"x", "y">>
      \/ r_fifo' = "o" /\ made' = made
  <2>1. CASE Fifo!Call("x")
    BY <2>1 DEF Fifo!Call
  <2>2. CASE Fifo!Call("y")
    <3>1. r_fifo' = "y" /\ made = <<"x">> /\ made' = Append(made, "y")
      BY <2>2 DEF Fifo!Call
    <3>2. Append(<<"x">>, "y") = <<"x", "y">>
      BY AppendSecond
    <3>3. QED
      BY <3>1, <3>2
  <2>3. CASE Fifo!CallOther
    BY <2>3 DEF Fifo!CallOther
  <2>4. QED
    BY <2>1, <2>2, <2>3
<1>3. FifoTypes'
  BY <1>1, <1>2 DEF FifoInv, FifoTypes, Fifo!TypeOK, Fifo!Results
<1>4. /\ \A r : (Has(fifoq, r)' <=> Has(fifoq, r)) /\ (Has(fifo, r)' <=> Has(fifo, r))
                /\ (Has(fifo_seen, r)' <=> Has(fifo_seen, r))
                /\ (Once(fifoq, r)' <=> Once(fifoq, r)) /\ (Once(fifo, r)' <=> Once(fifo, r))
                /\ (Once(fifo_seen, r)' <=> Once(fifo_seen, r))
      /\ Overtaken' <=> Overtaken
  BY <1>1 DEF Has, Once, Before, Overtaken
<1>5. <<"x">> # <<>> /\ <<"x", "y">> # <<>> /\ <<"x">> # <<"x", "y">> /\ <<>> # <<"x", "y">>
  OBVIOUS
<1>6. /\ ~Arg("x") /\ ~Arg("y")
      /\ Arg("x")' => ~Made("x") /\ Made("x")' /\ ~Made("y")' /\ ~Made("y")
      /\ Arg("y")' => ~Made("y") /\ Made("y")' /\ ~Arg("x")'
      /\ ~Arg("x")' => (Made("x")' <=> Made("x"))
      /\ ~Arg("y")' => (Made("y")' <=> Made("y"))
  BY <1>1, <1>2, <1>5 DEF Arg, Made
<1>7. OnePlace("x")' /\ OnePlace("y")'
  BY <1>1, <1>4, <1>6 DEF FifoInv, OnePlace
<1>8. QED
  BY <1>1, <1>3, <1>4, <1>6, <1>7 DEF FifoInv

\* An entry of the queue is written to the FIFO.
LEMMA FlushOne ==
  ASSUME Fifo!FifoAssumption, FifoInv, fifo_pc = "flush", fifoq # <<>>, Len(fifo) < fifoOf.Cap,
         fifo' = Append(fifo, Head(fifoq)), fifoq' = Tail(fifoq),
         count_client_fifoq' = count_client_fifoq - 1,
         UNCHANGED <<fifo_pc, count_client_fifoq_max, r_fifo, held, reader, made, fifo_seen>>
  PROVE  FifoInv'
<1> DEFINE e == Head(fifoq)
           S == Fifo!Results
<1>1. fifoq \in Seq(S) /\ fifo \in Seq(S) /\ "x" \in S /\ "y" \in S /\ FifoTypes
  BY FifoTypeFacts DEF FifoInv
<1> HIDE DEF S
<1>2. /\ e \in S
      /\ \A r \in S : Has(fifoq, r) <=> e = r \/ Has(fifoq', r)
      /\ \A r \in S : Once(fifoq, r) => Once(fifoq', r) /\ ~(e = r /\ Has(fifoq', r))
      /\ \A a, b \in S : Before(fifoq, a, b) <=> Before(fifoq', a, b) \/ (e = a /\ Has(fifoq', b))
  BY <1>1, TailFacts
<1>3. fifoq' \in Seq(S) /\ Len(fifoq') = Len(fifoq) - 1 /\ Len(fifoq) \in Nat
  BY <1>1
<1> HIDE DEF e
<1>4. /\ \A r \in S : Has(fifo', r) <=> Has(fifo, r) \/ e = r
      /\ \A r \in S : Once(fifo', r) <=> Once(fifo, r) /\ ~(Has(fifo, r) /\ e = r)
      /\ \A a, b \in S : Before(fifo', a, b) <=> Before(fifo, a, b) \/ (Has(fifo, a) /\ e = b)
  BY <1>1, <1>2, AppendFacts DEF e
<1>5. fifo' \in Seq(S) /\ Len(fifo') = Len(fifo) + 1 /\ Len(fifo) \in Nat
  BY <1>1, <1>2 DEF e
<1>6. FifoTypes'
  BY <1>1, <1>3, <1>5 DEF FifoTypes, Fifo!TypeOK, Fifo!FifoAssumption, S
<1>7. /\ \A r \in {"x", "y"} : (Arg(r)' <=> Arg(r)) /\ (Made(r)' <=> Made(r))
      /\ \A r : (Has(fifo_seen, r)' <=> Has(fifo_seen, r)) /\ (Once(fifo_seen, r)' <=> Once(fifo_seen, r))
      /\ Before(fifo_seen, "y", "x")' <=> Before(fifo_seen, "y", "x")
  BY DEF Arg, Made
<1>8. ASSUME NEW r \in {"x", "y"}, OnePlace(r) PROVE OnePlace(r)'
  BY <1>1, <1>2, <1>4, <1>7, <1>8 DEF OnePlace
<1>9. Overtaken' => Overtaken
  <2>1. /\ Before(fifoq', "y", "x") => Before(fifoq, "y", "x")
        /\ Has(fifoq', "x") => Has(fifoq, "x")
        /\ e = "y" /\ Has(fifoq', "x") => Before(fifoq, "y", "x")
        /\ e = "x" => Has(fifoq, "x")
    BY <1>1, <1>2
  <2>2. /\ Before(fifo', "y", "x") => Before(fifo, "y", "x") \/ (Has(fifo, "y") /\ e = "x")
        /\ Has(fifo', "x") => Has(fifo, "x") \/ e = "x"
        /\ Has(fifo', "y") => Has(fifo, "y") \/ e = "y"
    BY <1>1, <1>4
  <2>3. QED
    BY <1>7, <2>1, <2>2 DEF Overtaken
<1>10. QED
  BY <1>6, <1>7, <1>8, <1>9 DEF FifoInv

\* The result itself is written to the FIFO.
LEMMA DirectOne ==
  ASSUME Fifo!FifoAssumption, FifoInv, fifo_pc = "direct", Len(fifo) < fifoOf.Cap,
         fifo_pc' = "idle", fifo' = Append(fifo, r_fifo),
         UNCHANGED <<fifoq, count_client_fifoq, count_client_fifoq_max, r_fifo, held, reader, made, fifo_seen>>
  PROVE  FifoInv'
<1> DEFINE S == Fifo!Results
<1>1. fifo \in Seq(S) /\ r_fifo \in S /\ "x" \in S /\ "y" \in S /\ FifoTypes
  BY FifoTypeFacts DEF FifoInv
<1> HIDE DEF S
<1>2. /\ \A r \in S : Has(fifo', r) <=> Has(fifo, r) \/ r_fifo = r
      /\ \A r \in S : Once(fifo', r) <=> Once(fifo, r) /\ ~(Has(fifo, r) /\ r_fifo = r)
      /\ \A a, b \in S : Before(fifo', a, b) <=> Before(fifo, a, b) \/ (Has(fifo, a) /\ r_fifo = b)
  BY <1>1, AppendFacts
<1>3. fifo' \in Seq(S) /\ Len(fifo') = Len(fifo) + 1 /\ Len(fifo) \in Nat
  BY <1>1
<1>4. FifoTypes'
  BY <1>1, <1>3 DEF FifoTypes, Fifo!TypeOK, Fifo!FifoAssumption, S
<1>5. /\ \A r \in {"x", "y"} : ~Arg(r)' /\ (Arg(r) <=> r_fifo = r) /\ (Made(r)' <=> Made(r))
      /\ \A r : /\ (Has(fifo_seen, r)' <=> Has(fifo_seen, r)) /\ (Once(fifo_seen, r)' <=> Once(fifo_seen, r))
                /\ (Has(fifoq, r)' <=> Has(fifoq, r)) /\ (Once(fifoq, r)' <=> Once(fifoq, r))
      /\ Before(fifo_seen, "y", "x")' <=> Before(fifo_seen, "y", "x")
      /\ Before(fifoq, "y", "x")' <=> Before(fifoq, "y", "x")
  BY DEF Arg, Made
<1>6. ASSUME NEW r \in {"x", "y"}, OnePlace(r) PROVE OnePlace(r)'
  BY <1>1, <1>2, <1>5, <1>6 DEF OnePlace
<1>7. CASE r_fifo = "x"
  \* y has not been produced.
  <2>1. ~Has(fifo, "y") /\ ~Has(fifo_seen, "y") /\ ~Has(fifo', "y")
    BY <1>1, <1>2, <1>5, <1>7 DEF FifoInv, OnePlace
  <2>2. Overtaken' => Overtaken
    BY <1>1, <1>2, <1>5, <1>7, <2>1 DEF Overtaken
  <2>3. QED
    BY <1>4, <1>5, <1>6, <2>2 DEF FifoInv
<1>8. CASE r_fifo = "y"
  \* It overtakes x if x is in the queue.
  <2>1. "y" \notin held /\ (Has(fifoq, "x") => "x" \in held)
    BY <1>5, <1>8 DEF FifoInv, OnePlace
  <2>2. Overtaken' => Overtaken \/ Has(fifoq, "x")
    BY <1>1, <1>2, <1>5, <1>8 DEF Overtaken
  <2>3. QED
    BY <1>4, <1>5, <1>6, <2>1, <2>2 DEF FifoInv
<1>9. CASE r_fifo \notin {"x", "y"}
  <2>1. Overtaken' => Overtaken
    BY <1>1, <1>2, <1>5, <1>9 DEF Overtaken
  <2>2. QED
    BY <1>4, <1>5, <1>6, <2>1 DEF FifoInv
<1>10. QED
  BY <1>7, <1>8, <1>9

\* The result itself goes to the tail of the queue.
LEMMA QueueOne ==
  ASSUME Fifo!FifoAssumption, FifoInv, fifo_pc = "direct",
         fifo_pc' = "idle", fifoq' = Append(fifoq, r_fifo), held' = held \cup {r_fifo},
         count_client_fifoq' = count_client_fifoq + 1,
         count_client_fifoq_max' = IF count_client_fifoq' > count_client_fifoq_max
                                   THEN count_client_fifoq' ELSE count_client_fifoq_max,
         UNCHANGED <<fifo, r_fifo, reader, made, fifo_seen>>
  PROVE  FifoInv'
<1> DEFINE S == Fifo!Results
<1>1. fifoq \in Seq(S) /\ r_fifo \in S /\ "x" \in S /\ "y" \in S /\ FifoTypes
  BY FifoTypeFacts DEF FifoInv
<1> HIDE DEF S
<1>2. /\ \A r \in S : Has(fifoq', r) <=> Has(fifoq, r) \/ r_fifo = r
      /\ \A r \in S : Once(fifoq', r) <=> Once(fifoq, r) /\ ~(Has(fifoq, r) /\ r_fifo = r)
      /\ \A a, b \in S : Before(fifoq', a, b) <=> Before(fifoq, a, b) \/ (Has(fifoq, a) /\ r_fifo = b)
  BY <1>1, AppendFacts
<1>3. fifoq' \in Seq(S) /\ Len(fifoq') = Len(fifoq) + 1 /\ Len(fifoq) \in Nat
  BY <1>1
<1>4. FifoTypes'
  BY <1>1, <1>3 DEF FifoTypes, Fifo!TypeOK, Fifo!FifoAssumption, S
<1>5. /\ \A r \in {"x", "y"} : ~Arg(r)' /\ (Arg(r) <=> r_fifo = r) /\ (Made(r)' <=> Made(r))
      /\ \A r : /\ (Has(fifo_seen, r)' <=> Has(fifo_seen, r)) /\ (Once(fifo_seen, r)' <=> Once(fifo_seen, r))
                /\ (Has(fifo, r)' <=> Has(fifo, r)) /\ (Once(fifo, r)' <=> Once(fifo, r))
      /\ Before(fifo_seen, "y", "x")' <=> Before(fifo_seen, "y", "x")
      /\ Before(fifo, "y", "x")' <=> Before(fifo, "y", "x")
  BY DEF Arg, Made
<1>6. ASSUME NEW r \in {"x", "y"}, OnePlace(r) PROVE OnePlace(r)'
  BY <1>1, <1>2, <1>5, <1>6 DEF OnePlace
<1>7. CASE r_fifo = "x"
  \* y has not been produced.
  <2>1. ~Has(fifo, "y") /\ ~Has(fifo_seen, "y") /\ ~Has(fifoq, "y") /\ "y" \notin held
    BY <1>1, <1>2, <1>5, <1>7 DEF FifoInv, OnePlace
  <2>2. Overtaken' => Overtaken
    BY <1>1, <1>2, <1>5, <1>7, <2>1 DEF Overtaken
  <2>3. QED
    BY <1>4, <1>5, <1>6, <1>7, <2>1, <2>2 DEF FifoInv
<1>8. CASE r_fifo = "y"
  \* It is behind x wherever x is.
  <2>1. ~Has(fifo, "y") /\ ~Has(fifo_seen, "y") /\ ~Has(fifoq, "y") /\ "y" \notin held
    BY <1>1, <1>2, <1>5, <1>8 DEF FifoInv, OnePlace
  <2>2. ~Before(fifo, "y", "x") /\ ~Before(fifoq, "y", "x") /\ ~Before(fifo_seen, "y", "x")
    BY <2>1 DEF Has, Before
  <2>3. ~Overtaken'
    BY <1>1, <1>2, <1>5, <1>8, <2>1, <2>2 DEF Overtaken
  <2>4. QED
    BY <1>4, <1>5, <1>6, <2>3 DEF FifoInv
<1>9. CASE r_fifo \notin {"x", "y"}
  <2>1. Overtaken' => Overtaken
    BY <1>1, <1>2, <1>5, <1>9 DEF Overtaken
  <2>2. QED
    BY <1>4, <1>5, <1>6, <1>9, <2>1 DEF FifoInv
<1>10. QED
  BY <1>7, <1>8, <1>9

\* The other process reads a result.
LEMMA ReadOne ==
  ASSUME Fifo!FifoAssumption, FifoInv, Fifo!Read
  PROVE  FifoInv'
<1> DEFINE e == Head(fifo)
           S == Fifo!Results
<1>1. /\ fifo \in Seq(S) /\ fifo_seen \in Seq(S) /\ "x" \in S /\ "y" \in S /\ FifoTypes /\ fifo # <<>>
      /\ fifo' = Tail(fifo) /\ fifo_seen' = IF e = "o" THEN fifo_seen ELSE Append(fifo_seen, e)
      /\ UNCHANGED <<fifoq, count_client_fifoq, count_client_fifoq_max, fifo_pc, r_fifo, reader, made, held>>
  BY FifoTypeFacts DEF FifoInv, Fifo!Read
<1> HIDE DEF S
<1>2. /\ e \in S
      /\ \A r \in S : Has(fifo, r) <=> e = r \/ Has(fifo', r)
      /\ \A r \in S : Once(fifo, r) => Once(fifo', r) /\ ~(e = r /\ Has(fifo', r))
      /\ \A a, b \in S : Before(fifo, a, b) <=> Before(fifo', a, b) \/ (e = a /\ Has(fifo', b))
  BY <1>1, TailFacts
<1>3. fifo' \in Seq(S) /\ Len(fifo') = Len(fifo) - 1 /\ Len(fifo) \in Nat
  BY <1>1
<1> HIDE DEF e
<1>4. /\ \A r \in {"x", "y"} : Has(fifo_seen', r) <=> Has(fifo_seen, r) \/ e = r
      /\ \A r \in {"x", "y"} : Once(fifo_seen', r) <=> Once(fifo_seen, r) /\ ~(Has(fifo_seen, r) /\ e = r)
      /\ Before(fifo_seen', "y", "x") <=> Before(fifo_seen, "y", "x") \/ (Has(fifo_seen, "y") /\ e = "x")
  <2>1. CASE e = "o"
    BY <1>1, <2>1
  <2>2. CASE e # "o"
    <3>1. fifo_seen' = Append(fifo_seen, e)
      BY <1>1, <2>2
    <3>2. QED
      BY <1>1, <1>2, <3>1, AppendFacts
  <2>3. QED
    BY <2>1, <2>2
<1>5. fifo_seen' \in Seq(S)
  BY <1>1, <1>2
<1>6. FifoTypes'
  BY <1>1, <1>3, <1>5 DEF FifoTypes, Fifo!TypeOK, Fifo!FifoAssumption, S
<1>7. /\ \A r \in {"x", "y"} : (Arg(r)' <=> Arg(r)) /\ (Made(r)' <=> Made(r))
      /\ \A r : (Has(fifoq, r)' <=> Has(fifoq, r)) /\ (Once(fifoq, r)' <=> Once(fifoq, r))
      /\ Before(fifoq, "y", "x")' <=> Before(fifoq, "y", "x")
  BY <1>1 DEF Arg, Made
<1>8. ASSUME NEW r \in {"x", "y"}, OnePlace(r) PROVE OnePlace(r)'
  BY <1>1, <1>2, <1>4, <1>7, <1>8 DEF OnePlace
<1>9. Overtaken' => Overtaken
  <2>1. /\ Before(fifo', "y", "x") => Before(fifo, "y", "x")
        /\ Has(fifo', "x") => Has(fifo, "x")
        /\ Has(fifo', "y") => Has(fifo, "y")
        /\ e = "y" /\ Has(fifo', "x") => Before(fifo, "y", "x")
        /\ e = "x" => Has(fifo, "x")
        /\ e = "y" => Has(fifo, "y")
    BY <1>1, <1>2
  <2>2. QED
    BY <1>4, <1>7, <2>1 DEF Overtaken
<1>10. QED
  BY <1>1, <1>6, <1>7, <1>8, <1>9 DEF FifoInv

\* Steps that move no result: the end of the flush, a result lost for lack of
\* memory, SIGPIPE, and the reader going away.
LEMMA StayStep ==
  ASSUME Fifo!FifoAssumption, FifoInv,
         UNCHANGED <<fifoq, count_client_fifoq, count_client_fifoq_max, fifo, r_fifo, made, fifo_seen>>,
         reader' \in BOOLEAN,
         \/ /\ fifo_pc = "flush" /\ fifo_pc' = "direct" /\ held' = held
            /\ fifoq = <<>> \/ Len(fifo) = fifoOf.Cap
         \/ fifo_pc = "direct" /\ fifo_pc' = "idle" /\ held' = held \cup {r_fifo, "lost"}
         \/ fifo_pc' \in {fifo_pc, "dead"} /\ held' = held
  PROVE  FifoInv'
<1>1. FifoTypes'
  <2>1. held' \subseteq Fifo!Results \cup {"lost"}
    BY DEF FifoInv, FifoTypes, Fifo!TypeOK
  <2>2. fifo_pc' = "flush" => fifo_pc = "flush"
    OBVIOUS
  <2>3. fifo_pc' = "direct" => Len(fifoq) < fifoOf.MaxQ
    <3>1. fifo_pc = "direct" => Len(fifoq) < fifoOf.MaxQ
      BY DEF FifoInv, FifoTypes
    <3>2. fifoq = <<>> => Len(fifoq) < fifoOf.MaxQ
      BY DEF Fifo!FifoAssumption
    <3>3. fifo_pc = "flush" /\ Len(fifo) = fifoOf.Cap => Len(fifoq) < fifoOf.MaxQ
      BY DEF FifoInv, FifoTypes, Fifo!FifoAssumption
    <3>4. QED
      BY <3>1, <3>2, <3>3
  <2>4. fifo_pc' \in {"idle", "flush", "direct", "dead"}
    BY DEF FifoInv, FifoTypes, Fifo!TypeOK
  <2>5. QED
    BY <2>1, <2>2, <2>3, <2>4 DEF FifoInv, FifoTypes, Fifo!TypeOK
<1>2. /\ \A r : (Has(fifoq, r)' <=> Has(fifoq, r)) /\ (Has(fifo, r)' <=> Has(fifo, r))
                /\ (Has(fifo_seen, r)' <=> Has(fifo_seen, r))
                /\ (Once(fifoq, r)' <=> Once(fifoq, r)) /\ (Once(fifo, r)' <=> Once(fifo, r))
                /\ (Once(fifo_seen, r)' <=> Once(fifo_seen, r))
      /\ Overtaken' <=> Overtaken
      /\ \A r \in {"x", "y"} : (Made(r)' <=> Made(r)) /\ (Arg(r)' => Arg(r))
  <2>1. Overtaken' <=> Overtaken
    BY DEF Overtaken
  <2>2. \A r \in {"x", "y"} : (Made(r)' <=> Made(r)) /\ (Arg(r)' => Arg(r))
    BY DEF Made, Arg
  <2>3. QED
    BY <2>1, <2>2
<1>3. CASE held' = held /\ \A r \in {"x", "y"} : Arg(r)' <=> Arg(r)
  BY <1>1, <1>2, <1>3 DEF FifoInv, OnePlace
<1>4. CASE held' = held /\ fifo_pc' = "dead"
  BY <1>1, <1>2, <1>4 DEF FifoInv, OnePlace, Arg
<1>5. CASE fifo_pc = "direct" /\ fifo_pc' = "idle" /\ held' = held \cup {r_fifo, "lost"}
  <2>1. \A r \in {"x", "y"} : ~Arg(r)' /\ (Arg(r) <=> r_fifo = r)
    BY <1>5 DEF Arg
  <2>2. OnePlace("x")' /\ OnePlace("y")'
    BY <1>2, <1>5, <2>1 DEF FifoInv, OnePlace
  <2>3. Overtaken /\ r_fifo = "y" => FALSE
    <3> SUFFICES ASSUME r_fifo = "y" PROVE ~Overtaken
      OBVIOUS
    <3>1. ~Has(fifo, "y") /\ ~Has(fifo_seen, "y") /\ ~Has(fifoq, "y")
      BY <2>1 DEF FifoInv, OnePlace
    <3>2. ~Before(fifo, "y", "x") /\ ~Before(fifoq, "y", "x") /\ ~Before(fifo_seen, "y", "x")
      BY <3>1 DEF Has, Before
    <3>3. QED
      BY <3>1, <3>2 DEF Overtaken
  <2>4. QED
    BY <1>1, <1>2, <1>5, <2>1, <2>2, <2>3 DEF FifoInv
<1>6. QED
  BY <1>3, <1>4, <1>5 DEF Arg

LEMMA FifoStep ==
  ASSUME Fifo!FifoAssumption, FifoInv, [Fifo!Next]_(Fifo!vars) PROVE FifoInv'
<1>0. reader \in BOOLEAN
  BY DEF FifoInv, FifoTypes, Fifo!TypeOK
<1>1. CASE (\E r \in {"x", "y"} : Fifo!Call(r)) \/ Fifo!CallOther
  BY <1>1, CallStep
<1>2. CASE Fifo!Flush
  <2>1. fifo_pc = "flush" /\ UNCHANGED <<reader, made, fifo_seen>>
    BY <1>2 DEF Fifo!Flush
  <2>2. CASE /\ fifoq # <<>> /\ Fifo!CanWrite /\ fifo' = Append(fifo, Head(fifoq)) /\ fifoq' = Tail(fifoq)
             /\ count_client_fifoq' = count_client_fifoq - 1
             /\ UNCHANGED <<fifo_pc, count_client_fifoq_max, r_fifo, held>>
    BY <2>1, <2>2, FlushOne DEF Fifo!CanWrite
  <2>3. CASE /\ fifoq = <<>> \/ Fifo!Full
             /\ fifo_pc' = "direct"
             /\ UNCHANGED <<fifoq, count_client_fifoq, count_client_fifoq_max, fifo, r_fifo, held>>
    BY <1>0, <2>1, <2>3, StayStep DEF Fifo!Full
  <2>4. CASE Fifo!Killed
    BY <1>0, <2>1, <2>4, StayStep DEF Fifo!Killed
  <2>5. QED
    BY <1>2, <2>2, <2>3, <2>4 DEF Fifo!Flush, Fifo!Oldest
<1>3. CASE Fifo!Direct
  <2>1. fifo_pc = "direct" /\ UNCHANGED <<reader, made, fifo_seen>>
    BY <1>3 DEF Fifo!Direct
  <2>2. CASE /\ Fifo!CanWrite /\ fifo_pc' = "idle" /\ fifo' = Append(fifo, r_fifo)
             /\ UNCHANGED <<fifoq, count_client_fifoq, count_client_fifoq_max, r_fifo, held>>
    BY <2>1, <2>2, DirectOne DEF Fifo!CanWrite
  <2>3. CASE /\ fifo_pc' = "idle" /\ fifoq' = Append(fifoq, r_fifo) /\ held' = held \cup {r_fifo}
             /\ count_client_fifoq' = count_client_fifoq + 1
             /\ count_client_fifoq_max' = IF count_client_fifoq' > count_client_fifoq_max
                                          THEN count_client_fifoq' ELSE count_client_fifoq_max
             /\ UNCHANGED <<fifo, r_fifo>>
    BY <2>1, <2>3, QueueOne
  <2>4. CASE /\ fifo_pc' = "idle" /\ held' = held \cup {r_fifo, "lost"}
             /\ UNCHANGED <<fifoq, count_client_fifoq, count_client_fifoq_max, fifo, r_fifo>>
    BY <1>0, <2>1, <2>4, StayStep
  <2>5. CASE Fifo!Killed
    BY <1>0, <2>1, <2>5, StayStep DEF Fifo!Killed
  <2>6. QED
    BY <1>3, <2>2, <2>3, <2>4, <2>5 DEF Fifo!Direct, Fifo!Queued
<1>4. CASE Fifo!Read
  BY <1>4, ReadOne
<1>5. CASE Fifo!Close
  BY <1>5, StayStep DEF Fifo!Close
<1>6. CASE UNCHANGED Fifo!vars
  BY <1>0, <1>6, StayStep DEF Fifo!vars
<1>7. QED
  BY <1>1, <1>2, <1>3, <1>4, <1>5, <1>6 DEF Fifo!Next

\* Cardinality as FifoQueue has it.
LEMMA SameCardinality ==
  ASSUME NEW S PROVE Fifo!Cardinality(S) = Cardinality(S)
BY DEF Fifo!Cardinality, Cardinality

\* The invariant is what NothingLost says.
LEMMA FifoSound ==
  ASSUME FifoInv PROVE NothingLost
<1>1. ASSUME NEW r \in {"x", "y"}
      PROVE  /\ Fifo!Cardinality(Fifo!Places(r)) <= 1
             /\ Fifo!MadeIt(r) /\ "lost" \notin held /\ fifo_pc # "dead" => Fifo!Cardinality(Fifo!Places(r)) = 1
  <2> DEFINE P == Fifo!Places(r)
  <2>1. OnePlace(r)
    BY DEF FifoInv
  <2>2. /\ DOMAIN fifoq = 1 .. Len(fifoq) /\ DOMAIN fifo = 1 .. Len(fifo)
        /\ DOMAIN fifo_seen = 1 .. Len(fifo_seen)
    BY FifoTypeFacts DEF FifoInv
  <2>3. ASSUME NEW p \in P, NEW q \in P PROVE p = q
    <3> DEFINE InQ(u) == \E i \in 1 .. Len(fifoq) : fifoq[i] = r /\ u = <<"q", i>>
               InF(u) == \E i \in 1 .. Len(fifo) : fifo[i] = r /\ u = <<"f", i>>
               InS(u) == \E i \in 1 .. Len(fifo_seen) : fifo_seen[i] = r /\ u = <<"s", i>>
    <3>1. ASSUME NEW u \in P PROVE InQ(u) \/ InF(u) \/ InS(u) \/ (Arg(r) /\ u = <<"r", 0>>)
      BY <2>2 DEF Fifo!Places, Arg
    <3>2. \A u : (InQ(u) => Has(fifoq, r)) /\ (InF(u) => Has(fifo, r)) /\ (InS(u) => Has(fifo_seen, r))
      BY DEF Has
    <3>3. /\ InQ(p) /\ InQ(q) => p = q
          /\ InF(p) /\ InF(q) => p = q
          /\ InS(p) /\ InS(q) => p = q
      BY <2>1 DEF OnePlace, Once
    <3> HIDE DEF P, InQ, InF, InS
    <3>4. QED
      BY <2>1, <3>1, <3>2, <3>3 DEF OnePlace
  <2>4. P # {} <=> Has(fifoq, r) \/ Has(fifo, r) \/ Has(fifo_seen, r) \/ Arg(r)
    BY <2>2 DEF Fifo!Places, Has, Arg
  <2>5. Fifo!MadeIt(r) => Made(r)
    <3>1. made \in {<<>>, <<"x">>, <<"x", "y">>}
      BY DEF FifoInv, FifoTypes
    <3>2. QED
      BY <3>1 DEF Fifo!MadeIt, Made
  <2>6. P = {} \/ \E p : P = {p}
    <3> HIDE DEF P
    <3>1. QED
      BY <2>3
  <2> HIDE DEF P
  <2>7. P = {} => Cardinality(P) = 0
    BY FS_EmptySet
  <2>8. (\E p : P = {p}) => Cardinality(P) = 1
    BY FS_Singleton
  <2>9. Cardinality(P) <= 1 /\ (P # {} => Cardinality(P) = 1)
    <3>1. CASE P = {}
      BY <2>7, <3>1
    <3>2. CASE \E p : P = {p}
      BY <2>8, <3>2
    <3>3. QED
      BY <2>6, <3>1, <3>2
  <2>10. Fifo!MadeIt(r) /\ "lost" \notin held /\ fifo_pc # "dead" => P # {}
    BY <2>1, <2>4, <2>5 DEF OnePlace
  <2>11. QED
    BY <2>9, <2>10, SameCardinality DEF P
<1>2. Fifo!OvertakesOnlyQueued
  <2> SUFFICES ASSUME fifo_seen = <<"y", "x">> PROVE "x" \in held /\ "y" \notin held
    BY DEF Fifo!OvertakesOnlyQueued
  <2>1. Len(fifo_seen) = 2 /\ fifo_seen[1] = "y" /\ fifo_seen[2] = "x"
    OBVIOUS
  <2>2. Before(fifo_seen, "y", "x")
    <3>1. 1 \in 1 .. Len(fifo_seen) /\ 2 \in 1 .. Len(fifo_seen) /\ 1 < 2
      BY <2>1
    <3>2. QED
      BY <2>1, <3>1 DEF Before
  <2>3. QED
    BY <2>2 DEF FifoInv, Overtaken
<1>3. QED
  BY <1>1, <1>2 DEF NothingLost, Fifo!NothingLost
-----------------------------------------------------------------------------
(* The timer process *)

\* The modifier stays within its limit.
TimerInv == Timer!TypeOK /\ time_dev \in -timerOf.Limit .. timerOf.Limit

LEMMA TimerInit ==
  ASSUME Timer!TimerAssumption, Timer!Init PROVE TimerInv
BY DEF TimerInv, Timer!TypeOK, Timer!Init, Timer!TimerAssumption

LEMMA TimerStep ==
  ASSUME Timer!TimerAssumption, TimerInv, [Timer!Next]_(Timer!vars) PROVE TimerInv'
<1>1. /\ timerOf.Interval \in Nat /\ timerOf.Every \in Nat \ {0} /\ timerOf.Limit \in Nat
      /\ timerOf.Second \in Nat \ {0} /\ timerOf.Jumps \subseteq Int /\ timerOf.Overheads \subseteq Nat
      /\ timerOf.MaxJumps \in Nat
  BY DEF Timer!TimerAssumption
<1>2. /\ time_dev \in Int /\ time_dev \in -timerOf.Limit .. timerOf.Limit
      /\ niter \in 0 .. timerOf.Every - 1 /\ now \in Int /\ overhead \in timerOf.Overheads
      /\ jumps \in 0 .. timerOf.MaxJumps
      /\ slept \in timerOf.Interval - timerOf.Limit .. timerOf.Interval + timerOf.Limit
  BY DEF TimerInv, Timer!TypeOK
<1>3. CASE Timer!Turn
  <2> DEFINE n == now + slept' + overhead
  <2>1. slept' = timerOf.Interval - time_dev /\ niter' = (niter + 1) % timerOf.Every
        /\ overhead' = overhead /\ jumps' = jumps
    BY <1>3 DEF Timer!Turn
  <2>2. slept' \in timerOf.Interval - timerOf.Limit .. timerOf.Interval + timerOf.Limit /\ n \in Int
    BY <1>1, <1>2, <2>1
  <2>3. niter' \in 0 .. timerOf.Every - 1
    <3>1. \A a \in Nat, b \in Nat \ {0} : (a + 1) % b \in 0 .. b - 1
      OBVIOUS
    <3>2. QED
      BY <1>1, <1>2, <2>1, <3>1
  <2>4. ASSUME NEW p \in Int
        PROVE  Timer!Corrected(time_dev, p) \in -timerOf.Limit .. timerOf.Limit
    <3>1. Timer!Abs(p - Timer!Ideal) \in Nat
      <4>1. timerOf.Interval * timerOf.Every \in Int
        BY <1>1
      <4>2. QED
        BY <4>1 DEF Timer!Abs, Timer!Ideal
    <3>2. \A a \in Nat, b, c \in Nat \ {0} : (a % b) \div c \in Int
      OBVIOUS
    <3>3. Timer!Deviation(p) \in Int
      <4>1. (Timer!Abs(p - Timer!Ideal) % timerOf.Second) \div timerOf.Every \in Int
        BY <1>1, <3>1, <3>2
      <4>2. QED
        BY <4>1 DEF Timer!Deviation
    <3>4. QED
      BY <1>1, <1>2, <3>3 DEF Timer!Corrected, Timer!Limited
  <2>5. Timer!Abs(n) \in Int
    BY <2>2 DEF Timer!Abs
  <2>6. now' \in Int /\ time_dev' \in -timerOf.Limit .. timerOf.Limit
    BY <1>2, <1>3, <2>2, <2>4, <2>5 DEF Timer!Turn
  <2>7. QED
    BY <1>1, <1>2, <2>1, <2>2, <2>3, <2>6 DEF TimerInv, Timer!TypeOK
<1>4. CASE Timer!Disturb
  BY <1>1, <1>2, <1>4 DEF Timer!Disturb, TimerInv, Timer!TypeOK
<1>5. CASE UNCHANGED Timer!vars
  BY <1>5 DEF Timer!vars, TimerInv, Timer!TypeOK
<1>6. QED
  BY <1>3, <1>4, <1>5 DEF Timer!Next
-----------------------------------------------------------------------------
(* The TCP child *)

\* What a half of the buffer may hold after c connections.
Halves(c) == {Child!Blank} \cup {Child!Half(k, n, h) : k \in 0 .. c, n \in 1 .. childOf.MaxMsg, h \in 1 .. 2}

\* The half that is followed by d others on connection c, of which n messages
\* have been sent.
FromEnd(c, n, d) == Child!Half(c, n - (d \div 2), 2 - (d % 2))

\* How many messages of this connection the main loop has been given.
Forwarded == next - (Len(stream) \div 2) - (IF child_pc = "write" THEN 1 ELSE 0)

\* Types; connections are counted by their failures, and TCP holds the last
\* halves of what the server has sent on this one.
ChildTypes ==
  /\ child_pc \in {"connect", "read", "write", "exit"}
  /\ fail_setup \in 0 .. childOf.MaxSetup + 1 /\ (child_pc # "exit" => fail_setup <= childOf.MaxSetup)
  /\ fail_exec \in 0 .. childOf.MaxExec /\ (child_pc # "exit" => fail_exec < childOf.MaxExec)
  /\ conn = fail_exec + (IF child_pc \in {"read", "write"} THEN 1 ELSE 0)
  /\ next \in 0 .. childOf.MaxMsg
  /\ data = <<data[1], data[2]>> /\ data[1] \in Halves(conn) /\ data[2] \in Halves(conn)
  /\ child_last = <<child_last[1], child_last[2]>>
  /\ child_last[1] \in Halves(conn) /\ child_last[2] \in Halves(conn)
  /\ pipe \in Seq(UNION {Seq(Halves(c)) : c \in Nat}) /\ Len(pipe) <= childOf.MaxPipe
  /\ up \in 0 .. childOf.ReadTimeout /\ whole \in BOOLEAN

StreamInv ==
  /\ stream \in Seq(Halves(conn)) /\ Len(stream) <= 2 * next
  /\ \A j \in 1 .. Len(stream) : stream[j] = FromEnd(conn, next, Len(stream) - j)
  /\ child_pc \in {"connect", "exit"} => stream = <<>>
  /\ seg \in 0 .. Len(stream)

\* As long as messages arrive whole, the buffer holds the next one and the
\* last record written is the one before it, or of an earlier connection.
OrderInv ==
  whole =>
    /\ Len(stream) % 2 = 0 /\ seg % 2 = 0
    /\ child_pc = "write" => data = Child!Whole(conn, Forwarded + 1)
    /\ child_pc \in {"read", "write"} =>
         \/ child_last[1].conn = conn /\ child_last[1].msg = Forwarded
         \/ child_last[1].conn < conn /\ Forwarded = 0

ChildInv == ChildTypes /\ StreamInv /\ OrderInv

\* What is in a half.
LEMMA HalfFacts ==
  ASSUME NEW c \in Nat, NEW n \in Int, NEW h \in 1 .. 2
  PROVE  /\ Child!Half(c, n, h).conn = c /\ Child!Half(c, n, h).msg = n /\ Child!Half(c, n, h).half = h
         /\ n \in 1 .. childOf.MaxMsg => Child!Half(c, n, h) \in Halves(c)
<1>1. c \in 0 .. c
  OBVIOUS
<1>2. QED
  BY <1>1 DEF Child!Half, Halves

LEMMA HalvesFacts ==
  ASSUME NEW c \in Nat, NEW x \in Halves(c)
  PROVE  x.conn \in 0 .. c /\ x.msg \in Int /\ x \in Halves(c + 1) /\ Child!Blank \in Halves(c)
<1>1. \A k : k \in 0 .. c => k \in 0 .. c + 1
  OBVIOUS
<1>2. x \in Halves(c + 1)
  BY <1>1 DEF Halves
<1>3. QED
  BY <1>2 DEF Halves, Child!Half, Child!Blank

\* A function on 1 .. 2 is a pair.
LEMMA PairFacts ==
  ASSUME NEW S, NEW f \in [1 .. 2 -> S]
  PROVE  f = <<f[1], f[2]>> /\ f \in Seq(S)
<1> DEFINE g == [i \in 1 .. 2 |-> f[i]]
<1>0. g \in Seq(S) /\ Len(g) = 2
  OBVIOUS
<1>1. f \in Seq(S) /\ Len(f) = 2 /\ f[1] \in S /\ f[2] \in S
  <2>1. f = g
    OBVIOUS
  <2>2. QED
    BY <1>0, <2>1
<1>2. <<f[1], f[2]>> \in Seq(S) /\ Len(<<f[1], f[2]>>) = 2
  BY <1>1
<1>3. \A i \in 1 .. 2 : f[i] = <<f[1], f[2]>>[i]
  <2>1. <<f[1], f[2]>>[1] = f[1] /\ <<f[1], f[2]>>[2] = f[2]
    OBVIOUS
  <2>2. \A i \in 1 .. 2 : i = 1 \/ i = 2
    OBVIOUS
  <2>3. QED
    BY <2>1, <2>2
<1>4. QED
  BY <1>1, <1>2, <1>3, SeqEqual

LEMMA ChildNumbers ==
  ASSUME Child!ChildAssumption, ChildInv
  PROVE  /\ conn \in Nat /\ conn <= childOf.MaxExec /\ next \in Nat /\ Len(stream) \in Nat /\ seg \in Nat
         /\ childOf.MaxMsg \in Nat /\ childOf.MaxExec \in Nat /\ childOf.MaxSetup \in Nat
         /\ childOf.ReadTimeout \in Nat \ {0} /\ childOf.MaxPipe \in Nat
         /\ stream \in Seq(Halves(conn)) /\ data \in Seq(Halves(conn))
         /\ pipe \in Seq(UNION {Seq(Halves(c)) : c \in Nat})
<1>1. conn \in Nat /\ conn <= childOf.MaxExec /\ next \in Nat
  BY DEF ChildInv, ChildTypes, Child!ChildAssumption
<1>2. data \in Seq(Halves(conn)) /\ stream \in Seq(Halves(conn))
  <2>1. data = <<data[1], data[2]>> /\ data[1] \in Halves(conn) /\ data[2] \in Halves(conn)
    BY DEF ChildInv, ChildTypes
  <2>2. <<data[1], data[2]>> \in Seq(Halves(conn))
    BY <2>1
  <2>3. QED
    BY <2>1, <2>2 DEF ChildInv, StreamInv
<1>3. Len(stream) \in Nat /\ seg \in Nat
  BY <1>2 DEF ChildInv, StreamInv
<1>4. QED
  BY <1>1, <1>2, <1>3 DEF ChildInv, ChildTypes, Child!ChildAssumption

LEMMA ChildInit ==
  ASSUME Child!ChildAssumption, Child!Init PROVE ChildInv
<1>1. /\ child_pc = "connect" /\ fail_setup = 0 /\ fail_exec = 0 /\ conn = 0 /\ next = 0 /\ up = 0
      /\ data = <<Child!Blank, Child!Blank>> /\ child_last = <<Child!Blank, Child!Blank>>
      /\ stream = <<>> /\ seg = 0 /\ pipe = <<>> /\ whole = TRUE
  BY DEF Child!Init
<1>2. Child!Blank \in Halves(conn)
  BY DEF Halves
<1>3. ChildTypes
  <2> DEFINE U == UNION {Seq(Halves(c)) : c \in Nat}
  <2>1. pipe \in Seq(U) /\ Len(pipe) = 0
    <3> HIDE DEF U
    <3>1. QED
      BY <1>1
  <2>2. QED
    BY <1>1, <1>2, <2>1 DEF ChildTypes, Child!ChildAssumption
<1>4. stream \in Seq(Halves(conn)) /\ Len(stream) = 0
  BY <1>1
<1>5. StreamInv
  BY <1>1, <1>4 DEF StreamInv
<1>6. OrderInv
  BY <1>1, <1>4 DEF OrderInv
<1>7. QED
  BY <1>3, <1>5, <1>6 DEF ChildInv

LEMMA ConnectStep ==
  ASSUME Child!ChildAssumption, ChildInv, Child!Connect PROVE ChildInv'
<1>1. /\ child_pc = "connect" /\ child_pc' = "read" /\ conn' = conn + 1 /\ next' = 0
      /\ UNCHANGED <<fail_setup, fail_exec, data, stream, seg, pipe, child_last, up, whole>>
  BY DEF Child!Connect, Child!link
<1>2. stream = <<>> /\ seg = 0 /\ conn \in Nat /\ Len(stream) = 0
  BY <1>1, ChildNumbers DEF ChildInv, StreamInv
<1>3. \A x \in Halves(conn) : x \in Halves(conn') /\ x.conn \in 0 .. conn
  BY <1>1, <1>2, HalvesFacts
<1>4. ChildTypes'
  BY <1>1, <1>2, <1>3 DEF ChildInv, ChildTypes, Child!ChildAssumption
<1>5. stream' \in Seq(Halves(conn'))
  BY <1>1, <1>2
<1>6. StreamInv'
  BY <1>1, <1>2, <1>5 DEF StreamInv
<1>7. child_last[1].conn < conn'
  BY <1>1, <1>2, <1>3 DEF ChildInv, ChildTypes
<1>8. Forwarded' = 0
  BY <1>1, <1>2 DEF Forwarded
<1>9. OrderInv'
  BY <1>1, <1>2, <1>7, <1>8 DEF OrderInv
<1>10. QED
  BY <1>4, <1>6, <1>9 DEF ChildInv

LEMMA ConnectFailsStep ==
  ASSUME Child!ChildAssumption, ChildInv, Child!ConnectFails PROVE ChildInv'
<1>1. /\ child_pc = "connect" /\ child_pc' = IF fail_setup' > childOf.MaxSetup THEN "exit" ELSE "connect"
      /\ fail_setup' = fail_setup + 1
      /\ UNCHANGED <<fail_exec, data, stream, seg, pipe, conn, next, child_last, up, whole>>
  BY DEF Child!ConnectFails, Child!link, Child!SetupExhausted
<1>2. ChildTypes'
  BY <1>1 DEF ChildInv, ChildTypes, Child!ChildAssumption
<1>3. StreamInv'
  BY <1>1 DEF ChildInv, StreamInv
<1>4. OrderInv'
  BY <1>1 DEF ChildInv, OrderInv
<1>5. QED
  BY <1>2, <1>3, <1>4 DEF ChildInv

LEMMA LostStep ==
  ASSUME Child!ChildAssumption, ChildInv, Child!Lost PROVE ChildInv'
<1>1. /\ child_pc = "read" /\ child_pc' = IF fail_exec' >= childOf.MaxExec THEN "exit" ELSE "connect"
      /\ fail_exec' = fail_exec + 1 /\ stream' = <<>> /\ seg' = 0 /\ up' = 0
      /\ UNCHANGED <<fail_setup, data, pipe, conn, next, child_last, whole>>
  BY DEF Child!Lost, Child!ExecExhausted
<1>2. ChildTypes'
  BY <1>1 DEF ChildInv, ChildTypes, Child!ChildAssumption
<1>3. stream' \in Seq(Halves(conn')) /\ Len(stream') = 0
  BY <1>1
<1>4. StreamInv'
  BY <1>1, <1>3, ChildNumbers DEF StreamInv
<1>5. OrderInv'
  BY <1>1, <1>3 DEF OrderInv
<1>6. QED
  BY <1>2, <1>4, <1>5 DEF ChildInv

\* Steps that touch neither the stream nor what is forwarded.
LEMMA QuietStep ==
  ASSUME Child!ChildAssumption, ChildInv, Child!MainReads \/ Child!Second \/ UNCHANGED Child!vars PROVE ChildInv'
<1>1. UNCHANGED <<child_pc, fail_setup, fail_exec, data, stream, seg, conn, next, child_last, whole>>
  BY DEF Child!MainReads, Child!Second, Child!vars, Child!link
<1>2. up' \in 0 .. childOf.ReadTimeout
  BY DEF Child!MainReads, Child!Second, Child!vars, ChildInv, ChildTypes, Child!ChildAssumption
<1>3. pipe' \in Seq(UNION {Seq(Halves(c)) : c \in Nat}) /\ Len(pipe') <= childOf.MaxPipe
  <2> DEFINE U == UNION {Seq(Halves(c)) : c \in Nat}
  <2>1. pipe \in Seq(U) /\ Len(pipe) <= childOf.MaxPipe /\ childOf.MaxPipe \in Nat
    BY ChildNumbers DEF ChildInv, ChildTypes
  <2>2. pipe' = pipe \/ (pipe # <<>> /\ pipe' = Tail(pipe))
    BY DEF Child!MainReads, Child!Second, Child!vars
  <2> HIDE DEF U
  <2>3. pipe' \in Seq(U) /\ Len(pipe') <= childOf.MaxPipe
    BY <2>1, <2>2
  <2>4. QED
    BY <2>3 DEF U
<1>4. ChildTypes'
  BY <1>1, <1>2, <1>3 DEF ChildInv, ChildTypes
<1>5. StreamInv'
  BY <1>1 DEF ChildInv, StreamInv
<1>6. Forwarded' = Forwarded
  BY <1>1 DEF Forwarded
<1>7. OrderInv'
  BY <1>1, <1>6 DEF ChildInv, OrderInv
<1>8. QED
  BY <1>4, <1>5, <1>7 DEF ChildInv

LEMMA DeliverStep ==
  ASSUME Child!ChildAssumption, ChildInv, Child!Deliver PROVE ChildInv'
<1>1. /\ child_pc \in {"read", "write"}
      /\ UNCHANGED <<child_pc, fail_setup, fail_exec, data, stream, pipe, conn, next, child_last, up>>
  BY DEF Child!Deliver
<1>2. PICK n \in (seg + 1) .. Len(stream) : seg' = n /\ whole' = (whole /\ n % 2 = 0)
  BY DEF Child!Deliver
<1>3. ChildTypes'
  BY <1>1, <1>2 DEF ChildInv, ChildTypes
<1>4. StreamInv'
  BY <1>1, <1>2, ChildNumbers DEF ChildInv, StreamInv
<1>5. Forwarded' = Forwarded
  BY <1>1 DEF Forwarded
<1>6. OrderInv'
  BY <1>1, <1>2, <1>5 DEF ChildInv, OrderInv
<1>7. QED
  BY <1>3, <1>4, <1>6 DEF ChildInv

LEMMA ReadStep ==
  ASSUME Child!ChildAssumption, ChildInv, Child!Read PROVE ChildInv'
<1> DEFINE H == Halves(conn)
           n == Len(stream)
           g == Child!Got
<1>1. /\ child_pc = "read" /\ child_pc' = "write" /\ seg > 0 /\ up' = 0 /\ seg' = seg - g
      /\ data' = [h \in 1 .. 2 |-> IF h <= g THEN stream[h] ELSE data[h]]
      /\ stream' = SubSeq(stream, g + 1, n)
      /\ UNCHANGED <<fail_setup, fail_exec, pipe, conn, next, child_last, whole>>
  BY DEF Child!Read, Child!Readable, Child!Rest
<1>2. /\ conn \in Nat /\ next \in Nat /\ n \in Nat /\ seg \in 1 .. n /\ g \in 1 .. 2 /\ g <= seg
      /\ (seg >= 2 => g = 2) /\ stream \in Seq(H) /\ n <= 2 * next
  BY <1>1, ChildNumbers DEF ChildInv, StreamInv, Child!Got
<1> HIDE DEF g
<1>3. data' \in [1 .. 2 -> H] /\ \A h \in 1 .. 2 : data'[h] = IF h <= g THEN stream[h] ELSE data[h]
  <2>1. \A h \in 1 .. 2 : h <= g => stream[h] \in H
    <3>1. \A h \in 1 .. 2 : h <= g => h \in 1 .. n
      BY <1>2
    <3> HIDE DEF H
    <3>2. QED
      BY <1>2, <3>1
  <2>2. \A h \in 1 .. 2 : data[h] \in H
    <3>1. \A h \in 1 .. 2 : h = 1 \/ h = 2
      OBVIOUS
    <3>2. QED
      BY <3>1 DEF ChildInv, ChildTypes
  <2> HIDE DEF H
  <2>3. QED
    BY <1>1, <2>1, <2>2
<1>4. data' = <<data'[1], data'[2]>> /\ data'[1] \in H /\ data'[2] \in H
  <2> HIDE DEF H
  <2>1. data'[1] \in H /\ data'[2] \in H
    BY <1>3
  <2>2. QED
    BY <1>3, <2>1, PairFacts
<1>5. ChildTypes'
  <2>1. Halves(conn') = Halves(conn)
    BY <1>1
  <2>2. QED
    BY <1>1, <1>4, <2>1 DEF ChildInv, ChildTypes, Child!ChildAssumption
<1>6. /\ stream' \in Seq(H) /\ Len(stream') = n - g
      /\ \A i \in 1 .. n - g : stream'[i] = stream[i + g]
  <2>1. \A i \in g + 1 .. n : stream[i] \in H
    <3>1. \A i \in g + 1 .. n : i \in 1 .. n
      BY <1>2
    <3> HIDE DEF H
    <3>2. QED
      BY <1>2, <3>1
  <2>2. /\ SubSeq(stream, g + 1, n) \in Seq(H)
        /\ Len(SubSeq(stream, g + 1, n)) = IF g + 1 <= n THEN n - (g + 1) + 1 ELSE 0
        /\ \A i \in 1 .. n - (g + 1) + 1 : SubSeq(stream, g + 1, n)[i] = stream[(g + 1) + i - 1]
    <3> HIDE DEF H
    <3>1. g + 1 \in Int /\ n \in Int
      BY <1>2
    <3> HIDE DEF n
    <3>2. QED
      BY <2>1, <3>1, SubSeqProperties
  <2>3. n - (g + 1) + 1 = n - g /\ (IF g + 1 <= n THEN n - (g + 1) + 1 ELSE 0) = n - g
        /\ \A i \in 1 .. n - g : (g + 1) + i - 1 = i + g
    BY <1>2
  <2> HIDE DEF H, n
  <2>4. QED
    BY <1>1, <2>2, <2>3
<1>7. StreamInv'
  <2>1. ASSUME NEW j \in 1 .. Len(stream') PROVE stream'[j] = FromEnd(conn, next, Len(stream') - j)
    <3>1. j \in 1 .. n - g /\ j + g \in 1 .. n /\ n - (j + g) = (n - g) - j
      BY <1>2, <1>6
    <3>2. stream[j + g] = FromEnd(conn, next, n - (j + g))
      BY <3>1 DEF ChildInv, StreamInv
    <3>3. QED
      BY <1>6, <3>1, <3>2
  <2>2. seg' \in 0 .. Len(stream') /\ Len(stream') <= 2 * next
    BY <1>1, <1>2, <1>6
  <2>3. QED
    BY <1>1, <1>6, <2>1, <2>2 DEF StreamInv
<1>8. ASSUME whole PROVE /\ Len(stream') % 2 = 0 /\ seg' % 2 = 0
                         /\ data' = Child!Whole(conn, Forwarded' + 1)
                         /\ Forwarded' = Forwarded /\ Forwarded' \in Int
  <2>1. n % 2 = 0 /\ seg % 2 = 0
    BY <1>8 DEF ChildInv, OrderInv
  <2>2. seg >= 2 /\ g = 2 /\ n >= 2
    BY <1>2, <2>1
  <2>3. (n - 2) % 2 = 0 /\ (seg - 2) % 2 = 0 /\ (n - 2) \div 2 = (n \div 2) - 1
    BY <1>2, <2>1
  <2>4. Forwarded = next - (n \div 2) /\ Forwarded' = (next - ((n - 2) \div 2)) - 1
    <3>1. n \div 2 \in Int /\ Len(stream') = n - 2 /\ next' = next
      BY <1>1, <1>2, <1>6, <2>2
    <3>2. next - (n \div 2) - 0 = next - (n \div 2)
      BY <1>2, <3>1
    <3>3. Forwarded = next - (n \div 2) - 0
      BY <1>1 DEF Forwarded
    <3>4. Forwarded' = (next' - (Len(stream') \div 2)) - 1
      BY <1>1 DEF Forwarded
    <3>5. QED
      BY <3>1, <3>2, <3>3, <3>4
  <2>5. Forwarded' = Forwarded /\ Forwarded' \in Int
    BY <1>2, <2>3, <2>4
  <2>6. stream[1] = FromEnd(conn, next, n - 1) /\ stream[2] = FromEnd(conn, next, n - 2)
    <3>1. 1 \in 1 .. n /\ 2 \in 1 .. n
      BY <1>2, <2>2
    <3>2. QED
      BY <3>1 DEF ChildInv, StreamInv
  <2>7. (n - 1) \div 2 = (n \div 2) - 1 /\ (n - 1) % 2 = 1
    BY <1>2, <2>1
  <2>8. next - ((n \div 2) - 1) = Forwarded' + 1
    BY <1>2, <2>4, <2>5
  <2>9. stream[1] = Child!Half(conn, Forwarded' + 1, 1) /\ stream[2] = Child!Half(conn, Forwarded' + 1, 2)
    <3>1. 2 - ((n - 1) % 2) = 1 /\ 2 - ((n - 2) % 2) = 2
      BY <2>3, <2>7
    <3>2. QED
      BY <2>3, <2>6, <2>7, <2>8, <3>1 DEF FromEnd
  <2>10. data'[1] = stream[1] /\ data'[2] = stream[2]
    BY <1>3, <2>2
  <2>11. QED
    BY <1>1, <1>4, <1>6, <2>2, <2>3, <2>5, <2>9, <2>10 DEF Child!Whole
<1>9. OrderInv'
  <2> SUFFICES ASSUME whole' PROVE OrderInv'
    BY DEF OrderInv
  <2>1. whole
    BY <1>1
  <2>2. \/ child_last[1].conn = conn /\ child_last[1].msg = Forwarded
        \/ child_last[1].conn < conn /\ Forwarded = 0
    BY <1>1, <2>1 DEF ChildInv, OrderInv
  <2>3. Child!Whole(conn', Forwarded' + 1) = Child!Whole(conn, Forwarded' + 1)
    BY <1>1
  <2>4. QED
    BY <1>1, <1>8, <2>1, <2>2, <2>3 DEF OrderInv, Child!Whole, Child!Half
<1>10. QED
  BY <1>5, <1>7, <1>9 DEF ChildInv

LEMMA WriteStep ==
  ASSUME Child!ChildAssumption, ChildInv, Child!Write PROVE ChildInv'
<1>1. /\ child_pc = "write" /\ child_pc' = "read" /\ pipe' = Append(pipe, data) /\ child_last' = data
      /\ Len(pipe) < childOf.MaxPipe
      /\ UNCHANGED <<fail_setup, fail_exec, data, stream, seg, conn, next, up, whole>>
  BY DEF Child!Write, Child!Room, Child!link
<1>2. pipe' \in Seq(UNION {Seq(Halves(c)) : c \in Nat}) /\ Len(pipe') <= childOf.MaxPipe
  <2> DEFINE U == UNION {Seq(Halves(c)) : c \in Nat}
  <2>1. pipe \in Seq(U) /\ data \in U /\ childOf.MaxPipe \in Nat
    BY ChildNumbers
  <2> HIDE DEF U
  <2>2. pipe' \in Seq(U) /\ Len(pipe') <= childOf.MaxPipe
    BY <1>1, <2>1
  <2>3. QED
    BY <2>2 DEF U
<1>3. ChildTypes'
  BY <1>1, <1>2 DEF ChildInv, ChildTypes, Child!ChildAssumption
<1>4. StreamInv'
  BY <1>1 DEF ChildInv, StreamInv
<1>5. Forwarded' = Forwarded + 1 /\ Forwarded \in Int
  BY <1>1, ChildNumbers DEF Forwarded
<1>6. OrderInv'
  <2> SUFFICES ASSUME whole PROVE OrderInv'
    BY <1>1 DEF OrderInv
  <2>1. data = Child!Whole(conn, Forwarded + 1)
    BY <1>1 DEF ChildInv, OrderInv
  <2>2. data[1] = Child!Half(conn, Forwarded + 1, 1)
    BY <2>1 DEF Child!Whole
  <2>3. data[1].conn = conn /\ data[1].msg = Forwarded + 1
    BY <2>2 DEF Child!Half
  <2>4. child_last'[1].conn = conn' /\ child_last'[1].msg = Forwarded'
    BY <1>1, <1>5, <2>3
  <2>5. QED
    BY <1>1, <2>4 DEF ChildInv, OrderInv
<1>7. QED
  BY <1>3, <1>4, <1>6 DEF ChildInv

LEMMA ServerSendsStep ==
  ASSUME Child!ChildAssumption, ChildInv, Child!ServerSends PROVE ChildInv'
<1> DEFINE H == Halves(conn)
           n == Len(stream)
           m == Child!Whole(conn, next + 1)
<1>1. /\ child_pc \in {"read", "write"} /\ next < childOf.MaxMsg /\ stream' = stream \o m /\ next' = next + 1
      /\ UNCHANGED <<child_pc, fail_setup, fail_exec, data, seg, pipe, conn, child_last, up, whole>>
  BY DEF Child!ServerSends
<1>2. /\ conn \in Nat /\ next \in Nat /\ n \in Nat /\ stream \in Seq(H) /\ n <= 2 * next
      /\ childOf.MaxMsg \in Nat /\ seg \in 0 .. n
  BY ChildNumbers DEF ChildInv, StreamInv
<1>3. /\ Child!Half(conn, next + 1, 1) \in H /\ Child!Half(conn, next + 1, 2) \in H
  BY <1>1, <1>2, HalfFacts
<1>4. m \in Seq(H) /\ Len(m) = 2 /\ m[1] = Child!Half(conn, next + 1, 1) /\ m[2] = Child!Half(conn, next + 1, 2)
  <2> HIDE DEF H
  <2>1. QED
    BY <1>3 DEF Child!Whole
<1> HIDE DEF m
<1>5. /\ stream' \in Seq(H) /\ Len(stream') = n + 2
      /\ \A i \in 1 .. n + 2 : stream'[i] = IF i <= n THEN stream[i] ELSE m[i - n]
  <2>1. stream \in Seq(H) /\ m \in Seq(H)
    BY <1>2, <1>4
  <2> HIDE DEF H
  <2>2. /\ stream \o m \in Seq(H) /\ Len(stream \o m) = Len(stream) + Len(m)
        /\ \A i \in 1 .. Len(stream) + Len(m) :
             (stream \o m)[i] = IF i <= Len(stream) THEN stream[i] ELSE m[i - Len(stream)]
    BY <2>1, ConcatProperties
  <2>3. QED
    BY <1>1, <1>4, <2>2
<1>6. ChildTypes'
  BY <1>1, <1>2 DEF ChildInv, ChildTypes
<1>7. StreamInv'
  <2>1. ASSUME NEW j \in 1 .. n + 2 PROVE stream'[j] = FromEnd(conn, next + 1, (n + 2) - j)
    <3>1. CASE j <= n
      <4>1. j \in 1 .. n /\ stream'[j] = stream[j]
        BY <1>2, <1>5, <3>1
      <4>2. stream[j] = FromEnd(conn, next, n - j)
        BY <4>1 DEF ChildInv, StreamInv
      <4>3. \A d \in Nat : /\ (next + 1) - ((d + 2) \div 2) = next - (d \div 2)
                           /\ (d + 2) % 2 = d % 2
        BY <1>2
      <4>4. n - j \in Nat /\ (n + 2) - j = (n - j) + 2
        BY <1>2, <4>1
      <4>5. QED
        BY <4>1, <4>2, <4>3, <4>4 DEF FromEnd
    <3>2. CASE j = n + 1
      <4>1. stream'[j] = m[1]
        BY <1>2, <1>5, <3>2
      <4>2. (n + 2) - j = 1 /\ (next + 1) - (1 \div 2) = next + 1 /\ 2 - (1 % 2) = 1
        BY <1>2, <3>2
      <4>3. QED
        BY <1>4, <4>1, <4>2 DEF FromEnd
    <3>3. CASE j = n + 2
      <4>1. stream'[j] = m[2]
        BY <1>2, <1>5, <3>3
      <4>2. (n + 2) - j = 0 /\ (next + 1) - (0 \div 2) = next + 1 /\ 2 - (0 % 2) = 2
        BY <1>2, <3>3
      <4>3. QED
        BY <1>4, <4>1, <4>2 DEF FromEnd
    <3>4. QED
      BY <1>2, <3>1, <3>2, <3>3
  <2>2. \A j \in 1 .. Len(stream') : stream'[j] = FromEnd(conn', next', Len(stream') - j)
    BY <1>1, <1>5, <2>1
  <2>3. seg' \in 0 .. Len(stream') /\ Len(stream') <= 2 * next'
    BY <1>1, <1>2, <1>5
  <2>4. QED
    BY <1>1, <1>5, <2>2, <2>3 DEF StreamInv
<1>8. Forwarded' = Forwarded /\ Len(stream') % 2 = n % 2
  <2>1. (n + 2) \div 2 = (n \div 2) + 1 /\ (n + 2) % 2 = n % 2
    BY <1>2
  <2>2. QED
    BY <1>1, <1>2, <1>5, <2>1 DEF Forwarded
<1>9. OrderInv'
  BY <1>1, <1>8 DEF ChildInv, OrderInv
<1>10. QED
  BY <1>6, <1>7, <1>9 DEF ChildInv

LEMMA ChildStep ==
  ASSUME Child!ChildAssumption, ChildInv, [Child!Next]_(Child!vars) PROVE ChildInv'
BY ConnectStep, ConnectFailsStep, ReadStep, WriteStep, LostStep, ServerSendsStep, DeliverStep, QuietStep
   DEF Child!Next
-----------------------------------------------------------------------------
(* The parts together: each goes its own way. *)

UdpP == INSTANCE UdpSend_proofs
          WITH Dscps <- udpOf.Dscps, Patience <- udpOf.Patience, Faults <- udpOf.Faults,
               MaxSent <- udpOf.MaxSent, MaxBack <- udpOf.MaxBack, pc <- udp_pc

\* The send path proved about is the send path of the parts.
LEMMA SameUdp ==
  /\ Udp!Init => UdpP!Init
  /\ Udp!SendAssumption => UdpP!SendAssumption
  /\ UdpP!TypeOK => Udp!TypeOK
  /\ UdpP!LagBounded => LagBounded
  /\ [Udp!Next]_(Udp!vars) => [UdpP!Next]_(UdpP!vars)
<1>1. (Udp!Init => UdpP!Init) /\ (Udp!SendAssumption => UdpP!SendAssumption)
  BY DEF Udp!Init, UdpP!Init, Udp!Mode, UdpP!Mode, Udp!SendAssumption, UdpP!SendAssumption,
         Udp!FaultKinds, UdpP!FaultKinds
<1>2. (UdpP!TypeOK => Udp!TypeOK) /\ (UdpP!LagBounded => LagBounded)
  BY DEF UdpP!TypeOK, Udp!TypeOK, UdpP!LagBounded, Udp!LagBounded, LagBounded
<1>3. ASSUME NEW d, Udp!Send(d) PROVE UdpP!Send(d)
  BY <1>3 DEF Udp!Send, UdpP!Send, Udp!dscp_set, UdpP!dscp_set
<1>4. Udp!Fetch => UdpP!Fetch
  BY DEF Udp!Fetch, UdpP!Fetch, Udp!InTime, UdpP!InTime, Udp!Taken, UdpP!Taken, Udp!Drop, UdpP!Drop
<1>5. Udp!GiveUp => UdpP!GiveUp
  BY DEF Udp!GiveUp, UdpP!GiveUp, Udp!InTime, UdpP!InTime
<1>6. (Udp!Clock => UdpP!Clock) /\ (Udp!Arrive => UdpP!Arrive)
  BY DEF Udp!Clock, UdpP!Clock, Udp!Arrive, UdpP!Arrive
<1>7. Udp!Lose => UdpP!Lose
  BY DEF Udp!Lose, UdpP!Lose, Udp!Drop, UdpP!Drop
<1>8. UNCHANGED Udp!vars => UNCHANGED UdpP!vars
  BY DEF Udp!vars, UdpP!vars
<1>9. QED
  BY <1>1, <1>2, <1>3, <1>4, <1>5, <1>6, <1>7, <1>8 DEF Udp!Next, UdpP!Next

\* A step of the parts is a step of each of them, or leaves it alone.
LEMMA PartsApart ==
  ASSUME [PartsNext]_partVars
  PROVE  /\ [Next]_vars /\ [Fifo!Next]_(Fifo!vars) /\ [Child!Next]_(Child!vars)
         /\ [Timer!Next]_(Timer!vars) /\ [Udp!Next]_(Udp!vars)
<1>1. /\ fifoVars' = fifoVars => UNCHANGED Fifo!vars
      /\ childVars' = childVars => UNCHANGED Child!vars
      /\ timerVars' = timerVars => UNCHANGED Timer!vars
      /\ udpVars' = udpVars => UNCHANGED Udp!vars
  BY DEF fifoVars, childVars, timerVars, udpVars, Fifo!vars, Child!vars, Child!link, Timer!vars, Udp!vars
<1>2. CASE UNCHANGED partVars
  BY <1>1, <1>2 DEF partVars
<1>3. CASE InStats(Next)
  BY <1>1, <1>3 DEF InStats
<1>4. CASE InFifo(Fifo!Next)
  BY <1>1, <1>4 DEF InFifo
<1>5. CASE InChild(Child!Next)
  BY <1>1, <1>5 DEF InChild
<1>6. CASE InTimer(Timer!Next)
  BY <1>1, <1>6 DEF InTimer
<1>7. CASE InUdp(Udp!Next)
  BY <1>1, <1>7 DEF InUdp
<1>8. QED
  BY <1>2, <1>3, <1>4, <1>5, <1>6, <1>7 DEF PartsNext

(* The inductive invariant of the FIFO, the child and the timer. *)
PartsInv == FifoInv /\ ChildInv /\ TimerInv

(* It holds at every moment, whichever part runs. *)
THEOREM PartsInvariance == PartsSpec => []PartsInv
<1>1. Fifo!FifoAssumption /\ Child!ChildAssumption /\ Timer!TimerAssumption
  BY PartsAssumption
<1>2. PartsInit => PartsInv
  BY <1>1, FifoInit, ChildInit, TimerInit DEF PartsInit, PartsInv
<1>3. PartsInv /\ [PartsNext]_partVars => PartsInv'
  BY <1>1, PartsApart, FifoStep, ChildStep, TimerStep DEF PartsInv
<1>4. QED
  BY <1>2, <1>3, PTL DEF PartsSpec

(* The send path among the parts behaves as UdpSend, and so inherits what is
   proved about it. *)
THEOREM PartsUdp == PartsSpec => UdpP!Spec
<1>1. PartsInit => UdpP!Init
  BY SameUdp DEF PartsInit
<1>2. [PartsNext]_partVars => [UdpP!Next]_(UdpP!vars)
  BY SameUdp, PartsApart
<1>3. QED
  BY <1>1, <1>2, PTL DEF PartsSpec, UdpP!Spec

(* The same for the statistics and ResultStats. *)
THEOREM PartsStats == PartsSpec => Spec
<1>1. PartsInit => Init
  BY DEF PartsInit
<1>2. [PartsNext]_partVars => [Next]_vars
  BY PartsApart
<1>3. QED
  BY <1>1, <1>2, PTL DEF PartsSpec, Spec

(* client_write_fifo(): for every capacity of the FIFO and of the queue, and
   although the reader may leave and malloc() may fail, a result is in one
   place, is lost only for lack of memory or of a reader, and is overtaken only
   when it was queued and the other was not. *)
THEOREM NothingLostCorrect == PartsSpec => []NothingLost
<1>1. PartsInv => NothingLost
  BY FifoSound DEF PartsInv
<1>2. QED
  BY <1>1, PartsInvariance, PTL

(* tstamp_fetch_tx(): for every patience and number of packets, a TX timestamp
   is never that of a later packet, and is late by no more packets than there
   were waits that failed. *)
THEOREM LagBoundedCorrect == PartsSpec => []LagBounded
<1>1. UdpP!SendAssumption
  BY SameUdp, PartsAssumption
<1>2. UdpP!Spec => []UdpP!LagBounded
  BY <1>1, UdpP!LagCorrect
<1>3. UdpP!LagBounded => LagBounded
  BY SameUdp
<1>4. QED
  BY <1>2, <1>3, PartsUdp, PTL

\* Only Write makes the pipe longer.
LEMMA ForwardStep ==
  ASSUME Child!ChildAssumption, ChildInv, [Child!Next]_(Child!vars), whole, Len(pipe') > Len(pipe)
  PROVE  /\ child_last' = Child!Whole(child_last'[1].conn, child_last'[1].msg)
         /\ \/ child_last'[1].conn > child_last[1].conn /\ child_last'[1].msg = 1
            \/ child_last'[1].conn = child_last[1].conn /\ child_last'[1].msg = child_last[1].msg + 1
<1>1. pipe = <<>> \/ pipe' # Tail(pipe)
  <2> DEFINE U == UNION {Seq(Halves(c)) : c \in Nat}
  <2>1. pipe \in Seq(U)
    BY ChildNumbers
  <2> HIDE DEF U
  <2>2. pipe # <<>> => Len(Tail(pipe)) = Len(pipe) - 1 /\ Len(pipe) \in Nat
    BY <2>1
  <2>3. Len(pipe) \in Nat
    BY <2>1
  <2>4. QED
    BY <2>2, <2>3
<1>2. pipe' # pipe
  <2> DEFINE U == UNION {Seq(Halves(c)) : c \in Nat}
  <2>1. pipe \in Seq(U)
    BY ChildNumbers
  <2> HIDE DEF U
  <2>2. Len(pipe) \in Nat
    BY <2>1
  <2>3. QED
    BY <2>2
<1>3. Child!Write
  BY <1>1, <1>2 DEF Child!Next, Child!vars, Child!Connect, Child!ConnectFails, Child!Read, Child!Lost,
                    Child!ServerSends, Child!Deliver, Child!MainReads, Child!Second
<1>4. child_last' = data /\ child_pc = "write"
  BY <1>3 DEF Child!Write
<1>5. data = Child!Whole(conn, Forwarded + 1)
  BY <1>4 DEF ChildInv, OrderInv
<1>6. child_last'[1].conn = conn /\ child_last'[1].msg = Forwarded + 1
  BY <1>4, <1>5 DEF Child!Whole, Child!Half
<1>7. \/ child_last[1].conn = conn /\ child_last[1].msg = Forwarded
      \/ child_last[1].conn < conn /\ Forwarded = 0
  BY <1>4 DEF ChildInv, OrderInv
<1>8. conn \in Nat /\ child_last[1].conn \in Int
  BY ChildNumbers, HalvesFacts DEF ChildInv, ChildTypes
<1>9. QED
  BY <1>4, <1>5, <1>6, <1>7, <1>8

(* client_fork(): as long as TCP delivers messages whole, every record written
   to the pipe is one message of the server, the one after the last or the first
   of a later connection, for any number of messages and connections. *)
THEOREM ForwardsCorrect == PartsSpec => ForwardsInOrder
<1>1. Child!ChildAssumption
  BY PartsAssumption
<1>2. PartsInv /\ [PartsNext]_partVars =>
        [whole /\ Len(pipe') > Len(pipe) =>
           /\ child_last' = Child!Whole(child_last'[1].conn, child_last'[1].msg)
           /\ \/ child_last'[1].conn > child_last[1].conn /\ child_last'[1].msg = 1
              \/ child_last'[1].conn = child_last[1].conn /\ child_last'[1].msg = child_last[1].msg + 1]_(Child!vars)
  BY <1>1, PartsApart, ForwardStep DEF PartsInv
<1>3. QED
  BY <1>2, PartsInvariance, PTL DEF PartsSpec, ForwardsInOrder, Child!ForwardsInOrder

(* The state of every part has its type: among others the queue stays within
   its bound, the counters of client_fork() within theirs, and the correction of
   client_send_fork() within its limit. *)
THEOREM PartsTypeCorrect == PartsSpec => []PartsTypeOK
<1>1. Child!ChildAssumption /\ UdpP!SendAssumption
  BY SameUdp, PartsAssumption
<1>2. ASSUME ChildInv PROVE Child!TypeOK
  <2> DEFINE H == {Child!Blank} \cup {Child!Half(c, n, h) : c \in 0 .. conn, n \in 1 .. childOf.MaxMsg, h \in 1 .. 2}
  <2>1. data = <<data[1], data[2]>> /\ data[1] \in H /\ data[2] \in H
    BY <1>2 DEF ChildInv, ChildTypes, Halves
  <2>2. child_last = <<child_last[1], child_last[2]>> /\ child_last[1] \in H /\ child_last[2] \in H
    BY <1>2 DEF ChildInv, ChildTypes, Halves
  <2>3. data \in {<<a, b>> : a, b \in H} /\ child_last \in {<<a, b>> : a, b \in H}
    <3> HIDE DEF H
    <3>1. QED
      BY <2>1, <2>2
  <2>4. data \in Child!Records /\ child_last \in Child!Records
    BY <2>3 DEF Child!Records
  <2>5. Len(stream) <= 2 * childOf.MaxMsg /\ conn <= childOf.MaxExec
    BY <1>1, <1>2, ChildNumbers DEF ChildInv, ChildTypes, StreamInv
  <2>6. QED
    BY <1>2, <2>4, <2>5 DEF Child!TypeOK, ChildInv, ChildTypes, StreamInv
<1>3. PartsInv => Fifo!TypeOK /\ Child!TypeOK /\ Timer!TypeOK
  BY <1>2 DEF PartsInv, FifoInv, FifoTypes, TimerInv
<1>4. PartsSpec => []UdpP!TypeOK
  BY <1>1, UdpP!TypeCorrect, PartsUdp, PTL
<1>5. PartsSpec => []TypeOK
  BY TypeCorrect, PartsStats, PTL
<1>6. UdpP!TypeOK => Udp!TypeOK
  BY SameUdp
<1>7. TypeOK /\ Fifo!TypeOK /\ Child!TypeOK /\ Timer!TypeOK /\ Udp!TypeOK => PartsTypeOK
  BY DEF PartsTypeOK
<1>8. QED
  BY <1>3, <1>4, <1>5, <1>6, <1>7, PartsInvariance, PTL
=============================================================================
