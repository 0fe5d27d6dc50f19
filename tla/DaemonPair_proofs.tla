-------------------------- MODULE DaemonPair_proofs --------------------------
(***************************************************************************)
(* Two daemons never block each other, for all sizes of the buffers (the   *)
(* pipe holding at least three records) and with or without strangers.     *)
(***************************************************************************)
EXTENDS DaemonPair, TLAPS

(* The numbers of messages on their way. *)
Counts ==
  /\ tcp \in [Daemons -> 0 .. TcpCap]
  /\ hand \in [Daemons -> 0 .. 1]
  /\ pipe \in [Daemons -> 0 .. PipeCap]
  /\ pc \in [Daemons -> {"select", "udp", "rest"}]
  /\ DOMAIN ready = Daemons

(* What select() saw in the pipe is still there: only the loop takes it. *)
Held == \A n \in Daemons : (pc[n] \in {"udp", "rest"} /\ ready[n].pipe) => pipe[n] >= 1

(* Messages on their way to the main loop of n, one less if it is about to
   take one, one more if it may send one without taking one in. *)
Load(n) == tcp[n] + hand[n] + pipe[n]
Taking(n) == IF pc[n] = "rest" /\ ready[n].pipe THEN 1 ELSE 0
Free(n) == IF pc[n] = "udp" /\ ~ready[n].pipe THEN 1 ELSE 0
Weight(n) == Load(n) - Taking(n) + Free(n)

(* No step raises the weight of the pair above this. *)
Balance == Weight("A") + Weight("B") <= 2 * TcpCap + PipeCap + 4

IInv == Counts /\ Held /\ Balance
-----------------------------------------------------------------------------
LEMMA WeightType ==
  ASSUME Counts
  PROVE  \A n \in Daemons :
           /\ tcp[n] \in 0 .. TcpCap /\ hand[n] \in 0 .. 1 /\ pipe[n] \in 0 .. PipeCap
           /\ Taking(n) \in 0 .. 1 /\ Free(n) \in 0 .. 1
           /\ Load(n) \in Int /\ Weight(n) \in Int
<1>1. \A n \in Daemons :
        tcp[n] \in 0 .. TcpCap /\ hand[n] \in 0 .. 1 /\ pipe[n] \in 0 .. PipeCap
  BY DEF Counts
<1>2. \A n \in Daemons : Taking(n) \in 0 .. 1 /\ Free(n) \in 0 .. 1
  BY DEF Taking, Free
<1> QED BY <1>1, <1>2, PairAssumption DEF Load, Weight

LEMMA Pairs ==
  ASSUME Counts, NEW n \in Daemons
  PROVE  /\ Other(n) \in Daemons /\ Other(n) # n
         /\ \A m \in Daemons : m = n \/ m = Other(n)
         /\ Balance => Weight(n) + Weight(Other(n)) <= 2 * TcpCap + PipeCap + 4
<1>1. Weight("A") \in Int /\ Weight("B") \in Int
  BY WeightType DEF Daemons
<1>2. CASE n = "A"
  BY <1>2 DEF Daemons, Other, Balance
<1>3. CASE n = "B"
  <2>1. Weight("A") + Weight("B") = Weight("B") + Weight("A")
    BY <1>1
  <2> QED BY <1>3, <2>1 DEF Daemons, Other, Balance
<1> QED BY <1>2, <1>3 DEF Daemons

LEMMA InitIInv == Init => IInv
<1> SUFFICES ASSUME Init PROVE IInv
  OBVIOUS
<1> USE PairAssumption
<1>1. Counts
  BY DEF Init, Counts
<1>2. Held
  BY DEF Init, Held
<1>3. \A n \in Daemons : Load(n) = 0 /\ Taking(n) = 0 /\ Free(n) = 0
  BY DEF Init, Load, Taking, Free
<1>4. Weight("A") = 0 /\ Weight("B") = 0
  BY <1>3 DEF Weight, Daemons
<1> QED BY <1>1, <1>2, <1>4 DEF IInv, Balance
-----------------------------------------------------------------------------
LEMMA SelectStep ==
  ASSUME IInv, NEW n \in Daemons, Select(n)
  PROVE  IInv'
<1> DEFINE o == Other(n)
<1> USE PairAssumption
<1>1. o \in Daemons /\ o # n /\ \A m \in Daemons : m = n \/ m = o
  BY Pairs DEF IInv
<1>2. /\ pc[n] = "select" /\ pc' = [pc EXCEPT ![n] = "udp"]
      /\ ready' = [ready EXCEPT ![n] = [udp |-> udp[n] # <<>>, pipe |-> pipe[n] > 0, tick |-> tick[n]]]
      /\ tcp' = tcp /\ hand' = hand /\ pipe' = pipe
  BY DEF Select
<1>3. Counts'
  BY <1>2 DEF IInv, Counts
<1>4. ready'[n].pipe <=> pipe[n] > 0
  BY <1>2 DEF IInv, Counts
<1>5. pc'[n] = "udp" /\ pc'[o] = pc[o] /\ ready'[o] = ready[o]
  BY <1>1, <1>2 DEF IInv, Counts
<1>6. Held'
  BY <1>1, <1>2, <1>4, <1>5, WeightType DEF IInv, Held
<1>7. Weight(o)' = Weight(o) /\ Load(n)' = Load(n) /\ Taking(n)' = 0 /\ Taking(n) = 0 /\ Free(n) = 0
  BY <1>2, <1>5 DEF Weight, Load, Taking, Free
<1>8. tcp[n] \in 0 .. TcpCap /\ hand[n] \in 0 .. 1 /\ pipe[n] \in 0 .. PipeCap
      /\ tcp[o] \in 0 .. TcpCap /\ hand[o] \in 0 .. 1 /\ pipe[o] \in 0 .. PipeCap
      /\ Taking(o) \in 0 .. 1 /\ Free(o) \in 0 .. 1 /\ Weight(n) \in Int /\ Weight(o) \in Int
  BY <1>1, WeightType DEF IInv
<1>9. CASE pipe[n] > 0
  <2>1. Free(n)' = 0
    BY <1>4, <1>9 DEF Free
  <2>2. Weight(n)' = Weight(n)
    BY <2>1, <1>7, <1>8 DEF Weight
  <2>3. Balance'
    <3>1. Weight(n) + Weight(o) <= 2 * TcpCap + PipeCap + 4
      BY Pairs DEF IInv
    <3>2. Weight(n)' + Weight(o)' <= 2 * TcpCap + PipeCap + 4
      BY <3>1, <2>2, <1>7, <1>8
    <3>3. Weight(n)' \in Int /\ Weight(o)' \in Int
      BY <2>2, <1>7, <1>8
    <3> QED BY <3>2, <3>3 DEF Balance, Daemons, Other
  <2> QED BY <2>3, <1>3, <1>6 DEF IInv
<1>10. CASE ~(pipe[n] > 0)
  <2>1. Load(n)' <= TcpCap + 1 /\ Load(n)' \in Int
    BY <1>7, <1>8, <1>10 DEF Load
  <2>2. Free(n)' = 1
    BY <1>4, <1>5, <1>10 DEF Free
  <2>3. Weight(n)' <= TcpCap + 2 /\ Weight(n)' \in Int
    BY <2>1, <2>2, <1>7 DEF Weight
  <2>4. Weight(o)' <= TcpCap + PipeCap + 2 /\ Weight(o)' \in Int
    BY <1>7, <1>8 DEF Weight, Load
  <2>5. Weight(n)' + Weight(o)' <= 2 * TcpCap + PipeCap + 4
    BY <2>3, <2>4
  <2> QED BY <2>3, <2>4, <2>5, <1>3, <1>6 DEF IInv, Balance, Daemons, Other
<1> QED BY <1>9, <1>10

LEMMA UdpStep ==
  ASSUME IInv, NEW n \in Daemons, UdpSection(n)
  PROVE  IInv'
<1> DEFINE o == Other(n)
<1> USE PairAssumption
<1>1. o \in Daemons /\ o # n /\ \A m \in Daemons : m = n \/ m = o
  BY Pairs DEF IInv
<1>2. tcp[n] \in 0 .. TcpCap /\ hand[n] \in 0 .. 1 /\ pipe[n] \in 0 .. PipeCap
      /\ tcp[o] \in 0 .. TcpCap /\ hand[o] \in 0 .. 1 /\ pipe[o] \in 0 .. PipeCap
      /\ Taking(o) \in 0 .. 1 /\ Free(o) \in 0 .. 1 /\ Weight(n) \in Int /\ Weight(o) \in Int
      /\ Free(n) \in 0 .. 1 /\ Load(n) \in Int /\ Load(o) \in Int
  BY <1>1, WeightType DEF IInv
<1>3. Weight(n) + Weight(o) <= 2 * TcpCap + PipeCap + 4
  BY Pairs DEF IInv
<1>4. pc[n] = "udp" /\ hand' = hand /\ pipe' = pipe /\ Taking(n) = 0
  BY DEF UdpSection, Taking
<1>5. CASE pc' = [pc EXCEPT ![n] = "rest"] /\ tcp' = tcp /\ ready' = ready
  <2>1. pc'[n] = "rest" /\ pc'[o] = pc[o]
    BY <1>1, <1>5 DEF IInv, Counts
  <2>2. Weight(o)' = Weight(o) /\ Load(n)' = Load(n) /\ Free(n)' = 0 /\ Taking(n)' \in 0 .. 1
    BY <1>4, <1>5, <2>1 DEF Weight, Load, Taking, Free
  <2>3. Weight(n)' <= Weight(n)
    BY <2>2, <1>2, <1>4 DEF Weight
  <2>4. Weight(n)' \in Int
    BY <2>2, <1>2 DEF Weight
  <2>5. Balance'
    BY <2>2, <2>3, <2>4, <1>2, <1>3 DEF Balance, Daemons, Other
  <2>6. Counts' /\ Held'
    BY <1>1, <1>4, <1>5, <2>1 DEF IInv, Counts, Held
  <2> QED BY <2>5, <2>6 DEF IInv
<1>6. CASE /\ tcp' = [tcp EXCEPT ![o] = @ + 1] /\ tcp[o] < TcpCap
           /\ pc' = [pc EXCEPT ![n] = "rest"] /\ ready' = ready
  <2>1. pc'[n] = "rest" /\ pc'[o] = pc[o] /\ tcp'[o] = tcp[o] + 1 /\ tcp'[n] = tcp[n]
    BY <1>1, <1>6 DEF IInv, Counts
  <2>2. Load(o)' = Load(o) + 1 /\ Taking(o)' = Taking(o) /\ Free(o)' = Free(o)
    BY <1>2, <1>4, <1>6, <2>1 DEF Load, Taking, Free
  <2>3. Weight(o)' = Weight(o) + 1
    BY <2>2, <1>2 DEF Weight
  <2>4. Load(n)' = Load(n) /\ Free(n)' = 0
    BY <1>4, <1>6, <2>1 DEF Load, Free
  <2>5. Taking(n)' = 1 - Free(n)
    BY <1>4, <1>6, <2>1 DEF Taking, Free
  <2>6. Weight(n)' = Weight(n) - 1
    BY <2>4, <2>5, <1>2, <1>4 DEF Weight
  <2>7. Balance'
    BY <2>3, <2>6, <1>2, <1>3 DEF Balance, Daemons, Other
  <2>8. Counts' /\ Held'
    BY <1>1, <1>2, <1>4, <1>6, <2>1 DEF IInv, Counts, Held
  <2> QED BY <2>7, <2>8 DEF IInv
<1>7. CASE /\ pc' = [pc EXCEPT ![n] = "select"] /\ tcp' = tcp
           /\ ready' = [ready EXCEPT ![n] = Nothing]
  <2>1. pc'[n] = "select" /\ pc'[o] = pc[o] /\ ready'[o] = ready[o]
    BY <1>1, <1>7 DEF IInv, Counts
  <2>2. Weight(o)' = Weight(o) /\ Load(n)' = Load(n) /\ Free(n)' = 0 /\ Taking(n)' = 0
    BY <1>4, <1>7, <2>1 DEF Weight, Load, Taking, Free
  <2>3. Weight(n)' <= Weight(n) /\ Weight(n)' \in Int
    BY <2>2, <1>2, <1>4 DEF Weight
  <2>4. Balance'
    BY <2>2, <2>3, <1>2, <1>3 DEF Balance, Daemons, Other
  <2>5. Counts' /\ Held'
    BY <1>1, <1>4, <1>7, <2>1 DEF IInv, Counts, Held
  <2> QED BY <2>4, <2>5 DEF IInv
<1> QED BY <1>5, <1>6, <1>7 DEF UdpSection, Room

LEMMA RestStep ==
  ASSUME IInv, NEW n \in Daemons, RestSection(n)
  PROVE  IInv'
<1> DEFINE o == Other(n)
<1> USE PairAssumption
<1>1. o \in Daemons /\ o # n /\ \A m \in Daemons : m = n \/ m = o
  BY Pairs DEF IInv
<1>2. tcp[n] \in 0 .. TcpCap /\ hand[n] \in 0 .. 1 /\ pipe[n] \in 0 .. PipeCap
      /\ Weight(n) \in Int /\ Weight(o) \in Int /\ Taking(n) \in 0 .. 1
  BY <1>1, WeightType DEF IInv
<1>3. Weight(n) + Weight(o) <= 2 * TcpCap + PipeCap + 4
  BY Pairs DEF IInv
<1>4. /\ pc[n] = "rest" /\ pc' = [pc EXCEPT ![n] = "select"]
      /\ ready' = [ready EXCEPT ![n] = Nothing]
      /\ pipe' = [pipe EXCEPT ![n] = Drained(n)] /\ tcp' = tcp /\ hand' = hand
  BY DEF RestSection
<1>5. Drained(n) = pipe[n] - Taking(n) /\ Drained(n) \in 0 .. PipeCap
  <2>1. CASE ready[n].pipe
    BY <2>1, <1>2, <1>4 DEF Drained, Taking, IInv, Held
  <2>2. CASE ~ready[n].pipe
    BY <2>2, <1>2, <1>4 DEF Drained, Taking
  <2> QED BY <2>1, <2>2
<1>6. pc'[n] = "select" /\ pc'[o] = pc[o] /\ ready'[o] = ready[o]
      /\ pipe'[n] = pipe[n] - Taking(n) /\ pipe'[o] = pipe[o]
  BY <1>1, <1>4, <1>5 DEF IInv, Counts
<1>7. Weight(o)' = Weight(o)
  BY <1>4, <1>6 DEF Weight, Load, Taking, Free
<1>8. Load(n)' = Load(n) - Taking(n)
  BY <1>2, <1>4, <1>6 DEF Load
<1>9. Free(n)' = 0 /\ Taking(n)' = 0 /\ Free(n) = 0
  BY <1>4, <1>6 DEF Free, Taking
<1>10. Weight(n)' = Weight(n)
  BY <1>2, <1>8, <1>9 DEF Weight, Load
<1>11. Balance'
  BY <1>2, <1>3, <1>7, <1>10 DEF Balance, Daemons, Other
<1>12. Counts'
  BY <1>4, <1>5 DEF IInv, Counts
<1>13. Held'
  BY <1>1, <1>6 DEF IInv, Held
<1> QED BY <1>11, <1>12, <1>13 DEF IInv

LEMMA ChildStep ==
  ASSUME IInv, NEW n \in Daemons, ChildRead(n) \/ ChildWrite(n)
  PROVE  IInv'
<1> DEFINE o == Other(n)
<1> USE PairAssumption
<1>1. o \in Daemons /\ o # n /\ \A m \in Daemons : m = n \/ m = o
  BY Pairs DEF IInv
<1>2. tcp[n] \in 0 .. TcpCap /\ hand[n] \in 0 .. 1 /\ pipe[n] \in 0 .. PipeCap
      /\ Weight(n) \in Int /\ Weight(o) \in Int
  BY <1>1, WeightType DEF IInv
<1>3. Weight(n) + Weight(o) <= 2 * TcpCap + PipeCap + 4
  BY Pairs DEF IInv
<1>4. pc' = pc /\ ready' = ready
  BY DEF ChildRead, ChildWrite
<1>5. CASE ChildRead(n)
  <2>1. /\ hand'[n] = 1 /\ hand[n] = 0 /\ tcp'[n] = tcp[n] - 1 /\ tcp[n] > 0
        /\ hand'[o] = hand[o] /\ tcp'[o] = tcp[o] /\ pipe' = pipe
    BY <1>1, <1>5 DEF ChildRead, IInv, Counts
  <2>2. Load(n)' = Load(n) /\ Load(o)' = Load(o)
    BY <2>1, <1>2 DEF Load
  <2>3. Counts' /\ Held'
    BY <1>2, <1>4, <1>5, <2>1 DEF IInv, Counts, Held, ChildRead
  <2> QED BY <2>2, <2>3, <1>2, <1>3, <1>4 DEF IInv, Balance, Daemons, Other, Weight, Taking, Free
<1>6. CASE ChildWrite(n)
  <2>1. /\ hand'[n] = 0 /\ hand[n] = 1 /\ pipe'[n] = pipe[n] + 1 /\ pipe[n] < PipeCap
        /\ hand'[o] = hand[o] /\ pipe'[o] = pipe[o] /\ tcp' = tcp
    BY <1>1, <1>6 DEF ChildWrite, IInv, Counts
  <2>2. Load(n)' = Load(n) /\ Load(o)' = Load(o)
    BY <2>1, <1>2 DEF Load
  <2>3. Counts'
    BY <1>2, <1>4, <1>6, <2>1 DEF IInv, Counts, ChildWrite
  <2>4. Held'
    BY <1>1, <1>2, <1>4, <2>1 DEF IInv, Held
  <2> QED BY <2>2, <2>3, <2>4, <1>2, <1>3, <1>4 DEF IInv, Balance, Daemons, Other, Weight, Taking, Free
<1> QED BY <1>5, <1>6

LEMMA OtherSteps ==
  ASSUME IInv, UNCHANGED <<pc, ready, tcp, hand, pipe>>
  PROVE  IInv'
BY DEF IInv, Counts, Held, Balance, Weight, Load, Taking, Free

(* The inductive invariant holds in every reachable state. *)
THEOREM Invariance == Spec => []IInv
<1>1. IInv /\ [Next]_vars => IInv'
  <2> SUFFICES ASSUME IInv, [Next]_vars PROVE IInv'
    OBVIOUS
  <2>1. ASSUME NEW n \in Daemons, Main(n) \/ Child(n) PROVE IInv'
    BY <2>1, SelectStep, UdpStep, RestStep, ChildStep DEF Main, Child
  <2>2. ASSUME NEW n \in Daemons, Timer(n) \/ Stranger(n) PROVE IInv'
    BY <2>2, OtherSteps DEF Timer, Stranger
  <2>3. CASE UNCHANGED vars
    BY <2>3, OtherSteps DEF vars
  <2> QED BY <2>1, <2>2, <2>3 DEF Next
<1> QED BY <1>1, InitIInv, PTL DEF Spec

(* The two main loops never wait for each other in send(). *)
THEOREM NoDeadlock == Spec => []NoCircularWait
<1>1. IInv => NoCircularWait
  <2> SUFFICES ASSUME IInv, Blocked("A"), Blocked("B") PROVE FALSE
    BY DEF NoCircularWait
  <2>1. /\ tcp["A"] = TcpCap /\ hand["A"] = 1 /\ pipe["A"] = PipeCap /\ pc["A"] = "udp"
        /\ tcp["B"] = TcpCap /\ hand["B"] = 1 /\ pipe["B"] = PipeCap /\ pc["B"] = "udp"
    BY DEF Blocked, Other
  <2>2. Taking("A") = 0 /\ Taking("B") = 0 /\ Free("A") \in 0 .. 1 /\ Free("B") \in 0 .. 1
    BY <2>1 DEF Taking, Free
  <2>3. Weight("A") >= TcpCap + 1 + PipeCap /\ Weight("A") \in Int
    BY <2>1, <2>2, PairAssumption DEF Weight, Load
  <2>4. Weight("B") >= TcpCap + 1 + PipeCap /\ Weight("B") \in Int
    BY <2>1, <2>2, PairAssumption DEF Weight, Load
  <2> QED BY <2>3, <2>4, PairAssumption DEF IInv, Balance
<1> QED BY <1>1, Invariance, PTL
=============================================================================
