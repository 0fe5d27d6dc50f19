--------------------------- MODULE UdpSend_proofs ---------------------------
(***************************************************************************)
(* Proofs about UdpSend, for every number of packets, every patience and   *)
(* any combination of faults (SendAssumption): the type invariant, the     *)
(* DSCP of a packet and the bound on how far a TX timestamp can be off.    *)
(***************************************************************************)
EXTENDS UdpSend, TLAPS

(* The timestamp at place i of the queue is behind by at most the number of
   failed waits, less the i - 1 packets it has still to wait for; while
   send_w_ts() waits, one more is on its way. *)
Waiting == IF pc = "fetch" THEN 1 ELSE 0
StampLag ==
  \A i \in 1 .. Len(stamps) :
    /\ stamps[i].pkt <= sent
    /\ (sent - stamps[i].pkt) + i <= missed + Waiting

(* Userland timestamps do not use the queue. *)
UserlandIdle == ts = "USERLAND" => (stamps = <<>> /\ pc = "idle")

IInv == TypeOK /\ StampLag /\ UserlandIdle /\ LagBounded
-----------------------------------------------------------------------------
(* What Drop leaves: the entries before i, and those after it moved up. *)
LEMMA DropFacts ==
  ASSUME NEW S, NEW q \in Seq(S), NEW i \in 1 .. Len(q)
  PROVE  /\ Drop(q, i) \in Seq(S)
         /\ Len(Drop(q, i)) = Len(q) - 1
         /\ \A k \in 1 .. Len(q) - 1 : Drop(q, i)[k] = IF k < i THEN q[k] ELSE q[k + 1]
<1>1. Len(q) - 1 \in Nat
  OBVIOUS
<1>2. \A k \in 1 .. Len(q) - 1 : (IF k < i THEN q[k] ELSE q[k + 1]) \in S
  <2> SUFFICES ASSUME NEW k \in 1 .. Len(q) - 1 PROVE q[k] \in S /\ q[k + 1] \in S
    OBVIOUS
  <2>1. k \in 1 .. Len(q) /\ k + 1 \in 1 .. Len(q)
    OBVIOUS
  <2> QED BY <2>1
<1> QED BY <1>1, <1>2 DEF Drop

(* Every entry of the queue is the timestamp of a packet. *)
LEMMA StampType ==
  ASSUME TypeOK
  PROVE  \A i \in 1 .. Len(stamps) : stamps[i].pkt \in 1 .. MaxSent
<1> DEFINE S == [pkt : 1 .. MaxSent, good : BOOLEAN]
<1>1. \A i \in 1 .. Len(stamps) : stamps[i] \in S
  <2>1. stamps \in Seq(S)
    BY DEF TypeOK
  <2> HIDE DEF S
  <2> QED BY <2>1
<1>2. \A x \in S : x.pkt \in 1 .. MaxSent
  OBVIOUS
<1> QED BY <1>1, <1>2

(* The traffic class fits into eight bits and gives the six of the DSCP. *)
LEMMA DscpFacts ==
  ASSUME NEW d \in 0 .. 255
  PROVE  /\ dscp_set(d) \in 0 .. 255
         /\ dscp_extract(dscp_set(d)) = d % 64
BY DEF dscp_set, dscp_extract

LEMMA InitIInv ==
  ASSUME SendAssumption
  PROVE  Init => IInv
<1> SUFFICES ASSUME Init PROVE IInv
  OBVIOUS
<1>1. ts \in {"HARDWARE", "KERNEL", "USERLAND"} /\ flags \in {"hard", "soft", "none"}
  BY DEF Init, Mode
<1>2. TypeOK
  BY <1>1 DEF SendAssumption, Init, TypeOK
<1>3. StampLag /\ UserlandIdle /\ LagBounded
  BY DEF Init, StampLag, UserlandIdle, LagBounded
<1> QED BY <1>2, <1>3 DEF IInv
-----------------------------------------------------------------------------
LEMMA SendStep ==
  ASSUME SendAssumption, IInv, NEW d \in Dscps, Send(d)
  PROVE  IInv'
<1> USE DEF SendAssumption
<1>1. d \in 0 .. 255 /\ tos' \in 0 .. 255
  BY DscpFacts DEF Send
<1>2. CASE UNCHANGED <<sent, stamps, pc, tmp, wire>> /\ result' = [pkt |-> 0, stamp |-> 0]
  BY <1>1, <1>2 DEF IInv, TypeOK, StampLag, UserlandIdle, LagBounded, Waiting, Send
<1>3. CASE /\ sent' = sent + 1 /\ wire' = [dscp |-> d, tos |-> tos']
           /\ ts = "USERLAND" /\ result' = [pkt |-> sent', stamp |-> sent']
           /\ UNCHANGED <<stamps, pc, tmp>>
  <2>1. stamps = <<>> /\ stamps' = <<>> /\ pc' = "idle"
    BY <1>3 DEF IInv, UserlandIdle
  <2>2. TypeOK'
    BY <1>1, <1>3 DEF IInv, TypeOK, Send
  <2>3. StampLag' /\ UserlandIdle' /\ LagBounded'
    BY <1>3, <2>1, <2>2 DEF StampLag, UserlandIdle, LagBounded, TypeOK
  <2> QED BY <2>2, <2>3 DEF IInv
<1>4. CASE /\ sent' = sent + 1 /\ wire' = [dscp |-> d, tos |-> tos']
           /\ ts # "USERLAND"
           /\ \E g \in (IF "bad" \in Faults THEN BOOLEAN ELSE {TRUE}) :
                stamps' = Append(stamps, [pkt |-> sent', good |-> g])
           /\ pc' = "fetch" /\ tmp' = 0 /\ UNCHANGED result
  <2>1. PICK g \in BOOLEAN : stamps' = Append(stamps, [pkt |-> sent', good |-> g])
    BY <1>4
  <2>2. sent \in 0 .. MaxSent - 1 /\ sent' \in 1 .. MaxSent /\ pc = "idle" /\ missed \in Nat
    BY <1>4 DEF IInv, TypeOK, Send
  <2>3. stamps \in Seq([pkt : 1 .. MaxSent, good : BOOLEAN])
    BY DEF IInv, TypeOK
  <2>4. [pkt |-> sent', good |-> g] \in [pkt : 1 .. MaxSent, good : BOOLEAN]
    BY <2>2
  <2>5. /\ stamps' \in Seq([pkt : 1 .. MaxSent, good : BOOLEAN])
        /\ Len(stamps') = Len(stamps) + 1
        /\ \A i \in 1 .. Len(stamps) : stamps'[i] = stamps[i]
        /\ stamps'[Len(stamps) + 1].pkt = sent'
    BY <2>1, <2>3, <2>4
  <2>6. arrived' \in 0 .. Len(stamps')
    BY <2>3, <2>5 DEF IInv, TypeOK, Send
  <2>7. TypeOK'
    BY <1>1, <1>4, <2>2, <2>5, <2>6 DEF IInv, TypeOK, Send
  <2>8. \A i \in 1 .. Len(stamps) :
          stamps[i].pkt \in 1 .. MaxSent /\ stamps[i].pkt <= sent /\ (sent - stamps[i].pkt) + i <= missed
    <3>1. Waiting = 0
      BY <2>2 DEF Waiting
    <3>2. \A i \in 1 .. Len(stamps) : stamps[i].pkt \in 1 .. MaxSent
      BY StampType DEF IInv
    <3> QED BY <2>2, <3>1, <3>2 DEF IInv, StampLag
  <2>9. Len(stamps) \in Nat /\ Len(stamps) <= missed
    <3>1. Len(stamps) \in Nat
      BY <2>3
    <3>2. CASE Len(stamps) = 0
      BY <3>2, <2>2
    <3>3. CASE Len(stamps) > 0
      <4>1. Len(stamps) \in 1 .. Len(stamps)
        BY <3>1, <3>3
      <4>2. PICK p \in 1 .. MaxSent : p <= sent /\ (sent - p) + Len(stamps) <= missed
        BY <4>1, <2>8
      <4> QED BY <4>2, <3>1, <2>2
    <3> QED BY <3>1, <3>2, <3>3
  <2>10. missed' = missed /\ Waiting' = 1
    BY <1>4 DEF Send, Waiting
  <2>11. ASSUME NEW i \in 1 .. Len(stamps')
         PROVE  stamps'[i].pkt <= sent' /\ (sent' - stamps'[i].pkt) + i <= missed' + Waiting'
    <3>1. CASE i = Len(stamps) + 1
      BY <3>1, <2>2, <2>5, <2>9, <2>10
    <3>2. CASE i \in 1 .. Len(stamps)
      BY <1>4, <3>2, <2>2, <2>5, <2>8, <2>10
    <3> QED BY <3>1, <3>2, <2>5, <2>9
  <2>12. StampLag'
    BY <2>11 DEF StampLag
  <2>13. UserlandIdle' /\ LagBounded'
    BY <1>4, <2>10 DEF IInv, UserlandIdle, LagBounded, Send
  <2> QED BY <2>7, <2>12, <2>13 DEF IInv
<1> QED BY <1>2, <1>3, <1>4 DEF Send

(* Arithmetic of a stamp that moves up in the queue. *)
LEMMA SmallerLag ==
  ASSUME NEW j \in Int, NEW k \in Int, NEW s \in Int, NEW p \in Int, NEW b \in Int,
         k <= j, (s - p) + j <= b
  PROVE  (s - p) + k <= b
OBVIOUS

LEMMA NextLag ==
  ASSUME NEW i \in Int, NEW s \in Int, NEW p \in Int, NEW m \in Int, NEW w \in {0, 1},
         (s - p) + (i + 1) <= m + 1
  PROVE  (s - p) + i <= m + w
OBVIOUS

LEMMA FetchStep ==
  ASSUME IInv, Fetch
  PROVE  IInv'
<1> DEFINE S == [pkt : 1 .. MaxSent, good : BOOLEAN]
<1>1. stamps \in Seq(S) /\ Len(stamps) \in Nat /\ sent \in 0 .. MaxSent /\ missed \in Nat
      /\ arrived \in 1 .. Len(stamps) /\ pc = "fetch" /\ ts # "USERLAND"
  BY DEF IInv, TypeOK, Fetch, UserlandIdle
<1>2. 1 \in 1 .. Len(stamps)
  BY <1>1
<1>3. stamps' = Drop(stamps, 1)
  BY DEF Fetch, Taken
<1>4. /\ stamps' \in Seq(S) /\ Len(stamps') = Len(stamps) - 1
      /\ \A k \in 1 .. Len(stamps) - 1 : stamps'[k] = stamps[k + 1]
  <2> HIDE DEF S
  <2> QED BY <1>1, <1>2, <1>3, DropFacts
<1>5. stamps[1] \in S
  <2> HIDE DEF S
  <2> QED BY <1>1, <1>2
<1>6. \A i \in 1 .. Len(stamps) :
        stamps[i].pkt <= sent /\ (sent - stamps[i].pkt) + i <= missed + 1
  BY <1>1 DEF IInv, StampLag, Waiting
<1>7. arrived' \in 0 .. Len(stamps')
  BY <1>1, <1>4 DEF Fetch
<1>8. pc' \in {"idle", "fetch"} /\ result' \in [pkt : 0 .. MaxSent, stamp : 0 .. MaxSent]
  BY <1>1, <1>5 DEF Fetch, Taken, IInv, TypeOK
<1>9. TypeOK'
  BY <1>4, <1>7, <1>8 DEF IInv, TypeOK, Fetch
<1>10. sent' = sent /\ missed' = missed /\ ts' = ts /\ Waiting' \in {0, 1}
  BY DEF Fetch, Waiting
<1>11. ASSUME NEW i \in 1 .. Len(stamps')
       PROVE  stamps'[i].pkt <= sent' /\ (sent' - stamps'[i].pkt) + i <= missed' + Waiting'
  <2>1. i + 1 \in 1 .. Len(stamps) /\ i \in 1 .. Len(stamps) - 1
    BY <1>1, <1>4
  <2>2. stamps'[i] = stamps[i + 1] /\ stamps[i + 1].pkt \in 1 .. MaxSent
    BY <2>1, <1>4, StampType DEF IInv
  <2>3. stamps[i + 1].pkt <= sent /\ (sent - stamps[i + 1].pkt) + (i + 1) <= missed + 1
    BY <2>1, <1>6
  <2>4. i \in Int /\ sent \in Int /\ stamps[i + 1].pkt \in Int /\ missed \in Int
    BY <2>1, <2>2, <1>1
  <2>5. (sent - stamps[i + 1].pkt) + i <= missed + Waiting'
    BY <2>3, <2>4, <1>10, NextLag
  <2> QED BY <2>2, <2>3, <2>5, <1>10
<1>12. LagBounded'
  <2>1. CASE result' = [pkt |-> sent, stamp |-> stamps[1].pkt]
    BY <2>1, <1>1, <1>2, <1>5, <1>6, <1>10 DEF LagBounded
  <2>2. CASE UNCHANGED result
    BY <2>2, <1>10 DEF IInv, LagBounded
  <2> QED BY <2>1, <2>2 DEF Fetch, Taken
<1> QED BY <1>1, <1>9, <1>10, <1>11, <1>12 DEF IInv, StampLag, UserlandIdle

LEMMA GiveUpStep ==
  ASSUME SendAssumption, IInv, GiveUp
  PROVE  IInv'
<1>1. sent \in 0 .. MaxSent /\ missed \in Nat /\ missed' = missed + 1 /\ Len(stamps) \in Nat
      /\ sent' = sent /\ stamps' = stamps /\ Waiting = 1 /\ Waiting' = 0 /\ pc' = "idle"
      /\ result' = [pkt |-> sent, stamp |-> 0] /\ ts' = ts
  BY DEF IInv, TypeOK, GiveUp, Waiting
<1>2. TypeOK'
  BY <1>1 DEF SendAssumption, IInv, TypeOK, GiveUp
<1>3. StampLag'
  BY <1>1 DEF IInv, StampLag
<1> QED BY <1>1, <1>2, <1>3 DEF IInv, UserlandIdle, LagBounded

LEMMA LoseStep ==
  ASSUME IInv, Lose
  PROVE  IInv'
<1> DEFINE S == [pkt : 1 .. MaxSent, good : BOOLEAN]
<1>1. stamps \in Seq(S) /\ Len(stamps) \in Nat /\ sent \in 0 .. MaxSent /\ missed \in Nat
      /\ arrived \in 0 .. Len(stamps) /\ Waiting \in {0, 1}
  BY DEF IInv, TypeOK, Waiting
<1>2. PICK i \in (arrived + 1) .. Len(stamps) : stamps' = Drop(stamps, i)
  BY DEF Lose
<1>3. i \in 1 .. Len(stamps)
  BY <1>1, <1>2
<1>4. /\ stamps' \in Seq(S) /\ Len(stamps') = Len(stamps) - 1
      /\ \A k \in 1 .. Len(stamps) - 1 :
           stamps'[k] = IF k < i THEN stamps[k] ELSE stamps[k + 1]
  <2> HIDE DEF S
  <2> QED BY <1>1, <1>2, <1>3, DropFacts
<1>5. arrived' \in 0 .. Len(stamps')
  BY <1>1, <1>2, <1>4 DEF Lose
<1>6. TypeOK'
  BY <1>4, <1>5 DEF IInv, TypeOK, Lose
<1>7. sent' = sent /\ missed' = missed /\ Waiting' = Waiting /\ ts' = ts /\ pc' = pc
      /\ result' = result
  BY DEF Lose, Waiting
<1>8. ASSUME NEW k \in 1 .. Len(stamps')
      PROVE  stamps'[k].pkt <= sent' /\ (sent' - stamps'[k].pkt) + k <= missed' + Waiting'
  <2>1. k \in 1 .. Len(stamps) /\ k + 1 \in 1 .. Len(stamps) /\ k \in 1 .. Len(stamps) - 1
    BY <1>1, <1>4
  <2>2. PICK j \in {k, k + 1} : stamps'[k] = stamps[j]
    BY <2>1, <1>4
  <2>3. j \in 1 .. Len(stamps) /\ k <= j /\ stamps[j].pkt \in 1 .. MaxSent
    BY <2>1, <2>2, <1>1, StampType DEF IInv
  <2>4. stamps[j].pkt <= sent /\ (sent - stamps[j].pkt) + j <= missed + Waiting
    BY <2>3 DEF IInv, StampLag
  <2>5. k \in Int /\ j \in Int /\ sent \in Int /\ stamps[j].pkt \in Int /\ missed + Waiting \in Int
    BY <2>1, <2>3, <1>1
  <2>6. (sent - stamps[j].pkt) + k <= missed + Waiting
    BY <2>3, <2>4, <2>5, SmallerLag
  <2> QED BY <2>2, <2>4, <2>6, <1>7
<1>9. UserlandIdle'
  <2> SUFFICES ASSUME ts = "USERLAND" PROVE FALSE
    BY <1>7 DEF UserlandIdle
  <2>1. stamps = <<>>
    BY DEF IInv, UserlandIdle
  <2> QED BY <2>1, <1>3
<1> QED BY <1>6, <1>7, <1>8, <1>9 DEF IInv, StampLag, LagBounded

LEMMA OtherSteps ==
  ASSUME SendAssumption, IInv, Clock \/ Arrive \/ UNCHANGED vars
  PROVE  IInv'
<1> USE DEF SendAssumption
<1>1. CASE Clock
  <2>1. TypeOK'
    BY <1>1 DEF IInv, TypeOK, Clock
  <2> QED BY <2>1, <1>1 DEF IInv, StampLag, UserlandIdle, LagBounded, Waiting, Clock
<1>2. CASE Arrive
  <2>1. TypeOK'
    BY <1>2 DEF IInv, TypeOK, Arrive
  <2> QED BY <2>1, <1>2 DEF IInv, StampLag, UserlandIdle, LagBounded, Waiting, Arrive
<1>3. CASE UNCHANGED vars
  BY <1>3 DEF IInv, TypeOK, StampLag, UserlandIdle, LagBounded, Waiting, vars
<1> QED BY <1>1, <1>2, <1>3

(* The inductive invariant holds in every reachable state. *)
THEOREM Invariance ==
  ASSUME SendAssumption
  PROVE  Spec => []IInv
<1>1. IInv /\ [Next]_vars => IInv'
  BY SendStep, FetchStep, GiveUpStep, LoseStep, OtherSteps DEF Next
<1> QED BY <1>1, InitIInv, PTL DEF Spec

(* The variables keep their types. *)
THEOREM TypeCorrect ==
  ASSUME SendAssumption
  PROVE  Spec => []TypeOK
<1>1. IInv => TypeOK
  BY DEF IInv
<1> QED BY <1>1, Invariance, PTL

(* A TX timestamp that send_w_ts() returns is that of the packet itself or of
   one sent before it, by no more packets than waits have failed; as long as
   none has, it is the right one. *)
THEOREM LagCorrect ==
  ASSUME SendAssumption
  PROVE  Spec => []LagBounded
<1>1. IInv => LagBounded
  BY DEF IInv
<1> QED BY <1>1, Invariance, PTL

(* Every packet leaves with its own DSCP. *)
THEOREM DscpCorrect ==
  ASSUME SendAssumption
  PROVE  Spec => []OwnDscp
<1>1. Init => OwnDscp
  BY DEF Init, OwnDscp, dscp_extract
<1>2. OwnDscp /\ [Next]_vars => OwnDscp'
  <2> SUFFICES ASSUME OwnDscp, [Next]_vars PROVE OwnDscp'
    OBVIOUS
  <2>1. ASSUME NEW d \in Dscps, Send(d) PROVE OwnDscp'
    <3>1. d \in 0 .. 255
      BY DEF SendAssumption
    <3>2. CASE wire' = [dscp |-> d, tos |-> tos']
      BY <2>1, <3>1, <3>2, DscpFacts DEF OwnDscp, Send
    <3>3. CASE UNCHANGED wire
      BY <3>3 DEF OwnDscp
    <3> QED BY <2>1, <3>2, <3>3 DEF Send
  <2>2. CASE UNCHANGED wire
    BY <2>2 DEF OwnDscp
  <2> QED BY <2>1, <2>2 DEF Next, Fetch, GiveUp, Clock, Arrive, Lose, vars
<1> QED BY <1>1, <1>2, PTL DEF Spec
=============================================================================
