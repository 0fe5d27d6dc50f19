------------------------------ MODULE PingSeq ------------------------------
(***************************************************************************)
(* The counters of ping against a network that loses, duplicates, delays   *)
(* and reorders, over more probes than there are sequence numbers.         *)
(*                                                                         *)
(* A probe can be answered until its number is used again (65536 probes    *)
(* later): w.ntransmitted - n < SEQ for every n in net.                    *)
(***************************************************************************)
EXTENDS PingWindow

CONSTANTS MaxProbes, MaxRepeats, MaxErrors

SeqAssumption == SEQ \in Nat \ {0} /\ SEQ % 2 = 0 /\ {MaxProbes, MaxRepeats, MaxErrors} \subseteq Nat

VARIABLES w,
  v6,        \* ping6: the functions of ping6_common.c
  net,       \* probes the network may still answer
  answered,  \* ghost: the last SEQ probes that were answered
  distinct,  \* ghost: the number of probes answered so far
  latest,    \* ghost: the latest probe acknowledged
  echoes,    \* ghost: good answers
  silent     \* ghost: there were Half probes without an acknowledgement

vars == <<w, v6, net, answered, distinct, latest, echoes, silent>>

Init == /\ w = NewWindow /\ v6 \in BOOLEAN /\ net = {} /\ answered = {} /\ distinct = 0
        /\ latest = 0 /\ echoes = 0 /\ silent = FALSE

(* pinger(): a probe leaves (or a hard error is counted as one: sent). *)
Probe(sent) ==
  LET v == advance_ntransmitted(IF v6 THEN ping6_send_probe(w) ELSE ping4_send_probe(w))
      n == v.ntransmitted
  IN  /\ n <= MaxProbes
      /\ w' = v
      /\ net' = {m \in net \cup (IF sent THEN {n} ELSE {}) : n - m < SEQ}
      /\ answered' = {m \in answered : n - m < SEQ}
      /\ silent' = (silent \/ n - latest >= Half)
      /\ UNCHANGED <<v6, distinct, latest, echoes>>

Acknowledges(n) == w.ntransmitted - n < Half
Latest(n) == IF Acknowledges(n) /\ n > latest THEN n ELSE latest

parse_reply(m) == IF v6 THEN ping6_parse_reply(w, m) ELSE ping4_parse_reply(w, m)

(* An echo reply for probe n. *)
EchoReply(n, csfailed) ==
  /\ n \in net /\ (csfailed => ~v6)
  /\ w' = parse_reply(Message("echo", n, csfailed))
  /\ w'.nrepeats <= MaxRepeats /\ w'.nchecksum <= 1
  /\ answered' = IF csfailed THEN answered ELSE answered \cup {n}
  /\ distinct' = IF csfailed \/ n \in answered THEN distinct ELSE distinct + 1
  /\ echoes' = IF csfailed THEN echoes ELSE echoes + 1
  /\ latest' = IF csfailed THEN latest ELSE Latest(n)
  /\ UNCHANGED <<v6, net, silent>>

(* The error queue: an ICMP error for probe n, or a local one. *)
ErrorMsg(n, origin) ==
  /\ n \in net /\ w.nerrors < MaxErrors
  /\ w' = IF v6 THEN ping6_receive_error_msg(w, origin, FALSE)
          ELSE ping4_receive_error_msg(w, u16(n), origin, FALSE)
  /\ latest' = IF origin = "icmp" /\ ~v6 THEN Latest(n) ELSE latest
  /\ UNCHANGED <<v6, net, answered, distinct, echoes, silent>>

(* A raw socket: the error message itself. *)
RawError(n) ==
  /\ n \in net /\ (v6 => w.nerrors < MaxErrors)
  /\ w' = parse_reply(Message("error", n, FALSE)) /\ latest' = Latest(n)
  /\ UNCHANGED <<v6, net, answered, distinct, echoes, silent>>

(* External: nothing more will come for probe n. *)
Lose(n) == n \in net /\ net' = net \ {n} /\ UNCHANGED <<w, v6, answered, distinct, latest, echoes, silent>>

Next ==
  \/ \E sent \in BOOLEAN : Probe(sent)
  \/ \E n \in net : \/ \E csfailed \in BOOLEAN : EchoReply(n, csfailed)
                    \/ \E origin \in {"icmp", "local"} : ErrorMsg(n, origin)
                    \/ RawError(n) \/ Lose(n)

Spec == Init /\ [][Next]_vars
-----------------------------------------------------------------------------
TypeOK ==
  /\ w.ntransmitted \in 0 .. MaxProbes /\ w.rcvd \subseteq 0 .. SEQ - 1
  /\ w.acked \in 0 .. SEQ - 1 /\ w.pipesize \in -1 .. Half

(* in_flight(), which limits a flood: as long as fewer than 2^15 probes went
   unacknowledged it is the number of probes after the latest acknowledged
   one, whatever order the answers come in. *)
InFlightExact == ~silent => in_flight(w) = w.ntransmitted - latest

(* gather_statistics() and send_probe(): across the wrap of the sequence
   numbers, received counts the probes that were answered, each once, and
   every further answer is a duplicate. *)
CountsExact ==
  /\ w.nreceived = distinct
  /\ w.nrepeats = echoes - w.nreceived
  /\ InFlightExact
=============================================================================
