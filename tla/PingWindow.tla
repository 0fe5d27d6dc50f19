----------------------------- MODULE PingWindow -----------------------------
(***************************************************************************)
(* The 16-bit bookkeeping of ping (ping.h, gather_statistics()): sequence  *)
(* numbers, the bitmap of the ones answered, the estimate of how many      *)
(* probes are in flight, and the counters of the summary.  SEQ stands for  *)
(* 2^16 and SEQ \div 2 for 0x8000.                                         *)
(*                                                                         *)
(* A window w is a record of the globals ntransmitted, acked, pipesize,    *)
(* rcvd (the sequence numbers whose bit is set), nreceived, nrepeats,      *)
(* nchecksum and nerrors.                                                  *)
(***************************************************************************)
EXTENDS Integers, FiniteSets

CONSTANT SEQ

Half == SEQ \div 2
u16(n) == n % SEQ
s16(n) == IF u16(n) < Half THEN u16(n) ELSE u16(n) - SEQ

NewWindow == [ntransmitted |-> 0, acked |-> 0, pipesize |-> -1, rcvd |-> {},
              nreceived |-> 0, nrepeats |-> 0, nchecksum |-> 0, nerrors |-> 0]

rcvd_test(w, seq)  == seq \in w.rcvd
rcvd_set(w, seq)   == [w EXCEPT !.rcvd = @ \cup {seq}]
rcvd_clear(w, seq) == [w EXCEPT !.rcvd = @ \ {seq}]

(* Probes sent after the last one acknowledged; what the counters say when
   acked is not valid. *)
in_flight(w) ==
  LET diff == u16(w.ntransmitted - w.acked)
  IN  IF diff < Half THEN diff ELSE w.ntransmitted - w.nreceived - w.nerrors

(* (__u16)ntransmitted - acked > 0x7FFF: an int, so negative when acked is the
   larger of the two. *)
Overrun(w) == u16(w.ntransmitted) - w.acked >= Half

(* Mutant: a late answer takes the acknowledged number back. *)
acknowledge_Late(w, seq) ==
  IF u16(w.ntransmitted - seq) >= Half THEN w ELSE [w EXCEPT !.acked = seq]

acknowledge(w, seq) ==
  LET diff == u16(w.ntransmitted - seq)
  IN  IF diff >= Half THEN w
      ELSE [w EXCEPT !.pipesize = IF diff + 1 > @ THEN diff + 1 ELSE @,
                     !.acked = IF s16(seq - @) > 0 \/ Overrun(w) THEN seq ELSE @]

advance_ntransmitted(w) ==
  LET v == [w EXCEPT !.ntransmitted = @ + 1]
  IN  [v EXCEPT !.acked = IF Overrun(v) THEN u16(v.ntransmitted + 1) ELSE @]

(* The counters and the window part of gather_statistics(). *)
gather_statistics(w, seq, csfailed) ==
  LET v == acknowledge(w, seq)
  IN  IF csfailed THEN [w EXCEPT !.nchecksum = @ + 1]
      ELSE IF rcvd_test(w, seq) THEN [v EXCEPT !.nrepeats = @ + 1]
      ELSE rcvd_set([v EXCEPT !.nreceived = @ + 1], seq)

(* Mutant: the bit of the sequence number to be used is not cleared. *)
ping4_send_probe_Keep(w) == w

(* ping4_send_probe(): the bit of the new number is cleared before the packet
   leaves, and stays so when it cannot leave. *)
ping4_send_probe(w) == rcvd_clear(w, u16(w.ntransmitted + 1))

(* The same for an echo request or a Node Information query over IPv6. *)
ping6_send_probe(w) == rcvd_clear(w, u16(w.ntransmitted + 1))

(* The number of a message is the one of the probe it is about.  Kinds: "echo"
   (for ping6 also a Node Information reply with our nonce), "error", "other":
   for another process, or not an answer to a probe at all. *)
Message(kind, n, csfailed) == [kind |-> kind, seq |-> u16(n), csfailed |-> csfailed]

(* ping4_parse_reply(): what a packet on the socket does; an ICMP error there
   only acknowledges, it is counted where it is read from the error queue. *)
ping4_parse_reply(w, m) ==
  CASE m.kind = "echo"  -> gather_statistics(w, m.seq, m.csfailed)
    [] m.kind = "error" -> acknowledge(w, m.seq)
    [] OTHER -> w

(* ping6_parse_reply(): the kernel has verified the checksum, and an error is
   counted. *)
ping6_parse_reply(w, m) ==
  CASE m.kind = "echo"  -> gather_statistics(w, m.seq, FALSE)
    [] m.kind = "error" -> [acknowledge(w, m.seq) EXCEPT !.nerrors = @ + 1]
    [] OTHER -> w

(* An error of this host is not counted when quiet. *)
LocalError(w, quiet) == IF quiet THEN w ELSE [w EXCEPT !.nerrors = @ + 1]

(* ping4_receive_error_msg(): an entry of the error queue, of this host, about
   one of our probes, or not ours. *)
ping4_receive_error_msg(w, seq, origin, quiet) ==
  CASE origin = "icmp"  -> [acknowledge(w, seq) EXCEPT !.nerrors = @ + 1]
    [] origin = "local" -> LocalError(w, quiet)
    [] OTHER -> w

(* ping6_receive_error_msg(): without an acknowledgement. *)
ping6_receive_error_msg(w, origin, quiet) ==
  CASE origin = "icmp"  -> [w EXCEPT !.nerrors = @ + 1]
    [] origin = "local" -> LocalError(w, quiet)
    [] OTHER -> w
=============================================================================
