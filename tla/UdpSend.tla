------------------------------ MODULE UdpSend ------------------------------
(***************************************************************************)
(* Sending on probed's one UDP socket: dscp_set() and send_w_ts() of       *)
(* net.c, with the choice of the timestamping mode and tstamp_fetch_tx()   *)
(* of tstamp.c.  PINGs and PONGs go the same way, one at a time.           *)
(*                                                                         *)
(* The TX timestamp of a packet comes back on the error queue of the       *)
(* socket, some time after sendto(); send_w_ts() waits for it for a        *)
(* moment, then gives up.  Nothing but its place in the queue tells which  *)
(* packet a timestamp belongs to.                                          *)
(***************************************************************************)
EXTENDS Integers, Sequences

CONSTANTS Dscps,    \* DSCP values asked for: uint8_t
          Patience, \* how long tstamp_fetch_tx() waits: 10 ms
          Faults,   \* what may go wrong, see FaultKinds
          MaxSent,  \* bound: packets sent
          MaxBack   \* bound: how far the clock is set back

FaultKinds == {"lost",   \* a packet never gets a TX timestamp
               "bad",    \* an entry without the two control messages needed
               "send",   \* sendto() fails
               "clock"}  \* the clock is set back

SendAssumption ==
  /\ Dscps \subseteq 0 .. 255
  /\ Patience \in Nat \ {0} /\ MaxSent \in Nat /\ MaxBack \in Nat
  /\ Faults \subseteq FaultKinds

VARIABLES
  ts, flags,   \* cfg.ts; what SO_TIMESTAMPING was set to
  tos,         \* the traffic class of the socket
  sent,        \* packets sent so far
  stamps,      \* timestamps to come and come, oldest packet first: [pkt, good]
  arrived,     \* how many of them are on the error queue
  pc, tmp,     \* "idle" or "fetch"; now - last
  back,        \* how far the clock was set back (bound)
  result,      \* of the last send_w_ts(): [pkt, stamp], stamp 0 for -1
  wire,        \* the last packet on the wire: [dscp, tos] (ghost)
  missed       \* sends that got no timestamp in time (ghost)

vars == <<ts, flags, tos, sent, stamps, arrived, pc, tmp, back, result, wire, missed>>
-----------------------------------------------------------------------------
(* tstamp_mode_hardware(), _kernel() and _userland(): the mode that results
   from the one asked for, whether the interface takes SIOCSHWTSTAMP and
   whether the socket takes SO_TIMESTAMPING. *)
Mode(want, ioctl, opt) ==
  IF want = "HARDWARE" /\ ioctl /\ opt THEN [ts |-> "HARDWARE", flags |-> "hard"]
  ELSE IF (want = "KERNEL" \/ (want = "HARDWARE" /\ ~ioctl)) /\ opt
       THEN [ts |-> "KERNEL", flags |-> "soft"]
       ELSE [ts |-> "USERLAND", flags |-> "none"]

Init ==
  /\ \E want \in {"HARDWARE", "KERNEL", "USERLAND"}, ioctl, opt \in BOOLEAN :
       /\ ts = Mode(want, ioctl, opt).ts
       /\ flags = Mode(want, ioctl, opt).flags
  /\ tos = 0 /\ sent = 0 /\ stamps = <<>> /\ arrived = 0
  /\ pc = "idle" /\ tmp = 0 /\ back = 0
  /\ result = [pkt |-> 0, stamp |-> 0]
  /\ wire = [dscp |-> 0, tos |-> 0] /\ missed = 0

(* dscp_set(): dscp <<= 2 in eight bits. *)
dscp_set(d) == (4 * d) % 256

(* dscp_extract() at the other end. *)
dscp_extract(t) == t \div 4

(* dscp_set() and send_w_ts() up to the wait for the timestamp.  A userland
   timestamp is taken before sendto(). *)
Send(d) ==
  /\ pc = "idle" /\ sent < MaxSent
  /\ tos' = dscp_set(d)
  /\ \/ /\ "send" \in Faults
        /\ result' = [pkt |-> 0, stamp |-> 0]
        /\ UNCHANGED <<sent, stamps, pc, tmp, wire>>
     \/ /\ sent' = sent + 1
        /\ wire' = [dscp |-> d, tos |-> tos']
        /\ \/ /\ ts = "USERLAND"
              /\ result' = [pkt |-> sent', stamp |-> sent']
              /\ UNCHANGED <<stamps, pc, tmp>>
           \/ /\ ts # "USERLAND"
              /\ \E g \in (IF "bad" \in Faults THEN BOOLEAN ELSE {TRUE}) :
                   stamps' = Append(stamps, [pkt |-> sent', good |-> g])
              /\ pc' = "fetch" /\ tmp' = 0
              /\ UNCHANGED result
  /\ UNCHANGED <<ts, flags, arrived, back, missed>>

(* Mutant: the time that has passed is not looked at. *)
InTime_Always == TRUE

InTime == tmp < Patience

(* Mutant: the newest entry is taken and the rest of the queue kept. *)
Taken_Newest == arrived

(* The entry that recvmsg(MSG_ERRQUEUE) takes off the queue. *)
Taken == 1

Drop(q, i) == [k \in 1 .. Len(q) - 1 |-> IF k < i THEN q[k] ELSE q[k + 1]]

(* One turn of the loop of tstamp_fetch_tx(): recv_w_ts() on the error queue,
   where tstamp_extract() wants both control messages. *)
Fetch ==
  /\ pc = "fetch" /\ InTime /\ arrived > 0
  /\ stamps' = Drop(stamps, Taken)
  /\ arrived' = arrived - 1
  /\ \/ /\ stamps[Taken].good
        /\ pc' = "idle"
        /\ result' = [pkt |-> sent, stamp |-> stamps[Taken].pkt]
     \/ /\ ~stamps[Taken].good
        /\ UNCHANGED <<pc, result>>
  /\ UNCHANGED <<ts, flags, tos, sent, tmp, back, wire, missed>>

(* "TX tstamp error": the PING is skipped, the PONG's t3 stays zero. *)
GiveUp ==
  /\ pc = "fetch" /\ ~InTime
  /\ pc' = "idle"
  /\ result' = [pkt |-> sent, stamp |-> 0]
  /\ missed' = missed + 1
  /\ UNCHANGED <<ts, flags, tos, sent, stamps, arrived, tmp, back, wire>>

(* The clock, gettimeofday(), which may be set back. *)
Clock ==
  /\ pc = "fetch"
  /\ \/ tmp < Patience /\ tmp' = tmp + 1 /\ UNCHANGED back
     \/ "clock" \in Faults /\ back < MaxBack /\ tmp' = tmp - 1 /\ back' = back + 1
  /\ UNCHANGED <<ts, flags, tos, sent, stamps, arrived, pc, result, wire, missed>>

(* The driver: the next timestamp arrives, or one is never made. *)
Arrive ==
  /\ arrived < Len(stamps)
  /\ arrived' = arrived + 1
  /\ UNCHANGED <<ts, flags, tos, sent, stamps, pc, tmp, back, result, wire, missed>>

Lose ==
  /\ "lost" \in Faults
  /\ \E i \in (arrived + 1) .. Len(stamps) : stamps' = Drop(stamps, i)
  /\ UNCHANGED <<ts, flags, tos, sent, arrived, pc, tmp, back, result, wire, missed>>

Next == (\E d \in Dscps : Send(d)) \/ Fetch \/ GiveUp \/ Clock \/ Arrive \/ Lose

Spec == Init /\ [][Next]_vars

(* The process runs and the time passes; nothing is assumed of the driver. *)
FairSpec == Spec /\ WF_vars(Fetch \/ GiveUp) /\ WF_vars(Clock)
-----------------------------------------------------------------------------
TypeOK ==
  /\ ts \in {"HARDWARE", "KERNEL", "USERLAND"} /\ flags \in {"hard", "soft", "none"}
  /\ tos \in 0 .. 255 /\ sent \in 0 .. MaxSent
  /\ stamps \in Seq([pkt : 1 .. MaxSent, good : BOOLEAN])
  /\ arrived \in 0 .. Len(stamps)
  /\ pc \in {"idle", "fetch"} /\ tmp \in Int /\ tmp <= Patience
  /\ back \in 0 .. MaxBack
  /\ result \in [pkt : 0 .. MaxSent, stamp : 0 .. MaxSent]
  /\ wire \in [dscp : 0 .. 255, tos : 0 .. 255]
  /\ missed \in Nat

(* A packet leaves with its own DSCP (of which six bits exist), although
   sessions and PONGs share the socket and its traffic class. *)
OwnDscp == dscp_extract(wire.tos) = wire.dscp % 64

(* Timestamps are taken for the wrong packet only after a wait that failed,
   and are off by no more packets than there were such waits. *)
LagBounded ==
  result.stamp # 0 =>
    /\ result.stamp <= result.pkt
    /\ result.pkt - result.stamp <= missed

(* send_w_ts() comes back, whatever the driver does and although the clock
   may be set back. *)
FetchReturns == pc = "fetch" ~> pc = "idle"
=============================================================================
