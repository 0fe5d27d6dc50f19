----------------------------- MODULE DaemonPair -----------------------------
(***************************************************************************)
(* Two probed daemons that measure each other, and the buffers between     *)
(* them.  The main loop of one (loop.c) answers a PING with a TIME on the  *)
(* TCP connection of the other's child and waits when that is full; the    *)
(* child (client_fork() in client.c) passes it on to its main loop's pipe  *)
(* and waits when that is full; only the main loop empties the pipe.       *)
(* What the messages say does not matter here, only how many there are.    *)
(***************************************************************************)
EXTENDS Integers, Sequences

CONSTANTS TcpCap,   \* TIME messages a TCP connection holds
          PipeCap,  \* records fd_client_pipe holds: hundreds, see NoCircularWait
          UdpCap,   \* datagrams the receive buffer of s_udp holds
          Strangers \* PINGs come from an address with no TCP connection, too

ASSUME PairAssumption ==
  /\ TcpCap \in Nat \ {0} /\ PipeCap \in Nat /\ PipeCap >= 3 /\ UdpCap \in Nat \ {0}
  /\ Strangers \in BOOLEAN

Daemons == {"A", "B"}
Other(n) == IF n = "A" THEN "B" ELSE "A"

VARIABLES
  pc,    \* main loop: "select", "udp" or "rest"
  ready, \* what its select() found: [udp, pipe, tick]
  udp,   \* datagrams in its receive buffer: "peer" or "stranger"
  tcp,   \* messages in the connection to its child
  hand,  \* 1 if its child has read a message and not written it yet
  pipe,  \* records in its pipe
  tick   \* its timer has triggered

vars == <<pc, ready, udp, tcp, hand, pipe, tick>>

Nothing == [udp |-> FALSE, pipe |-> FALSE, tick |-> FALSE]

Init ==
  /\ pc = [n \in Daemons |-> "select"] /\ ready = [n \in Daemons |-> Nothing]
  /\ udp = [n \in Daemons |-> <<>>] /\ tcp = [n \in Daemons |-> 0]
  /\ hand = [n \in Daemons |-> 0] /\ pipe = [n \in Daemons |-> 0]
  /\ tick = [n \in Daemons |-> FALSE]

Select(n) ==
  LET r == [udp |-> udp[n] # <<>>, pipe |-> pipe[n] > 0, tick |-> tick[n]]
  IN  /\ pc[n] = "select" /\ r # Nothing
      /\ ready' = [ready EXCEPT ![n] = r]
      /\ pc' = [pc EXCEPT ![n] = "udp"]
      /\ UNCHANGED <<udp, tcp, hand, pipe, tick>>

(* Mutant: send() waits for room for two. *)
Room_ForTwo(n) == tcp[Other(n)] + 1 < TcpCap

Room(n) == tcp[Other(n)] < TcpCap

(* A PING is answered with send(), which waits for room; one from an address
   without a connection ends the turn (continue). *)
UdpSection(n) ==
  /\ pc[n] = "udp"
  /\ \/ /\ ~ready[n].udp
        /\ pc' = [pc EXCEPT ![n] = "rest"]
        /\ UNCHANGED <<udp, tcp, ready>>
     \/ /\ ready[n].udp /\ Head(udp[n]) = "peer" /\ Room(n)
        /\ udp' = [udp EXCEPT ![n] = Tail(@)]
        /\ tcp' = [tcp EXCEPT ![Other(n)] = @ + 1]
        /\ pc' = [pc EXCEPT ![n] = "rest"]
        /\ UNCHANGED ready
     \/ /\ ready[n].udp /\ Head(udp[n]) = "stranger"
        /\ udp' = [udp EXCEPT ![n] = Tail(@)]
        /\ pc' = [pc EXCEPT ![n] = "select"]
        /\ ready' = [ready EXCEPT ![n] = Nothing]
        /\ UNCHANGED tcp
  /\ UNCHANGED <<hand, pipe, tick>>

(* A datagram that finds the receive buffer full is dropped. *)
Received(q, from) == IF Len(q) < UdpCap THEN Append(q, from) ELSE q

(* Mutant: the pipe is read only in a turn without a datagram. *)
Drained_Else(n) == IF ready[n].pipe /\ ~ready[n].udp THEN pipe[n] - 1 ELSE pipe[n]

Drained(n) == IF ready[n].pipe THEN pipe[n] - 1 ELSE pipe[n]

(* The pipe sections: one record is read, and a PING is sent on a tick. *)
RestSection(n) ==
  /\ pc[n] = "rest"
  /\ pc' = [pc EXCEPT ![n] = "select"]
  /\ ready' = [ready EXCEPT ![n] = Nothing]
  /\ pipe' = [pipe EXCEPT ![n] = Drained(n)]
  /\ tick' = [tick EXCEPT ![n] = @ /\ ~ready[n].tick]
  /\ udp' = IF ready[n].tick
            THEN [udp EXCEPT ![Other(n)] = Received(@, "peer")] ELSE udp
  /\ UNCHANGED <<tcp, hand>>

ChildRead(n) ==
  /\ hand[n] = 0 /\ tcp[n] > 0
  /\ hand' = [hand EXCEPT ![n] = 1]
  /\ tcp' = [tcp EXCEPT ![n] = @ - 1]
  /\ UNCHANGED <<pc, ready, udp, pipe, tick>>

ChildWrite(n) ==
  /\ hand[n] = 1 /\ pipe[n] < PipeCap
  /\ hand' = [hand EXCEPT ![n] = 0]
  /\ pipe' = [pipe EXCEPT ![n] = @ + 1]
  /\ UNCHANGED <<pc, ready, udp, tcp, tick>>

Timer(n) ==
  /\ ~tick[n]
  /\ tick' = [tick EXCEPT ![n] = TRUE]
  /\ UNCHANGED <<pc, ready, udp, tcp, hand, pipe>>

Stranger(n) ==
  /\ Strangers
  /\ udp' = [udp EXCEPT ![n] = Received(@, "stranger")]
  /\ UNCHANGED <<pc, ready, tcp, hand, pipe, tick>>

Main(n) == Select(n) \/ UdpSection(n) \/ RestSection(n)
Child(n) == ChildRead(n) \/ ChildWrite(n)

Next == \E n \in Daemons : Main(n) \/ Child(n) \/ Timer(n) \/ Stranger(n)

Spec == Init /\ [][Next]_vars

(* Every process is scheduled. *)
FairSpec == Spec /\ \A n \in Daemons : WF_vars(Main(n)) /\ WF_vars(Child(n)) /\ WF_vars(Timer(n))
-----------------------------------------------------------------------------
TypeOK ==
  /\ pc \in [Daemons -> {"select", "udp", "rest"}]
  /\ ready \in [Daemons -> [udp : BOOLEAN, pipe : BOOLEAN, tick : BOOLEAN]]
  /\ tcp \in [Daemons -> 0 .. TcpCap] /\ hand \in [Daemons -> 0 .. 1]
  /\ pipe \in [Daemons -> 0 .. PipeCap] /\ tick \in [Daemons -> BOOLEAN]
  /\ \A n \in Daemons : Len(udp[n]) <= UdpCap

(* The main loop of n waits in send(), and the child it waits for waits for
   the other main loop. *)
Blocked(n) ==
  /\ pc[n] = "udp" /\ ready[n].udp /\ Head(udp[n]) = "peer"
  /\ tcp[Other(n)] = TcpCap /\ hand[Other(n)] = 1 /\ pipe[Other(n)] = PipeCap

(* The two daemons never wait for each other, whatever the sizes of the
   buffers: a TIME goes out only in a turn that also takes one in, unless the
   pipe was empty when select() looked, so both directions are not full at
   once.  (A pipe for one or two records would not do.) *)
NoCircularWait == ~(Blocked("A") /\ Blocked("B"))

(* Both loops keep turning: a TIME that cannot be sent now can be sent later. *)
KeepsLooping == \A n \in Daemons : []<>(pc[n] = "select")
=============================================================================
