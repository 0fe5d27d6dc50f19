----------------------------- MODULE ClientParts -----------------------------
(***************************************************************************)
(* Five parts of the probed client that share no state: the statistics     *)
(* (ResultStats, extended), and instances of the result FIFO (FifoQueue),  *)
(* the TCP child (TcpChild), the timer process (SendTimer) and the send    *)
(* path (UdpSend).                                                         *)
(*                                                                         *)
(* Since no step of one reads what another writes, each is explored on its *)
(* own: part, chosen in the initial state, says which of them runs.        *)
(***************************************************************************)
EXTENDS ResultStats, Sequences

Parts == {"stats", "fifo", "child", "timer", "udp"}

(* The constants of the four instances, a record for each. *)
CONSTANTS fifoOf, childOf, timerOf, udpOf

VARIABLES
  part,
  fifoq, count_client_fifoq, count_client_fifoq_max, fifo, fifo_pc, r_fifo,
  reader, made, fifo_seen, held,
  child_pc, fail_setup, fail_exec, data, stream, seg, pipe, conn, next,
  child_last, up, whole,
  time_dev, niter, now, overhead, jumps, slept,
  ts, flags, tos, sent, stamps, arrived, udp_pc, tmp, back, result, wire, missed

fifoVars  == <<fifoq, count_client_fifoq, count_client_fifoq_max, fifo, fifo_pc,
               r_fifo, reader, made, fifo_seen, held>>
childVars == <<child_pc, fail_setup, fail_exec, data, stream, seg, pipe, conn,
               next, child_last, up, whole>>
timerVars == <<time_dev, niter, now, overhead, jumps, slept>>
udpVars   == <<ts, flags, tos, sent, stamps, arrived, udp_pc, tmp, back, result, wire, missed>>
partVars  == <<part, vars, fifoVars, childVars, timerVars, udpVars>>

Fifo == INSTANCE FifoQueue
          WITH Cap <- fifoOf.Cap, MaxQ <- fifoOf.MaxQ, Faults <- fifoOf.Faults,
               pc <- fifo_pc, seen <- fifo_seen

Child == INSTANCE TcpChild
           WITH MaxSetup <- childOf.MaxSetup, MaxExec <- childOf.MaxExec,
                ReadTimeout <- childOf.ReadTimeout, Faults <- childOf.Faults,
                MaxMsg <- childOf.MaxMsg, MaxPipe <- childOf.MaxPipe,
                pc <- child_pc, last <- child_last

Timer == INSTANCE SendTimer
           WITH Interval <- timerOf.Interval, Every <- timerOf.Every, Limit <- timerOf.Limit,
                Second <- timerOf.Second, Overheads <- timerOf.Overheads, Jumps <- timerOf.Jumps,
                MaxJumps <- timerOf.MaxJumps, MaxNow <- timerOf.MaxNow

Udp == INSTANCE UdpSend
         WITH Dscps <- udpOf.Dscps, Patience <- udpOf.Patience, Faults <- udpOf.Faults,
              MaxSent <- udpOf.MaxSent, MaxBack <- udpOf.MaxBack, pc <- udp_pc

ASSUME PartsAssumption ==
  Fifo!FifoAssumption /\ Child!ChildAssumption /\ Timer!TimerAssumption /\ Udp!SendAssumption

PartsInit ==
  /\ part \in Parts
  /\ Init /\ Fifo!Init /\ Child!Init /\ Timer!Init /\ Udp!Init
  /\ part # "timer" => overhead = 0
  /\ part # "udp" => ts = "USERLAND"

InStats(A) == part = "stats" /\ A /\ UNCHANGED <<part, fifoVars, childVars, timerVars, udpVars>>
InFifo(A)  == part = "fifo" /\ A /\ UNCHANGED <<part, vars, childVars, timerVars, udpVars>>
InChild(A) == part = "child" /\ A /\ UNCHANGED <<part, vars, fifoVars, timerVars, udpVars>>
InTimer(A) == part = "timer" /\ A /\ UNCHANGED <<part, vars, fifoVars, childVars, udpVars>>
InUdp(A)   == part = "udp" /\ A /\ UNCHANGED <<part, vars, fifoVars, childVars, timerVars>>

PartsNext ==
  InStats(Next) \/ InFifo(Fifo!Next) \/ InChild(Child!Next) \/ InTimer(Timer!Next) \/ InUdp(Udp!Next)

(* The fairness of each part, see FairSpec in its module. *)
PartsSpec ==
  /\ PartsInit /\ [][PartsNext]_partVars
  /\ WF_partVars(InFifo(Fifo!CallOther)) /\ WF_partVars(InFifo(Fifo!Flush))
  /\ WF_partVars(InFifo(Fifo!Direct)) /\ WF_partVars(InFifo(Fifo!Read))
  /\ WF_partVars(InChild(Child!Connect \/ Child!ConnectFails))
  /\ WF_partVars(InChild(Child!Read)) /\ WF_partVars(InChild(Child!Write))
  /\ WF_partVars(InChild(Child!Deliver)) /\ WF_partVars(InChild(Child!MainReads))
  /\ WF_partVars(InTimer(Timer!Turn))
  /\ WF_partVars(InUdp(Udp!Fetch \/ Udp!GiveUp)) /\ WF_partVars(InUdp(Udp!Clock))
-----------------------------------------------------------------------------
(* The state of every part has its type. *)
PartsTypeOK == TypeOK /\ Fifo!TypeOK /\ Child!TypeOK /\ Timer!TypeOK /\ Udp!TypeOK

(* client_write_fifo(): a result is in one place and is not lost, and only a
   queued one is overtaken. *)
NothingLost == Fifo!NothingLost /\ Fifo!OvertakesOnlyQueued

(* client_fork(): messages are forwarded whole and in order, none twice. *)
ForwardsInOrder == Child!ForwardsInOrder

(* Nothing waits for ever: client_write_fifo() delivers what it queued,
   client_fork() reads what has arrived unless the connection is lost, and
   send_w_ts() comes back although a TX timestamp does not. *)
NothingStuck == Fifo!QueueDrains /\ Child!Delivered /\ Udp!FetchReturns

(* client_send_fork(): the correction settles on the overhead. *)
Converges == Timer!Converges

(* tstamp_fetch_tx(): a TX timestamp is never that of a later packet, and late
   by no more than the waits that failed. *)
LagBounded == Udp!LagBounded
=============================================================================
