--------------------------- MODULE MCProbedClient ---------------------------
(***************************************************************************)
(* ProbedClient with one session that is probed, and with two that share   *)
(* an address until the configuration moves one of them, or drops both.    *)
(***************************************************************************)
EXTENDS ProbedClient

S(i, a, v) == [id |-> i, addr |-> a, ival |-> v]
One    == {<<S(1, "a", 1)>>}

(* The interval of these is one client_msess_transmit() refuses: they are
   started and not probed. *)
Change == {<<S(1, "a", 0), S(2, "a", 0)>>, <<S(1, "b", 0), S(2, "a", 0)>>, <<>>}
Run(op, configs, faults) == [Op |-> op, Configs |-> configs, Faults |-> faults]

(* A network that loses and doubles; -n in CLIENT mode with a clock that is
   set back (a datagram that is never delivered stands for a lost one); and a
   daemon that reloads. *)
Network == Run("DAEMON", One, {"loss", "dup", "send", "txstamp"})
Stop    == Run("CLIENT", One, {"hangup", "giveup", "clock"})
Moving  == Run("DAEMON", Change, {"fork", "hup"})
Running == {Network, Stop, Moving}

(* Daemons that reload while they probe. *)
Stale  == {Run("DAEMON", One, {"hup"})}
Orphan == {Run("DAEMON", One, {"hup", "badconf"})}

(* The timer keeps ticking, the loop and the children keep running and time
   passes; nothing is assumed of the network. *)
Scheduled(A) == client # Network /\ A
RunSpec ==
  /\ Spec
  /\ WF_vars(Scheduled(Tick)) /\ WF_vars(Scheduled(SendStep))
  /\ WF_vars(Scheduled(RecvPipe)) /\ WF_vars(Scheduled(Second))
  /\ WF_vars(Scheduled(\E p \in Pids : ChildConnect(p)))
  /\ WF_vars(Scheduled(\E p \in Pids : ChildForward(p)))

(* client_res_clear_timeouts(): every probe of the session from the command
   line, whose configuration is number 0, gets its outcome. *)
ProbesResolved == \A u \in [ep : {0}, id : {c[1].id : c \in One}, seq : 1 .. MaxSeq] : Resolved(u)

(* client_msess_gothello(): after the last reload every session gets going, also
   one that shares its address and the child with another, and also when the
   fork() of a session with another address failed. *)
SessionsStarted == Waiting ~> (client = Network \/ ~Kept \/ ~Waiting)
=============================================================================
