----------------------------- MODULE Traceroute6 -----------------------------
(***************************************************************************)
(* traceroute6: main() sends nprobes probes per hop limit, each with a     *)
(* sequence number of its own, and wait_for_reply() waits at most waittime *)
(* for the answer, whatever other ICMP packets wake it.                    *)
(***************************************************************************)
EXTENDS Integers, Sequences

CONSTANTS Distances,   \* hops to the target
          Blocked,     \* hops whose router answers "unreachable"
          nprobes, max_ttl, waittime,
          MaxPending   \* bound on the answers under way

TraceAssumption ==
  /\ Distances \subseteq Nat \ {0} /\ Blocked \subseteq Nat
  /\ {nprobes, max_ttl, waittime} \subseteq Nat \ {0} /\ MaxPending \in Nat

VARIABLES
  pc,          \* "setup", "sockets", "hop", "probe", "wait", "exit"
  distance, ttl, probe, seq, wait, got_there, unreachable,
  pending,     \* answers under way: <<seq, ttl, answer>>
  report,      \* per hop: the hop limits of the probes whose answers were printed
  status

vars == <<pc, distance, ttl, probe, seq, wait, got_there, unreachable, pending, report, status>>

Init ==
  /\ pc = "setup" /\ distance \in Distances /\ ttl = 0 /\ probe = 0 /\ seq = 0 /\ wait = 0
  /\ got_there = 0 /\ unreachable = 0 /\ pending = {}
  /\ report = [t \in 1 .. max_ttl |-> {}] /\ status = ""

Failed == pc' = "exit" /\ status' = "failed"

(* main(): privileges are dropped, options and names read. *)
Setup ==
  /\ pc = "setup"
  /\ (pc' = "sockets" /\ UNCHANGED status) \/ Failed
  /\ UNCHANGED <<distance, ttl, probe, seq, wait, got_there, unreachable, pending, report>>

(* main(): the buffer, the sockets, the source address. *)
Sockets ==
  /\ pc = "sockets"
  /\ (pc' = "hop" /\ UNCHANGED status) \/ Failed
  /\ UNCHANGED <<distance, ttl, probe, seq, wait, got_there, unreachable, pending, report>>

(* main(): the trace ends with the target, or when all but one of the
   probes of a hop were refused. *)
Finished == got_there > 0 \/ (unreachable > 0 /\ unreachable >= nprobes - 1)

NextHop ==
  /\ pc = "hop"
  /\ IF Finished \/ ttl = max_ttl
       THEN /\ pc' = "exit" /\ status' = IF got_there > 0 THEN "reached" ELSE "not reached"
            /\ UNCHANGED <<ttl, probe, got_there, unreachable>>
       ELSE /\ pc' = "probe" /\ ttl' = ttl + 1 /\ probe' = 0 /\ got_there' = 0 /\ unreachable' = 0
            /\ UNCHANGED status
  /\ UNCHANGED <<distance, seq, wait, pending, report>>

(* What answers a probe, by its hop limit. *)
Fate(t) ==
  LET refused == {h \in Blocked : h <= t /\ h < distance}
  IN  IF refused # {} THEN "unreachable" ELSE IF t < distance THEN "exceeded" ELSE "noport"

(* send_probe(); the answer may be lost.  sendto() is repeated while it only
   reports the port unreachable error of an earlier probe; other failures
   are printed and the answer is waited for all the same. *)
SendProbe(lost) ==
  /\ pc = "probe"
  /\ IF probe = nprobes THEN ~lost /\ pc' = "hop" /\ UNCHANGED <<probe, seq, wait, pending>>
     ELSE /\ pc' = "wait" /\ probe' = probe + 1 /\ seq' = seq + 1 /\ wait' = waittime
          /\ IF lost THEN UNCHANGED pending
             ELSE pending' = {p \in pending \cup {<<seq', ttl, Fate(ttl)>>} : p[1] > seq' - MaxPending}
  /\ UNCHANGED <<distance, ttl, got_there, unreachable, report, status>>

(* send_probe(): the hop limit is refused. *)
HopsFailed ==
  /\ pc = "probe" /\ probe < nprobes /\ Failed
  /\ UNCHANGED <<distance, ttl, probe, seq, wait, got_there, unreachable, pending, report>>

(* Mutant: an answer to any probe of this process counts. *)
packet_ok_Any(p) == p[1] <= seq

packet_ok(p) == p[1] = seq

(* main(): the answer is printed and counted for this hop. *)
Answer(p) ==
  /\ pc = "wait" /\ p \in pending /\ packet_ok(p)
  /\ pending' = pending \ {p} /\ pc' = "probe"
  /\ report' = [report EXCEPT ![ttl] = @ \cup {p[2]}]
  /\ got_there' = IF p[3] = "noport" THEN got_there + 1 ELSE got_there
  /\ unreachable' = IF p[3] = "unreachable" THEN unreachable + 1 ELSE unreachable
  /\ UNCHANGED <<distance, ttl, probe, seq, wait, status>>

(* Mutant: every packet starts the wait anew. *)
Rest_Reset(d) == waittime

(* wait_for_reply() with reset_timer off: select() leaves the rest. *)
Rest(d) == wait - d

(* A packet that is not the answer: another process's, or a late one. *)
Other(d) ==
  /\ pc = "wait" /\ d \in 1 .. wait /\ wait' = Rest(d)
  /\ \/ UNCHANGED pending \/ \E p \in pending : ~packet_ok(p) /\ pending' = pending \ {p}
  /\ UNCHANGED <<pc, distance, ttl, probe, seq, got_there, unreachable, report, status>>

(* Nothing came: " *". *)
TimedOut ==
  /\ pc = "wait" /\ pc' = "probe"
  /\ wait' = 0
  /\ UNCHANGED <<distance, ttl, probe, seq, got_there, unreachable, pending, report, status>>

Step == Setup \/ Sockets \/ NextHop \/ (\E lost \in BOOLEAN : SendProbe(lost)) \/ (wait = 0 /\ TimedOut)
        \/ \E d \in 1 .. waittime : Other(d)

Next == Step \/ HopsFailed \/ (wait > 0 /\ TimedOut) \/ \E p \in pending : Answer(p)

(* Fairness: the program goes on, and while it waits time passes: until the
   wait is over or another packet, taken after at least one unit, comes. *)
Spec == Init /\ [][Next]_vars /\ WF_vars(Step)
-----------------------------------------------------------------------------
TypeOK ==
  /\ pc \in {"setup", "sockets", "hop", "probe", "wait", "exit"} /\ distance \in Distances
  /\ ttl \in 0 .. max_ttl /\ probe \in 0 .. nprobes /\ seq \in Nat /\ wait \in 0 .. waittime
  /\ {got_there, unreachable} \subseteq 0 .. nprobes

(* What is printed on the line of a hop was caused by a probe of that hop,
   and "reached" by one that did reach the target: an answer that comes late
   is never taken for that of the probe being waited for. *)
HopsOwn ==
  /\ \A t \in 1 .. max_ttl : report[t] \subseteq {t}
  /\ status = "reached" => ttl >= distance

(* The trace ends, under any traffic of other processes. *)
TraceEnds == <>(pc = "exit")
==============================================================================
