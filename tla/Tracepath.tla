------------------------------ MODULE Tracepath ------------------------------
(***************************************************************************)
(* tracepath: main() raises the TTL hop by hop, probe_ttl() sends one      *)
(* probe, recverr() takes what the error queue of the socket holds.  The   *)
(* path is given by the MTUs of its links; an error may be lost, arrive    *)
(* while another probe is waited for, or come back without the payload.    *)
(***************************************************************************)
EXTENDS Integers, SequencesExt

CONSTANTS Paths,       \* sequences of the MTUs of the links to the target
          mtu0,        \* the packet length probing starts with
          max_hops, Slots,     \* Slots: the length of his[]
          Tries, Sends,        \* probes per hop and attempts to send one: 3 and 10
          Reorder,             \* whether errors may overtake each other
          MaxLate              \* bound on the errors under way

Least(S) == CHOOSE m \in S : \A n \in S : m <= n

PathAssumption ==
  /\ \A p \in Paths : p \in Seq(Nat \ {0}) /\ p # <<>>
  /\ Reorder \in BOOLEAN /\ {mtu0, max_hops, MaxLate} \subseteq Nat /\ {Slots, Tries, Sends} \subseteq Nat \ {0}

VARIABLES
  pc,         \* "setup", "hop", "send", "wait", "recv", "errs", "exit"
  path, ttl, try, send_try, mtu, old_mtu,
  pmtu,       \* the kernel's idea of the path MTU
  his, hisptr,\* the TTLs of the probes sent, by slot
  net,        \* errors under way
  errq,       \* error queue of the socket
  progress,   \* recverr()'s local: -1 or an MTU
  caller,     \* who called recverr(): "send" or "wait"
  hops_to, status

vars == <<pc, path, ttl, try, send_try, mtu, old_mtu, pmtu, his, hisptr, net, errq,
          progress, caller, hops_to, status>>

Target == Len(path)                             \* hops to the target
PathMin(k) == Least({mtu0} \cup {path[j] : j \in 1 .. k})

Init ==
  /\ pc = "setup" /\ path \in Paths /\ ttl = 0 /\ try = 0 /\ send_try = 0
  /\ mtu = mtu0 /\ old_mtu = mtu0 /\ pmtu = path[1]
  /\ his = [s \in 0 .. Slots - 1 |-> 0] /\ hisptr = 0 /\ net = <<>> /\ errq = <<>>
  /\ progress = -1 /\ caller = "send" /\ hops_to = -1 /\ status = ""
-----------------------------------------------------------------------------
(* What the path does to a probe: a link that is too narrow, the end of its
   TTL, the closed port of the target. *)
Fate(t, size) ==
  LET narrow == {k \in 1 .. (IF t < Target THEN t ELSE Target) : path[k] < size}
  IN  IF narrow # {} THEN <<"EMSGSIZE", path[Least(narrow)]>>
      ELSE IF t < Target THEN <<"exceeded", 0>> ELSE <<"ECONNREFUSED", 0>>

(* main(): the socket and its options; all fail alike. *)
Setup ==
  /\ pc = "setup"
  /\ \/ pc' = "hop" /\ UNCHANGED status
     \/ pc' = "exit" /\ status' = "failed"
  /\ UNCHANGED <<path, ttl, try, send_try, mtu, old_mtu, pmtu, his, hisptr, net, errq, progress, caller, hops_to>>

(* main(): the next TTL is set, or there are none left. *)
NextHop ==
  /\ pc = "hop"
  /\ IF ttl = max_hops THEN /\ pc' = "exit" /\ status' = "too many hops"
                            /\ UNCHANGED <<ttl, try, send_try, old_mtu>>
     ELSE /\ pc' = "send" /\ ttl' = ttl + 1 /\ try' = 0 /\ send_try' = 0 /\ old_mtu' = mtu /\ UNCHANGED status
  /\ UNCHANGED <<path, mtu, pmtu, his, hisptr, net, errq, progress, caller, hops_to>>

(* main(): what follows when probe_ttl() returns res. *)
Return(res) ==
  IF mtu' # old_mtu
    THEN pc' = "send" /\ try' = 0 /\ send_try' = 0 /\ old_mtu' = mtu' /\ UNCHANGED status
  ELSE IF res = 0 THEN pc' = "exit" /\ status' = "done" /\ UNCHANGED <<try, send_try, old_mtu>>
  ELSE IF res > 0 \/ try + 1 = Tries THEN pc' = "hop" /\ UNCHANGED <<try, send_try, old_mtu, status>>
  ELSE pc' = "send" /\ try' = try + 1 /\ send_try' = 0 /\ old_mtu' = mtu' /\ UNCHANGED status

(* Mutant: the slot is not wrapped. *)
NextSlot_NoWrap == hisptr + 1

(* The slots are used in turn. *)
NextSlot == (hisptr + 1) % Slots

(* probe_ttl(): sendto() took the probe; its error may or may not come. *)
Sent ==
  /\ pc = "send" /\ mtu <= pmtu /\ errq = <<>>
  /\ his' = [his EXCEPT ![hisptr] = ttl] /\ hisptr' = NextSlot
  /\ \/ UNCHANGED net
     \/ /\ Len(net) < MaxLate
        /\ \E full \in BOOLEAN, f \in {Fate(ttl, mtu), <<"EHOSTUNREACH", 0>>} :
             net' = Append(net, [errno |-> f[1], info |-> f[2], slot |-> hisptr, ttl |-> ttl, full |-> full])
  /\ pc' = "wait"
  /\ UNCHANGED <<path, ttl, try, send_try, mtu, old_mtu, pmtu, errq, progress, caller, hops_to, status>>

(* probe_ttl(): sendto() failed: the packet is too long for what the kernel
   knows of the path, an earlier error is pending, or for another reason. *)
SendFailed(other) ==
  /\ pc = "send" /\ (other \/ mtu > pmtu \/ errq # <<>>)
  /\ his' = [his EXCEPT ![hisptr] = ttl]
  /\ errq' = IF mtu > pmtu /\ errq = <<>>
               THEN <<[errno |-> "EMSGSIZE", info |-> pmtu, slot |-> hisptr, ttl |-> ttl, full |-> FALSE]>>
               ELSE errq
  /\ pc' = "errs" /\ caller' = "send" /\ progress' = -1
  /\ UNCHANGED <<path, ttl, try, send_try, mtu, old_mtu, pmtu, hisptr, net, hops_to, status>>

(* data_wait(): until something came, or a second passed. *)
DataWait ==
  /\ pc = "wait" /\ pc' = "errs" /\ caller' = "wait" /\ progress' = -1
  /\ UNCHANGED <<path, ttl, try, send_try, mtu, old_mtu, pmtu, his, hisptr, net, errq, hops_to, status>>

(* "reply received 8)": the target answered the probe with data. *)
ReplyReceived ==
  /\ pc = "wait" /\ ttl >= Target /\ Fate(ttl, mtu)[1] = "ECONNREFUSED"
  /\ UNCHANGED mtu /\ Return(0)
  /\ UNCHANGED <<path, ttl, pmtu, his, hisptr, net, errq, progress, caller, hops_to>>

(* probe_ttl(): what follows when recverr() returns res. *)
ErrsReturn(res) ==
  IF caller = "wait" THEN Return(res) /\ UNCHANGED <<his, hisptr>>
  ELSE /\ his' = [his EXCEPT ![hisptr] = 0]
       /\ IF res = 0 THEN Return(0) /\ UNCHANGED hisptr
          ELSE IF res > 0 THEN pc' = "send" /\ send_try' = 0 /\ UNCHANGED <<try, old_mtu, hisptr, status>>
          ELSE IF send_try + 1 < Sends
                 THEN pc' = "send" /\ send_try' = send_try + 1 /\ UNCHANGED <<try, old_mtu, hisptr, status>>
          ELSE hisptr' = NextSlot /\ Return(0)          \* "send failed"

(* recverr(): the queue is empty. *)
NoError ==
  /\ pc = "errs" /\ errq = <<>> /\ UNCHANGED mtu /\ ErrsReturn(progress)
  /\ UNCHANGED <<path, ttl, pmtu, net, errq, progress, caller, hops_to>>

(* recverr(): the TTL of the probe an error belongs to: from the payload
   that came back, or by its port, or unknown. *)
SndHops(e) == IF e.full THEN e.ttl
              ELSE IF e.slot < Slots - 1 /\ his[e.slot] # 0 THEN his[e.slot] ELSE -1

(* Mutant: the errors after EMSGSIZE fall into its case. *)
NewMtu_Through(e) == e.info

(* recverr(): what the error says of the MTU. *)
NewMtu(e) == IF e.errno = "EMSGSIZE" THEN e.info ELSE mtu

(* recverr(): one error is taken from the queue.  An unreachable host stands
   for every error that ends the trace although the target was not reached. *)
RecvErr ==
  LET e == Head(errq)
      used == [his EXCEPT ![e.slot] = IF e.slot < Slots - 1 THEN 0 ELSE @]
  IN  /\ pc = "errs" /\ errq # <<>> /\ errq' = Tail(errq)
      /\ mtu' = NewMtu(e)
      /\ IF e.errno \in {"ECONNREFUSED", "EHOSTUNREACH"}
           THEN /\ hops_to' = IF e.errno = "EHOSTUNREACH" THEN hops_to
                             ELSE IF SndHops(e) < 0 THEN ttl ELSE SndHops(e)
                /\ IF caller = "send" THEN his' = [used EXCEPT ![hisptr] = 0] ELSE his' = used
                /\ Return(0) /\ UNCHANGED progress
           ELSE /\ progress' = mtu' /\ his' = used
                /\ UNCHANGED <<pc, try, send_try, old_mtu, hops_to, status>>
      /\ UNCHANGED <<path, ttl, pmtu, hisptr, net, caller>>

(* An error reaches the host; the kernel learns of a narrow link. *)
Arrive(k) ==
  /\ pc \notin {"setup", "exit"} /\ (k = 1 \/ Reorder)
  /\ net' = RemoveAt(net, k) /\ errq' = Append(errq, net[k])
  /\ pmtu' = IF net[k].errno = "EMSGSIZE" /\ net[k].info < pmtu THEN net[k].info ELSE pmtu
  /\ UNCHANGED <<path, ttl, try, send_try, mtu, old_mtu, his, hisptr, progress, caller, hops_to, status, pc>>

Step == Setup \/ NextHop \/ Sent \/ SendFailed(FALSE) \/ DataWait \/ NoError \/ RecvErr

Next == Step \/ SendFailed(TRUE) \/ ReplyReceived \/ \E k \in DOMAIN net : Arrive(k)

Spec == Init /\ [][Next]_vars
-----------------------------------------------------------------------------
TypeOK ==
  /\ pc \in {"setup", "hop", "send", "wait", "errs", "exit"}
  /\ path \in Paths /\ ttl \in 0 .. max_hops /\ try \in 0 .. Tries /\ send_try \in 0 .. Sends
  /\ {mtu, old_mtu, pmtu} \subseteq Nat /\ his \in [0 .. Slots - 1 -> 0 .. max_hops] /\ hisptr \in 0 .. Slots - 1
  /\ hops_to \in -1 .. max_hops

(* A trace that says the target was reached gives the MTU of the whole path
   and a number of hops that does reach it, whatever errors of earlier
   probes, with older and larger MTUs, were read in between: as long as the
   errors come in the order of their causes. *)
PmtuTrue ==
  (pc = "exit" /\ hops_to # -1) => mtu = PathMin(Target) /\ hops_to \in Target .. ttl
==============================================================================
