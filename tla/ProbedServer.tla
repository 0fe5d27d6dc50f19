---------------------------- MODULE ProbedServer ----------------------------
(***************************************************************************)
(* The server half of probed: the select() loop of loop_or_die() in        *)
(* SLANG-probed/loop.c with server_find_peer_fd() and server_kill_peer().  *)
(* It answers UDP PINGs, and keeps one TCP connection per client on which  *)
(* the TIME messages (t2, t3) go out.                                      *)
(*                                                                         *)
(* One iteration of the loop is Select, then the UDP section, the TCP      *)
(* section, the two pipe sections of the client half (PipeSection, which   *)
(* matter here only through ok) and the kill section.  Clients connect,    *)
(* send, close and reset at any moment between two of these.               *)
(***************************************************************************)
EXTENDS Integers, Sequences, FiniteSets

CONSTANTS Addrs,       \* IP addresses of clients
          Low,         \* fd_client_low: the highest descriptor of the start-up
          MaxFd,       \* bound: RLIMIT_NOFILE, the highest descriptor there is
          UintMod,     \* nclients is unsigned: 2^32 in the code
          LockModes,   \* the settings of cfg.lm to look at: TRUE, one client at a time
          Faults,      \* what may go wrong around the server, see FaultKinds
          MaxPeers,    \* bound: entries of the list, stale ones included
          MaxBacklog,  \* bound: connections waiting for accept (listen: 10)
          MaxUdp       \* bound: datagrams in the receive buffer of s_udp

FaultKinds == {"recv",    \* recv_w_ts() fails on a datagram
               "accept",  \* accept() fails with a connection pending
               "reset",   \* a client resets its connection
               "pipe"}    \* the answer to a TIME sent to a closed client comes back

ASSUME ServerAssumption ==
  /\ Low \in Nat /\ MaxFd \in Nat /\ Low < MaxFd
  /\ UintMod \in Nat \ {0}
  /\ LockModes \subseteq BOOLEAN /\ LockModes # {}
  /\ Faults \subseteq FaultKinds
  /\ MaxPeers \in Nat /\ MaxBacklog \in Nat /\ MaxUdp \in Nat

ClientFds == (Low + 1) .. MaxFd

(* What the kernel knows of a connection: the client is there ("up"), has
   closed ("fin"), was written to after that ("late"), has refused what was
   written ("epipe": the next send raises SIGPIPE), or has reset the
   connection ("reset": the next send fails). *)
Links == {"up", "fin", "late", "epipe", "reset"}
Pong == "PONG"
NoConn == [addr |-> "none", link |-> "closed"]
Conn == [addr : Addrs, link : Links]

VARIABLES
  lm,                    \* cfg.lm, set on the command line
  fs, fd_max, nclients,  \* the loop's variables of the same names
  peers,                 \* peers_head: sequence of [addr, fd], newest first
  pc, fs_tmp, ok,        \* where the iteration is, its readable set and flag
  sock,                  \* descriptor -> connection, NoConn when not open
  backlog, udp, work,    \* pending connections, datagrams, client-half input
  sent                   \* this iteration's TIME: whose PING, whose connection (ghost)

loop == <<fs, fd_max, nclients, peers>>
iter == <<pc, fs_tmp, ok>>
net  == <<backlog, udp, work>>
vars == <<lm, loop, iter, sock, net, sent>>

Open == {d \in ClientFds : sock[d] # NoConn}

(* A connection after a successful send(). *)
Written(c) == IF c.link = "fin" THEN [c EXCEPT !.link = "late"] ELSE c

NoSend == [ping |-> "none", to |-> "none"]
NoReady == [fds |-> {}, udp |-> FALSE, tcp |-> FALSE, work |-> FALSE]

Init ==
  /\ lm \in LockModes
  /\ fs = {} /\ fd_max = Low /\ nclients = 0 /\ peers = <<>>
  /\ pc = "select" /\ fs_tmp = NoReady /\ ok = FALSE
  /\ sock = [d \in ClientFds |-> NoConn]
  /\ backlog = <<>> /\ udp = <<>> /\ work = FALSE
  /\ sent = NoSend
-----------------------------------------------------------------------------
Entries(a) == {i \in DOMAIN peers : peers[i].addr = a}
FirstOf(S) == CHOOSE i \in S : \A j \in S : i <= j

(* Mutant: the address is not compared. *)
server_find_peer_fd_Any(a) == IF peers = <<>> THEN -1 ELSE peers[1].fd

(* server_find_peer_fd(): the newest entry of the address, -1 if none. *)
server_find_peer_fd(a) == IF Entries(a) = {} THEN -1 ELSE peers[FirstOf(Entries(a))].fd

(* The list without its first entry for descriptor d. *)
WithoutFd(list, d) ==
  LET I == {i \in DOMAIN list : list[i].fd = d}
  IN  IF I = {} THEN list
      ELSE [i \in 1 .. Len(list) - 1 |->
              IF i < FirstOf(I) THEN list[i] ELSE list[i + 1]]

(* Mutant: the client is not counted out. *)
server_kill_peer_NoCount(d, list) ==
  /\ nclients' = nclients
  /\ peers' = WithoutFd(list, d)
  /\ sock' = [sock EXCEPT ![d] = NoConn]
  /\ fs' = fs \ {d}
  /\ fd_max' = IF d = fd_max THEN fd_max - 1 ELSE fd_max

(* server_kill_peer(), whose close() is harmless when d is not open. *)
server_kill_peer(d, list) ==
  /\ nclients' = (nclients - 1) % UintMod
  /\ peers' = WithoutFd(list, d)
  /\ sock' = [sock EXCEPT ![d] = NoConn]
  /\ fs' = fs \ {d}
  /\ fd_max' = IF d = fd_max THEN fd_max - 1 ELSE fd_max
-----------------------------------------------------------------------------
Readable(d) == sock[d].link # "up"

(* fs_tmp = fs; select() returns what is readable. *)
Select ==
  /\ pc = "select"
  /\ LET r == [fds  |-> {d \in fs : Readable(d)}, udp |-> udp # <<>>,
               tcp |-> backlog # <<>>, work |-> work]
     IN  r # NoReady /\ fs_tmp' = r
  /\ ok' = FALSE
  /\ pc' = "udp"
  /\ sent' = NoSend
  /\ UNCHANGED <<loop, sock, net>>

(* A TIME for a PING of address a: to no one, to a descriptor that takes it,
   to one that fails and is killed, or into SIGPIPE, which is not ignored. *)
SendTime(a) ==
  LET d == server_find_peer_fd(a)
  IN  \/ /\ d = -1
         /\ pc' = "select"                                  \* continue
         /\ UNCHANGED <<loop, sock, sent>>
      \/ /\ d # -1 /\ sock[d].link \in {"up", "fin", "late"}
         /\ pc' = "tcp"
         /\ sent' = [ping |-> a, to |-> sock[d].addr]
         /\ sock' = [sock EXCEPT ![d] = Written(@)]
         /\ UNCHANGED loop
      \/ /\ d # -1 /\ sock[d].link \in {"reset", "closed"}
         /\ pc' = "tcp"
         /\ server_kill_peer(d, peers)
         /\ UNCHANGED sent
      \/ /\ d # -1 /\ sock[d].link = "epipe"
         /\ pc' = "dead"
         /\ UNCHANGED <<loop, sock, sent>>

(* UDP section: a PING is answered with PONG and TIME, a PONG is the client
   half's business, and a datagram that cannot be read leaves ok at 0. *)
UdpSection ==
  /\ pc = "udp"
  /\ \/ /\ ~fs_tmp.udp
        /\ pc' = "tcp"
        /\ UNCHANGED <<loop, ok, sock, udp, sent>>
     \/ /\ fs_tmp.udp
        /\ udp' = Tail(udp)
        /\ \/ Head(udp) # Pong /\ ok' = TRUE /\ SendTime(Head(udp))
           \/ /\ Head(udp) = Pong \/ "recv" \in Faults
              /\ ok' = (Head(udp) = Pong)
              /\ pc' = "tcp"
              /\ UNCHANGED <<loop, sock, sent>>
  /\ UNCHANGED <<fs_tmp, backlog, work>>

(* accept() takes the lowest free descriptor. *)
FreeFds == ClientFds \ Open
LowestFree == FirstOf(FreeFds)

(* Mutant: the descriptor joins fs, but fd_max is left as it was. *)
Register_NoFdMax(d, c) ==
  /\ fs' = fs \cup {d}
  /\ UNCHANGED fd_max
  /\ nclients' = (nclients + 1) % UintMod
  /\ peers' = <<[addr |-> c.addr, fd |-> d]>> \o peers
  /\ sock' = [sock EXCEPT ![d] = c]

(* Mutant: new clients go to the end of the list. *)
Register_Tail(d, c) ==
  /\ fs' = fs \cup {d}
  /\ fd_max' = IF d > fd_max THEN d ELSE fd_max
  /\ nclients' = (nclients + 1) % UintMod
  /\ peers' = Append(peers, [addr |-> c.addr, fd |-> d])
  /\ sock' = [sock EXCEPT ![d] = c]

(* A client whose HELO goes out: counted, watched and listed. *)
Register(d, c) ==
  /\ fs' = fs \cup {d}
  /\ fd_max' = IF d > fd_max THEN d ELSE fd_max
  /\ nclients' = (nclients + 1) % UintMod
  /\ peers' = <<[addr |-> c.addr, fd |-> d]>> \o peers
  /\ sock' = [sock EXCEPT ![d] = c]

(* HELO fails: server_kill_peer() undoes what Register did except for the
   list entry, which is inserted afterwards all the same. *)
RegisterKilled(d, c) ==
  /\ fs' = fs \ {d}
  /\ fd_max' = IF d >= fd_max THEN d - 1 ELSE fd_max
  /\ nclients' = nclients
  /\ peers' = <<[addr |-> c.addr, fd |-> d]>> \o WithoutFd(peers, d)
  /\ UNCHANGED sock

Rejects == nclients > 0 /\ lm

AcceptConn(c) ==
  LET d == LowestFree
  IN  /\ backlog' = Tail(backlog)
      /\ \/ /\ Rejects               \* never closed, never watched
            /\ ok' = FALSE
            /\ sock' = [sock EXCEPT ![d] = c]
            /\ UNCHANGED loop
         \/ /\ ~Rejects
            /\ ok' = TRUE
            /\ IF c.link = "reset" THEN RegisterKilled(d, c) ELSE Register(d, Written(c))

(* TCP section: one pending connection is accepted, rejected, or not got. *)
TcpSection ==
  /\ pc = "tcp"
  /\ pc' = "pipe"
  /\ \/ ~fs_tmp.tcp /\ UNCHANGED <<loop, ok, sock, backlog>>
     \/ fs_tmp.tcp /\ FreeFds # {} /\ AcceptConn(Head(backlog))
     \/ /\ fs_tmp.tcp /\ (FreeFds = {} \/ "accept" \in Faults)
        /\ ok' = FALSE
        /\ UNCHANGED <<loop, sock, backlog>>
  /\ UNCHANGED <<fs_tmp, udp, work, sent>>

(* The pipe sections: whatever the client half reads sets ok. *)
PipeSection ==
  /\ pc = "pipe"
  /\ pc' = "kill"
  /\ ok' = (ok \/ fs_tmp.work)
  /\ work' = (work /\ ~fs_tmp.work)
  /\ UNCHANGED <<loop, fs_tmp, sock, backlog, udp, sent>>

(* Mutant: i < fd_max. *)
ToKill_Below == {d \in fs_tmp.fds : d < fd_max}

(* Kill section, for (i = fd_client_low; i <= fd_max; i++) if ok is 0: one
   descriptor that was readable at the time of select() per step. *)
ToKill == {d \in fs_tmp.fds : d <= fd_max}

KillSection ==
  /\ pc = "kill"
  /\ IF ok \/ ToKill = {}
     THEN /\ pc' = "select"
          /\ fs_tmp' = NoReady
          /\ ok' = FALSE
          /\ UNCHANGED <<loop, sock>>
     ELSE /\ server_kill_peer(FirstOf(ToKill), peers)
          /\ fs_tmp' = [fs_tmp EXCEPT !.fds = @ \ {FirstOf(ToKill)}]
          /\ UNCHANGED <<pc, ok>>
  /\ UNCHANGED <<net, sent>>

Server == /\ Select \/ UdpSection \/ TcpSection \/ PipeSection \/ KillSection
          /\ UNCHANGED lm
-----------------------------------------------------------------------------
(* Clients and the network. *)
Connect(a) ==
  /\ pc # "dead" /\ Len(backlog) < MaxBacklog /\ Len(peers) + Len(backlog) < MaxPeers
  /\ backlog' = Append(backlog, [addr |-> a, link |-> "up"])
  /\ UNCHANGED <<loop, iter, sock, udp, work, sent>>

Datagram(a) ==
  /\ pc # "dead" /\ Len(udp) < MaxUdp
  /\ udp' = Append(udp, a)
  /\ UNCHANGED <<loop, iter, sock, backlog, work, sent>>

Work ==
  /\ pc # "dead" /\ ~work
  /\ work' = TRUE
  /\ UNCHANGED <<loop, iter, sock, backlog, udp, sent>>

(* A client closes, or resets, an accepted connection. *)
Hangup(d, l) ==
  /\ pc # "dead" /\ sock[d].link = "up"
  /\ l = "fin" \/ (l = "reset" /\ "reset" \in Faults)
  /\ sock' = [sock EXCEPT ![d].link = l]
  /\ UNCHANGED <<loop, iter, net, sent>>

(* The same while the connection is still waiting for accept(). *)
HangupEarly(i, l) ==
  /\ pc # "dead" /\ backlog[i].link = "up"
  /\ l = "fin" \/ (l = "reset" /\ "reset" \in Faults)
  /\ backlog' = [backlog EXCEPT ![i].link = l]
  /\ UNCHANGED <<loop, iter, sock, udp, work, sent>>

(* The RST with which a closed client answers arrives. *)
Refuse(d) ==
  /\ "pipe" \in Faults
  /\ pc # "dead" /\ sock[d].link = "late"
  /\ sock' = [sock EXCEPT ![d].link = "epipe"]
  /\ UNCHANGED <<loop, iter, net, sent>>

Environment ==
  /\ \/ \E a \in Addrs : Connect(a)
     \/ \E a \in Addrs \cup {Pong} : Datagram(a)
     \/ Work
     \/ \E l \in {"fin", "reset"} :
          \/ \E d \in ClientFds : Hangup(d, l)
          \/ \E i \in DOMAIN backlog : HangupEarly(i, l)
     \/ \E d \in ClientFds : Refuse(d)
  /\ UNCHANGED lm

Next == Server \/ Environment

Spec == Init /\ [][Next]_vars

(* The loop keeps running.  select() is fair to a quiet moment: it is called
   again at once while a dead client makes its descriptor readable, so if
   nothing else is ready infinitely often, such an iteration happens. *)
Quiet == pc = "select" /\ udp = <<>> /\ backlog = <<>> /\ ~work
QuietSelect == Quiet /\ Select /\ UNCHANGED lm

FairSpec == Spec /\ WF_vars(Server) /\ SF_vars(QuietSelect)
-----------------------------------------------------------------------------
TypeOK ==
  /\ lm \in LockModes
  /\ fs \subseteq ClientFds /\ fd_max \in Low .. MaxFd
  /\ nclients \in 0 .. UintMod - 1
  /\ peers \in Seq([addr : Addrs, fd : ClientFds])
  /\ pc \in {"select", "udp", "tcp", "pipe", "kill", "dead"}
  /\ fs_tmp \in [fds : SUBSET ClientFds, udp : BOOLEAN, tcp : BOOLEAN, work : BOOLEAN]
  /\ ok \in BOOLEAN
  /\ sock \in [ClientFds -> Conn \cup {NoConn}]
  /\ backlog \in Seq(Conn) /\ udp \in Seq(Addrs \cup {Pong}) /\ work \in BOOLEAN

(* Whatever fails, select() only ever watches open descriptors it can reach:
   every member of fs is open and lies between fd_client_low and fd_max, the
   limit of select() and of the kill section. *)
FdSetSound ==
  /\ fs \subseteq Open
  /\ \A d \in fs : Low < d /\ d <= fd_max

(* Whatever fails, the newest list entry of a watched descriptor is that of
   the client it belongs to, so that killing the descriptor (which removes the
   first entry found) removes its own client and no other. *)
NewestEntryIsOwner ==
  \A d \in fs : \E i \in DOMAIN peers :
    /\ peers[i] = [addr |-> sock[d].addr, fd |-> d]
    /\ \A j \in DOMAIN peers : j < i => peers[j].fd # d

(* Without resets the book-keeping is exact: nclients, the list and the set
   agree, each client is listed once, its entry holds its address, and in lock
   mode there is one client at most. *)
AccountingExact ==
  /\ lm => Cardinality(fs) <= 1
  /\ nclients = Cardinality(fs)
  /\ Len(peers) = Cardinality(fs)
  /\ \A i \in DOMAIN peers : /\ peers[i].fd \in fs
                             /\ sock[peers[i].fd].addr = peers[i].addr

(* A TIME for a PING goes to a connection of the address that sent it. *)
TimeToSender == sent.ping = sent.to

(* "remove dead fds": a client that has gone is taken out of fs, provided the
   server's other input falls silent again and again. *)
DeadClientsRemoved ==
  ([]<>Quiet) => \A d \in ClientFds :
                   (d \in fs /\ sock[d].link # "up") ~> (d \notin fs)
=============================================================================
