------------------------ MODULE ProbedServer_proofs ------------------------
(***************************************************************************)
(* Proofs about the server loop, for any set of clients, any number of     *)
(* descriptors, either lock mode and every combination of faults.          *)
(***************************************************************************)
EXTENDS ProbedServer, FiniteSetTheorems, TLAPS

(* A non-empty set of naturals has a first element. *)
LEMMA FirstOfIsLeast ==
  ASSUME NEW S \in SUBSET Nat, S # {}
  PROVE  FirstOf(S) \in S /\ \A j \in S : FirstOf(S) <= j
<1> DEFINE R == OpToRel(<, Nat)
<1>1. IsWellFoundedOn(R, Nat)
  BY NatLessThanWellFounded
<1>2. \E x \in S : \A y \in S : ~(<<y, x>> \in R)
  <2> HIDE DEF R
  <2>1. QED
    BY <1>1, WFMin
<1>3. PICK x \in S : \A y \in S : ~(<<y, x>> \in R)
  BY <1>2
<1>4. \A y \in S : ~(y < x)
  BY <1>3 DEF OpToRel
<1>5. \A y \in S : x <= y
  BY <1>4
<1>6. QED
  BY <1>5 DEF FirstOf

Entry == [addr : Addrs, fd : ClientFds]

(* The newest entry of descriptor e in the list is that of address a. *)
Newest(list, e, a) ==
  \E i \in DOMAIN list : /\ list[i] = [addr |-> a, fd |-> e]
                         /\ \A j \in DOMAIN list : j < i => list[j].fd # e

(* What removing an entry leaves: a list of entries, and for every other
   descriptor the same newest entry as before. *)
LEMMA WithoutFdKeeps ==
  ASSUME NEW list \in Seq(Entry), NEW d
  PROVE  /\ WithoutFd(list, d) \in Seq(Entry)
         /\ \A e \in ClientFds : \A a :
              e # d /\ Newest(list, e, a) => Newest(WithoutFd(list, d), e, a)
<1> DEFINE I == {i \in DOMAIN list : list[i].fd = d}
           m == FirstOf(I)
           w == WithoutFd(list, d)
<1>0. Len(list) \in Nat /\ DOMAIN list = 1 .. Len(list) /\ \A i \in 1 .. Len(list) : list[i] \in Entry
  OBVIOUS
<1>1. CASE I = {}
  BY <1>1 DEF WithoutFd
<1>2. CASE I # {}
  <2>1. m \in I /\ \A j \in I : m <= j
    <3>1. I \in SUBSET Nat
      BY <1>0
    <3> HIDE DEF I
    <3>2. QED
      BY <1>2, <3>1, FirstOfIsLeast
  <2>2. m \in 1 .. Len(list) /\ list[m].fd = d
    BY <1>0, <2>1
  <2>3. w = [i \in 1 .. Len(list) - 1 |-> IF i < m THEN list[i] ELSE list[i + 1]]
    BY <1>2 DEF WithoutFd
  <2> HIDE DEF I, m, w
  <2>4. Len(list) - 1 \in Nat
    BY <1>0, <2>2
  <2>5. w \in Seq(Entry) /\ DOMAIN w = 1 .. Len(list) - 1
    BY <1>0, <2>2, <2>3, <2>4
  <2>6. ASSUME NEW e \in ClientFds, NEW a, e # d,
               NEW i \in DOMAIN list, list[i] = [addr |-> a, fd |-> e],
               \A j \in DOMAIN list : j < i => list[j].fd # e
        PROVE  Newest(w, e, a)
    <3>1. list[i].fd = e
      BY <2>6
    <3>2. i # m
      BY <2>2, <2>6, <3>1
    <3> DEFINE k == IF i < m THEN i ELSE i - 1
    <3>3. k \in 1 .. Len(list) - 1
      BY <1>0, <2>2, <2>6, <3>2
    <3>4. w[k] = list[i]
      BY <1>0, <2>2, <2>3, <2>6, <3>2, <3>3
    <3>5. ASSUME NEW j \in 1 .. Len(list) - 1, j < k PROVE w[j].fd # e
      BY <1>0, <2>2, <2>3, <2>6, <3>2, <3>3, <3>5
    <3>6. QED
      BY <2>5, <2>6, <3>3, <3>4, <3>5 DEF Newest
  <2>7. QED
    BY <2>5, <2>6 DEF w, Newest
<1>3. QED
  BY <1>1, <1>2

(* A new entry at the head becomes the newest of its descriptor and leaves
   the other descriptors' newest entries alone. *)
LEMMA PrependKeeps ==
  ASSUME NEW list \in Seq(Entry), NEW b \in Addrs, NEW d \in ClientFds
  PROVE  LET new == <<[addr |-> b, fd |-> d]>> \o list
         IN  /\ new \in Seq(Entry)
             /\ Newest(new, d, b)
             /\ \A e \in ClientFds : \A a : e # d /\ Newest(list, e, a) => Newest(new, e, a)
<1> DEFINE x == [addr |-> b, fd |-> d]
           new == <<x>> \o list
<1>1. x \in Entry /\ <<x>> \in Seq(Entry)
  BY DEF Entry
<1>2. new \in Seq(Entry)
  BY <1>1
<1>3. /\ Len(list) \in Nat /\ DOMAIN list = 1 .. Len(list)
      /\ DOMAIN new = 1 .. Len(list) + 1
      /\ new[1] = x
      /\ \A i \in 1 .. Len(list) : new[i + 1] = list[i]
  BY <1>1
<1> HIDE DEF new
<1>4. Newest(new, d, b)
  BY <1>3 DEF Newest
<1>5. ASSUME NEW e \in ClientFds, NEW a, e # d, Newest(list, e, a) PROVE Newest(new, e, a)
  <2>1. PICK i \in DOMAIN list : /\ list[i] = [addr |-> a, fd |-> e]
                                 /\ \A j \in DOMAIN list : j < i => list[j].fd # e
    BY <1>5 DEF Newest
  <2>2. new[i + 1] = [addr |-> a, fd |-> e] /\ i + 1 \in DOMAIN new
    BY <1>3, <2>1
  <2>3. ASSUME NEW j \in DOMAIN new, j < i + 1 PROVE new[j].fd # e
    <3>1. CASE j = 1
      BY <1>3, <1>5, <3>1
    <3>2. CASE j # 1
      <4>1. j - 1 \in 1 .. Len(list) /\ j - 1 < i /\ (j - 1) + 1 = j
        BY <1>3, <2>1, <2>3, <3>2
      <4>2. new[j] = list[j - 1]
        BY <1>3, <4>1
      <4>3. QED
        BY <1>3, <2>1, <4>1, <4>2
    <3>3. QED
      BY <3>1, <3>2
  <2>4. QED
    BY <2>2, <2>3 DEF Newest
<1>6. QED
  BY <1>2, <1>4, <1>5 DEF new
-----------------------------------------------------------------------------
(* The part of the invariant that the loop's own variables carry. *)
LoopOK ==
  /\ fs \subseteq ClientFds /\ fd_max \in Low .. MaxFd
  /\ nclients \in 0 .. UintMod - 1
  /\ peers \in Seq(Entry)
  /\ sock \in [ClientFds -> Conn \cup {NoConn}]
  /\ FdSetSound
  /\ \A d \in fs : Newest(peers, d, sock[d].addr)

LEMMA LoopOKDef == NewestEntryIsOwner <=> \A d \in fs : Newest(peers, d, sock[d].addr)
BY DEF NewestEntryIsOwner, Newest

(* Counting modulo UintMod stays in range. *)
LEMMA CountInRange ==
  ASSUME NEW n \in 0 .. UintMod - 1
  PROVE  (n - 1) % UintMod \in 0 .. UintMod - 1 /\ (n + 1) % UintMod \in 0 .. UintMod - 1
BY ServerAssumption

LEMMA KillPreserves ==
  ASSUME LoopOK, NEW d \in ClientFds, server_kill_peer(d, peers)
  PROVE  LoopOK'
<1>1. /\ Low \in Int /\ MaxFd \in Int /\ fd_max \in Int /\ d \in Int /\ Low < d
      /\ \A e \in ClientFds : e \in Int
  BY ServerAssumption DEF LoopOK, ClientFds
<1>2. fs' \subseteq ClientFds /\ fd_max' \in Low .. MaxFd
  BY <1>1 DEF LoopOK, server_kill_peer
<1>3. nclients' \in 0 .. UintMod - 1
  BY CountInRange DEF LoopOK, server_kill_peer
<1>4. /\ peers' \in Seq(Entry)
      /\ \A e \in ClientFds : \A a : e # d /\ Newest(peers, e, a) => Newest(peers', e, a)
  BY WithoutFdKeeps DEF LoopOK, server_kill_peer
<1>5. /\ sock' \in [ClientFds -> Conn \cup {NoConn}]
      /\ \A e \in ClientFds : e # d => sock'[e] = sock[e]
  BY DEF LoopOK, server_kill_peer
<1>6. FdSetSound'
  BY <1>1, <1>5 DEF LoopOK, server_kill_peer, FdSetSound, Open
<1>7. \A e \in fs' : Newest(peers', e, sock'[e].addr)
  BY <1>4, <1>5 DEF LoopOK, server_kill_peer
<1>8. QED
  BY <1>2, <1>3, <1>4, <1>5, <1>6, <1>7 DEF LoopOK

LEMMA RegisterPreserves ==
  ASSUME LoopOK, NEW d \in ClientFds, d \notin Open, NEW c \in Conn, Register(d, c)
  PROVE  LoopOK'
<1>1. /\ Low \in Int /\ MaxFd \in Int /\ fd_max \in Int /\ d \in Int /\ Low < d /\ d <= MaxFd
      /\ \A e \in ClientFds : e \in Int
  BY ServerAssumption DEF LoopOK, ClientFds
<1>2. fs' \subseteq ClientFds /\ fd_max' \in Low .. MaxFd
  BY <1>1 DEF LoopOK, Register
<1>3. nclients' \in 0 .. UintMod - 1
  BY CountInRange DEF LoopOK, Register
<1>4. c.addr \in Addrs /\ c # NoConn
  BY DEF Conn, NoConn, Links
<1>5. /\ peers' \in Seq(Entry)
      /\ Newest(peers', d, c.addr)
      /\ \A e \in ClientFds : \A a : e # d /\ Newest(peers, e, a) => Newest(peers', e, a)
  BY <1>4, PrependKeeps DEF LoopOK, Register
<1>6. /\ sock' \in [ClientFds -> Conn \cup {NoConn}]
      /\ sock'[d] = c
      /\ \A e \in ClientFds : e # d => sock'[e] = sock[e]
  BY DEF LoopOK, Register
<1>7. FdSetSound'
  BY <1>1, <1>4, <1>6 DEF LoopOK, Register, FdSetSound, Open
<1>8. \A e \in fs' : Newest(peers', e, sock'[e].addr)
  BY <1>5, <1>6 DEF LoopOK, Register
<1>9. QED
  BY <1>2, <1>3, <1>5, <1>6, <1>7, <1>8 DEF LoopOK

LEMMA RegisterKilledPreserves ==
  ASSUME LoopOK, NEW d \in ClientFds, d \notin Open, NEW c \in Conn, RegisterKilled(d, c)
  PROVE  LoopOK'
<1>1. /\ Low \in Int /\ MaxFd \in Int /\ fd_max \in Int /\ d \in Int /\ Low < d /\ d <= MaxFd
      /\ \A e \in ClientFds : e \in Int
  BY ServerAssumption DEF LoopOK, ClientFds
<1>2. fs' \subseteq ClientFds /\ fd_max' \in Low .. MaxFd /\ nclients' \in 0 .. UintMod - 1
  BY <1>1 DEF LoopOK, RegisterKilled
<1>3. c.addr \in Addrs
  BY DEF Conn
<1> DEFINE w == WithoutFd(peers, d)
<1>4. /\ w \in Seq(Entry)
      /\ \A e \in ClientFds : \A a : e # d /\ Newest(peers, e, a) => Newest(w, e, a)
  BY WithoutFdKeeps DEF LoopOK
<1>5. peers' = <<[addr |-> c.addr, fd |-> d]>> \o w
  BY DEF RegisterKilled
<1> HIDE DEF w
<1>6. /\ peers' \in Seq(Entry)
      /\ \A e \in ClientFds : \A a : e # d /\ Newest(w, e, a) => Newest(peers', e, a)
  BY <1>3, <1>4, <1>5, PrependKeeps
<1>7. sock' \in [ClientFds -> Conn \cup {NoConn}] /\ sock' = sock
  BY DEF LoopOK, RegisterKilled
<1>8. FdSetSound'
  BY <1>1, <1>7 DEF LoopOK, RegisterKilled, FdSetSound, Open
<1>9. \A e \in fs' : Newest(peers', e, sock'[e].addr)
  BY <1>4, <1>6, <1>7 DEF LoopOK, RegisterKilled
<1>10. QED
  BY <1>2, <1>6, <1>7, <1>8, <1>9 DEF LoopOK
-----------------------------------------------------------------------------
(* Changing one connection's link, to anything but closed, keeps the loop's
   invariant. *)
LEMMA LinkPreserves ==
  ASSUME LoopOK, UNCHANGED loop, NEW d \in ClientFds, NEW c \in Conn,
         sock' = [sock EXCEPT ![d] = c], d \in fs => c.addr = sock[d].addr
  PROVE  LoopOK'
<1>1. /\ sock' \in [ClientFds -> Conn \cup {NoConn}]
      /\ sock'[d] = c
      /\ \A e \in ClientFds : e # d => sock'[e] = sock[e]
  BY DEF LoopOK
<1>2. c # NoConn
  BY DEF Conn, NoConn, Links
<1>3. FdSetSound'
  BY <1>1, <1>2 DEF LoopOK, FdSetSound, Open, loop
<1>4. \A e \in fs' : Newest(peers', e, sock'[e].addr)
  BY <1>1 DEF LoopOK, loop
<1>5. QED
  BY <1>1, <1>3, <1>4 DEF LoopOK, loop

(* The part of the type invariant about the iteration and the network. *)
RestOK ==
  /\ pc \in {"select", "udp", "tcp", "pipe", "kill", "dead"}
  /\ fs_tmp \in [fds : SUBSET ClientFds, udp : BOOLEAN, tcp : BOOLEAN, work : BOOLEAN]
  /\ ok \in BOOLEAN
  /\ backlog \in Seq(Conn) /\ udp \in Seq(Addrs \cup {Pong}) /\ work \in BOOLEAN
  /\ pc \in {"udp", "tcp"} => (fs_tmp.tcp => backlog # <<>>)
  /\ pc = "udp" => (fs_tmp.udp => udp # <<>>)

IInv == LoopOK /\ RestOK

(* A connection whose link is a link is a connection. *)
LEMMA LinkIsConn ==
  ASSUME LoopOK, NEW d \in ClientFds, sock[d].link \in Links
  PROVE  sock[d] \in Conn
BY DEF LoopOK, NoConn, Links

LEMMA FreeFd ==
  ASSUME FreeFds # {}
  PROVE  LowestFree \in ClientFds /\ LowestFree \notin Open
<1>1. FreeFds \in SUBSET Nat
  BY ServerAssumption DEF FreeFds, ClientFds
<1>2. LowestFree \in FreeFds
  BY <1>1, FirstOfIsLeast DEF LowestFree
<1>3. QED
  BY <1>2 DEF FreeFds

LEMMA FoundFd ==
  ASSUME LoopOK, NEW a, server_find_peer_fd(a) # -1
  PROVE  server_find_peer_fd(a) \in ClientFds
<1>1. Entries(a) # {} /\ Entries(a) \in SUBSET Nat /\ Entries(a) \subseteq DOMAIN peers
  BY DEF server_find_peer_fd, Entries, LoopOK
<1>2. FirstOf(Entries(a)) \in DOMAIN peers
  BY <1>1, FirstOfIsLeast
<1>3. peers[FirstOf(Entries(a))] \in Entry
  BY <1>2 DEF LoopOK
<1>4. QED
  BY <1>1, <1>3 DEF server_find_peer_fd, Entry

LEMMA SendTimeStep ==
  ASSUME LoopOK, NEW a, SendTime(a)
  PROVE  LoopOK' /\ pc' \in {"select", "tcp", "dead"}
<1> DEFINE d == server_find_peer_fd(a)
<1>1. CASE UNCHANGED <<loop, sock, sent>> /\ pc' \in {"select", "dead"}
  BY <1>1 DEF LoopOK, loop, FdSetSound, Open
<1>2. CASE /\ d # -1 /\ sock[d].link \in {"up", "fin", "late"} /\ pc' = "tcp"
           /\ sock' = [sock EXCEPT ![d] = Written(@)] /\ UNCHANGED loop
  <2>1. d \in ClientFds
    BY <1>2, FoundFd
  <2>2. sock[d] \in Conn
    BY <1>2, <2>1, LinkIsConn DEF Links
  <2>3. Written(sock[d]) \in Conn /\ Written(sock[d]).addr = sock[d].addr
    BY <2>2 DEF Written, Conn, Links
  <2>4. sock' = [sock EXCEPT ![d] = Written(sock[d])]
    BY <1>2
  <2> HIDE DEF d
  <2>5. LoopOK'
    BY <1>2, <2>1, <2>3, <2>4, LinkPreserves
  <2>6. QED
    BY <1>2, <2>5
<1>3. CASE d # -1 /\ pc' = "tcp" /\ server_kill_peer(d, peers)
  <2>1. d \in ClientFds
    BY <1>3, FoundFd
  <2>2. LoopOK'
    BY <1>3, <2>1, KillPreserves
  <2>3. QED
    BY <1>3, <2>2
<1>4. QED
  BY <1>1, <1>2, <1>3 DEF SendTime

LEMMA AcceptStep ==
  ASSUME LoopOK, NEW c \in Conn, FreeFds # {}, AcceptConn(c)
  PROVE  LoopOK' /\ ok' \in BOOLEAN /\ backlog' = Tail(backlog)
<1> DEFINE d == LowestFree
<1>1. d \in ClientFds /\ d \notin Open
  BY FreeFd
<1>2. d \notin fs
  BY <1>1 DEF LoopOK, FdSetSound
<1>3. ok' \in BOOLEAN /\ backlog' = Tail(backlog)
  BY DEF AcceptConn
<1>4. CASE sock' = [sock EXCEPT ![d] = c] /\ UNCHANGED loop
  BY <1>1, <1>2, <1>3, <1>4, LinkPreserves
<1>5. CASE RegisterKilled(d, c)
  BY <1>1, <1>3, <1>5, RegisterKilledPreserves
<1>6. CASE Register(d, Written(c))
  <2>1. Written(c) \in Conn
    BY DEF Written, Conn, Links
  <2>2. QED
    BY <1>1, <1>3, <1>6, <2>1, RegisterPreserves
<1>7. QED
  BY <1>4, <1>5, <1>6 DEF AcceptConn
-----------------------------------------------------------------------------
LEMMA NoReadyType ==
  NoReady \in [fds : SUBSET ClientFds, udp : BOOLEAN, tcp : BOOLEAN, work : BOOLEAN]
<1>1. {} \in SUBSET ClientFds /\ FALSE \in BOOLEAN
  OBVIOUS
<1>2. QED
  BY <1>1, Zenon DEF NoReady

LEMMA InitIInv == Init => IInv
<1> SUFFICES ASSUME Init PROVE IInv
  OBVIOUS
<1>1. LoopOK
  <2>1. fs = {} /\ fd_max \in Low .. MaxFd /\ nclients \in 0 .. UintMod - 1
    BY ServerAssumption DEF Init
  <2>2. peers \in Seq(Entry) /\ sock \in [ClientFds -> Conn \cup {NoConn}]
    BY DEF Init
  <2>3. QED
    BY <2>1, <2>2 DEF LoopOK, FdSetSound
<1>2. RestOK
  <2>1. ok \in BOOLEAN /\ work \in BOOLEAN /\ fs_tmp = NoReady /\ pc = "select"
    BY Zenon DEF Init
  <2>2. backlog \in Seq(Conn) /\ udp \in Seq(Addrs \cup {Pong})
    BY DEF Init
  <2>3. QED
    BY <2>1, <2>2, NoReadyType DEF RestOK
<1>3. QED
  BY <1>1, <1>2 DEF IInv

(* The loop's invariant does not look at the iteration or the network. *)
LEMMA LoopStutter ==
  ASSUME LoopOK, UNCHANGED <<loop, sock>> PROVE LoopOK'
BY DEF LoopOK, loop, FdSetSound, Open

LEMMA ServerStep == IInv /\ Server => IInv'
<1> SUFFICES ASSUME IInv, Server PROVE IInv'
  OBVIOUS
<1> USE DEF IInv
<1>1. CASE Select
  <2>1. LoopOK'
    BY <1>1, LoopStutter DEF Select
  <2>2. fs_tmp' \in [fds : SUBSET ClientFds, udp : BOOLEAN, tcp : BOOLEAN, work : BOOLEAN]
    BY <1>1 DEF Select, RestOK, LoopOK
  <2>3. (fs_tmp'.tcp => backlog # <<>>) /\ (fs_tmp'.udp => udp # <<>>)
    BY <1>1 DEF Select
  <2>4. RestOK'
    BY <1>1, <2>2, <2>3 DEF Select, RestOK, net
  <2>5. QED
    BY <2>1, <2>4
<1>2. CASE UdpSection
  <2>1. LoopOK' /\ pc' \in {"select", "tcp", "dead"} /\ ok' \in BOOLEAN
    <3>1. CASE fs_tmp.udp /\ SendTime(Head(udp)) /\ ok' = TRUE
      BY <3>1, SendTimeStep
    <3>2. CASE UNCHANGED <<loop, sock>> /\ pc' = "tcp" /\ ok' \in BOOLEAN
      BY <3>2, LoopStutter
    <3>3. QED
      BY <1>2, <3>1, <3>2 DEF UdpSection, RestOK
  <2>2. udp' \in Seq(Addrs \cup {Pong})
    <3>1. CASE fs_tmp.udp
      BY <1>2, <3>1 DEF UdpSection, RestOK
    <3>2. CASE ~fs_tmp.udp
      BY <1>2, <3>2 DEF UdpSection, RestOK
    <3>3. QED
      BY <3>1, <3>2
  <2>3. UNCHANGED <<fs_tmp, backlog, work>> /\ pc = "udp"
    BY <1>2 DEF UdpSection
  <2>4. RestOK'
    BY <2>1, <2>2, <2>3 DEF RestOK
  <2>5. QED
    BY <2>1, <2>4
<1>3. CASE TcpSection
  <2>1. /\ pc = "tcp" /\ pc' = "pipe" /\ UNCHANGED <<fs_tmp, udp, work>>
    BY <1>3 DEF TcpSection
  <2>2. LoopOK' /\ ok' \in BOOLEAN /\ backlog' \in Seq(Conn)
    <3>1. CASE fs_tmp.tcp /\ FreeFds # {} /\ AcceptConn(Head(backlog))
      <4>1. backlog # <<>> /\ backlog \in Seq(Conn)
        BY <2>1, <3>1 DEF RestOK
      <4>2. Head(backlog) \in Conn /\ Tail(backlog) \in Seq(Conn)
        BY <4>1
      <4>3. QED
        BY <3>1, <4>2, AcceptStep
    <3>2. CASE UNCHANGED <<loop, sock, backlog>> /\ ok' \in BOOLEAN
      BY <3>2, LoopStutter DEF RestOK
    <3>3. QED
      BY <1>3, <3>1, <3>2 DEF TcpSection, RestOK
  <2>3. RestOK'
    BY <2>1, <2>2 DEF RestOK
  <2>4. QED
    BY <2>2, <2>3
<1>4. CASE PipeSection
  <2>1. LoopOK'
    BY <1>4, LoopStutter DEF PipeSection
  <2>2. RestOK'
    BY <1>4 DEF PipeSection, RestOK
  <2>3. QED
    BY <2>1, <2>2
<1>5. CASE KillSection
  <2>1. CASE ok \/ ToKill = {}
    <3>1. LoopOK'
      BY <1>5, <2>1, LoopStutter DEF KillSection
    <3>2. RestOK'
      BY <1>5, <2>1, NoReadyType DEF KillSection, RestOK, net
    <3>3. QED
      BY <3>1, <3>2
  <2>2. CASE ~(ok \/ ToKill = {})
    <3>1. ToKill \subseteq ClientFds /\ ToKill \in SUBSET Nat /\ ToKill # {}
      BY <2>2, ServerAssumption DEF ToKill, RestOK, ClientFds
    <3>2. FirstOf(ToKill) \in ClientFds
      BY <3>1, FirstOfIsLeast
    <3>3. LoopOK'
      BY <1>5, <2>2, <3>2, KillPreserves DEF KillSection
    <3>4. RestOK'
      BY <1>5, <2>2 DEF KillSection, RestOK, net
    <3>5. QED
      BY <3>3, <3>4
  <2>3. QED
    BY <2>1, <2>2
<1>6. QED
  BY <1>1, <1>2, <1>3, <1>4, <1>5 DEF Server

LEMMA EnvironmentStep == IInv /\ Environment => IInv'
<1> SUFFICES ASSUME IInv, Environment PROVE IInv'
  OBVIOUS
<1> USE DEF IInv
<1>1. ASSUME NEW a \in Addrs, Connect(a) PROVE IInv'
  <2>1. LoopOK'
    BY <1>1, LoopStutter DEF Connect
  <2>2. [addr |-> a, link |-> "up"] \in Conn
    BY DEF Conn, Links
  <2>3. backlog' \in Seq(Conn) /\ backlog' # <<>>
    BY <1>1, <2>2 DEF Connect, RestOK
  <2>4. RestOK'
    BY <1>1, <2>3 DEF Connect, RestOK, iter
  <2>5. QED
    BY <2>1, <2>4
<1>2. ASSUME NEW a \in Addrs \cup {Pong}, Datagram(a) PROVE IInv'
  <2>1. LoopOK'
    BY <1>2, LoopStutter DEF Datagram
  <2>2. udp' \in Seq(Addrs \cup {Pong}) /\ udp' # <<>>
    BY <1>2 DEF Datagram, RestOK
  <2>3. RestOK'
    BY <1>2, <2>2 DEF Datagram, RestOK, iter
  <2>4. QED
    BY <2>1, <2>3
<1>3. CASE Work
  <2>1. LoopOK'
    BY <1>3, LoopStutter DEF Work
  <2>2. RestOK'
    BY <1>3 DEF Work, RestOK, iter
  <2>3. QED
    BY <2>1, <2>2
<1>4. ASSUME NEW d \in ClientFds, NEW l \in {"fin", "reset"}, Hangup(d, l) PROVE IInv'
  <2>1. sock[d] \in Conn
    BY <1>4, LinkIsConn DEF Hangup, Links
  <2> DEFINE c == [sock[d] EXCEPT !.link = l]
  <2>2. c \in Conn /\ c.addr = sock[d].addr /\ sock' = [sock EXCEPT ![d] = c]
    BY <1>4, <2>1 DEF Hangup, Conn, Links
  <2> HIDE DEF c
  <2>3. LoopOK'
    BY <1>4, <2>2, LinkPreserves DEF Hangup
  <2>4. RestOK'
    BY <1>4 DEF Hangup, RestOK, iter, net
  <2>5. QED
    BY <2>3, <2>4
<1>5. ASSUME NEW i \in DOMAIN backlog, NEW l \in {"fin", "reset"}, HangupEarly(i, l) PROVE IInv'
  <2>1. LoopOK'
    BY <1>5, LoopStutter DEF HangupEarly
  <2>2. backlog \in Seq(Conn) /\ backlog[i] \in Conn
    BY <1>5 DEF RestOK
  <2>3. [backlog[i] EXCEPT !.link = l] \in Conn
    BY <2>2 DEF Conn, Links
  <2>4. backlog' = [backlog EXCEPT ![i] = [backlog[i] EXCEPT !.link = l]]
    BY <1>5 DEF HangupEarly
  <2>5. backlog' \in Seq(Conn) /\ (backlog # <<>> => backlog' # <<>>)
    BY <1>5, <2>2, <2>3, <2>4
  <2>6. RestOK'
    BY <1>5, <2>5 DEF HangupEarly, RestOK, iter
  <2>7. QED
    BY <2>1, <2>6
<1>6. ASSUME NEW d \in ClientFds, Refuse(d) PROVE IInv'
  <2>1. sock[d] \in Conn
    BY <1>6, LinkIsConn DEF Refuse, Links
  <2> DEFINE c == [sock[d] EXCEPT !.link = "epipe"]
  <2>2. c \in Conn /\ c.addr = sock[d].addr /\ sock' = [sock EXCEPT ![d] = c]
    BY <1>6, <2>1 DEF Refuse, Conn, Links
  <2> HIDE DEF c
  <2>3. LoopOK'
    BY <1>6, <2>2, LinkPreserves DEF Refuse
  <2>4. RestOK'
    BY <1>6 DEF Refuse, RestOK, iter, net
  <2>5. QED
    BY <2>3, <2>4
<1>7. QED
  BY <1>1, <1>2, <1>3, <1>4, <1>5, <1>6 DEF Environment

(* The inductive invariant holds in every reachable state. *)
THEOREM Invariance == Spec => []IInv
<1>1. IInv /\ UNCHANGED vars => IInv'
  BY LoopStutter DEF IInv, RestOK, vars, iter, net
<1>2. IInv /\ [Next]_vars => IInv'
  BY <1>1, ServerStep, EnvironmentStep DEF Next
<1>3. QED
  BY InitIInv, <1>2, PTL DEF Spec

(* Every variable of the server loop keeps its type. *)
THEOREM TypeCorrect == Spec => []TypeOK
<1> DEFINE LockOK == lm \in LockModes
<1>1. IInv /\ LockOK => TypeOK
  BY DEF IInv, LoopOK, RestOK, TypeOK, Entry
<1>2. Init => LockOK
  BY DEF Init
<1>3. LockOK /\ [Next]_vars => LockOK'
  BY DEF Next, Server, Environment, vars
<1> HIDE DEF LockOK
<1>4. QED
  BY <1>1, <1>2, <1>3, Invariance, PTL DEF Spec

(* select() never watches a closed or an out-of-reach descriptor, whatever
   connections fail and in whatever order clients come and go. *)
THEOREM FdSetCorrect == Spec => []FdSetSound
<1>1. IInv => FdSetSound
  BY DEF IInv, LoopOK
<1>2. QED
  BY <1>1, Invariance, PTL

(* Killing a watched descriptor removes the list entry of its own client. *)
THEOREM OwnerCorrect == Spec => []NewestEntryIsOwner
<1>1. IInv => NewestEntryIsOwner
  BY LoopOKDef DEF IInv, LoopOK
<1>2. QED
  BY <1>1, Invariance, PTL
-----------------------------------------------------------------------------
(* The book-keeping is exact unless a client resets its connection: then
   server_kill_peer() may be called for one client twice, or leave an entry
   of a failed HELO behind.  The invariant adds to AccountingExact that no
   descriptor is listed twice and that what the kill section is about to kill
   is still watched. *)

(* No descriptor is in the list twice. *)
Once(list) == \A i, j \in DOMAIN list : list[i].fd = list[j].fd => i = j

(* Every entry is that of a watched connection of its address. *)
Owned(list, set, conn) ==
  \A i \in DOMAIN list : list[i].fd \in set /\ conn[list[i].fd].addr = list[i].addr

NoReset == /\ \A d \in ClientFds : sock[d].link # "reset"
           /\ \A i \in DOMAIN backlog : backlog[i].link # "reset"

Counted == nclients = Cardinality(fs) /\ Len(peers) = Cardinality(fs)
Locked  == lm => Cardinality(fs) <= 1

AccInv == /\ Counted /\ Locked
          /\ Once(peers) /\ Owned(peers, fs, sock)
          /\ fs_tmp.fds \subseteq fs
          /\ NoReset

(* Removing a descriptor that is listed takes exactly its entry out. *)
LEMMA WithoutFdExact ==
  ASSUME NEW list \in Seq(Entry), NEW d, Once(list),
         NEW k \in DOMAIN list, list[k].fd = d
  PROVE  LET w == WithoutFd(list, d)
         IN  /\ Len(w) = Len(list) - 1
             /\ Once(w)
             /\ \A i \in DOMAIN w : w[i].fd # d /\ \E j \in DOMAIN list : w[i] = list[j]
<1> DEFINE I == {i \in DOMAIN list : list[i].fd = d}
           w == WithoutFd(list, d)
<1>1. Len(list) \in Nat /\ DOMAIN list = 1 .. Len(list)
  OBVIOUS
<1>2. I = {k}
  BY DEF Once
<1>3. FirstOf(I) = k
  <2>1. I \in SUBSET Nat /\ I # {}
    BY <1>1, <1>2
  <2> HIDE DEF I
  <2>2. FirstOf(I) \in I
    BY <2>1, FirstOfIsLeast
  <2>3. QED
    BY <1>2, <2>2
<1>4. w = [i \in 1 .. Len(list) - 1 |-> IF i < k THEN list[i] ELSE list[i + 1]]
  BY <1>2, <1>3 DEF WithoutFd
<1> HIDE DEF I, w
<1>5. k \in 1 .. Len(list) /\ Len(list) - 1 \in Nat
  BY <1>1
<1>6. Len(w) = Len(list) - 1 /\ DOMAIN w = 1 .. Len(list) - 1
  BY <1>4, <1>5
<1> DEFINE at(i) == IF i < k THEN i ELSE i + 1
<1>7. \A i \in DOMAIN w : at(i) \in DOMAIN list /\ at(i) # k /\ w[i] = list[at(i)]
  BY <1>1, <1>4, <1>5, <1>6
<1>8. \A i, j \in DOMAIN w : at(i) = at(j) => i = j
  BY <1>5, <1>6
<1> HIDE DEF at
<1>9. Once(w)
  BY <1>7, <1>8 DEF Once
<1>10. \A i \in DOMAIN w : w[i].fd # d
  BY <1>7 DEF Once
<1>11. QED
  BY <1>6, <1>7, <1>9, <1>10 DEF w

(* A new entry for a descriptor that is not listed keeps the list exact. *)
LEMMA PrependExact ==
  ASSUME NEW list \in Seq(Entry), NEW b \in Addrs, NEW d \in ClientFds, Once(list),
         \A i \in DOMAIN list : list[i].fd # d
  PROVE  LET new == <<[addr |-> b, fd |-> d]>> \o list
         IN  /\ Len(new) = Len(list) + 1
             /\ Once(new)
             /\ \A i \in DOMAIN new : \/ new[i] = [addr |-> b, fd |-> d]
                                      \/ \E j \in DOMAIN list : new[i] = list[j]
<1> DEFINE x == [addr |-> b, fd |-> d]
           new == <<x>> \o list
<1>1. x \in Entry /\ <<x>> \in Seq(Entry) /\ x.fd = d
  BY DEF Entry
<1>2. /\ Len(list) \in Nat /\ DOMAIN list = 1 .. Len(list)
      /\ Len(new) = Len(list) + 1 /\ DOMAIN new = 1 .. Len(list) + 1
      /\ new[1] = x
      /\ \A i \in 1 .. Len(list) : new[i + 1] = list[i]
  BY <1>1
<1> HIDE DEF new, x
<1>3. \A i \in DOMAIN new : i # 1 => i - 1 \in DOMAIN list /\ new[i] = list[i - 1]
  <2> SUFFICES ASSUME NEW i \in DOMAIN new, i # 1
               PROVE  i - 1 \in DOMAIN list /\ new[i] = list[i - 1]
    OBVIOUS
  <2>1. i - 1 \in 1 .. Len(list) /\ (i - 1) + 1 = i
    BY <1>2
  <2>2. QED
    BY <1>2, <2>1
<1>4. ASSUME NEW i \in DOMAIN new, NEW j \in DOMAIN new, new[i].fd = new[j].fd PROVE i = j
  <2>1. CASE i = 1 /\ j = 1
    BY <2>1
  <2>2. CASE i = 1 /\ j # 1
    BY <1>1, <1>2, <1>3, <1>4, <2>2
  <2>3. CASE i # 1 /\ j = 1
    BY <1>1, <1>2, <1>3, <1>4, <2>3
  <2>4. CASE i # 1 /\ j # 1
    <3>1. i - 1 = j - 1
      BY <1>3, <1>4, <2>4 DEF Once
    <3>2. QED
      BY <1>2, <3>1
  <2>5. QED
    BY <2>1, <2>2, <2>3, <2>4
<1>5. QED
  BY <1>2, <1>3, <1>4 DEF Once, new, x

(* There are never more clients than descriptors. *)
LEMMA ClientsBounded ==
  ASSUME NEW S \in SUBSET ClientFds
  PROVE  IsFiniteSet(S) /\ Cardinality(S) \in 0 .. MaxFd - Low
<1>1. /\ Low + 1 \in Int /\ MaxFd \in Int /\ ~(Low + 1 > MaxFd)
      /\ MaxFd - (Low + 1) + 1 = MaxFd - Low
  BY ServerAssumption
<1>2. IsFiniteSet(ClientFds) /\ Cardinality(ClientFds) = MaxFd - Low
  BY <1>1, FS_Interval DEF ClientFds
<1>3. IsFiniteSet(S) /\ Cardinality(S) <= Cardinality(ClientFds)
  BY <1>2, FS_Subset
<1>4. QED
  BY <1>1, <1>2, <1>3, FS_CardinalityType, ServerAssumption

(* A watched descriptor that is killed leaves exact books. *)
LEMMA KillExact ==
  ASSUME LoopOK, AccInv, UintMod > MaxFd - Low,
         NEW d \in fs, server_kill_peer(d, peers), UNCHANGED <<lm, backlog>>,
         fs_tmp'.fds \subseteq fs_tmp.fds \ {d}
  PROVE  AccInv'
<1>1. PICK k \in DOMAIN peers : peers[k] = [addr |-> sock[d].addr, fd |-> d]
  BY DEF LoopOK, Newest
<1>2. peers \in Seq(Entry) /\ Once(peers) /\ peers[k].fd = d
  BY <1>1 DEF LoopOK, AccInv
<1>3. /\ Len(peers') = Len(peers) - 1
      /\ Once(peers')
      /\ \A i \in DOMAIN peers' : peers'[i].fd # d /\ \E j \in DOMAIN peers : peers'[i] = peers[j]
  BY <1>2, WithoutFdExact DEF server_kill_peer
<1>4. IsFiniteSet(fs) /\ Cardinality(fs) \in 0 .. MaxFd - Low
  BY ClientsBounded DEF LoopOK
<1>5. fs' = fs \ {d} /\ Cardinality(fs') = Cardinality(fs) - 1 /\ Cardinality(fs') \in Nat
  BY <1>4, FS_RemoveElement, FS_CardinalityType DEF server_kill_peer
<1>6. nclients' = Cardinality(fs')
  <2>1. Cardinality(fs') \in 0 .. UintMod - 1
    BY <1>4, <1>5, ServerAssumption
  <2>2. nclients' = Cardinality(fs') % UintMod
    BY <1>5 DEF server_kill_peer, AccInv, Counted
  <2>3. QED
    BY <2>1, <2>2, ServerAssumption
<1>7. d \in ClientFds /\ \A e \in ClientFds : sock'[e] = IF e = d THEN NoConn ELSE sock[e]
  BY DEF LoopOK, server_kill_peer
<1>8. Owned(peers', fs', sock')
  BY <1>3, <1>5, <1>7 DEF Owned, AccInv, LoopOK
<1>9. NoReset'
  BY <1>7 DEF NoReset, AccInv, NoConn
<1>10. Counted' /\ Locked'
  BY <1>3, <1>4, <1>5, <1>6 DEF AccInv, Counted, Locked
<1>11. fs_tmp'.fds \subseteq fs'
  BY <1>5 DEF AccInv
<1>12. QED
  BY <1>3, <1>8, <1>9, <1>10, <1>11 DEF AccInv

(* A client that is registered is counted, watched and listed once. *)
LEMMA RegisterExact ==
  ASSUME LoopOK, AccInv, UintMod > MaxFd - Low, LoopOK',
         NEW d \in ClientFds, d \notin Open, NEW c \in Conn, c.link # "reset", ~Rejects,
         Register(d, c), UNCHANGED <<lm, fs_tmp>>,
         \A i \in DOMAIN backlog' : backlog'[i].link # "reset"
  PROVE  AccInv'
<1>1. d \notin fs /\ c.addr \in Addrs /\ peers \in Seq(Entry) /\ Once(peers)
  BY DEF LoopOK, FdSetSound, AccInv, Conn
<1>2. \A i \in DOMAIN peers : peers[i].fd # d
  BY <1>1 DEF AccInv, Owned
<1>3. /\ Len(peers') = Len(peers) + 1
      /\ Once(peers')
      /\ \A i \in DOMAIN peers' : \/ peers'[i] = [addr |-> c.addr, fd |-> d]
                                  \/ \E j \in DOMAIN peers : peers'[i] = peers[j]
  BY <1>1, <1>2, PrependExact DEF Register
<1>4. IsFiniteSet(fs) /\ Cardinality(fs) \in 0 .. MaxFd - Low
  BY ClientsBounded DEF LoopOK
<1>5. fs' = fs \cup {d} /\ Cardinality(fs') = Cardinality(fs) + 1
  BY <1>1, <1>4, FS_AddElement DEF Register
<1>6. nclients' = Cardinality(fs')
  <2>1. Cardinality(fs') \in 0 .. MaxFd - Low
    BY <1>5, ClientsBounded DEF LoopOK
  <2>2. Cardinality(fs') \in 0 .. UintMod - 1
    BY <2>1, ServerAssumption
  <2>3. nclients' = Cardinality(fs') % UintMod
    BY <1>5 DEF Register, AccInv, Counted
  <2>4. QED
    BY <2>2, <2>3, ServerAssumption
<1>7. \A e \in ClientFds : sock'[e] = IF e = d THEN c ELSE sock[e]
  BY DEF LoopOK, Register
<1>8. Owned(peers', fs', sock')
  BY <1>2, <1>3, <1>5, <1>7 DEF Owned, AccInv, LoopOK
<1>9. NoReset'
  BY <1>7 DEF NoReset, AccInv
<1>10. Counted' /\ Locked'
  BY <1>3, <1>4, <1>5, <1>6 DEF AccInv, Counted, Locked, Rejects
<1>11. fs_tmp'.fds \subseteq fs'
  BY <1>5 DEF AccInv
<1>12. QED
  BY <1>3, <1>8, <1>9, <1>10, <1>11 DEF AccInv

(* The books are not touched: only links, the iteration or the network change,
   and every watched descriptor keeps its client. *)
LEMMA QuietExact ==
  ASSUME AccInv, UNCHANGED <<lm, loop>>, fs_tmp'.fds \subseteq fs_tmp.fds,
         NoReset', \A d \in fs : sock'[d].addr = sock[d].addr
  PROVE  AccInv'
BY DEF AccInv, Counted, Locked, Owned, loop

LEMMA InitExact == Init => AccInv /\ TimeToSender
<1> SUFFICES ASSUME Init PROVE AccInv /\ TimeToSender
  OBVIOUS
<1>1. Counted /\ Locked
  BY FS_EmptySet DEF Init, Counted, Locked
<1>2. Once(peers) /\ Owned(peers, fs, sock)
  BY DEF Init, Once, Owned
<1>3. fs_tmp.fds \subseteq fs
  BY DEF Init, NoReady
<1>4. NoReset
  BY DEF Init, NoReset, NoConn
<1>5. QED
  BY <1>1, <1>2, <1>3, <1>4 DEF AccInv, TimeToSender, Init, NoSend

(* A TIME finds its own client, and kills nobody. *)
LEMMA SendTimeExact ==
  ASSUME LoopOK, AccInv, TimeToSender, NEW a, SendTime(a), UNCHANGED <<lm, fs_tmp, backlog>>
  PROVE  AccInv' /\ TimeToSender'
<1> DEFINE d == server_find_peer_fd(a)
<1>1. CASE UNCHANGED <<loop, sock, sent>>
  BY <1>1, QuietExact DEF TimeToSender, AccInv, NoReset
<1>2. CASE d # -1
  <2>1. /\ Entries(a) # {} /\ Entries(a) \in SUBSET Nat /\ Entries(a) \subseteq DOMAIN peers
        /\ d = peers[FirstOf(Entries(a))].fd
    BY <1>2 DEF server_find_peer_fd, Entries, LoopOK
  <2>2. FirstOf(Entries(a)) \in Entries(a)
    BY <2>1, FirstOfIsLeast
  <2>3. d \in fs /\ sock[d].addr = a
    BY <2>1, <2>2 DEF Entries, AccInv, Owned
  <2> HIDE DEF d
  <2>4. d \in ClientFds /\ sock[d] \in Conn /\ sock[d].link \notin {"reset", "closed"}
    BY <2>3 DEF LoopOK, FdSetSound, Open, AccInv, NoReset, Conn, Links
  <2>5. CASE /\ sock[d].link \in {"up", "fin", "late"}
             /\ sent' = [ping |-> a, to |-> sock[d].addr]
             /\ sock' = [sock EXCEPT ![d] = Written(@)]
             /\ UNCHANGED loop
    <3>1. Written(sock[d]).addr = sock[d].addr /\ Written(sock[d]).link # "reset"
      BY <2>4 DEF Written, Conn
    <3>2. \A e \in ClientFds : sock'[e].addr = sock[e].addr /\ sock'[e].link # "reset"
      BY <2>4, <2>5, <3>1 DEF LoopOK, AccInv, NoReset
    <3>3. AccInv'
      BY <2>5, <3>2, QuietExact DEF AccInv, NoReset, LoopOK
    <3>4. QED
      BY <2>3, <2>5, <3>3 DEF TimeToSender
  <2>6. QED
    BY <1>1, <2>4, <2>5 DEF SendTime, d
<1>3. QED
  BY <1>1, <1>2 DEF SendTime

LEMMA ServerExact ==
  ASSUME IInv, AccInv, TimeToSender, UintMod > MaxFd - Low, Server, IInv'
  PROVE  AccInv' /\ TimeToSender'
<1> USE DEF IInv
<1>0. UNCHANGED lm
  BY DEF Server
<1>1. CASE Select
  <2>1. UNCHANGED <<loop, sock, backlog>> /\ sent' = NoSend /\ fs_tmp'.fds \subseteq fs
    BY <1>1 DEF Select, net
  <2>2. AccInv'
    BY <1>0, <2>1 DEF AccInv, Counted, Locked, Owned, loop, NoReset
  <2>3. QED
    BY <2>1, <2>2 DEF TimeToSender, NoSend
<1>2. CASE UdpSection
  <2>1. UNCHANGED <<fs_tmp, backlog>>
    BY <1>2 DEF UdpSection
  <2>2. CASE SendTime(Head(udp))
    BY <1>0, <2>1, <2>2, SendTimeExact
  <2>3. CASE UNCHANGED <<loop, sock, sent>>
    BY <1>0, <2>1, <2>3, QuietExact DEF TimeToSender, AccInv, NoReset
  <2>4. QED
    BY <1>2, <2>2, <2>3 DEF UdpSection
<1>3. CASE TcpSection
  <2>1. UNCHANGED <<fs_tmp, sent>> /\ pc = "tcp" /\ pc \in {"udp", "tcp"}
    BY <1>3 DEF TcpSection
  <2>2. CASE fs_tmp.tcp /\ FreeFds # {} /\ AcceptConn(Head(backlog))
    <3> DEFINE d == LowestFree
               c == Head(backlog)
    <3>1. d \in ClientFds /\ d \notin Open
      BY <2>2, FreeFd
    <3>2. d \notin fs
      BY <3>1 DEF LoopOK, FdSetSound
    <3>3. backlog \in Seq(Conn) /\ backlog # <<>>
      BY <2>1, <2>2 DEF RestOK
    <3>4. c \in Conn /\ c.link # "reset"
      BY <3>3 DEF AccInv, NoReset
    <3>5. \A i \in DOMAIN Tail(backlog) : Tail(backlog)[i].link # "reset"
      BY <3>3 DEF AccInv, NoReset
    <3>6. backlog' = Tail(backlog)
      BY <2>2 DEF AcceptConn
    <3>7. CASE sock' = [sock EXCEPT ![d] = c] /\ UNCHANGED loop
      <4>1. \A e \in ClientFds : sock'[e] = IF e = d THEN c ELSE sock[e]
        BY <3>7 DEF LoopOK
      <4>2. NoReset'
        BY <3>4, <3>5, <3>6, <4>1 DEF AccInv, NoReset
      <4>3. AccInv'
        BY <1>0, <2>1, <3>2, <3>7, <4>1, <4>2, QuietExact DEF LoopOK
      <4>4. QED
        BY <2>1, <4>3 DEF TimeToSender
    <3>8. CASE ~Rejects /\ Register(d, Written(c))
      <4>1. Written(c) \in Conn /\ Written(c).link # "reset"
        BY <3>4 DEF Written, Conn, Links
      <4>2. AccInv'
        BY <1>0, <2>1, <3>1, <3>5, <3>6, <3>8, <4>1, RegisterExact
      <4>3. QED
        BY <2>1, <4>2 DEF TimeToSender
    <3>9. QED
      BY <2>2, <3>4, <3>7, <3>8 DEF AcceptConn
  <2>3. CASE UNCHANGED <<loop, sock, backlog>>
    BY <1>0, <2>1, <2>3, QuietExact DEF TimeToSender, AccInv, NoReset
  <2>4. QED
    BY <1>3, <2>2, <2>3 DEF TcpSection
<1>4. CASE PipeSection
  BY <1>0, <1>4, QuietExact DEF PipeSection, TimeToSender, AccInv, NoReset
<1>5. CASE KillSection
  <2>1. UNCHANGED <<backlog, sent>>
    BY <1>5 DEF KillSection, net
  <2>2. CASE ok \/ ToKill = {}
    BY <1>0, <1>5, <2>1, <2>2, QuietExact DEF KillSection, TimeToSender, AccInv, NoReset, NoReady
  <2>3. CASE ~(ok \/ ToKill = {})
    <3>1. ToKill \subseteq fs /\ ToKill \in SUBSET Nat /\ ToKill # {}
      BY <2>3, ServerAssumption DEF ToKill, RestOK, ClientFds, AccInv
    <3>2. FirstOf(ToKill) \in fs
      BY <3>1, FirstOfIsLeast
    <3>3. /\ server_kill_peer(FirstOf(ToKill), peers)
          /\ fs_tmp'.fds = fs_tmp.fds \ {FirstOf(ToKill)}
      BY <1>5, <2>3 DEF KillSection, RestOK
    <3>4. AccInv'
      BY <1>0, <2>1, <3>2, <3>3, KillExact
    <3>5. QED
      BY <2>1, <3>4 DEF TimeToSender
  <2>4. QED
    BY <2>2, <2>3
<1>6. QED
  BY <1>1, <1>2, <1>3, <1>4, <1>5 DEF Server

(* A change of one connection's link to something else than "reset". *)
LEMMA LinkExact ==
  ASSUME LoopOK, AccInv, UNCHANGED <<lm, loop, fs_tmp, backlog>>,
         NEW d \in ClientFds, NEW l, l # "reset",
         sock[d].link \in Links, sock' = [sock EXCEPT ![d].link = l]
  PROVE  AccInv'
<1>1. sock[d] \in Conn
  BY LinkIsConn
<1>2. \A e \in ClientFds : sock'[e].addr = sock[e].addr /\ sock'[e].link # "reset"
  BY <1>1 DEF LoopOK, AccInv, NoReset, Conn
<1>3. QED
  BY <1>2, QuietExact DEF AccInv, NoReset, LoopOK

LEMMA EnvironmentExact ==
  ASSUME IInv, AccInv, TimeToSender, "reset" \notin Faults, Environment
  PROVE  AccInv' /\ TimeToSender'
<1> USE DEF IInv
<1>0. UNCHANGED lm
  BY DEF Environment
<1>1. ASSUME NEW a \in Addrs, Connect(a) PROVE AccInv' /\ TimeToSender'
  <2>1. UNCHANGED <<loop, fs_tmp, sock, sent>>
    BY <1>1 DEF Connect, iter
  <2>2. \A i \in DOMAIN backlog' : backlog'[i].link # "reset"
    BY <1>1 DEF Connect, RestOK, AccInv, NoReset
  <2>3. QED
    BY <1>0, <2>1, <2>2, QuietExact DEF TimeToSender, AccInv, NoReset
<1>2. ASSUME NEW a \in Addrs \cup {Pong}, Datagram(a) PROVE AccInv' /\ TimeToSender'
  BY <1>0, <1>2, QuietExact DEF Datagram, iter, TimeToSender, AccInv, NoReset
<1>3. CASE Work
  BY <1>0, <1>3, QuietExact DEF Work, iter, TimeToSender, AccInv, NoReset
<1>4. ASSUME NEW d \in ClientFds, NEW l \in {"fin", "reset"}, Hangup(d, l)
      PROVE  AccInv' /\ TimeToSender'
  BY <1>0, <1>4, LinkExact DEF Hangup, iter, net, TimeToSender, Links
<1>5. ASSUME NEW i \in DOMAIN backlog, NEW l \in {"fin", "reset"}, HangupEarly(i, l)
      PROVE  AccInv' /\ TimeToSender'
  <2>1. UNCHANGED <<loop, fs_tmp, sock, sent>> /\ l = "fin"
    BY <1>5 DEF HangupEarly, iter
  <2>2. backlog' = [backlog EXCEPT ![i] = [backlog[i] EXCEPT !.link = l]]
    BY <1>5 DEF HangupEarly
  <2>3. backlog[i] \in Conn /\ DOMAIN backlog' = DOMAIN backlog
    BY <1>5, <2>2 DEF RestOK
  <2>4. [backlog[i] EXCEPT !.link = l].link = "fin"
    BY <2>1, <2>3 DEF Conn
  <2>5. \A j \in DOMAIN backlog' : backlog'[j].link # "reset"
    BY <2>2, <2>3, <2>4 DEF AccInv, NoReset
  <2>6. QED
    BY <1>0, <2>1, <2>5, QuietExact DEF TimeToSender, AccInv, NoReset
<1>6. ASSUME NEW d \in ClientFds, Refuse(d) PROVE AccInv' /\ TimeToSender'
  BY <1>0, <1>6, LinkExact DEF Refuse, iter, net, TimeToSender, Links
<1>7. QED
  BY <1>1, <1>2, <1>3, <1>4, <1>5, <1>6 DEF Environment

LEMMA ExactInvariance ==
  ASSUME "reset" \notin Faults, UintMod > MaxFd - Low
  PROVE  Spec => [](AccInv /\ TimeToSender)
<1> DEFINE Inv == AccInv /\ TimeToSender
<1>1. Init => Inv
  BY InitExact
<1>2. Inv /\ UNCHANGED vars => Inv'
  BY QuietExact DEF vars, iter, net, TimeToSender, AccInv, NoReset
<1>3. IInv /\ IInv' /\ Inv /\ [Next]_vars => Inv'
  BY <1>2, ServerExact, EnvironmentExact DEF Next
<1> HIDE DEF Inv
<1>4. Spec => []Inv
  BY <1>1, <1>3, Invariance, PTL DEF Spec
<1>5. QED
  BY <1>4 DEF Inv

(* As long as no client resets its connection, whatever else fails, nclients,
   the peer list and the descriptor set agree, every client is listed once
   under its own address, and lock mode admits one client at a time.  The
   counter is wide enough when it exceeds the number of descriptors, as an
   unsigned int does. *)
THEOREM AccountingCorrect ==
  ASSUME "reset" \notin Faults, UintMod > MaxFd - Low
  PROVE  Spec => []AccountingExact
<1>1. AccInv => AccountingExact
  BY DEF AccInv, AccountingExact, Counted, Locked, Owned
<1>2. QED
  BY <1>1, ExactInvariance, PTL

(* Under the same conditions the TIME for a PING goes to a connection of the
   address the PING came from, however descriptors are reused. *)
THEOREM TimeReachesSender ==
  ASSUME "reset" \notin Faults, UintMod > MaxFd - Low
  PROVE  Spec => []TimeToSender
BY ExactInvariance, PTL
=============================================================================
