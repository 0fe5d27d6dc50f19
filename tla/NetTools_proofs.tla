-------------------------- MODULE NetTools_proofs --------------------------
(***************************************************************************)
(* Proofs about the network tools, for every value of their parameters:    *)
(* rarpd, traceroute6, arping, the loop of ping, ninfod, rdisc, rdisc -r,  *)
(* clockdiff, the setup of ping and its sequence numbers, tracepath.       *)
(*                                                                         *)
(* Each program has an inductive invariant over the memory it uses, a      *)
(* lemma for its initial states and one for its steps; the last section    *)
(* of a program carries its property over to ToolsSpec, in which the other *)
(* programs run from other initial states.                                 *)
(***************************************************************************)
EXTENDS NetTools, FiniteSetTheorems, WellFoundedInduction, TLAPS

\* A non-empty set of naturals has a least element.
LEMMA LeastExists ==
  ASSUME NEW S \in SUBSET Nat, S # {}
  PROVE  \E k \in S : \A j \in S : k <= j
<1> DEFINE R == OpToRel(<, Nat)
<1>1. IsWellFoundedOn(R, Nat)
  BY NatLessThanWellFounded
<1>2. \E k \in S : \A j \in S : ~(<<j, k>> \in R)
  <2> HIDE DEF R
  <2>1. QED
    BY <1>1, WFMin
<1>3. PICK k \in S : \A j \in S : ~(<<j, k>> \in R)
  BY <1>2
<1>4. \A j \in S : ~(j < k)
  BY <1>3 DEF OpToRel
<1>5. QED
  BY <1>4

\* A step of the system is a step of the program that runs, or of none.
LEMMA RunsAlone ==
  ASSUME [ToolsNext]_toolVars
  PROVE  /\ part' = part
         /\ part = "rarpd" => Ra!Next \/ UNCHANGED <<pc, memory>>
         /\ part = "traceroute6" => Tr!Next \/ UNCHANGED <<pc, memory>>
         /\ part = "arping" => Ar!Next \/ UNCHANGED <<pc, memory>>
         /\ part = "ping" => Pl!Next \/ UNCHANGED <<pc, memory>>
         /\ part = "ninfod" => Ni!Next \/ UNCHANGED <<pc, memory>>
         /\ part = "rdisc" => Rd!Next \/ UNCHANGED <<pc, memory>>
         /\ part = "router" => Ro!Next \/ UNCHANGED <<pc, memory>>
         /\ part = "clockdiff" => Cd!Next \/ UNCHANGED <<pc, memory>>
         /\ part = "tracepath" => Tp!Next \/ UNCHANGED <<pc, memory>>
         /\ part = "setup" => Ps!Next \/ UNCHANGED <<pc, memory>>
         /\ part = "window" => Se!Next \/ UNCHANGED <<pc, memory>>
BY DEF toolVars, ToolsNext, InRdisc, InRdiscRouter, InTftp, InPingSeq, InPingSetup, InPingLoop,
       InArping, InRarpd, InClockdiff, InTracepath, InTraceroute6, InNinfod
-----------------------------------------------------------------------------
(* rarpd *)

\* select_ipaddr(): the first address on the link is one of the addresses, and
\* is on the link.
LEMMA FirstOnLinkFits ==
  ASSUME NEW table, NEW i, NEW Item, NEW addrs \in Seq(Item),
         Ra!FirstOnLink(table, i, addrs) # 0
  PROVE  /\ Ra!FirstOnLink(table, i, addrs) \in DOMAIN addrs
         /\ Ra!OnLink(table, i, addrs[Ra!FirstOnLink(table, i, addrs)])
<1> DEFINE on == {k \in DOMAIN addrs : Ra!OnLink(table, i, addrs[k])}
<1>1. on \in SUBSET Nat
  OBVIOUS
<1>2. on # {}
  BY DEF Ra!FirstOnLink
<1>3. \E k \in on : \A j \in on : k <= j
  <2> HIDE DEF on
  <2>1. QED
    BY <1>1, <1>2, LeastExists
<1>4. Ra!FirstOnLink(table, i, addrs) = CHOOSE k \in on : \A j \in on : k <= j
  BY <1>2 DEF Ra!FirstOnLink
<1>5. QED
  BY <1>3, <1>4

\* What select_ipaddr() gives a client, and the address rarpd calls its own.
LEMMA SelectedFits ==
  ASSUME NEW table, NEW i, NEW Item, NEW addrs \in Seq(Item),
         Ra!select_ipaddr(table, i, addrs) # Ra!NoNet
  PROVE  LET net == Ra!select_ipaddr(table, i, addrs)
             mine == Ra!put_myipaddr(table, i, net)
         IN  /\ \E k \in DOMAIN addrs : addrs[k] = net
             /\ mine = net \/ (mine = Ra!NoNet /\ m1.allow_offlink /\ Len(addrs) = 1)
<1> DEFINE k == Ra!FirstOnLink(table, i, addrs)
           net == Ra!select_ipaddr(table, i, addrs)
<1>1. CASE k # 0
  <2>1. net = addrs[k]
    BY <1>1 DEF Ra!select_ipaddr
  <2>2. k \in DOMAIN addrs /\ Ra!OnLink(table, i, addrs[k])
    BY <1>1, FirstOnLinkFits
  <2>3. Ra!put_myipaddr(table, i, net) = net
    BY <2>1, <2>2 DEF Ra!put_myipaddr
  <2>4. QED
    BY <2>1, <2>2, <2>3
<1>2. CASE k = 0
  <2>1. Len(addrs) = 1 /\ m1.allow_offlink /\ net = addrs[1]
    BY <1>2 DEF Ra!select_ipaddr
  <2>2. 1 \in DOMAIN addrs
    BY <2>1
  <2>3. Ra!put_myipaddr(table, i, net) \in {net, Ra!NoNet}
    BY DEF Ra!put_myipaddr
  <2>4. QED
    BY <2>1, <2>2, <2>3
<1>3. QED
  BY <1>1, <1>2

\* serve_it(): a new reply fits.
LEMMA ServedFits ==
  ASSUME Ra!RarpAssumption, Ra!AnswerFits, m1' = m1,
         NEW s, NEW ok, NEW skipped, NEW sent, Ra!serve_it(s, ok, skipped, sent)
  PROVE  Ra!AnswerFits'
<1> DEFINE p == Head(m7[s])
           known == Ra!Accepted(p) /\ p.hw \in DOMAIN rarpd.Hosts
           table == IF known /\ Ra!Stale(p.if, rarpd.Hosts[p.hw]) THEN Ra!load_if(ok, skipped) ELSE m3
           net == Ra!select_ipaddr(table, p.if, rarpd.Hosts[p.hw])
           mine == Ra!put_myipaddr(table, p.if, net)
           answers == known /\ net # Ra!NoNet /\ (m1.only_ethers \/ Ra!bootable(net)) /\ sent
<1>1. m8' = IF answers THEN <<p, net, mine>> ELSE m8
  BY DEF Ra!serve_it
<1>2. CASE ~answers
  <2>1. m8' = m8
    BY <1>1, <1>2
  <2>2. QED
    BY <2>1 DEF Ra!AnswerFits
<1>3. CASE answers
  <2>1. rarpd.Hosts[p.hw] \in Seq(rarpd.Nets)
    BY <1>3 DEF Ra!RarpAssumption
  <2>2. /\ \E k \in DOMAIN rarpd.Hosts[p.hw] : rarpd.Hosts[p.hw][k] = net
        /\ mine = net \/ (mine = Ra!NoNet /\ m1.allow_offlink /\ Len(rarpd.Hosts[p.hw]) = 1)
    <3> HIDE DEF table, p
    <3>1. QED
      BY <1>3, <2>1, SelectedFits
  <2>3. p.op = "rrequest" /\ p.sane /\ m1.ifidx \in {Ra!NoIf, p.if}
    BY <1>3 DEF Ra!Accepted
  <2>4. m1.only_ethers \/ net \in rarpd.Images
    BY <1>3 DEF Ra!bootable
  <2>5. m8' = <<p, net, mine>>
    BY <1>1, <1>3
  <2> HIDE DEF p, net, mine
  <2>6. m8'[1] = p /\ m8'[2] = net /\ m8'[3] = mine
    BY <2>5
  <2>7. QED
    BY <2>2, <2>3, <2>4, <2>6 DEF Ra!AnswerFits
<1>4. QED
  BY <1>2, <1>3

\* Every step of rarpd and of its environment keeps the answer fitting.
LEMMA RarpdStep ==
  ASSUME Ra!RarpAssumption, Ra!AnswerFits, Ra!Next
  PROVE  Ra!AnswerFits'
<1>1. CASE \E ok \in BOOLEAN, skipped \in SUBSET rarpd.Ifaces, sent \in BOOLEAN : Ra!Poll(ok, skipped, sent)
  BY <1>1, ServedFits DEF Ra!Poll
<1>2. CASE UNCHANGED <<m1, m8>>
  BY <1>2 DEF Ra!AnswerFits
<1>3. QED
  BY <1>1, <1>2 DEF Ra!Next, Ra!Step, Ra!Environment, Ra!Sockets, Ra!TestReload, Ra!ClearReload,
       Ra!EnterPoll, Ra!Configure, Ra!Arrive, Ra!Change, Ra!Hup

\* rarpd, serve_it(): a client is told an address of its own that fits its
\* link, whatever the tables, the requests, the reloads and the failures.
THEOREM AnswerCorrect == ToolsSpec => []AnswerFits
<1>1. ToolsInit => AnswerFits
  BY DEF ToolsInit, AnswerFits, Ra!AnswerFits, Ra!Init
<1>2. AnswerFits /\ [ToolsNext]_toolVars => AnswerFits'
  <2> SUFFICES ASSUME AnswerFits, [ToolsNext]_toolVars, part = "rarpd"
               PROVE  Ra!AnswerFits'
    BY RunsAlone DEF AnswerFits
  <2>1. CASE Ra!Next
    BY <2>1, RarpdStep, ToolsAssumption DEF AnswerFits
  <2>2. CASE UNCHANGED <<pc, memory>>
    BY <2>2 DEF memory, AnswerFits, Ra!AnswerFits
  <2>3. QED
    BY <2>1, <2>2, RunsAlone
<1>3. QED
  BY <1>1, <1>2, PTL DEF ToolsSpec
-----------------------------------------------------------------------------
(* traceroute6 *)

Fates == {"unreachable", "exceeded", "noport"}

\* The answer awaited was caused by a probe of this hop: one that names the
\* current sequence number carries the current hop limit.
TraceInv ==
  /\ m1 \in Nat /\ m2 \in 0 .. traceroute6.max_ttl /\ m4 \in Nat /\ m6 \in Nat
  /\ m9 \in [1 .. traceroute6.max_ttl -> SUBSET Nat]
  /\ \A p \in m8 : p \in Nat \X Nat \X Fates /\ p[1] <= m4
  /\ pc \in {"probe", "wait"} => m2 >= 1
  /\ pc = "wait" => \A p \in m8 : p[1] = m4 => p[2] = m2 /\ (p[3] = "noport" => m2 >= m1)
  /\ m6 > 0 => m2 >= m1
  /\ m10 = "reached" => pc = "exit" /\ m6 > 0
  /\ Tr!HopsOwn

LEMMA TraceInit ==
  ASSUME Tr!TraceAssumption, Tr!Init
  PROVE  TraceInv
<1>1. traceroute6.max_ttl \in Nat /\ m1 \in Nat
  BY DEF Tr!TraceAssumption, Tr!Init
<1>2. m9 \in [1 .. traceroute6.max_ttl -> SUBSET Nat] /\ \A t \in 1 .. traceroute6.max_ttl : m9[t] = {}
  BY DEF Tr!Init
<1>3. QED
  <2>1. pc = "setup" /\ m2 = 0 /\ m4 = 0 /\ m6 = 0 /\ m8 = {}
    BY Zenon DEF Tr!Init
  <2>2. m10 # "reached"
    BY Zenon DEF Tr!Init
  <2>3. QED
    BY <1>1, <1>2, <2>1, <2>2 DEF TraceInv, Tr!HopsOwn

LEMMA TraceStep ==
  ASSUME Tr!TraceAssumption, TraceInv, Tr!Next
  PROVE  TraceInv'
<1> USE DEF Tr!TraceAssumption, Tr!Failed
<1>1. CASE Tr!Setup \/ Tr!Sockets \/ Tr!HopsFailed
  BY <1>1 DEF Tr!Setup, Tr!Sockets, Tr!HopsFailed, TraceInv, Tr!HopsOwn
<1>2. CASE Tr!NextHop
  <2>1. pc = "hop" /\ traceroute6.max_ttl \in Nat /\ UNCHANGED <<m1, m4, m8, m9>>
    BY <1>2 DEF Tr!NextHop
  <2>2. CASE Tr!Finished \/ m2 = traceroute6.max_ttl
    <3>1. pc' = "exit" /\ UNCHANGED <<m2, m6>> /\ (m10' = "reached" => m6 > 0)
      BY <1>2, <2>2 DEF Tr!NextHop
    <3>2. QED
      BY <2>1, <3>1 DEF TraceInv, Tr!HopsOwn
  <2>3. CASE ~(Tr!Finished \/ m2 = traceroute6.max_ttl)
    <3>1. pc' = "probe" /\ m2' = m2 + 1 /\ m6' = 0 /\ m10' = m10 /\ m2 # traceroute6.max_ttl
      BY <1>2, <2>3 DEF Tr!NextHop
    <3>2. m2' \in 0 .. traceroute6.max_ttl /\ m2' >= 1 /\ m10 # "reached"
      BY <2>1, <3>1 DEF TraceInv
    <3>3. QED
      BY <2>1, <3>1, <3>2 DEF TraceInv, Tr!HopsOwn
  <2>4. QED
    BY <2>2, <2>3
<1>3. ASSUME NEW lost \in BOOLEAN, Tr!SendProbe(lost)
      PROVE  TraceInv'
  <2>1. CASE m3 = traceroute6.nprobes
    BY <1>3, <2>1 DEF Tr!SendProbe, TraceInv, Tr!HopsOwn
  <2>2. CASE m3 # traceroute6.nprobes
    <3> DEFINE new == <<m4', m2, Tr!Fate(m2)>>
    <3>1. m4' = m4 + 1 /\ m8' \subseteq m8 \cup {new} /\ pc = "probe" /\ pc' = "wait"
          /\ UNCHANGED <<m1, m2, m6, m9, m10>>
      BY <1>3, <2>2 DEF Tr!SendProbe
    <3>2. Tr!Fate(m2) \in Fates /\ (Tr!Fate(m2) = "noport" => m2 >= m1)
      BY DEF Tr!Fate, Fates, TraceInv
    <3>3. new \in Nat \X Nat \X Fates /\ new[1] = m4' /\ new[2] = m2 /\ new[3] = Tr!Fate(m2)
      BY <3>1, <3>2 DEF TraceInv
    <3>4. \A p \in m8' : p \in Nat \X Nat \X Fates /\ p[1] <= m4'
      BY <3>1, <3>3 DEF TraceInv
    <3>5. \A p \in m8' : p[1] = m4' => p[2] = m2' /\ (p[3] = "noport" => m2' >= m1')
      <4> SUFFICES ASSUME NEW p \in m8', p[1] = m4'
                   PROVE  p[2] = m2' /\ (p[3] = "noport" => m2' >= m1')
        OBVIOUS
      <4>1. p = new
        BY <3>1 DEF TraceInv
      <4>2. QED
        BY <4>1, <3>1, <3>2, <3>3
    <3> HIDE DEF new
    <3>6. QED
      BY <3>1, <3>4, <3>5 DEF TraceInv, Tr!HopsOwn
  <2>3. QED
    BY <2>1, <2>2
<1>4. ASSUME NEW p \in m8, Tr!Answer(p)
      PROVE  TraceInv'
  <2>1. pc = "wait" /\ pc' = "probe" /\ p[1] = m4 /\ m8' = m8 \ {p} /\ UNCHANGED <<m1, m2, m4, m10>>
    BY <1>4 DEF Tr!Answer, Tr!packet_ok
  <2>2. p[2] = m2 /\ (p[3] = "noport" => m2 >= m1) /\ m2 \in 1 .. traceroute6.max_ttl
    BY <2>1 DEF TraceInv
  <2>3. m9' = [m9 EXCEPT ![m2] = @ \cup {m2}]
    BY <1>4, <2>2 DEF Tr!Answer
  <2>4. m9' \in [1 .. traceroute6.max_ttl -> SUBSET Nat]
        /\ \A t \in 1 .. traceroute6.max_ttl : m9'[t] \subseteq {t}
    BY <2>2, <2>3 DEF TraceInv, Tr!HopsOwn
  <2>5. m6' \in Nat /\ (m6' > 0 => m2 >= m1) /\ m6' >= m6
    BY <1>4, <2>2 DEF Tr!Answer, TraceInv
  <2>6. QED
    BY <2>1, <2>4, <2>5 DEF TraceInv, Tr!HopsOwn
<1>5. ASSUME NEW d, Tr!Other(d)
      PROVE  TraceInv'
  BY <1>5 DEF Tr!Other, TraceInv, Tr!HopsOwn
<1>6. CASE Tr!TimedOut
  BY <1>6 DEF Tr!TimedOut, TraceInv, Tr!HopsOwn
<1>7. QED
  BY <1>1, <1>2, <1>3, <1>4, <1>5, <1>6 DEF Tr!Next, Tr!Step
-----------------------------------------------------------------------------
(* arping *)

\* From the choice of a device on, the device fits.
ArpInv ==
  /\ m1 \in arping.Options /\ m2 \in arping.DeviceLists /\ m7 \in Nat
  /\ pc \in {"source", "loop", "recv", "pack"} => m3.up /\ m3.arp /\ Ar!Named(m3)
  /\ Ar!ProbesCounted /\ Ar!DeviceFits

LEMMA ArpInit ==
  ASSUME Ar!ArpAssumption, Ar!Init
  PROVE  ArpInv
BY DEF Ar!ArpAssumption, Ar!OptionType, Ar!Init, ArpInv, Ar!ProbesCounted, Ar!DeviceFits

\* The cardinality of the module FiniteSets, as arping's module sees it.
LEMMA SameCardinality ==
  ASSUME NEW S
  PROVE  Ar!Cardinality(S) = Cardinality(S)
BY DEF Ar!Cardinality, Cardinality

\* The first of a set of devices is one of them.
LEMMA FirstDevice ==
  ASSUME NEW list \in Seq(Ar!DeviceType), m2 = list, NEW fit \in SUBSET DOMAIN list, fit # {}
  PROVE  \E i \in fit : Ar!FirstOf(fit) = list[i]
<1>1. fit \in SUBSET Nat
  OBVIOUS
<1>2. \E k \in fit : \A j \in fit : k <= j
  BY <1>1, LeastExists
<1>3. QED
  BY <1>2 DEF Ar!FirstOf

\* Whichever way finds a device, it is up, can do ARP and has the name given.
LEMMA FoundFits ==
  ASSUME Ar!ArpAssumption, m2 \in arping.DeviceLists,
         NEW d \in {Ar!find_device_by_ifaddrs, Ar!find_device_by_sysfs, Ar!find_device_by_ioctl},
         d # Ar!NoDevice
  PROVE  d.up /\ d.arp /\ Ar!Named(d)
<1> DEFINE Fits(i) == Ar!Named(m2[i]) /\ Ar!check_ifflags(m2[i])
<1>1. m2 \in Seq(Ar!DeviceType)
  BY DEF Ar!ArpAssumption
<1>2. \E fit \in SUBSET {i \in DOMAIN m2 : Fits(i)} : fit # {} /\ d = Ar!FirstOf(fit)
  <2>1. CASE d = Ar!find_device_by_ifaddrs
    <3> DEFINE fit == {i \in DOMAIN m2 : /\ Ar!Named(m2[i]) /\ Ar!check_ifflags(m2[i])
                                         /\ m2[i].halen > 0 /\ m2[i].broadaddr}
    <3>1. d = IF Ar!Cardinality(fit) = 1 THEN Ar!FirstOf(fit) ELSE Ar!NoDevice
      BY <2>1 DEF Ar!find_device_by_ifaddrs, Ar!Fitting
    <3>2. fit # {}
      BY <3>1, SameCardinality, FS_EmptySet
    <3>3. QED
      BY <3>1, <3>2
  <2>2. CASE d = Ar!find_device_by_sysfs
    <3> DEFINE fit == {i \in DOMAIN m2 : /\ Ar!Named(m2[i]) /\ Ar!check_ifflags(m2[i])
                                         /\ m2[i].halen > 0}
    <3>1. d = IF fit # {} /\ (Ar!Cardinality(fit) = 1 \/ Ar!FirstOf(fit).running)
                THEN Ar!FirstOf(fit) ELSE Ar!NoDevice
      BY <2>2 DEF Ar!find_device_by_sysfs, Ar!Fitting
    <3>2. QED
      BY <3>1
  <2>3. CASE d = Ar!find_device_by_ioctl
    <3> DEFINE fit == {i \in DOMAIN m2 : /\ Ar!Named(m2[i]) /\ Ar!check_ifflags(m2[i])
                                         /\ m1.name # ""}
    <3>1. d = IF fit # {} THEN Ar!FirstOf(fit) ELSE Ar!NoDevice
      BY <2>3 DEF Ar!find_device_by_ioctl, Ar!Fitting
    <3>2. QED
      BY <3>1
  <2>4. QED
    BY <2>1, <2>2, <2>3
<1>3. PICK fit \in SUBSET {i \in DOMAIN m2 : Fits(i)} : fit # {} /\ d = Ar!FirstOf(fit)
  BY <1>2
<1>4. PICK i \in fit : d = m2[i]
  BY <1>1, <1>3, FirstDevice
<1>5. QED
  BY <1>3, <1>4 DEF Ar!check_ifflags

LEMMA ArpStep ==
  ASSUME Ar!ArpAssumption, ArpInv, Ar!Next
  PROVE  ArpInv'
<1> USE DEF Ar!counters, Ar!End, Ar!finish
<1>1. m1 \in Ar!OptionType /\ m1.count \in Int /\ m1.timeout \in Nat
  BY DEF ArpInv, Ar!ArpAssumption, Ar!OptionType
<1>2. CASE Ar!find_device
  <2>1. pc' = "exit" \/ (m3'.up /\ m3'.arp /\ Ar!Named(m3'))
    <3>1. CASE m3' # Ar!NoDevice /\ Ar!Unfit = {}
      BY <1>2, <3>1, FoundFits DEF Ar!find_device, ArpInv
    <3>2. CASE ~(m3' # Ar!NoDevice /\ Ar!Unfit = {})
      BY <1>2, <3>2 DEF Ar!find_device
    <3>3. QED
      BY <3>1, <3>2
  <2>2. pc' \in {"exit", "source"} /\ UNCHANGED <<m1, m2, m7>>
    BY <1>2 DEF Ar!find_device
  <2>3. QED
    BY <2>1, <2>2 DEF ArpInv, Ar!ProbesCounted, Ar!DeviceFits, Ar!Named
<1>3. CASE Ar!SetSource
  BY <1>3 DEF Ar!SetSource, ArpInv, Ar!ProbesCounted, Ar!DeviceFits, Ar!Named
<1>4. ASSUME NEW ok \in BOOLEAN, Ar!Catcher(ok)
      PROVE  ArpInv'
  <2>1. pc \in {"loop", "recv"} /\ pc' \in {pc, "exit"} /\ UNCHANGED <<m1, m2, m3>>
    BY <1>4 DEF Ar!Catcher
  <2>2. m7' = m7 \/ (m7' = m7 + 1 /\ ~Ar!AllSent)
    BY <1>4 DEF Ar!Catcher, Ar!send_pack
  <2>3. QED
    <3>1. (Ar!Named(m3))' <=> Ar!Named(m3)
      BY <2>1 DEF Ar!Named
    <3>2. m7' \in Nat /\ (m1.timeout = 0 /\ m1.count >= 0 => m7' <= m1.count)
      BY <1>1, <2>2 DEF ArpInv, Ar!ProbesCounted, Ar!AllSent
    <3>3. QED
      BY <2>1, <3>1, <3>2 DEF ArpInv, Ar!ProbesCounted, Ar!DeviceFits
<1>5. CASE Ar!Unblock \/ Ar!RecvError \/ Ar!Recvfrom \/ Ar!Interrupt \/ Ar!Second
  BY <1>5 DEF Ar!Unblock, Ar!RecvError, Ar!Recvfrom, Ar!Interrupt, Ar!Second, ArpInv,
       Ar!ProbesCounted, Ar!DeviceFits, Ar!Named
<1>6. CASE Ar!recv_pack
  <2>1. pc = "pack" /\ pc' \in {"loop", "exit"} /\ UNCHANGED <<m1, m2, m3, m7>>
    BY <1>6 DEF Ar!recv_pack
  <2>2. QED
    BY <2>1 DEF ArpInv, Ar!ProbesCounted, Ar!DeviceFits, Ar!Named
<1>7. ASSUME NEW p, Ar!Arrive(p)
      PROVE  ArpInv'
  BY <1>7 DEF Ar!Arrive, ArpInv, Ar!ProbesCounted, Ar!DeviceFits, Ar!Named
<1>8. QED
  BY <1>2, <1>3, <1>4, <1>5, <1>6, <1>7 DEF Ar!Next

\* traceroute6 and arping, together.
OwnInv == (part = "arping" => ArpInv) /\ (part = "traceroute6" => TraceInv)

\* arping sends no more probes than -c allows and runs on a fit device only;
\* traceroute6, packet_ok(), reports for a hop what a probe of that hop caused.
THEOREM ProbesCorrect == ToolsSpec => []ProbesOwn
<1>1. ToolsInit => OwnInv
  BY ArpInit, TraceInit, ToolsAssumption DEF ToolsInit, OwnInv
<1>2. OwnInv /\ [ToolsNext]_toolVars => OwnInv'
  <2> SUFFICES ASSUME OwnInv, [ToolsNext]_toolVars
               PROVE  OwnInv'
    OBVIOUS
  <2>1. CASE UNCHANGED <<part, pc, memory>>
    BY <2>1 DEF memory, OwnInv, ArpInv, TraceInv, Ar!ProbesCounted, Ar!DeviceFits, Ar!Named, Tr!HopsOwn
  <2>2. CASE part = "arping" /\ Ar!Next
    BY <2>2, ArpStep, RunsAlone, ToolsAssumption DEF OwnInv
  <2>3. CASE part = "traceroute6" /\ Tr!Next
    BY <2>3, TraceStep, RunsAlone, ToolsAssumption DEF OwnInv
  <2>4. QED
    BY <2>1, <2>2, <2>3, RunsAlone DEF OwnInv
<1>3. OwnInv => ProbesOwn
  BY DEF OwnInv, ArpInv, TraceInv, ProbesOwn
<1>4. QED
  BY <1>1, <1>2, <1>3, PTL DEF ToolsSpec
-----------------------------------------------------------------------------
(* ping *)

\* What the interval and the preload allow at once.
Burst == m2.interval * m2.preload

\* Without -A, what pinger() would have after a refill is never more than what
\* is in the bucket; before the first probe the bucket is full.
PingInv ==
  /\ m2 \in ping.Options
  /\ ~m2.adaptive =>
       /\ m3 = m2.interval /\ m4 \in Int /\ m6 \in Int /\ m17 \in Nat
       /\ IF m6 = Pl!First THEN m17 = Burst ELSE m6 > Pl!First /\ Pl!AtMost(m6 + m4, Burst) <= m17

\* A burst is a natural number, and has room for a probe.
LEMMA BurstFits ==
  ASSUME Pl!LoopAssumption, m2 \in ping.Options
  PROVE  /\ m2.interval \in Nat /\ m2.preload \in Nat \ {0} /\ Burst \in Nat
         /\ m2.interval * (m2.preload - 1) \in Nat
         /\ m2.interval * (m2.preload - 1) = Burst - m2.interval
<1>1. m2.interval \in Nat /\ m2.preload \in Nat \ {0}
  BY DEF Pl!LoopAssumption, Pl!OptionType
<1>2. \A i \in Nat, n \in Nat \ {0} : i * n \in Nat /\ i * (n - 1) \in Nat /\ i * (n - 1) = i * n - i
  OBVIOUS
<1>3. QED
  BY <1>1, <1>2 DEF Burst

LEMMA PingInit ==
  ASSUME Pl!LoopAssumption, Pl!Init
  PROVE  PingInv
<1>1. m2 \in ping.Options /\ m3 = m2.interval /\ m4 = 0 /\ m6 = Pl!First /\ m17 = Burst
  BY DEF Pl!Init, Burst
<1>2. QED
  BY <1>1, BurstFits DEF PingInv, Pl!First

\* A step that sends: the first probe, or one that a refill pays for.
LEMMA PaidFits ==
  ASSUME Pl!LoopAssumption, PingInv, Pl!CanSend, ~m2.adaptive
  PROVE  /\ Pl!Paid \in Int /\ m17 - m3 \in Nat
         /\ Pl!AtMost(Pl!Paid, Burst) <= m17 - m3
         /\ Pl!AtMost(Pl!Paid + m3, Burst) <= m17
<1> USE DEF Pl!AtMost
<1>1. m3 = m2.interval /\ m3 \in Nat /\ m4 \in Int /\ m6 \in Int /\ m17 \in Nat /\ Burst \in Nat
      /\ m2.interval * (m2.preload - 1) = Burst - m2.interval
      /\ m2.interval * (m2.preload - 1) \in Nat
  BY BurstFits DEF PingInv
<1>2. CASE m6 = Pl!First
  <2>1. Pl!Paid = Burst - m3 /\ m17 = Burst
    BY <1>1, <1>2 DEF Pl!Paid, PingInv
  <2>2. QED
    BY <1>1, <2>1
<1>3. CASE m6 # Pl!First
  <2>1. Pl!Refill = Pl!AtMost(m6 + m4, Burst)
    BY <1>1 DEF Pl!Refill, Burst
  <2>2. Pl!Refill >= m3 /\ Pl!Refill \in Int /\ Pl!Refill <= m17 /\ Pl!Refill <= Burst
    BY <1>1, <1>3, <2>1 DEF Pl!CanSend, PingInv
  <2>3. Pl!Paid = Pl!Refill - m3
    BY <1>3 DEF Pl!Paid
  <2>4. QED
    BY <1>1, <2>2, <2>3
<1>4. QED
  BY <1>2, <1>3

LEMMA PingStep ==
  ASSUME Pl!LoopAssumption, PingInv, Pl!Next
  PROVE  PingInv'
<1> USE DEF Pl!PingerVars, Pl!loopVars
<1>1. m2' = m2
  BY DEF Pl!Next, Pl!Step, Pl!Top, Pl!PingerEnough, Pl!PingerEarly, Pl!SendOk, Pl!SendOom,
       Pl!SendAgain, Pl!SendError, Pl!WaitEnds, Pl!Receive, Pl!ReceiveNothing, Pl!Tick,
       Pl!Interrupt, Pl!Arrive, Pl!SetBack
<1>2. SUFFICES ASSUME ~m2.adaptive
               PROVE  /\ m3' = m3 /\ m4' \in Int /\ m6' \in Int /\ m17' \in Nat
                      /\ IF m6' = Pl!First THEN m17' = Burst
                         ELSE m6' > Pl!First /\ Pl!AtMost(m6' + m4', Burst) <= m17'
  BY <1>1 DEF PingInv, Burst, Pl!First, Pl!AtMost
<1>3. /\ m3 = m2.interval /\ m3 \in Nat /\ m4 \in Int /\ m6 \in Int /\ m17 \in Nat /\ Burst \in Nat
      /\ IF m6 = Pl!First THEN m17 = Burst
         ELSE m6 > Pl!First /\ Pl!AtMost(m6 + m4, Burst) <= m17
  BY <1>2, BurstFits DEF PingInv
<1>4. CASE UNCHANGED <<m3, m4, m6, m17>>
  BY <1>3, <1>4
<1>5. CASE Pl!Receive
  BY <1>2, <1>3, <1>5 DEF Pl!Receive, Pl!update_interval
<1>6. CASE Pl!SendOk
  <2>1. m3' = m3 /\ m4' = Pl!Paid /\ m6' = 0 /\ m17' = m17 - m3
    BY <1>6 DEF Pl!SendOk, Pl!Sent
  <2>2. QED
    BY <1>2, <1>6, <2>1, PaidFits DEF Pl!SendOk, Pl!First
<1>7. ASSUME m3' = m3, m4' = 0, m6' = 0, m17' = m17 - m3, Pl!CanSend
      PROVE  /\ m3' = m3 /\ m4' \in Int /\ m6' \in Int /\ m17' \in Nat
             /\ IF m6' = Pl!First THEN m17' = Burst
                ELSE m6' > Pl!First /\ Pl!AtMost(m6' + m4', Burst) <= m17'
  BY <1>2, <1>3, <1>7, PaidFits DEF Pl!First, Pl!AtMost
<1>8. CASE Pl!SendOom
  <2>1. Pl!CanSend /\ m3' = m3 /\ m4' = 0 /\ m6' = 0 /\ m17' \in {m17, m17 - m3}
    BY <1>2, <1>8 DEF Pl!SendOom, Pl!update_interval, Pl!HardError, Pl!Sent
  <2>2. QED
    BY <1>3, <1>7, <2>1 DEF Pl!First, Pl!AtMost
<1>9. CASE Pl!SendAgain
  <2>1. Pl!CanSend /\ m3' = m3 /\ m4' = Pl!Paid + m3 /\ m6' = 0 /\ m17' = m17
    BY <1>9 DEF Pl!SendAgain
  <2>2. QED
    BY <1>2, <1>3, <2>1, PaidFits DEF Pl!First
<1>10. ASSUME NEW o, Pl!SendError(o)
       PROVE  Pl!CanSend /\ m3' = m3 /\ m4' = 0 /\ m6' = 0 /\ m17' = m17 - m3
  BY <1>10 DEF Pl!SendError, Pl!HardError, Pl!Sent
<1>11. CASE Pl!Tick
  <2>1. m3' = m3 /\ m4' = m4 /\ m17' = Pl!AtMost(m17 + 1, Burst)
    BY <1>3, <1>11 DEF Pl!Tick, Burst
  <2>2. CASE m6 = Pl!First
    <3>1. m6' = Pl!First
      BY <1>11, <2>2 DEF Pl!Tick
    <3>2. QED
      BY <1>3, <2>1, <2>2, <3>1 DEF Pl!AtMost
  <2>3. CASE m6 # Pl!First
    <3>1. m6' = Pl!AtMost(m6 + 1, Pl!AtLeast(Burst, ping.MININTERVAL))
      BY <1>3, <1>11, <2>3 DEF Pl!Tick, Burst
    <3>2. ping.MININTERVAL \in Nat
      BY DEF Pl!LoopAssumption
    <3>3. m6' \in Int /\ m6' > Pl!First /\ m6' <= m6 + 1
      BY <1>3, <2>3, <3>1, <3>2 DEF Pl!AtMost, Pl!AtLeast, Pl!First
    <3>4. m6' # Pl!First
      BY <3>3 DEF Pl!First
    <3>5. \A a, b, t, c, k \in Int :
            a <= b + 1 /\ Pl!AtMost(b + t, c) <= k => Pl!AtMost(a + t, c) <= Pl!AtMost(k + 1, c)
      BY DEF Pl!AtMost
    <3>6. Pl!AtMost(m6 + m4, Burst) <= m17
      BY <1>3, <2>3
    <3>7. Pl!AtMost(m6' + m4, Burst) <= Pl!AtMost(m17 + 1, Burst)
      <4>1. m6' \in Int /\ m6 \in Int /\ m4 \in Int /\ Burst \in Int /\ m17 \in Int
        BY <1>3, <3>3
      <4>2. QED
        BY <3>3, <3>5, <3>6, <4>1
    <3>8. Pl!AtMost(m17 + 1, Burst) \in Nat
      BY <1>3 DEF Pl!AtMost
    <3>9. QED
      BY <1>3, <2>1, <3>3, <3>4, <3>7, <3>8
  <2>4. QED
    BY <2>2, <2>3
<1>12. ASSUME NEW d \in ping.Jumps, Pl!SetBack(d)
       PROVE  m3' = m3 /\ m4' = m4 /\ m17' = m17 /\ m6 # Pl!First /\ m6' > Pl!First /\ m6' = m6 - d /\ d \in Nat
  <2>1. d \in Nat
    BY DEF Pl!LoopAssumption
  <2>2. QED
    BY <1>12, <2>1 DEF Pl!SetBack
<1>13. CASE \E d \in ping.Jumps : Pl!SetBack(d)
  <2>1. PICK d \in ping.Jumps : Pl!SetBack(d)
    BY <1>13
  <2>2. QED
    BY <1>3, <1>12, <2>1 DEF Pl!AtMost
<1>14. CASE \E o \in {"none", "local", "icmp"} : Pl!SendError(o)
  BY <1>7, <1>10, <1>14
<1>15. QED
  BY <1>4, <1>5, <1>6, <1>8, <1>9, <1>11, <1>13, <1>14 DEF Pl!Next, Pl!Step, Pl!Top, Pl!PingerEnough,
       Pl!PingerEarly, Pl!WaitEnds, Pl!ReceiveNothing, Pl!Interrupt, Pl!Arrive

\* ping, pinger(): whatever errors there are, however waits are cut short and
\* the clock is set back, no more probes leave than interval and preload allow.
THEOREM PaceCorrect == ToolsSpec => []PacketsPaced
<1> DEFINE Inv == part = "ping" => PingInv
<1>1. ToolsInit => Inv
  BY PingInit, ToolsAssumption DEF ToolsInit
<1>2. Inv /\ [ToolsNext]_toolVars => Inv'
  <2> SUFFICES ASSUME Inv, [ToolsNext]_toolVars, part = "ping"
               PROVE  PingInv'
    BY RunsAlone
  <2>1. CASE Pl!Next
    BY <2>1, PingStep, ToolsAssumption
  <2>2. CASE UNCHANGED <<pc, memory>>
    BY <2>2 DEF memory, PingInv, Burst, Pl!First, Pl!AtMost
  <2>3. QED
    BY <2>1, <2>2, RunsAlone
<1>3. Inv => PacketsPaced
  BY DEF PingInv, PacketsPaced, Pl!PacketsPaced
<1>4. QED
  BY <1>1, <1>2, <1>3, PTL DEF ToolsSpec
-----------------------------------------------------------------------------
(* ninfod *)

\* The sets of the module FiniteSets, as ninfod's module sees them.
LEMMA SameSize ==
  ASSUME NEW S
  PROVE  Ni!Cardinality(S) = Cardinality(S)
BY DEF Ni!Cardinality, Cardinality

\* Queries are numbered as they come, so those that wait, the one being taken
\* and those being answered are all different: no two replies are equal.
Numbered ==
  /\ m15 \in Nat /\ m9 \in Seq(Ni!QueryType)
  /\ \A i \in 1 .. Len(m9) : m9[i].nonce <= m15 /\ \A j \in 1 .. (i - 1) : m9[j].nonce < m9[i].nonce
  /\ m8 # <<>> => /\ m8[1] \in Ni!QueryType /\ m8[1].nonce <= m15
                  /\ \A i \in 1 .. Len(m9) : m8[1].nonce < m9[i].nonce
  /\ \A r \in m10 : /\ r.query.nonce \in Nat /\ r.query.nonce <= m15
                    /\ \A i \in 1 .. Len(m9) : r.query.nonce < m9[i].nonce
                    /\ m8 # <<>> => r.query.nonce < m8[1].nonce

NinfodInv == IsFiniteSet(m10) /\ Numbered /\ Ni!ContextsFreed /\ Ni!PolicyKept

\* Numbering a query leaves it one.
LEMMA QueryNumbered ==
  ASSUME NEW q \in Ni!QueryType, NEW n \in Nat
  PROVE  [q EXCEPT !.nonce = n] \in Ni!QueryType /\ [q EXCEPT !.nonce = n].nonce = n
<1>1. ASSUME NEW A, NEW B, NEW C, NEW D, NEW E, NEW F, NEW G, NEW H, NEW J,
             NEW x \in [src : A, dst : B, if : C, qtype : D, code : E, subject : F,
                        name : G, long : H, flags : J, nonce : Nat]
      PROVE  /\ [x EXCEPT !.nonce = n] \in [src : A, dst : B, if : C, qtype : D, code : E, subject : F,
                                            name : G, long : H, flags : J, nonce : Nat]
             /\ [x EXCEPT !.nonce = n].nonce = n
  OBVIOUS
<1>2. QED
  BY <1>1, Zenon DEF Ni!QueryType

LEMMA QueryNonce ==
  ASSUME NEW q \in Ni!QueryType
  PROVE  q.nonce \in Nat
BY DEF Ni!QueryType

\* The workers that hold a buffer of data.
Holding(W) == {r \in W : r.data # <<>>}

LEMMA NinfodInit ==
  ASSUME Ni!NinfoAssumption, Ni!Init
  PROVE  NinfodInv
<1>1. m10 = {} /\ m11 = {} /\ m8 = <<>> /\ m9 = <<>> /\ m13 = 0 /\ m14 = 0 /\ m15 = 0 /\ pc = "start"
  BY DEF Ni!Init
<1>2. Numbered
  BY <1>1 DEF Numbered
<1>3. {r \in m10 : r.data # <<>>} = {}
  BY <1>1
<1>4. Ni!ContextsFreed
  BY <1>1, <1>3, SameSize, FS_EmptySet DEF Ni!ContextsFreed
<1>5. QED
  BY <1>1, <1>2, <1>4, FS_EmptySet DEF NinfodInv, Ni!PolicyKept, Ni!Replies

\* A worker more, with its context and, for a reply with data, its buffer.
LEMMA WorkerAdded ==
  ASSUME NEW W, IsFiniteSet(W), NEW r, r \notin W
  PROVE  /\ IsFiniteSet(W \cup {r}) /\ Cardinality(W \cup {r}) = Cardinality(W) + 1
         /\ Cardinality(Holding(W \cup {r})) = Cardinality(Holding(W)) + (IF r.data = <<>> THEN 0 ELSE 1)
         /\ Cardinality(W) \in Nat /\ Cardinality(Holding(W)) \in Nat
<1>1. IsFiniteSet(Holding(W)) /\ Holding(W) \subseteq W
  BY FS_Subset DEF Holding
<1>2. Holding(W \cup {r}) = IF r.data = <<>> THEN Holding(W) ELSE Holding(W) \cup {r}
  BY DEF Holding
<1>3. Cardinality(W) \in Nat /\ Cardinality(Holding(W)) \in Nat
  BY <1>1, FS_CardinalityType
<1>4. Cardinality(Holding(W) \cup {r}) = Cardinality(Holding(W)) + 1
  BY <1>1, FS_AddElement
<1>5. Cardinality(W \cup {r}) = Cardinality(W) + 1 /\ IsFiniteSet(W \cup {r})
  BY FS_AddElement
<1>6. QED
  BY <1>2, <1>3, <1>4, <1>5

\* A worker less.
LEMMA WorkerGone ==
  ASSUME NEW W, IsFiniteSet(W), NEW r \in W
  PROVE  /\ IsFiniteSet(W \ {r}) /\ Cardinality(W \ {r}) = Cardinality(W) - 1
         /\ Cardinality(Holding(W \ {r})) = Cardinality(Holding(W)) - (IF r.data = <<>> THEN 0 ELSE 1)
         /\ Cardinality(W) \in Nat /\ Cardinality(Holding(W)) \in Nat
<1>1. IsFiniteSet(Holding(W)) /\ Holding(W) \subseteq W
  BY FS_Subset DEF Holding
<1>2. Holding(W \ {r}) = IF r.data = <<>> THEN Holding(W) ELSE Holding(W) \ {r}
  BY DEF Holding
<1>3. Cardinality(W) \in Nat /\ Cardinality(Holding(W)) \in Nat
  BY <1>1, FS_CardinalityType
<1>4. r.data # <<>> => Cardinality(Holding(W) \ {r}) = Cardinality(Holding(W)) - 1
  BY <1>1, FS_RemoveElement DEF Holding
<1>5. Cardinality(W \ {r}) = Cardinality(W) - 1 /\ IsFiniteSet(W \ {r})
  BY FS_RemoveElement
<1>6. QED
  BY <1>2, <1>3, <1>4, <1>5

\* ContextsFreed in terms of Holding.
LEMMA ContextsOf ==
  Ni!ContextsFreed <=>
    (pc # "exit" =>
       /\ m13 = Cardinality(m10) + (IF pc \in {"test", "recv", "taken"} THEN 1 ELSE 0)
       /\ m14 = Cardinality(Holding(m10)))
BY SameSize DEF Ni!ContextsFreed, Holding

\* The reply to the query being taken differs from those on their way; from
\* afar it is a refusal.
LEMMA ReplyNew ==
  ASSUME Numbered, m8 # <<>>, NEW subj_if, NEW how
  PROVE  LET r == Ni!Reply(m8[1], subj_if, how)
         IN  /\ r \notin m10 /\ r.query = m8[1]
             /\ r.query.src # "local" => r.code = "refused" /\ r.data = <<>>
<1> DEFINE r == Ni!Reply(m8[1], subj_if, how)
<1>1. r.query = m8[1]
  BY DEF Ni!Reply
<1>2. m8[1].src # "local" => r.code = "refused" /\ r.data = <<>>
  BY DEF Ni!Reply, Ni!ni_policy
<1>3. m8[1].nonce \in Nat
  BY DEF Numbered, Ni!QueryType
<1> HIDE DEF r
<1>4. r \notin m10
  BY <1>1, <1>3 DEF Numbered
<1>5. QED
  BY <1>1, <1>2, <1>4 DEF r

LEMMA NinfodStep ==
  ASSUME Ni!NinfoAssumption, NinfodInv, Ni!Next
  PROVE  NinfodInv'
<1> USE DEF Ni!env, Ni!memory, Ni!naming
<1>0. /\ IsFiniteSet(m10) /\ Numbered /\ Ni!PolicyKept
      /\ pc # "exit" => /\ m13 = Cardinality(m10) + (IF pc \in {"test", "recv", "taken"} THEN 1 ELSE 0)
                        /\ m14 = Cardinality(Holding(m10))
      /\ Cardinality(m10) \in Nat /\ Cardinality(Holding(m10)) \in Nat
  <2>1. IsFiniteSet(Holding(m10))
    BY FS_Subset DEF NinfodInv, Holding
  <2>2. QED
    BY <2>1, ContextsOf, FS_CardinalityType DEF NinfodInv
<1>1. SUFFICES /\ IsFiniteSet(m10') /\ Numbered' /\ Ni!PolicyKept'
               /\ pc' # "exit" =>
                    /\ m13' = Cardinality(m10') + (IF pc' \in {"test", "recv", "taken"} THEN 1 ELSE 0)
                    /\ m14' = Cardinality(Holding(m10'))
  BY SameSize DEF NinfodInv, Ni!ContextsFreed, Holding
<1>2. ASSUME NEW ok \in BOOLEAN, NEW daemon \in BOOLEAN, Ni!Start(ok, daemon)
      PROVE  pc = "start" /\ pc' \in {"alloc", "exit"} /\ UNCHANGED <<m8, m9, m10, m11, m13, m14, m15>>
  BY <1>2 DEF Ni!Start
<1>3. CASE \E ok, daemon \in BOOLEAN : Ni!Start(ok, daemon)
  BY <1>0, <1>2, <1>3 DEF Numbered, Ni!PolicyKept, Ni!Replies
<1>4. ASSUME NEW ok \in BOOLEAN, Ni!Alloc(ok)
      PROVE  /\ pc = "alloc" /\ UNCHANGED <<m8, m9, m11, m14, m15>>
             /\ \/ pc' = "exit" /\ m10' \in {{}, m10}
                \/ pc' = "test" /\ m13' = m13 + 1 /\ m10' = m10
                \/ pc' = "alloc" /\ m13' = m13 /\ m10' = m10
  BY <1>4 DEF Ni!Alloc, Ni!Quit
<1>5. CASE \E ok \in BOOLEAN : Ni!Alloc(ok)
  <2>1. m10' \subseteq m10 /\ IsFiniteSet(m10')
    BY <1>0, <1>4, <1>5, FS_EmptySet
  <2>2. Numbered' /\ Ni!PolicyKept'
    BY <1>0, <1>4, <1>5, <2>1 DEF Numbered, Ni!PolicyKept, Ni!Replies
  <2>3. QED
    BY <1>0, <1>4, <1>5, <2>1, <2>2
<1>6. CASE Ni!Test \/ Ni!Signal
  <2>1. /\ UNCHANGED <<m8, m9, m10, m11, m13, m14, m15>>
        /\ pc # "exit" /\ pc' # "exit"
        /\ pc' \in {"test", "recv", "taken"} <=> pc \in {"test", "recv", "taken"}
    BY <1>6 DEF Ni!Test, Ni!Signal
  <2>2. QED
    BY <1>0, <2>1 DEF Numbered, Ni!PolicyKept, Ni!Replies
<1>7. CASE Ni!Receive
  <2>1. /\ UNCHANGED <<m10, m11, m13, m14, m15>> /\ pc = "recv" /\ pc' = "taken"
        /\ m9 # <<>> /\ m8' = <<Head(m9)>> /\ m9' = Tail(m9)
    BY <1>7 DEF Ni!Receive
  <2>2. m8'[1] = m9[1] /\ 1 \in 1 .. Len(m9) /\ m9' \in Seq(Ni!QueryType) /\ Len(m9') = Len(m9) - 1
        /\ \A i \in 1 .. Len(m9') : m9'[i] = m9[i + 1] /\ i + 1 \in 1 .. Len(m9)
    BY <1>0, <2>1 DEF Numbered
  <2>3. \A i \in 1 .. Len(m9') : /\ m9'[i].nonce <= m15 /\ m9[1].nonce < m9'[i].nonce
                                 /\ \A j \in 1 .. (i - 1) : m9'[j].nonce < m9'[i].nonce
    <3> SUFFICES ASSUME NEW i \in 1 .. Len(m9')
                 PROVE  /\ m9'[i].nonce <= m15 /\ m9[1].nonce < m9'[i].nonce
                        /\ \A j \in 1 .. (i - 1) : m9'[j].nonce < m9'[i].nonce
      OBVIOUS
    <3>1. Len(m9) \in Nat /\ i \in Nat /\ i <= Len(m9) - 1 /\ i >= 1
      BY <1>0, <2>2 DEF Numbered
    <3>2. 1 \in 1 .. ((i + 1) - 1)
      BY <3>1
    <3>3. m9'[i].nonce <= m15 /\ m9[1].nonce < m9'[i].nonce
      BY <1>0, <2>2, <3>2 DEF Numbered
    <3>4. ASSUME NEW j \in 1 .. (i - 1)
          PROVE  m9'[j].nonce < m9'[i].nonce
      <4>1. j \in 1 .. Len(m9') /\ j + 1 \in 1 .. ((i + 1) - 1)
        BY <2>2, <3>1
      <4>2. QED
        BY <1>0, <2>2, <4>1 DEF Numbered
    <3>5. QED
      BY <3>3, <3>4
  <2>4. m8'[1] \in Ni!QueryType /\ m8'[1].nonce <= m15 /\ \A r \in m10 : r.query.nonce < m8'[1].nonce
    BY <1>0, <2>2 DEF Numbered
  <2>5. \A r \in m10, i \in 1 .. Len(m9') : r.query.nonce < m9'[i].nonce
    BY <1>0, <2>2 DEF Numbered
  <2>6. Numbered'
    BY <1>0, <2>1, <2>2, <2>3, <2>4, <2>5 DEF Numbered
  <2>7. QED
    BY <1>0, <2>1, <2>6 DEF Ni!PolicyKept, Ni!Replies
<1>8. ASSUME NEW how, NEW started \in BOOLEAN, Ni!Take(how, started)
      PROVE  /\ IsFiniteSet(m10') /\ Numbered' /\ Ni!PolicyKept'
             /\ pc' # "exit" =>
                  /\ m13' = Cardinality(m10') + (IF pc' \in {"test", "recv", "taken"} THEN 1 ELSE 0)
                  /\ m14' = Cardinality(Holding(m10'))
  <2>1. pc = "taken" /\ pc' = "alloc" /\ m8' = <<>> /\ UNCHANGED <<m9, m11, m15>>
    BY <1>8 DEF Ni!Take
  <2>2. \/ m13' = m13 - 1 /\ UNCHANGED <<m10, m14>>
        \/ m8 # <<>> /\ \E subj_if, h : Ni!Hand(Ni!Reply(m8[1], subj_if, h), started) /\ started
    BY <1>8 DEF Ni!Take, Ni!Answer, Ni!Hand, Ni!Drop, Ni!Free
  <2>3. CASE m13' = m13 - 1 /\ UNCHANGED <<m10, m14>>
    BY <1>0, <2>1, <2>3 DEF Numbered, Ni!PolicyKept, Ni!Replies
  <2>4. CASE m8 # <<>> /\ \E subj_if, h : Ni!Hand(Ni!Reply(m8[1], subj_if, h), started) /\ started
    <3>1. PICK r : /\ r \notin m10 /\ r.query = m8[1]
                   /\ r.query.src # "local" => r.code = "refused" /\ r.data = <<>>
                   /\ Ni!Hand(r, started) /\ started
      BY <1>0, <2>4, ReplyNew
    <3>2. /\ m10' = m10 \cup {r} /\ m13' = m13
          /\ m14' = m14 + (IF r.data = <<>> THEN 0 ELSE 1)
      BY <3>1 DEF Ni!Hand
    <3>3. /\ IsFiniteSet(m10') /\ Cardinality(m10') = Cardinality(m10) + 1
          /\ Cardinality(Holding(m10')) = Cardinality(Holding(m10)) + (IF r.data = <<>> THEN 0 ELSE 1)
      BY <1>0, <3>1, <3>2, WorkerAdded
    <3>4. m8[1].nonce \in Nat
      BY <1>0, <2>4 DEF Numbered, Ni!QueryType
    <3>5. Numbered'
      BY <1>0, <2>1, <2>4, <3>1, <3>2, <3>4 DEF Numbered
    <3>6. Ni!PolicyKept'
      BY <1>0, <2>1, <3>1, <3>2 DEF Ni!PolicyKept, Ni!Replies
    <3>7. QED
      BY <1>0, <2>1, <3>2, <3>3, <3>5, <3>6
  <2>5. QED
    BY <2>2, <2>3, <2>4
<1>9. ASSUME NEW r \in m10, Ni!Send(r)
      PROVE  /\ IsFiniteSet(m10') /\ Numbered' /\ Ni!PolicyKept'
             /\ pc' # "exit" =>
                  /\ m13' = Cardinality(m10') + (IF pc' \in {"test", "recv", "taken"} THEN 1 ELSE 0)
                  /\ m14' = Cardinality(Holding(m10'))
  <2>1. /\ m10' = m10 \ {r} /\ m11' \subseteq m11 \cup {r} /\ m13' = m13 - 1
        /\ m14' = m14 - (IF r.data = <<>> THEN 0 ELSE 1) /\ UNCHANGED <<pc, m8, m9, m15>>
    BY <1>9 DEF Ni!Send
  <2>2. /\ IsFiniteSet(m10') /\ Cardinality(m10') = Cardinality(m10) - 1
        /\ Cardinality(Holding(m10')) = Cardinality(Holding(m10)) - (IF r.data = <<>> THEN 0 ELSE 1)
    BY <1>0, <2>1, WorkerGone
  <2>3. Numbered' /\ Ni!PolicyKept'
    BY <1>0, <2>1 DEF Numbered, Ni!PolicyKept, Ni!Replies
  <2>4. QED
    BY <1>0, <2>1, <2>2, <2>3
<1>10. ASSUME NEW q \in ninfod.Queries, Ni!Arrive(q)
       PROVE  Numbered' /\ UNCHANGED <<pc, m10, m11, m13, m14>>
  <2> DEFINE new == [q EXCEPT !.nonce = m15']
  <2>1. m15' = m15 + 1 /\ m15 \in Nat /\ m9' = Append(m9, new) /\ UNCHANGED <<pc, m8, m10, m11, m13, m14>>
    BY <1>0, <1>10 DEF Ni!Arrive, Numbered
  <2>2. new \in Ni!QueryType /\ new.nonce = m15'
    <3>1. q \in Ni!QueryType
      BY DEF Ni!NinfoAssumption
    <3>2. QED
      BY <2>1, <3>1, QueryNumbered
  <2> HIDE DEF new
  <2>3. /\ m9' \in Seq(Ni!QueryType) /\ Len(m9') = Len(m9) + 1 /\ Len(m9) \in Nat
        /\ m9'[Len(m9) + 1] = new
        /\ \A i \in 1 .. Len(m9) : m9'[i] = m9[i] /\ m9[i].nonce \in Nat
    <3>1. m9 \in Seq(Ni!QueryType)
      BY <1>0 DEF Numbered
    <3>2. \A i \in 1 .. Len(m9) : m9[i].nonce \in Nat
      BY <3>1, QueryNonce
    <3>3. QED
      BY <2>1, <2>2, <3>1, <3>2
  <2>4. \A i \in 1 .. Len(m9) : m9[i].nonce <= m15 /\ \A j \in 1 .. (i - 1) : m9[j].nonce < m9[i].nonce
    BY <1>0 DEF Numbered
  <2>5. \A i \in 1 .. Len(m9') :
          m9'[i].nonce <= m15' /\ \A j \in 1 .. (i - 1) : m9'[j].nonce < m9'[i].nonce
    <3> SUFFICES ASSUME NEW i \in 1 .. Len(m9')
                 PROVE  m9'[i].nonce <= m15' /\ \A j \in 1 .. (i - 1) : m9'[j].nonce < m9'[i].nonce
      OBVIOUS
    <3>1. CASE i = Len(m9) + 1
      <4>1. \A j \in 1 .. (i - 1) : m9'[j].nonce <= m15 /\ m9'[j].nonce \in Nat
        BY <2>3, <2>4, <3>1
      <4>2. QED
        BY <2>1, <2>2, <2>3, <3>1, <4>1
    <3>2. CASE i # Len(m9) + 1
      <4>1. i \in 1 .. Len(m9) /\ \A j \in 1 .. (i - 1) : j \in 1 .. Len(m9)
        BY <2>3, <3>2
      <4>2. QED
        BY <2>1, <2>3, <2>4, <4>1
    <3>3. QED
      BY <3>1, <3>2
  <2>6. ASSUME NEW k \in Nat, k <= m15, \A i \in 1 .. Len(m9) : k < m9[i].nonce
        PROVE  \A i \in 1 .. Len(m9') : k < m9'[i].nonce
    <3> SUFFICES ASSUME NEW i \in 1 .. Len(m9')
                 PROVE  k < m9'[i].nonce
      OBVIOUS
    <3>1. CASE i = Len(m9) + 1
      BY <2>1, <2>2, <2>3, <2>6, <3>1
    <3>2. CASE i # Len(m9) + 1
      BY <2>3, <2>6, <3>2
    <3>3. QED
      BY <3>1, <3>2
  <2>7. m8 # <<>> => /\ m8[1] \in Ni!QueryType /\ m8[1].nonce <= m15'
                     /\ \A i \in 1 .. Len(m9') : m8[1].nonce < m9'[i].nonce
    <3> SUFFICES ASSUME m8 # <<>>
                 PROVE  /\ m8[1] \in Ni!QueryType /\ m8[1].nonce <= m15'
                        /\ \A i \in 1 .. Len(m9') : m8[1].nonce < m9'[i].nonce
      OBVIOUS
    <3>1. /\ m8[1] \in Ni!QueryType /\ m8[1].nonce <= m15
          /\ \A i \in 1 .. Len(m9) : m8[1].nonce < m9[i].nonce
      BY <1>0 DEF Numbered
    <3>2. m8[1].nonce \in Nat
      BY <3>1 DEF Ni!QueryType
    <3>3. QED
      BY <2>1, <2>6, <3>1, <3>2
  <2>8. \A r \in m10 : /\ r.query.nonce \in Nat /\ r.query.nonce <= m15'
                       /\ \A i \in 1 .. Len(m9') : r.query.nonce < m9'[i].nonce
                       /\ m8 # <<>> => r.query.nonce < m8[1].nonce
    <3> SUFFICES ASSUME NEW r \in m10
                 PROVE  /\ r.query.nonce \in Nat /\ r.query.nonce <= m15'
                        /\ \A i \in 1 .. Len(m9') : r.query.nonce < m9'[i].nonce
                        /\ m8 # <<>> => r.query.nonce < m8[1].nonce
      OBVIOUS
    <3>1. /\ r.query.nonce \in Nat /\ r.query.nonce <= m15
          /\ \A i \in 1 .. Len(m9) : r.query.nonce < m9[i].nonce
          /\ m8 # <<>> => r.query.nonce < m8[1].nonce
      BY <1>0 DEF Numbered
    <3>2. \A i \in 1 .. Len(m9') : r.query.nonce < m9'[i].nonce
      BY <2>6, <3>1
    <3>3. QED
      BY <2>1, <3>1, <3>2
  <2>9. Numbered'
    BY <2>1, <2>3, <2>5, <2>7, <2>8 DEF Numbered
  <2>10. QED
    BY <2>1, <2>9
<1>11. CASE \E q \in ninfod.Queries : Ni!Arrive(q)
  BY <1>0, <1>10, <1>11 DEF Ni!PolicyKept, Ni!Replies
<1>12. ASSUME NEW h, Ni!Change(h)
       PROVE  UNCHANGED <<pc, m8, m9, m10, m11, m13, m14, m15>>
  BY <1>12 DEF Ni!Change
<1>13. CASE \E h \in ninfod.Hosts : Ni!Change(h)
  BY <1>0, <1>12, <1>13 DEF Numbered, Ni!PolicyKept, Ni!Replies
<1>14. QED
  BY <1>3, <1>5, <1>6, <1>7, <1>8, <1>9, <1>11, <1>13 DEF Ni!Next

\* ninfod, pr_nodeinfo(): on no path is a context or a buffer lost or freed
\* twice, whatever fails, and a query from afar gets nothing but a refusal.
THEOREM RepliesCorrect == ToolsSpec => []RepliesSound
<1> DEFINE Inv == part = "ninfod" => NinfodInv
<1>1. ToolsInit => Inv
  BY NinfodInit, ToolsAssumption DEF ToolsInit
<1>2. Inv /\ [ToolsNext]_toolVars => Inv'
  <2> SUFFICES ASSUME Inv, [ToolsNext]_toolVars, part = "ninfod"
               PROVE  NinfodInv'
    BY RunsAlone
  <2>1. CASE Ni!Next
    BY <2>1, NinfodStep, ToolsAssumption
  <2>2. CASE UNCHANGED <<pc, memory>>
    BY <2>2 DEF memory, NinfodInv, Numbered, Ni!ContextsFreed, Ni!PolicyKept, Ni!Replies
  <2>3. QED
    BY <2>1, <2>2, RunsAlone
<1>3. Inv => RepliesSound
  BY DEF NinfodInv, RepliesSound
<1>4. QED
  BY <1>1, <1>2, <1>3, PTL DEF ToolsSpec
-----------------------------------------------------------------------------
(* rdisc as a host *)

\* A non-empty finite set of integers has a largest element.
LEMMA LargestExists ==
  ASSUME NEW S \in SUBSET Int, IsFiniteSet(S), S # {}
  PROVE  \E m \in S : \A j \in S : m >= j
<1> DEFINE HasMax(U) == \E m \in U : \A j \in U : m >= j
           R == StrictSubsetOrdering(S)
           Bad == {U \in FiniteSubsetsOf(S) : U # {} /\ ~HasMax(U)}
<1>1. SUFFICES ASSUME Bad # {} PROVE FALSE
  <2>1. S \in FiniteSubsetsOf(S)
    BY DEF FiniteSubsetsOf
  <2>2. QED
    BY <2>1
<1>2. IsWellFoundedOn(R, FiniteSubsetsOf(S))
  BY FS_StrictSubsetOrderingWellFounded
<1>3. \E U \in Bad : \A V \in Bad : ~(<<V, U>> \in R)
  <2>1. Bad \subseteq FiniteSubsetsOf(S)
    OBVIOUS
  <2> HIDE DEF R, Bad
  <2>2. QED
    BY <1>1, <1>2, <2>1, WFMin
<1>4. PICK U \in Bad : \A V \in Bad : ~(<<V, U>> \in R)
  BY <1>3
<1>5. PICK x \in U : TRUE
  OBVIOUS
<1>6. U \in SUBSET S /\ IsFiniteSet(U) /\ x \in Int /\ U \subseteq Int
  BY DEF FiniteSubsetsOf
<1> DEFINE V == U \ {x}
<1>7. V \in FiniteSubsetsOf(S) /\ <<V, U>> \in R
  <2>1. IsFiniteSet(V)
    BY <1>6, FS_RemoveElement
  <2>2. QED
    BY <1>5, <1>6, <2>1 DEF FiniteSubsetsOf, StrictSubsetOrdering
<1>8. V = {} \/ HasMax(V)
  BY <1>4, <1>7
<1>9. HasMax(U)
  <2>1. CASE V = {}
    <3>1. \A j \in U : x >= j
      BY <1>6, <2>1
    <3>2. QED
      BY <3>1
  <2>2. CASE HasMax(V)
    <3>1. PICK m \in V : \A j \in V : m >= j
      BY <2>2
    <3>2. CASE m >= x
      <4>1. m \in U /\ \A j \in U : m >= j
        BY <3>1, <3>2
      <4>2. QED
        BY <4>1
    <3>3. CASE ~(m >= x)
      <4>1. \A j \in U : x >= j
        BY <1>6, <3>1, <3>3
      <4>2. QED
        BY <4>1
    <3>4. QED
      BY <3>2, <3>3
  <2>3. QED
    BY <1>8, <2>1, <2>2
<1>10. QED
  BY <1>9

\* A table of routers.
IsTable(t) == DOMAIN t \subseteq rdisc.Routers /\ t \in [DOMAIN t -> Rd!Entry]

\* M is the preference of the best router of the table t.
IsBest(t, M) ==
  /\ M \in Int /\ M >= Rd!Ineligible /\ \A r \in DOMAIN t : t[r].preference <= M
  /\ M = Rd!Ineligible \/ \E r \in DOMAIN t : t[r].preference = M

\* The routers of the table t that should have a route.
WantedIn(t, best) == {r \in DOMAIN t : /\ t[r].preference # Rd!Ineligible
                                       /\ best => t[r].preference = Rd!max_preference(t)}

LEMMA EntryType ==
  ASSUME Rd!RdiscAssumption, NEW t, IsTable(t), NEW r \in DOMAIN t
  PROVE  /\ t[r] \in Rd!Entry /\ t[r].preference \in Int /\ t[r].preference >= Rd!Ineligible
         /\ t[r].preference \in rdisc.Prefs \cup {Rd!Ineligible}
         /\ t[r].remaining_time \in Int /\ t[r].in_kernel \in BOOLEAN
<1>1. t[r] \in Rd!Entry
  BY DEF IsTable
<1>2. rdisc.Prefs \subseteq Nat \cup {Rd!Ineligible}
  BY DEF Rd!RdiscAssumption
<1>3. QED
  BY <1>1, <1>2 DEF Rd!Entry, Rd!Ineligible

\* max_preference() is the maximum.
LEMMA BestExists ==
  ASSUME Rd!RdiscAssumption, NEW t, IsTable(t)
  PROVE  IsBest(t, Rd!max_preference(t))
<1> DEFINE S == {Rd!Ineligible} \cup {t[r].preference : r \in DOMAIN t}
<1>1. S \subseteq rdisc.Prefs \cup {Rd!Ineligible}
  BY EntryType
<1>2. S \in SUBSET Int
  BY EntryType DEF Rd!Ineligible
<1>3. IsFiniteSet(S)
  <2>1. IsFiniteSet(rdisc.Prefs)
    BY DEF Rd!RdiscAssumption, Rd!IsFiniteSet, IsFiniteSet
  <2>2. IsFiniteSet(rdisc.Prefs \cup {Rd!Ineligible})
    BY <2>1, FS_AddElement
  <2> HIDE DEF S
  <2>3. QED
    BY <1>1, <2>2, FS_Subset
<1>4. S # {}
  OBVIOUS
<1>5. \E m \in S : \A j \in S : m >= j
  <2> HIDE DEF S
  <2>1. QED
    BY <1>2, <1>3, <1>4, LargestExists
<1>6. Rd!max_preference(t) = CHOOSE m \in S : \A j \in S : m >= j
  BY DEF Rd!max_preference, Rd!Max
<1>7. Rd!max_preference(t) \in S /\ \A j \in S : Rd!max_preference(t) >= j
  <2> HIDE DEF S
  <2>1. QED
    BY <1>5, <1>6
<1>8. Rd!max_preference(t) \in Int
  BY <1>2, <1>7
<1>9. \A r \in DOMAIN t : t[r].preference <= Rd!max_preference(t)
  BY <1>7, <1>8, EntryType
<1>10. QED
  BY <1>7, <1>8, <1>9 DEF IsBest

\* There is one maximum.
LEMMA BestUnique ==
  ASSUME Rd!RdiscAssumption, NEW t, IsTable(t), NEW M, IsBest(t, M)
  PROVE  Rd!max_preference(t) = M
BY BestExists, EntryType DEF IsBest, Rd!Ineligible

\* The maximum does not depend on what is marked or on lifetimes.
LEMMA SamePreferences ==
  ASSUME NEW t, NEW u, DOMAIN t = DOMAIN u, \A r \in DOMAIN t : t[r].preference = u[r].preference
  PROVE  Rd!max_preference(t) = Rd!max_preference(u)
<1>1. {t[r].preference : r \in DOMAIN t} = {u[r].preference : r \in DOMAIN u}
  OBVIOUS
<1>2. QED
  BY <1>1 DEF Rd!max_preference

\* The table t with exactly the routers of S marked.
Remark(t, S) == [r \in DOMAIN t |-> [t[r] EXCEPT !.in_kernel = r \in S]]

\* It is a table, with the preferences of t.
LEMMA Remarked ==
  ASSUME Rd!RdiscAssumption, NEW t, IsTable(t), NEW S
  PROVE  /\ IsTable(Remark(t, S)) /\ DOMAIN Remark(t, S) = DOMAIN t
         /\ \A r \in DOMAIN t : /\ Remark(t, S)[r].preference = t[r].preference
                                /\ Remark(t, S)[r].in_kernel <=> r \in S
         /\ Rd!max_preference(Remark(t, S)) = Rd!max_preference(t)
<1> DEFINE u == Remark(t, S)
<1>1. DOMAIN u = DOMAIN t
  BY DEF Remark
<1>2. ASSUME NEW r \in DOMAIN t
      PROVE  u[r] \in Rd!Entry /\ u[r].preference = t[r].preference /\ (u[r].in_kernel <=> r \in S)
  <2>1. u[r] = [t[r] EXCEPT !.in_kernel = r \in S]
    BY DEF Remark
  <2>2. t[r] \in Rd!Entry
    BY EntryType
  <2>3. CASE r \in S
    <3>1. u[r] = [t[r] EXCEPT !.in_kernel = TRUE]
      BY <2>1, <2>3
    <3>2. QED
      BY <2>2, <2>3, <3>1 DEF Rd!Entry
  <2>4. CASE r \notin S
    <3> HIDE DEF u
    <3>1. u[r] = [t[r] EXCEPT !.in_kernel = FALSE]
      <4>1. (r \in S) = FALSE
        BY <2>4
      <4>2. QED
        BY <2>1, <4>1
    <3>2. QED
      BY <2>2, <2>4, <3>1 DEF Rd!Entry
  <2>5. QED
    BY <2>3, <2>4
<1>3. u \in [DOMAIN t -> Rd!Entry]
  BY <1>1, <1>2 DEF Remark
<1>4. IsTable(u)
  BY <1>1, <1>3 DEF IsTable
<1>5. Rd!max_preference(u) = Rd!max_preference(t)
  BY <1>1, <1>2, SamePreferences
<1>6. QED
  BY <1>1, <1>2, <1>4, <1>5

\* The two loops of record_router() over the table.
LEMMA AddBestMarks ==
  ASSUME Rd!RdiscAssumption, NEW t, IsTable(t)
  PROVE  LET u == Rd!AddBest(t)
             M == Rd!max_preference(t)
         IN  /\ IsTable(u) /\ DOMAIN u = DOMAIN t /\ Rd!max_preference(u) = M
             /\ \A r \in DOMAIN t :
                  /\ u[r].preference = t[r].preference
                  /\ u[r].in_kernel <=> t[r].in_kernel \/ (M # Rd!Ineligible /\ t[r].preference = M)
<1> DEFINE M == Rd!max_preference(t)
           S == {r \in DOMAIN t : t[r].in_kernel \/ (M # Rd!Ineligible /\ t[r].preference = M)}
<1>1. Rd!AddBest(t) = Remark(t, S)
  <2>1. \A r \in DOMAIN t : [t[r] EXCEPT !.in_kernel = @ \/ (M # Rd!Ineligible /\ t[r].preference = M)]
                            = [t[r] EXCEPT !.in_kernel = r \in S]
    BY EntryType DEF Rd!Entry
  <2>2. QED
    BY <2>1 DEF Rd!AddBest, Remark
<1>2. QED
  BY <1>1, Remarked

LEMMA DropWorseMarks ==
  ASSUME Rd!RdiscAssumption, NEW t, IsTable(t)
  PROVE  LET u == Rd!DropWorse(t)
             M == Rd!max_preference(t)
         IN  /\ IsTable(u) /\ DOMAIN u = DOMAIN t /\ Rd!max_preference(u) = M
             /\ \A r \in DOMAIN t :
                  /\ u[r].preference = t[r].preference
                  /\ u[r].in_kernel <=> t[r].in_kernel /\ t[r].preference >= M
<1> DEFINE M == Rd!max_preference(t)
           S == {r \in DOMAIN t : t[r].in_kernel /\ t[r].preference >= M}
<1>1. Rd!DropWorse(t) = Remark(t, S)
  <2>1. \A r \in DOMAIN t : [t[r] EXCEPT !.in_kernel = @ /\ t[r].preference >= M]
                            = [t[r] EXCEPT !.in_kernel = r \in S]
    BY EntryType DEF Rd!Entry
  <2>2. QED
    BY <2>1 DEF Rd!DropWorse, Remark
<1>2. QED
  BY <1>1, Remarked

\* record_router(): an advertisement leaves marked what should have a route.
LEMMA RecordMarks ==
  ASSUME Rd!RdiscAssumption, NEW t, IsTable(t), NEW best \in BOOLEAN,
         Rd!Marked(t) = WantedIn(t, best),
         NEW r \in rdisc.Routers, NEW pref \in rdisc.Prefs, NEW ttl \in rdisc.Ttls
  PROVE  LET u == Rd!record_router(t, r, pref, ttl, best)
         IN  IsTable(u) /\ Rd!Marked(u) = WantedIn(u, best)
<1> DEFINE p == IF ttl < 4 THEN Rd!Ineligible ELSE pref
           known == r \in DOMAIN t
           M0 == Rd!max_preference(t)
           down == known /\ t[r].preference > p /\ t[r].preference = M0
           up == IF known THEN ~down /\ p > t[r].preference ELSE p > M0
           new == [preference |-> p, remaining_time |-> ttl, in_kernel |-> known /\ t[r].in_kernel]
           t1 == [x \in DOMAIN t \cup {r} |-> IF x = r THEN new ELSE t[x]]
           M1 == Rd!max_preference(t1)
           t2 == [t1 EXCEPT ![r].in_kernel = p # Rd!Ineligible /\ (@ \/ ~best \/ p = M1)]
           t3 == IF best /\ down THEN Rd!AddBest(t2) ELSE t2
           t4 == IF best /\ (up \/ down) THEN Rd!DropWorse(t3) ELSE t3
<1>1. Rd!record_router(t, r, pref, ttl, best) = t4
  BY Zenon DEF Rd!record_router
<1>2. p \in Int /\ p >= Rd!Ineligible /\ p \in rdisc.Prefs \cup {Rd!Ineligible} /\ ttl \in Int
  BY DEF Rd!RdiscAssumption, Rd!Ineligible
<1>3. new \in Rd!Entry
  <2>1. (known /\ t[r].in_kernel) \in BOOLEAN
    BY EntryType
  <2>2. QED
    BY <1>2, <2>1 DEF Rd!Entry
<1>4. new.preference = p /\ new.in_kernel = (known /\ t[r].in_kernel)
  OBVIOUS
<1> HIDE DEF p, new
<1>5. /\ DOMAIN t1 = DOMAIN t \cup {r} /\ t1[r] = new
      /\ \A x \in DOMAIN t1 : x # r => x \in DOMAIN t /\ t1[x] = t[x]
  OBVIOUS
<1>6. IsTable(t1)
  <2>1. \A x \in DOMAIN t1 : t1[x] \in Rd!Entry
    BY <1>3, <1>5, EntryType
  <2>2. t1 \in [DOMAIN t1 -> Rd!Entry] /\ DOMAIN t1 \subseteq rdisc.Routers
    BY <1>5, <2>1 DEF IsTable
  <2>3. QED
    BY <2>2 DEF IsTable
<1> HIDE DEF t1
<1> DEFINE S == {x \in DOMAIN t1 : IF x = r THEN p # Rd!Ineligible /\ (t1[r].in_kernel \/ ~best \/ p = M1)
                                               ELSE t1[x].in_kernel}
<1>7. /\ IsTable(t2) /\ DOMAIN t2 = DOMAIN t1 /\ Rd!max_preference(t2) = M1
      /\ \A x \in DOMAIN t1 : t2[x].preference = t1[x].preference /\ (t2[x].in_kernel <=> x \in S)
  <2>1. r \in DOMAIN t1 /\ t1[r] \in Rd!Entry
    BY <1>3, <1>5
  <2>2. \A x \in DOMAIN t1 : t2[x] = [t1[x] EXCEPT !.in_kernel = x \in S]
    <3> SUFFICES ASSUME NEW x \in DOMAIN t1
                 PROVE  t2[x] = [t1[x] EXCEPT !.in_kernel = x \in S]
      OBVIOUS
    <3>1. CASE x = r
      <4>1. t2[r] = [t1[r] EXCEPT !.in_kernel = p # Rd!Ineligible /\ (t1[r].in_kernel \/ ~best \/ p = M1)]
        BY <2>1
      <4>2. r \in S <=> p # Rd!Ineligible /\ (t1[r].in_kernel \/ ~best \/ p = M1)
        BY <2>1
      <4>3. QED
        BY <3>1, <4>1, <4>2
    <3>2. CASE x # r
      <4>1. t2[x] = t1[x] /\ (x \in S <=> t1[x].in_kernel)
        BY <3>2
      <4>2. t1[x] \in Rd!Entry
        BY <1>6, EntryType
      <4> HIDE DEF S, t2
      <4>3. QED
        BY <4>1, <4>2 DEF Rd!Entry
    <3>3. QED
      BY <3>1, <3>2
  <2>3. t2 = Remark(t1, S)
    <3>1. t2 = [x \in DOMAIN t1 |-> t2[x]]
      OBVIOUS
    <3> HIDE DEF S, t2
    <3>2. QED
      BY <2>2, <3>1 DEF Remark
  <2> HIDE DEF S, t2
  <2>4. QED
    BY <1>6, <2>3, Remarked
<1>8. /\ \A x \in DOMAIN t1 : x # r => (x \in S <=> t[x].in_kernel)
      /\ r \in S <=> p # Rd!Ineligible /\ ((known /\ t[r].in_kernel) \/ ~best \/ p = M1)
  BY <1>4, <1>5
<1> HIDE DEF S, t2
<1>9. /\ IsTable(t3) /\ DOMAIN t3 = DOMAIN t1 /\ Rd!max_preference(t3) = M1
      /\ \A x \in DOMAIN t1 :
           /\ t3[x].preference = t1[x].preference
           /\ t3[x].in_kernel <=>
                x \in S \/ (best /\ down /\ M1 # Rd!Ineligible /\ t1[x].preference = M1)
  BY <1>7, AddBestMarks
<1> HIDE DEF t3
<1>10. /\ IsTable(t4) /\ DOMAIN t4 = DOMAIN t1 /\ Rd!max_preference(t4) = M1
       /\ \A x \in DOMAIN t1 :
            /\ t4[x].preference = t1[x].preference
            /\ t4[x].in_kernel <=>
                 /\ x \in S \/ (best /\ down /\ M1 # Rd!Ineligible /\ t1[x].preference = M1)
                 /\ best /\ (up \/ down) => t1[x].preference >= M1
  BY <1>9, DropWorseMarks
<1> HIDE DEF t4
<1>11. IsBest(t, M0) /\ IsBest(t1, M1)
  BY <1>6, BestExists
<1>12. ASSUME NEW x \in DOMAIN t1
       PROVE  /\ t1[x].preference \in Int /\ t1[x].preference >= Rd!Ineligible /\ t1[x].preference <= M1
              /\ x # r => /\ t1[x].preference = t[x].preference /\ x \in DOMAIN t
                          /\ t[x].preference <= M0
                          /\ x \in S <=> /\ t[x].preference # Rd!Ineligible
                                         /\ best => t[x].preference = M0
              /\ x = r => t1[x].preference = p
  BY <1>4, <1>5, <1>6, <1>8, <1>11, EntryType DEF IsBest, Rd!Marked, WantedIn
<1>13. known => /\ t[r].preference \in Int /\ t[r].preference <= M0 /\ t[r].preference >= Rd!Ineligible
                /\ t[r].in_kernel <=> /\ t[r].preference # Rd!Ineligible
                                      /\ best => t[r].preference = M0
  BY <1>11, EntryType DEF IsBest, Rd!Marked, WantedIn
<1>14. M1 \in Int /\ M0 \in Int /\ M1 >= Rd!Ineligible /\ M0 >= Rd!Ineligible /\ M1 >= p /\ Rd!Ineligible \in Int
  BY <1>5, <1>11, <1>12 DEF IsBest, Rd!Ineligible
\* How the maximum moves.
<1>15. /\ ~known \/ p >= t[r].preference => M1 = IF p > M0 THEN p ELSE M0
       /\ known /\ t[r].preference > p /\ t[r].preference # M0 => M1 = M0
  <2>1. ASSUME NEW y \in DOMAIN t
        PROVE  y \in DOMAIN t1 /\ t[y].preference \in Int /\ (y # r => t[y].preference <= M1)
    BY <1>5, <1>12, EntryType
  <2>2. M1 = Rd!Ineligible \/ M1 = p \/ M1 <= M0
    BY <1>5, <1>11, <1>12 DEF IsBest
  <2>3. M0 = Rd!Ineligible \/ M0 <= M1 \/ (known /\ M0 = t[r].preference)
    BY <1>11, <1>14, <2>1 DEF IsBest
  <2>4. QED
    BY <1>2, <1>13, <1>14, <2>2, <2>3
<1>16. ASSUME NEW x \in DOMAIN t1
       PROVE  t4[x].in_kernel <=> /\ t1[x].preference # Rd!Ineligible
                                  /\ best => t1[x].preference = M1
  <2>1. CASE ~best
    BY <1>8, <1>10, <1>12, <2>1
  <2>2. CASE best /\ down
    BY <1>8, <1>10, <1>12, <1>13, <1>14, <2>2
  <2>3. CASE best /\ up /\ ~down
    <3>1. ~known \/ p >= t[r].preference
      BY <1>2, <1>13, <2>3
    <3>2. M1 = IF p > M0 THEN p ELSE M0
      BY <1>15, <3>1
    <3>3. CASE x = r
      <4>1. r \in S <=> p # Rd!Ineligible /\ ((known /\ t[r].in_kernel) \/ p = M1)
        BY <1>8, <2>3
      <4>2. QED
        BY <1>2, <1>10, <1>12, <1>13, <1>14, <2>3, <3>2, <3>3, <4>1
    <3>4. CASE x # r
      BY <1>2, <1>10, <1>12, <1>13, <1>14, <2>3, <3>2, <3>4
    <3>5. QED
      BY <3>3, <3>4
  <2>4. CASE best /\ ~up /\ ~down
    BY <1>2, <1>8, <1>10, <1>12, <1>13, <1>14, <1>15, <2>4
  <2>5. QED
    BY <2>1, <2>2, <2>3, <2>4
<1>17. Rd!Marked(t4) = WantedIn(t4, best)
  BY <1>10, <1>16 DEF Rd!Marked, WantedIn
<1>18. QED
  BY <1>1, <1>10, <1>17

\* Unlinking a router never leaves a mark too many; unlinking one that is not
\* among the best leaves the maximum and the marks right.
LEMMA UnlinkMarks ==
  ASSUME Rd!RdiscAssumption, NEW t, IsTable(t), NEW best \in BOOLEAN, NEW r \in DOMAIN t,
         Rd!Marked(t) \subseteq WantedIn(t, best)
  PROVE  LET u == Rd!Restrict(t, DOMAIN t \ {r})
         IN  /\ IsTable(u) /\ DOMAIN u = DOMAIN t \ {r} /\ Rd!Marked(u) = Rd!Marked(t) \ {r}
             /\ Rd!Marked(u) \subseteq WantedIn(u, best)
             /\ Rd!Marked(t) = WantedIn(t, best) /\ (best => t[r].preference # Rd!max_preference(t)) =>
                  /\ Rd!Marked(u) = WantedIn(u, best)
                  /\ best => Rd!max_preference(u) = Rd!max_preference(t)
<1> DEFINE u == Rd!Restrict(t, DOMAIN t \ {r})
           M == Rd!max_preference(t)
           N == Rd!max_preference(u)
<1>1. DOMAIN u = DOMAIN t \ {r} /\ \A x \in DOMAIN u : u[x] = t[x]
  BY DEF Rd!Restrict
<1>2. IsTable(u)
  <2>1. u = [x \in DOMAIN u |-> u[x]]
    BY DEF Rd!Restrict
  <2> HIDE DEF u
  <2>2. QED
    BY <1>1, <2>1 DEF IsTable
<1> HIDE DEF u
<1>3. Rd!Marked(u) = Rd!Marked(t) \ {r}
  BY <1>1 DEF Rd!Marked
<1>4. IsBest(t, M) /\ IsBest(u, N)
  BY <1>2, BestExists
<1>5. \A x \in DOMAIN t : t[x].preference \in Int
  BY EntryType
<1>6. N \in Int /\ M \in Int /\ N <= M
  BY <1>1, <1>4, <1>5 DEF IsBest, Rd!Ineligible
<1>7. \A x \in DOMAIN u : t[x].preference = M => N = M
  BY <1>1, <1>4, <1>5, <1>6 DEF IsBest
<1>8. Rd!Marked(u) \subseteq WantedIn(u, best)
  BY <1>1, <1>3, <1>7 DEF WantedIn, Rd!Marked
<1>9. ASSUME Rd!Marked(t) = WantedIn(t, best), best => t[r].preference # M
      PROVE  /\ Rd!Marked(u) = WantedIn(u, best)
             /\ best => N = M
  <2>1. best => N = M
    <3>1. M = Rd!Ineligible => N = M
      BY <1>4, <1>6 DEF IsBest, Rd!Ineligible
    <3>2. best /\ M # Rd!Ineligible => \E x \in DOMAIN u : t[x].preference = M
      BY <1>1, <1>4, <1>9 DEF IsBest
    <3>3. QED
      BY <1>7, <3>1, <3>2
  <2>2. QED
    BY <1>1, <1>3, <1>9, <2>1 DEF WantedIn
<1>10. QED
  BY <1>1, <1>2, <1>3, <1>8, <1>9 DEF u

\* An entry that ages keeps its mark, its preference and so the maximum.
LEMMA AgedMarks ==
  ASSUME Rd!RdiscAssumption, NEW t, IsTable(t), NEW best, NEW r \in DOMAIN t,
         NEW u, u = [t EXCEPT ![r] = [t[r] EXCEPT !.remaining_time = @ - rdisc.TIMER_INTERVAL]]
  PROVE  /\ IsTable(u) /\ DOMAIN u = DOMAIN t /\ Rd!Marked(u) = Rd!Marked(t)
         /\ WantedIn(u, best) = WantedIn(t, best) /\ Rd!max_preference(u) = Rd!max_preference(t)
<1>1. t[r] \in Rd!Entry /\ t[r].remaining_time - rdisc.TIMER_INTERVAL \in Int
  BY EntryType DEF Rd!RdiscAssumption
<1>2. DOMAIN u = DOMAIN t
  OBVIOUS
<1>3. u[r] = [t[r] EXCEPT !.remaining_time = t[r].remaining_time - rdisc.TIMER_INTERVAL]
  OBVIOUS
<1>4. u[r] \in Rd!Entry /\ u[r].preference = t[r].preference /\ u[r].in_kernel = t[r].in_kernel
  BY <1>1, <1>3 DEF Rd!Entry
<1>5. \A x \in DOMAIN t : x # r => u[x] = t[x]
  OBVIOUS
<1>6. \A x \in DOMAIN t : u[x].preference = t[x].preference /\ u[x].in_kernel = t[x].in_kernel
  BY <1>4, <1>5
<1>7. u \in [DOMAIN t -> Rd!Entry]
  <2>1. u = [x \in DOMAIN t |-> u[x]]
    OBVIOUS
  <2>2. \A x \in DOMAIN t : u[x] \in Rd!Entry
    BY <1>4, <1>5, EntryType
  <2>3. QED
    BY <1>2, <2>1, <2>2
<1>8. Rd!max_preference(u) = Rd!max_preference(t)
  BY <1>2, <1>6, SamePreferences
<1>9. Rd!Marked(u) = Rd!Marked(t)
  BY <1>2, <1>6 DEF Rd!Marked
<1>10. WantedIn(u, best) = WantedIn(t, best)
  BY <1>2, <1>6, <1>8 DEF WantedIn
<1>11. QED
  BY <1>2, <1>7, <1>8, <1>9, <1>10 DEF IsTable

\* The second loop of age_table() marks one more router.
LEMMA MarkOne ==
  ASSUME Rd!RdiscAssumption, NEW t, IsTable(t), NEW best, NEW r \in DOMAIN t,
         NEW u, u = [t EXCEPT ![r].in_kernel = TRUE]
  PROVE  /\ IsTable(u) /\ DOMAIN u = DOMAIN t /\ Rd!Marked(u) = Rd!Marked(t) \cup {r}
         /\ WantedIn(u, best) = WantedIn(t, best)
<1> DEFINE S == Rd!Marked(t) \cup {r}
<1>1. \A x \in DOMAIN t : u[x] = [t[x] EXCEPT !.in_kernel = x \in S]
  <2> SUFFICES ASSUME NEW x \in DOMAIN t
               PROVE  u[x] = [t[x] EXCEPT !.in_kernel = x \in S]
    OBVIOUS
  <2>1. CASE x = r
    BY <2>1
  <2>2. CASE x # r
    <3>1. u[x] = t[x]
      BY <2>2
    <3>2. (x \in S) = t[x].in_kernel
      BY <2>2, EntryType DEF Rd!Marked
    <3>3. t[x] \in Rd!Entry
      BY EntryType
    <3> HIDE DEF S
    <3>4. QED
      BY <3>1, <3>2, <3>3 DEF Rd!Entry
  <2>3. QED
    BY <2>1, <2>2
<1>2. u = Remark(t, S)
  <2>1. u = [x \in DOMAIN t |-> u[x]]
    OBVIOUS
  <2> HIDE DEF S
  <2>2. QED
    BY <1>1, <2>1 DEF Remark
<1>3. /\ IsTable(u) /\ DOMAIN u = DOMAIN t /\ Rd!max_preference(u) = Rd!max_preference(t)
      /\ \A x \in DOMAIN t : u[x].preference = t[x].preference /\ (u[x].in_kernel <=> x \in S)
  <2> HIDE DEF S
  <2> DEFINE v == Remark(t, S)
  <2>1. /\ IsTable(v) /\ DOMAIN v = DOMAIN t /\ Rd!max_preference(v) = Rd!max_preference(t)
        /\ \A x \in DOMAIN t : v[x].preference = t[x].preference /\ (v[x].in_kernel <=> x \in S)
    BY Remarked
  <2>2. u = v
    BY <1>2
  <2> HIDE DEF v
  <2>3. QED
    BY <2>1, <2>2
<1>4. Rd!Marked(u) = S
  BY <1>3 DEF Rd!Marked
<1>5. WantedIn(u, best) = WantedIn(t, best)
  BY <1>3 DEF WantedIn
<1>6. QED
  BY <1>3, <1>4, <1>5

\* rtioctl(): if the kernel had the routes of K, it now has those asked for;
\* if some were refused, some of those asked for.
LEMMA RoutesAsked ==
  ASSUME NEW K, NEW add, NEW del, m12 \subseteq K, ~m17 => m12 = K, Rd!rtioctl(add, del)
  PROVE  /\ m12' \subseteq (K \cup add) \ del
         /\ ~m17' => m12' = (K \cup add) \ del
<1>1. PICK ok \in SUBSET add : m12' = (m12 \cup ok) \ del /\ m17' = (m17 \/ ok # add)
  BY DEF Rd!rtioctl
<1>2. QED
  BY <1>1

\* The routes the kernel should have: those marked in the table and, between
\* the two halves of a change to one, that of the router age_table() works on.
Kept ==
  IF (pc = "unlinked" /\ m16.in_kernel) \/ pc = "added"
    THEN Rd!Marked(m11) \cup {m16.router} ELSE Rd!Marked(m11)

\* In the middle of age_table(): the walk is over routers of the table, no
\* router is marked that should not have a route, and until a best router has
\* been unlinked the marks and the maximum are exact.
Ageing ==
  /\ m13 \subseteq DOMAIN m11 /\ Rd!Marked(m11) \subseteq WantedIn(m11, m1) /\ (m15 => m1)
  /\ (~m15 /\ (pc = "unlinked" /\ m1 => m16.preference # m14)) =>
        /\ Rd!Marked(m11) = WantedIn(m11, m1)
        /\ m1 => m14 = Rd!max_preference(m11)

RdInv ==
  /\ m1 \in BOOLEAN /\ IsTable(m11)
  /\ Rd!NoRouteForgotten
  /\ pc # "exit" => m12 \subseteq Kept /\ (~m17 => m12 = Kept)
  /\ pc \in {"start", "wait"} => Rd!Marked(m11) = WantedIn(m11, m1)
  /\ pc = "unlinked" => m16.router \notin DOMAIN m11
  /\ pc = "added" => m15 /\ m16.router \in WantedIn(m11, m1)
  /\ pc \in {"age", "unlinked", "added"} => Ageing

LEMMA RdiscInit ==
  ASSUME Rd!RdiscAssumption, Rd!Init PROVE RdInv
<1>1. m1 \in BOOLEAN /\ m11 = [r \in {} |-> Rd!NoEntry] /\ m12 = {} /\ pc = "start"
  BY DEF Rd!Init
<1>2. DOMAIN m11 = {}
  BY <1>1
<1>3. IsTable(m11)
  <2>1. m11 \in [{} -> Rd!Entry]
    BY <1>1
  <2>2. QED
    BY <1>2, <2>1 DEF IsTable
<1>4. Rd!Marked(m11) = {} /\ WantedIn(m11, m1) = {}
  BY <1>2 DEF Rd!Marked, WantedIn
<1>5. QED
  BY <1>1, <1>3, <1>4 DEF RdInv, Rd!NoRouteForgotten, Kept

LEMMA AdvertisementStep ==
  ASSUME Rd!RdiscAssumption, RdInv,
         NEW r \in rdisc.Routers, NEW pref \in rdisc.Prefs, NEW ttl \in rdisc.Ttls,
         Rd!Advertisement(r, pref, ttl)
  PROVE  RdInv'
<1>1. pc = "wait" /\ pc' = pc /\ m1' = m1 /\ UNCHANGED <<m13, m14, m15, m16>>
  BY DEF Rd!Advertisement, Rd!ageVars
<1>2. CASE UNCHANGED <<m11, m12, m17>>
  BY <1>1, <1>2 DEF RdInv, Kept, Rd!NoRouteForgotten, Rd!Marked, WantedIn
<1>3. CASE /\ m11' = Rd!record_router(m11, r, pref, ttl, m1)
           /\ Rd!rtioctl(Rd!Marked(m11') \ Rd!Marked(m11), Rd!Marked(m11) \ Rd!Marked(m11'))
  <2>1. m1 \in BOOLEAN /\ IsTable(m11) /\ Rd!Marked(m11) = WantedIn(m11, m1)
        /\ m12 \subseteq Rd!Marked(m11) /\ (~m17 => m12 = Rd!Marked(m11))
    BY <1>1 DEF RdInv, Kept
  <2>2. IsTable(m11') /\ Rd!Marked(m11') = WantedIn(m11', m1)
    BY <1>3, <2>1, RecordMarks
  <2>3. m12' \subseteq Rd!Marked(m11') /\ (~m17' => m12' = Rd!Marked(m11'))
    <3> DEFINE K == Rd!Marked(m11)
               L == Rd!Marked(m11')
    <3>1. (K \cup (L \ K)) \ (K \ L) = L
      OBVIOUS
    <3>2. m12 \subseteq K /\ (~m17 => m12 = K) /\ Rd!rtioctl(L \ K, K \ L)
      BY <1>3, <2>1
    <3> HIDE DEF K, L
    <3>3. m12' \subseteq L /\ (~m17' => m12' = L)
      BY <3>1, <3>2, RoutesAsked
    <3>4. QED
      BY <3>3 DEF L
  <2>4. Kept' = Rd!Marked(m11')
    BY <1>1 DEF Kept, Rd!Marked
  <2>5. Rd!NoRouteForgotten'
    BY <2>3 DEF Rd!NoRouteForgotten, Rd!Marked
  <2>6. WantedIn(m11', m1') = WantedIn(m11', m1)
    BY <1>1
  <2>7. QED
    BY <1>1, <2>1, <2>2, <2>3, <2>4, <2>5, <2>6 DEF RdInv, Rd!Marked, IsTable, WantedIn
<1>4. QED
  BY <1>2, <1>3 DEF Rd!Advertisement

LEMMA AgeEntryStep ==
  ASSUME Rd!RdiscAssumption, RdInv, NEW r \in rdisc.Routers, Rd!AgeEntry(r)
  PROVE  RdInv'
<1> DEFINE e == [m11[r] EXCEPT !.remaining_time = @ - rdisc.TIMER_INTERVAL]
<1>1. /\ pc = "age" /\ r \in m13 /\ m13' = m13 \ {r}
      /\ UNCHANGED <<m1, m12, m14, m15, m17>>
  BY DEF Rd!AgeEntry, Rd!options
<1>2. /\ m1 \in BOOLEAN /\ IsTable(m11) /\ Ageing /\ r \in DOMAIN m11
      /\ m12 \subseteq Rd!Marked(m11) /\ (~m17 => m12 = Rd!Marked(m11))
  BY <1>1 DEF RdInv, Kept, Ageing
<1>3. CASE Rd!Expired(e)
  <2>1. /\ m11' = Rd!Restrict(m11, DOMAIN m11 \ {r}) /\ pc' = "unlinked"
        /\ m16' = [router |-> r, preference |-> e.preference, in_kernel |-> e.in_kernel]
    BY <1>3 DEF Rd!AgeEntry
  <2>2. e.preference = m11[r].preference /\ e.in_kernel = m11[r].in_kernel
    <3>1. m11[r] \in Rd!Entry
      BY <1>2, EntryType
    <3>2. QED
      BY <3>1 DEF Rd!Entry
  <2>3. m16'.router = r /\ m16'.preference = m11[r].preference /\ m16'.in_kernel = m11[r].in_kernel
    BY <2>1, <2>2
  <2> HIDE DEF e
  <2>4. Rd!Marked(m11) \subseteq WantedIn(m11, m1) /\ m13 \subseteq DOMAIN m11 /\ (m15 => m1)
    BY <1>2 DEF Ageing
  <2>5. /\ IsTable(m11') /\ DOMAIN m11' = DOMAIN m11 \ {r} /\ Rd!Marked(m11') = Rd!Marked(m11) \ {r}
        /\ Rd!Marked(m11') \subseteq WantedIn(m11', m1)
        /\ Rd!Marked(m11) = WantedIn(m11, m1) /\ (m1 => m11[r].preference # Rd!max_preference(m11)) =>
             /\ Rd!Marked(m11') = WantedIn(m11', m1)
             /\ m1 => Rd!max_preference(m11') = Rd!max_preference(m11)
    BY <1>2, <2>1, <2>4, UnlinkMarks
  <2>6. ~m15 => Rd!Marked(m11) = WantedIn(m11, m1) /\ (m1 => m14 = Rd!max_preference(m11))
    BY <1>1, <1>2 DEF Ageing
  <2>7. m13' \subseteq DOMAIN m11'
    BY <1>1, <2>4, <2>5
  <2>8. ~m15 /\ (m1 => m16'.preference # m14) =>
          /\ Rd!Marked(m11') = WantedIn(m11', m1)
          /\ m1 => m14 = Rd!max_preference(m11')
    BY <2>3, <2>5, <2>6
  <2>9. Ageing'
    BY <1>1, <2>1, <2>4, <2>5, <2>7, <2>8 DEF Ageing, Rd!Marked, WantedIn, Rd!max_preference
  <2>10. Kept' = Rd!Marked(m11)
    <3>1. m11[r].in_kernel <=> r \in Rd!Marked(m11)
      BY <1>2 DEF Rd!Marked
    <3>2. Kept' = IF m16'.in_kernel THEN Rd!Marked(m11') \cup {r} ELSE Rd!Marked(m11')
      BY <2>1, <2>3 DEF Kept, Rd!Marked
    <3>3. QED
      BY <2>3, <2>5, <3>1, <3>2
  <2>11. m12' \subseteq Kept' /\ (~m17' => m12' = Kept')
    BY <1>1, <1>2, <2>10
  <2>12. Rd!NoRouteForgotten'
    BY <1>1, <1>2, <2>3, <2>5 DEF Rd!NoRouteForgotten, Rd!Marked
  <2>13. QED
    BY <1>1, <1>2, <2>1, <2>3, <2>5, <2>9, <2>11, <2>12 DEF RdInv, IsTable
<1>4. CASE ~Rd!Expired(e)
  <2>1. m11' = [m11 EXCEPT ![r] = e] /\ UNCHANGED <<m16, pc>>
    BY <1>4 DEF Rd!AgeEntry
  <2>2. /\ IsTable(m11') /\ DOMAIN m11' = DOMAIN m11 /\ Rd!Marked(m11') = Rd!Marked(m11)
        /\ WantedIn(m11', m1) = WantedIn(m11, m1) /\ Rd!max_preference(m11') = Rd!max_preference(m11)
    <3>1. m11' = [m11 EXCEPT ![r] = [m11[r] EXCEPT !.remaining_time = @ - rdisc.TIMER_INTERVAL]]
      BY <2>1
    <3>2. QED
      BY <1>2, <3>1, AgedMarks, Zenon
  <2>3. Ageing'
    BY <1>1, <1>2, <2>1, <2>2 DEF Ageing, Rd!Marked, WantedIn, Rd!max_preference
  <2>4. Kept' = Rd!Marked(m11)
    BY <1>1, <2>1, <2>2 DEF Kept, Rd!Marked
  <2>5. Rd!NoRouteForgotten'
    BY <1>1, <1>2, <2>2 DEF Rd!NoRouteForgotten, Rd!Marked
  <2>6. QED
    BY <1>1, <1>2, <2>1, <2>2, <2>3, <2>4, <2>5 DEF RdInv, IsTable
<1>5. QED
  BY <1>3, <1>4

LEMMA TimerStep ==
  ASSUME Rd!RdiscAssumption, RdInv, Rd!Timer
  PROVE  RdInv'
<1>1. /\ pc \in {"start", "wait"} /\ pc' \in {"exit", "age"}
      /\ m13' = DOMAIN m11 /\ m14' = Rd!max_preference(m11) /\ m15' = FALSE
      /\ UNCHANGED <<m1, m11, m12, m16, m17>>
  BY DEF Rd!Timer
<1>2. /\ m1 \in BOOLEAN /\ IsTable(m11) /\ Rd!NoRouteForgotten /\ Rd!Marked(m11) = WantedIn(m11, m1)
      /\ m12 \subseteq Rd!Marked(m11) /\ (~m17 => m12 = Rd!Marked(m11))
  BY <1>1 DEF RdInv, Kept
<1>3. Rd!Marked(m11') = Rd!Marked(m11) /\ WantedIn(m11', m1') = WantedIn(m11, m1)
      /\ Rd!max_preference(m11') = Rd!max_preference(m11)
  BY <1>1
<1>4. Ageing'
  BY <1>1, <1>2, <1>3 DEF Ageing
<1>5. Kept' = Rd!Marked(m11)
  BY <1>1, <1>3 DEF Kept
<1>6. Rd!NoRouteForgotten'
  BY <1>1, <1>2, <1>3 DEF Rd!NoRouteForgotten
<1>7. QED
  BY <1>1, <1>2, <1>3, <1>4, <1>5, <1>6 DEF RdInv

LEMMA DeleteExpiredStep ==
  ASSUME Rd!RdiscAssumption, RdInv, Rd!DeleteExpired
  PROVE  RdInv'
<1> DEFINE del == IF m16.in_kernel THEN {m16.router} ELSE {}
<1>1. /\ pc = "unlinked" /\ pc' = "age" /\ Rd!rtioctl({}, del)
      /\ m15' = (m15 \/ (m1 /\ m16.preference = m14))
      /\ UNCHANGED <<m1, m11, m13, m14>>
  BY DEF Rd!DeleteExpired, Rd!Unlink, Rd!options
<1>2. /\ m1 \in BOOLEAN /\ IsTable(m11) /\ Ageing /\ m16.router \notin DOMAIN m11
      /\ m12 \subseteq Kept /\ (~m17 => m12 = Kept)
  BY <1>1 DEF RdInv
<1>3. (Kept \cup {}) \ del = Rd!Marked(m11)
  BY <1>1, <1>2 DEF Kept, Rd!Marked
<1>4. m12' \subseteq Rd!Marked(m11) /\ (~m17' => m12' = Rd!Marked(m11))
  <2> HIDE DEF del
  <2>1. QED
    BY <1>1, <1>2, <1>3, RoutesAsked
<1>5. Rd!Marked(m11') = Rd!Marked(m11) /\ WantedIn(m11', m1') = WantedIn(m11, m1)
      /\ Rd!max_preference(m11') = Rd!max_preference(m11)
  BY <1>1
<1>6. Ageing'
  BY <1>1, <1>2, <1>5 DEF Ageing
<1>7. Kept' = Rd!Marked(m11)
  BY <1>1, <1>5 DEF Kept
<1>8. Rd!NoRouteForgotten'
  BY <1>4, <1>5 DEF Rd!NoRouteForgotten
<1>9. QED
  BY <1>1, <1>2, <1>4, <1>5, <1>6, <1>7, <1>8 DEF RdInv

\* The routers whose marks the second loop of age_table() adds.
LEMMA ToAddWanted ==
  ASSUME Rd!RdiscAssumption, IsTable(m11), m1
  PROVE  Rd!ToAdd = WantedIn(m11, m1) \ Rd!Marked(m11)
<1> DEFINE u == Rd!AddBest(m11)
           M == Rd!max_preference(m11)
<1>1. /\ DOMAIN u = DOMAIN m11
      /\ \A x \in DOMAIN m11 :
           u[x].in_kernel <=> m11[x].in_kernel \/ (M # Rd!Ineligible /\ m11[x].preference = M)
  BY AddBestMarks
<1> HIDE DEF u
<1>2. QED
  BY <1>1 DEF Rd!ToAdd, Rd!Marked, WantedIn, u

LEMMA AddRouteStep ==
  ASSUME Rd!RdiscAssumption, RdInv, NEW r \in rdisc.Routers, Rd!AddRoute(r)
  PROVE  RdInv'
<1>1. /\ pc = "age" /\ pc' = "added" /\ m15 /\ r \in Rd!ToAdd /\ Rd!rtioctl({r}, {})
      /\ m16' = [Rd!NoEntry EXCEPT !.router = r]
      /\ UNCHANGED <<m1, m11, m13, m14, m15>>
  BY DEF Rd!AddRoute, Rd!options
<1>2. /\ m1 \in BOOLEAN /\ IsTable(m11) /\ Ageing
      /\ m12 \subseteq Rd!Marked(m11) /\ (~m17 => m12 = Rd!Marked(m11))
  BY <1>1 DEF RdInv, Kept
<1>3. m16'.router = r
  BY <1>1 DEF Rd!NoEntry
<1>4. r \in WantedIn(m11, m1)
  <2>1. m1
    BY <1>1, <1>2 DEF Ageing
  <2>2. QED
    BY <1>1, <1>2, <2>1, ToAddWanted
<1>5. /\ m12' \subseteq Rd!Marked(m11) \cup {r}
      /\ ~m17' => m12' = Rd!Marked(m11) \cup {r}
  <2> DEFINE K == Rd!Marked(m11)
             add == {r}
             del == {}
  <2>1. m12 \subseteq K /\ (~m17 => m12 = K) /\ Rd!rtioctl(add, del)
    BY <1>1, <1>2
  <2>2. (K \cup add) \ del = K \cup {r}
    OBVIOUS
  <2> HIDE DEF K, add, del
  <2>3. m12' \subseteq (K \cup add) \ del /\ (~m17' => m12' = (K \cup add) \ del)
    BY <2>1, RoutesAsked
  <2>4. QED
    BY <2>2, <2>3 DEF K
<1>6. Rd!Marked(m11') = Rd!Marked(m11) /\ WantedIn(m11', m1') = WantedIn(m11, m1)
      /\ Rd!max_preference(m11') = Rd!max_preference(m11)
  BY <1>1
<1>7. Ageing'
  BY <1>1, <1>2, <1>6 DEF Ageing
<1>8. Kept' = Rd!Marked(m11) \cup {r}
  BY <1>1, <1>3, <1>6 DEF Kept
<1>9. Rd!NoRouteForgotten'
  BY <1>3, <1>5, <1>6 DEF Rd!NoRouteForgotten
<1>10. QED
  BY <1>1, <1>2, <1>3, <1>4, <1>5, <1>6, <1>7, <1>8, <1>9 DEF RdInv

LEMMA MarkRouteStep ==
  ASSUME Rd!RdiscAssumption, RdInv, Rd!MarkRoute
  PROVE  RdInv'
<1>1. /\ pc = "added" /\ pc' = "age" /\ m11' = [m11 EXCEPT ![m16.router].in_kernel = TRUE]
      /\ UNCHANGED <<m1, m12, m13, m14, m15, m17>>
  BY DEF Rd!MarkRoute, Rd!options
<1>2. /\ m1 \in BOOLEAN /\ IsTable(m11) /\ Ageing /\ m15 /\ m16.router \in WantedIn(m11, m1)
      /\ m12 \subseteq Rd!Marked(m11) \cup {m16.router}
      /\ ~m17 => m12 = Rd!Marked(m11) \cup {m16.router}
  BY <1>1 DEF RdInv, Kept
<1>3. m16.router \in DOMAIN m11
  BY <1>2 DEF WantedIn
<1>4. /\ IsTable(m11') /\ DOMAIN m11' = DOMAIN m11 /\ Rd!Marked(m11') = Rd!Marked(m11) \cup {m16.router}
      /\ WantedIn(m11', m1) = WantedIn(m11, m1)
  <2> DEFINE t == m11
             x == m16.router
             u == [t EXCEPT ![x].in_kernel = TRUE]
  <2>1. IsTable(t) /\ x \in DOMAIN t
    BY <1>2, <1>3
  <2> HIDE DEF t, x
  <2>2. /\ IsTable(u) /\ DOMAIN u = DOMAIN t /\ Rd!Marked(u) = Rd!Marked(t) \cup {x}
        /\ WantedIn(u, m1) = WantedIn(t, m1)
    BY <2>1, MarkOne
  <2>3. m11' = u
    BY <1>1 DEF t, x
  <2> HIDE DEF u
  <2>4. QED
    BY <2>2, <2>3 DEF t, x
<1>5. Ageing'
  BY <1>1, <1>2, <1>4 DEF Ageing, Rd!Marked, WantedIn, Rd!max_preference
<1>6. Kept' = Rd!Marked(m11')
  BY <1>1 DEF Kept, Rd!Marked
<1>7. m12' \subseteq Kept' /\ (~m17' => m12' = Kept')
  BY <1>1, <1>2, <1>4, <1>6
<1>8. Rd!NoRouteForgotten'
  BY <1>6, <1>7 DEF Rd!NoRouteForgotten, Rd!Marked
<1>9. QED
  BY <1>1, <1>2, <1>4, <1>5, <1>7, <1>8 DEF RdInv, IsTable

LEMMA RearmStep ==
  ASSUME Rd!RdiscAssumption, RdInv, Rd!Rearm
  PROVE  RdInv'
<1>1. /\ pc = "age" /\ pc' = "wait" /\ (m15 => Rd!ToAdd = {})
      /\ UNCHANGED <<m1, m11, m12, m16, m17>>
  BY DEF Rd!Rearm, Rd!options
<1>2. /\ m1 \in BOOLEAN /\ IsTable(m11) /\ Ageing /\ Rd!NoRouteForgotten
      /\ m12 \subseteq Rd!Marked(m11) /\ (~m17 => m12 = Rd!Marked(m11))
  BY <1>1 DEF RdInv, Kept
<1>3. Rd!Marked(m11) = WantedIn(m11, m1)
  <2>1. CASE m15
    <3>1. m1 /\ Rd!Marked(m11) \subseteq WantedIn(m11, m1)
      BY <1>2, <2>1 DEF Ageing
    <3>2. QED
      BY <1>1, <1>2, <2>1, <3>1, ToAddWanted
  <2>2. CASE ~m15
    BY <1>1, <1>2, <2>2 DEF Ageing
  <2>3. QED
    BY <2>1, <2>2
<1>4. Rd!Marked(m11') = Rd!Marked(m11) /\ WantedIn(m11', m1') = WantedIn(m11, m1)
  BY <1>1
<1>5. Kept' = Rd!Marked(m11)
  BY <1>1, <1>4 DEF Kept
<1>6. Rd!NoRouteForgotten'
  BY <1>1, <1>2, <1>4 DEF Rd!NoRouteForgotten
<1>7. QED
  BY <1>1, <1>2, <1>3, <1>4, <1>5, <1>6 DEF RdInv

\* SIGTERM: what is left is at most the route age_table() was working on.
LEMMA TerminateStep ==
  ASSUME Rd!RdiscAssumption, RdInv, Rd!Terminate
  PROVE  RdInv'
<1>1. /\ pc # "exit" /\ pc' = "exit" /\ m11' = [r \in {} |-> Rd!NoEntry]
      /\ Rd!rtioctl({}, Rd!Marked(m11)) /\ UNCHANGED <<m1, m16>>
  BY DEF Rd!Terminate, Rd!options
<1>2. m1 \in BOOLEAN /\ Rd!NoRouteForgotten
  BY DEF RdInv
<1>3. m12' \subseteq {m16.router}
  <2>1. m12' \subseteq m12 \ Rd!Marked(m11)
    BY <1>1 DEF Rd!rtioctl
  <2>2. QED
    BY <1>2, <2>1 DEF Rd!NoRouteForgotten
<1>4. DOMAIN m11' = {} /\ m11' \in [{} -> Rd!Entry]
  BY <1>1
<1>5. IsTable(m11)'
  BY <1>4 DEF IsTable
<1>6. Rd!NoRouteForgotten'
  BY <1>1, <1>3 DEF Rd!NoRouteForgotten
<1>7. QED
  BY <1>1, <1>2, <1>5, <1>6 DEF RdInv

LEMMA RdiscStutter ==
  ASSUME RdInv, UNCHANGED <<m1, m11, m12, m13, m14, m15, m16, m17>>, pc' \in {pc, "exit"}
  PROVE  RdInv'
<1>1. CASE pc' = "exit"
  BY <1>1 DEF RdInv, Rd!NoRouteForgotten, Rd!Marked, IsTable
<1>2. CASE pc' = pc
  <2>1. Kept' = Kept
    BY <1>2 DEF Kept
  <2>2. Ageing' <=> Ageing
    BY <1>2 DEF Ageing
  <2>3. Rd!NoRouteForgotten' <=> Rd!NoRouteForgotten
    BY DEF Rd!NoRouteForgotten
  <2>4. QED
    BY <1>2, <2>1, <2>2, <2>3 DEF RdInv
<1>3. QED
  BY <1>1, <1>2

LEMMA RdiscStep ==
  ASSUME Rd!RdiscAssumption, RdInv, Rd!Next PROVE RdInv'
<1>1. CASE \E r \in rdisc.Routers, p \in rdisc.Prefs, ttl \in rdisc.Ttls : Rd!Advertisement(r, p, ttl)
  BY <1>1, AdvertisementStep
<1>2. CASE \E r \in rdisc.Routers : Rd!AgeEntry(r) \/ Rd!AddRoute(r)
  BY <1>2, AgeEntryStep, AddRouteStep
<1>3. CASE \E d \in Rd!Devices : Rd!DeviceChange(d)
  BY <1>3, RdiscStutter DEF Rd!DeviceChange, Rd!options, Rd!ageVars
<1>4. CASE Rd!Timer
  BY <1>4, TimerStep
<1>5. CASE Rd!DeleteExpired
  BY <1>5, DeleteExpiredStep
<1>6. CASE Rd!MarkRoute
  BY <1>6, MarkRouteStep
<1>7. CASE Rd!Rearm
  BY <1>7, RearmStep
<1>8. CASE Rd!Terminate
  BY <1>8, TerminateStep
<1>9. CASE Rd!Interrupt \/ Rd!Hangup
  BY <1>9, RdiscStutter DEF Rd!Interrupt, Rd!Hangup, Rd!options, Rd!ageVars
<1>10. QED
  BY <1>1, <1>2, <1>3, <1>4, <1>5, <1>6, <1>7, <1>8, <1>9 DEF Rd!Next

\* rdisc, record_router() and age_table(): whenever rdisc waits, the kernel
\* has a route to exactly the best routers of the table (with -a to every
\* eligible one) but for those it refused, however preferences moved and
\* entries expired; and a route the table does not mark is the one that
\* age_table() is working on.
THEOREM RoutesCorrect == ToolsSpec => []RoutesAreBest
<1> DEFINE Inv == part = "rdisc" => RdInv
<1>1. ToolsInit => Inv
  BY RdiscInit, ToolsAssumption DEF ToolsInit
<1>2. Inv /\ [ToolsNext]_toolVars => Inv'
  <2> SUFFICES ASSUME Inv, [ToolsNext]_toolVars, part = "rdisc"
               PROVE  RdInv'
    BY RunsAlone
  <2>1. CASE Rd!Next
    BY <2>1, RdiscStep, ToolsAssumption
  <2>2. CASE UNCHANGED <<pc, memory>>
    BY <2>2, RdiscStutter DEF memory
  <2>3. QED
    BY <2>1, <2>2, RunsAlone
<1>3. Inv => RoutesAreBest
  <2> SUFFICES ASSUME RdInv PROVE Rd!RoutesAreBest
    BY DEF RoutesAreBest
  <2>1. Rd!Wanted = WantedIn(m11, m1)
    BY DEF Rd!Wanted, WantedIn
  <2>2. QED
    BY <2>1 DEF RdInv, Rd!RoutesAreBest, Kept
<1>4. QED
  BY <1>1, <1>2, <1>3, PTL DEF ToolsSpec

-----------------------------------------------------------------------------
(* rdisc -r *)

\* The longest time between two advertisements.
Longest ==
  IF router.initial_advert_interval > router.max_adv_int
    THEN router.initial_advert_interval ELSE router.max_adv_int

\* What the host's clock may run until the router's next tick is behind it.
Phase == IF m7 = -1 THEN 0 ELSE IF m7 = 0 THEN router.TIMER_INTERVAL ELSE 2 * router.TIMER_INTERVAL

\* Unless the last advertisement was lost, the next one may be.
Grace == IF m9 THEN 0 ELSE Longest + router.TIMER_INTERVAL

\* A route outlasts the wait for the next advertisement that must be heard.
RouterInv ==
  /\ m6 \in BOOLEAN /\ m9 \in BOOLEAN /\ m7 \in -1 .. 1 /\ m1 \in 0 .. Longest
  /\ router.HostDev \in m4 /\ router.HostDev \in DOMAIN m5
  /\ \A d \in DOMAIN m5 : m5[d] \in {"given", "junk"}
  /\ m8 \in [preference : {"none", "given", "junk"}, remaining_time : Int]
  /\ m6 /\ m8 # Ro!None => m8.remaining_time > m1 + Phase + Grace

\* Three lifetimes of an advertisement outlast two of the longest intervals and the ticks.
Lasting == 3 * router.max_adv_int > 2 * Longest + 3 * router.TIMER_INTERVAL

LEMMA RouterNumbers ==
  ASSUME Ro!RouterAssumption
  PROVE  /\ router.max_adv_int \in Nat /\ router.max_adv_int >= 4 /\ router.TIMER_INTERVAL \in Nat \ {0}
         /\ Longest \in Nat /\ Ro!lifetime = 3 * router.max_adv_int
         /\ router.initial_advert_interval \in 0 .. Longest
         /\ Ro!Intervals \subseteq 0 .. Longest
<1>1. router.max_adv_int \in 4 .. 1800 /\ router.initial_advert_interval \in Nat /\ router.TIMER_INTERVAL \in Nat \ {0}
  BY DEF Ro!RouterAssumption
<1>2. PICK m \in 4 .. 1800 : m = router.max_adv_int
  BY <1>1
<1> DEFINE lo == (m * 3) \div 4
           hi == lo + ((m - lo) * 999) \div 1000
<1>3. lo \in 0 .. m /\ hi \in Int /\ hi <= m
  OBVIOUS
<1>4. Ro!Intervals = lo .. hi
  BY <1>2 DEF Ro!Intervals, Ro!min_adv_int
<1> HIDE DEF lo, hi
<1>5. \A x \in Ro!Intervals : x \in 0 .. m
  BY <1>3, <1>4
<1>6. Longest \in Nat /\ m <= Longest /\ router.initial_advert_interval \in 0 .. Longest
  BY <1>1, <1>2 DEF Longest
<1>7. \A x \in 0 .. m : x \in 0 .. Longest
  BY <1>6
<1>8. Ro!Intervals \subseteq 0 .. Longest
  BY <1>5, <1>7
<1>9. m \in Nat /\ m >= 4
  OBVIOUS
<1>10. Ro!lifetime = 3 * router.max_adv_int
  BY DEF Ro!lifetime
<1>11. QED
  BY <1>1, <1>2, <1>6, <1>8, <1>9, <1>10

LEMMA RouterInit ==
  ASSUME Ro!RouterAssumption, Ro!Init PROVE RouterInv
<1>1. /\ m1 = 0 /\ m4 = router.Devices /\ m5 = [d \in router.Devices |-> "given"] /\ m6 = TRUE /\ m7 = 0
      /\ m8 = Ro!None /\ m9 = FALSE
  BY DEF Ro!Init
<1>2. Ro!None \in [preference : {"none", "given", "junk"}, remaining_time : Int]
  BY DEF Ro!None
<1>3. m1 \in 0 .. Longest
  BY <1>1, RouterNumbers
<1>4. router.HostDev \in router.Devices
  BY DEF Ro!RouterAssumption
<1>5. router.HostDev \in m4 /\ router.HostDev \in DOMAIN m5 /\ \A d \in DOMAIN m5 : m5[d] \in {"given", "junk"}
  BY <1>1, <1>4
<1>6. m6 \in BOOLEAN /\ m9 \in BOOLEAN
  BY <1>1
<1>7. m7 \in -1 .. 1
  BY <1>1
<1>8. QED
  BY <1>1, <1>2, <1>3, <1>5, <1>6, <1>7 DEF RouterInv

\* What an advertisement that was heard leaves.
LEMMA HeardFacts ==
  ASSUME Ro!RouterAssumption, router.HostDev \in DOMAIN m5', \A d \in DOMAIN m5' : m5'[d] \in {"given", "junk"},
         Ro!Heard(Ro!lifetime)
  PROVE  /\ m8' \in [preference : {"none", "given", "junk"}, remaining_time : Int]
         /\ m8'.remaining_time = 3 * router.max_adv_int /\ m8' # Ro!None
<1>1. Ro!lifetime = 3 * router.max_adv_int /\ router.max_adv_int \in Nat /\ router.max_adv_int >= 4
  BY RouterNumbers
<1>2. m8' = [preference |-> m5'[router.HostDev], remaining_time |-> 3 * router.max_adv_int]
  BY <1>1 DEF Ro!Heard
<1>3. m5'[router.HostDev] \in {"given", "junk"}
  OBVIOUS
<1>4. m8'.remaining_time # 0 /\ Ro!None.remaining_time = 0
  BY <1>1, <1>2 DEF Ro!None
<1>5. QED
  BY <1>1, <1>2, <1>3, <1>4

LEMMA TickStep ==
  ASSUME Ro!RouterAssumption, Lasting, RouterInv, Ro!Tick PROVE RouterInv' /\ Ro!KeepsRoute
<1> DEFINE T == router.TIMER_INTERVAL
<1>1. /\ m6 /\ m6' = m6 /\ m4' = m4 /\ m7 < 1 /\ m7' = m7 + 1 /\ m7 \in {-1, 0}
      /\ m7' \in {0, 1} /\ m9 \in BOOLEAN /\ m1 \in 0 .. Longest
  BY DEF Ro!Tick, RouterInv
<1>2. /\ T \in Nat \ {0} /\ Longest \in Nat /\ 3 * router.max_adv_int > 2 * Longest + 3 * T
      /\ router.max_adv_int \in Nat
  BY RouterNumbers DEF Lasting
<1>3. router.HostDev \in DOMAIN m5' /\ \A d \in DOMAIN m5' : m5'[d] \in {"given", "junk"}
  <2>1. m5' = m5 \/ \E pref \in {"given", "junk"} : m5' = [d \in m4 |-> pref]
    BY DEF Ro!Tick, Ro!initifs
  <2>2. QED
    BY <2>1 DEF RouterInv
<1>4. Phase' = Phase + T /\ Phase \in Nat /\ Phase <= T
  BY <1>1, <1>2 DEF Phase
<1>5. CASE m1 - T <= 0
  <2>1. m1' \in 0 .. Longest
    BY <1>5, RouterNumbers DEF Ro!Tick
  <2>2. Ro!advertise(Ro!lifetime)
    BY <1>5 DEF Ro!Tick
  <2>3. CASE Ro!Heard(Ro!lifetime) /\ m9' = FALSE
    <3>1. /\ m8' \in [preference : {"none", "given", "junk"}, remaining_time : Int]
          /\ m8'.remaining_time = 3 * router.max_adv_int /\ m8' # Ro!None
      BY <1>3, <2>3, HeardFacts
    <3>2. Grace' = Longest + T
      BY <2>3 DEF Grace, Longest
    <3>3. 3 * router.max_adv_int > m1' + Phase' + Grace'
      BY <1>2, <1>4, <2>1, <3>2
    <3>4. m9' \in BOOLEAN /\ m7' \in -1 .. 1 /\ m6' \in BOOLEAN /\ router.HostDev \in m4' /\ Longest' = Longest
      <4>1. m9' \in BOOLEAN /\ m6' \in BOOLEAN
        BY <1>1, <2>3 DEF RouterInv
      <4>2. m7' \in -1 .. 1 /\ router.HostDev \in m4'
        BY <1>1 DEF RouterInv
      <4>3. QED
        BY <4>1, <4>2 DEF Longest
    <3>5. QED
      BY <1>3, <2>1, <3>1, <3>3, <3>4 DEF RouterInv, Ro!KeepsRoute
  <2>4. CASE ~m9 /\ m8' = m8 /\ m9' = TRUE
    <3>1. Grace = Longest + T /\ Grace' = 0
      BY <2>4 DEF Grace
    <3>2. ASSUME m8 # Ro!None PROVE m8'.remaining_time > m1' + Phase' + Grace'
      <4>1. m8.remaining_time > m1 + Phase + Grace /\ m8.remaining_time \in Int
        BY <1>1, <3>2 DEF RouterInv
      <4>2. QED
        BY <1>1, <1>2, <1>4, <2>1, <2>4, <3>1, <4>1
    <3>3. QED
      BY <1>1, <1>3, <2>1, <2>4, <3>2 DEF RouterInv, Ro!KeepsRoute, Longest
  <2>5. QED
    BY <1>3, <2>2, <2>3, <2>4 DEF Ro!advertise, Ro!sendmcast
<1>6. CASE ~(m1 - T <= 0)
  <2>1. m1' = m1 - T /\ m8' = m8 /\ m9' = m9
    BY <1>6 DEF Ro!Tick
  <2>2. m1' \in 0 .. Longest
    BY <1>1, <1>2, <1>6, <2>1
  <2>3. Grace' = Grace /\ Grace \in Nat
    BY <1>1, <1>2, <2>1 DEF Grace, Longest
  <2>4. ASSUME m8 # Ro!None PROVE m8'.remaining_time > m1' + Phase' + Grace'
    <3>1. m8.remaining_time > m1 + Phase + Grace /\ m8.remaining_time \in Int
      BY <1>1, <2>4 DEF RouterInv
    <3>2. QED
      BY <1>1, <1>2, <1>4, <2>1, <2>3, <3>1
  <2>5. QED
    BY <1>1, <1>3, <2>1, <2>2, <2>4 DEF RouterInv, Ro!KeepsRoute, Longest
<1>7. QED
  BY <1>5, <1>6

LEMMA SolicitStep ==
  ASSUME Ro!RouterAssumption, Lasting, RouterInv, Ro!SolicitAll \/ Ro!SolicitHost
  PROVE  RouterInv' /\ Ro!KeepsRoute
<1> DEFINE T == router.TIMER_INTERVAL
<1>1. /\ m6 /\ m6' = m6 /\ m4' = m4 /\ m5' = m5 /\ m7' = m7 /\ m7 \in -1 .. 1 /\ m9 \in BOOLEAN
      /\ router.HostDev \in DOMAIN m5 /\ \A d \in DOMAIN m5 : m5[d] \in {"given", "junk"}
      /\ router.HostDev \in m4 /\ m1 \in 0 .. Longest
  BY DEF Ro!SolicitAll, Ro!SolicitHost, RouterInv
<1>2. /\ T \in Nat \ {0} /\ Longest \in Nat /\ 3 * router.max_adv_int > 2 * Longest + 3 * T
      /\ router.max_adv_int \in Nat
  BY RouterNumbers DEF Lasting
<1>3. m1' \in 0 .. Longest
  BY <1>1, RouterNumbers DEF Ro!SolicitAll, Ro!SolicitHost
<1>4. Phase' = Phase /\ Phase \in Nat /\ Phase <= 2 * T
  BY <1>1, <1>2 DEF Phase
<1>5. CASE Ro!Heard(Ro!lifetime) /\ m9' \in BOOLEAN
  <2>1. /\ m8' \in [preference : {"none", "given", "junk"}, remaining_time : Int]
        /\ m8'.remaining_time = 3 * router.max_adv_int /\ m8' # Ro!None
    BY <1>1, <1>5, HeardFacts
  <2>2. Grace' \in Nat /\ Grace' <= Longest + T
    BY <1>2 DEF Grace, Longest
  <2>3. 3 * router.max_adv_int > m1' + Phase' + Grace'
    BY <1>2, <1>3, <1>4, <2>2
  <2>4. QED
    BY <1>1, <1>3, <1>5, <2>1, <2>3 DEF RouterInv, Ro!KeepsRoute, Longest
<1>6. CASE m8' = m8 /\ ((m9' = m9 /\ m1' = m1) \/ (~m9 /\ m9' = TRUE))
  <2>1. Grace' + m1' <= Grace + m1 /\ {Grace', Grace} \subseteq Nat
    <3>1. {Grace', Grace} \subseteq Nat
      BY <1>2 DEF Grace, Longest
    <3>2. CASE m9' = m9 /\ m1' = m1
      BY <1>1, <3>1, <3>2 DEF Grace, Longest
    <3>3. CASE ~m9 /\ m9' = TRUE
      <4>1. Grace' = 0 /\ Grace = Longest + T
        BY <3>3 DEF Grace
      <4>2. QED
        BY <1>1, <1>2, <1>3, <3>1, <4>1
    <3>4. QED
      BY <1>6, <3>2, <3>3, <3>1
  <2>2. ASSUME m8 # Ro!None PROVE m8'.remaining_time > m1' + Phase' + Grace'
    <3>1. m8.remaining_time > m1 + Phase + Grace /\ m8.remaining_time \in Int
      BY <1>1, <2>2 DEF RouterInv
    <3>2. QED
      BY <1>1, <1>3, <1>4, <1>6, <2>1, <3>1
  <2>3. m9' \in BOOLEAN
    BY <1>1, <1>6
  <2>4. QED
    BY <1>1, <1>3, <1>6, <2>2, <2>3 DEF RouterInv, Ro!KeepsRoute, Longest
<1>7. CASE Ro!SolicitAll
  <2>1. Ro!advertise(Ro!lifetime) /\ router.HostDev \in DOMAIN m5'
    BY <1>1, <1>7 DEF Ro!SolicitAll
  <2>2. \/ Ro!Heard(Ro!lifetime) /\ m9' = FALSE
        \/ ~m9 /\ m8' = m8 /\ m9' = TRUE
    BY <2>1 DEF Ro!advertise, Ro!sendmcast
  <2>3. QED
    BY <1>5, <1>6, <2>2
<1>8. CASE Ro!SolicitHost
  <2>1. (Ro!Heard(Ro!lifetime) \/ m8' = m8) /\ m9' = m9 /\ m1' = m1
    BY <1>8 DEF Ro!SolicitHost
  <2>2. QED
    BY <1>1, <1>5, <1>6, <2>1
<1>9. QED
  BY <1>7, <1>8

\* Nobody expects a router that has been stopped to keep anything.
LEMMA FinishStep ==
  ASSUME Ro!RouterAssumption, RouterInv, Ro!Finish PROVE RouterInv' /\ Ro!KeepsRoute
<1>1. m6' = FALSE /\ m1' = m1 /\ m4' = m4 /\ m5' = m5 /\ m7' = m7
  BY DEF Ro!Finish
<1>2. m9' \in BOOLEAN /\ m8' \in {m8, Ro!None}
  <2>1. Ro!advertise(0)
    BY DEF Ro!Finish
  <2>2. Ro!Heard(0) => m8' = Ro!None
    BY DEF Ro!Heard
  <2>3. QED
    BY <2>1, <2>2 DEF Ro!advertise
<1>3. Ro!None \in [preference : {"none", "given", "junk"}, remaining_time : Int]
  BY DEF Ro!None
<1>4. QED
  BY <1>1, <1>2, <1>3 DEF RouterInv, Ro!KeepsRoute, Longest

LEMMA HostTickStep ==
  ASSUME Ro!RouterAssumption, RouterInv, Ro!HostTick \/ Ro!HostIdle PROVE RouterInv' /\ Ro!KeepsRoute
<1> DEFINE T == router.TIMER_INTERVAL
           R == [preference : {"none", "given", "junk"}, remaining_time : Int]
<1>1. /\ m6' = m6 /\ m1' = m1 /\ m4' = m4 /\ m5' = m5 /\ m9' = m9 /\ m8 \in R /\ m6 \in BOOLEAN
      /\ m1 \in 0 .. Longest /\ m7 \in -1 .. 1
  BY DEF Ro!HostTick, Ro!HostIdle, RouterInv
<1>2. T \in Nat \ {0} /\ Longest \in Nat
  BY RouterNumbers
<1>3. m7' \in -1 .. 1 /\ (m6 => m7 \in {0, 1} /\ m7' = m7 - 1)
  BY <1>1 DEF Ro!HostTick, Ro!HostIdle
<1>4. Ro!None \in R
  BY DEF Ro!None
<1>5. CASE Ro!HostIdle
  <2>1. m8' = m8 /\ m8 = Ro!None
    BY <1>5 DEF Ro!HostIdle
  <2>2. QED
    BY <1>1, <1>3, <2>1 DEF RouterInv, Ro!KeepsRoute, Longest
<1>6. CASE Ro!HostTick
  <2>1. m8 # Ro!None /\ m8' = IF m8.remaining_time <= T THEN Ro!None
                              ELSE [m8 EXCEPT !.remaining_time = @ - T]
    BY <1>6 DEF Ro!HostTick
  <2>2. m8' \in R
    BY <1>1, <1>2, <1>4, <2>1
  <2>3. ASSUME m6 PROVE m8'.remaining_time > m1' + Phase' + Grace' /\ m8' # Ro!None
    <3>1. m8.remaining_time > m1 + Phase + Grace /\ m8.remaining_time \in Int
      BY <1>1, <2>1, <2>3 DEF RouterInv
    <3>2. Grace' = Grace /\ Grace \in Nat
      BY <1>1, <1>2 DEF Grace, Longest
    <3>3. Phase' = Phase - T /\ Phase >= T /\ Phase \in Nat
      BY <1>2, <1>3, <2>3 DEF Phase
    <3>4. m8.remaining_time > T
      BY <1>1, <1>2, <3>1, <3>2, <3>3
    <3>5. m8' = [m8 EXCEPT !.remaining_time = @ - T] /\ m8'.remaining_time = m8.remaining_time - T
      BY <1>1, <1>2, <2>1, <3>1, <3>4
    <3>6. m8'.remaining_time > m1' + Phase' + Grace' /\ m8'.remaining_time # 0
      BY <1>1, <1>2, <3>1, <3>2, <3>3, <3>4, <3>5
    <3>7. QED
      BY <3>6 DEF Ro!None
  <2>4. QED
    BY <1>1, <1>3, <2>2, <2>3 DEF RouterInv, Ro!KeepsRoute, Longest
<1>7. QED
  BY <1>5, <1>6

LEMMA RouterStep ==
  ASSUME Ro!RouterAssumption, Lasting, RouterInv, Ro!Next \/ UNCHANGED memory PROVE RouterInv' /\ Ro!KeepsRoute
<1>1. CASE UNCHANGED memory
  BY <1>1 DEF memory, RouterInv, Phase, Grace, Longest, Ro!KeepsRoute
<1>2. CASE \E d \in router.Devices : Ro!DeviceChange(d)
  <2>1. PICK d : d # router.HostDev /\ m4' = (IF d \in m4 THEN m4 \ {d} ELSE m4 \cup {d})
                 /\ UNCHANGED <<m1, m5, m6, m7, m8, m9>>
    BY <1>2 DEF Ro!DeviceChange
  <2>2. router.HostDev \in m4'
    BY <2>1 DEF RouterInv
  <2>3. QED
    BY <2>1, <2>2 DEF RouterInv, Phase, Grace, Longest, Ro!KeepsRoute
<1>3. QED
  BY <1>1, <1>2, TickStep, SolicitStep, FinishStep, HostTickStep DEF Ro!Next

\* rdisc -r, timer() and lifetime: provided three maximal intervals are longer
\* than two of the longest the router makes and three ticks (with the 16 s of
\* the first advertisements and timers of 3 s: from -T 14 on), a host
\* keeps its route as long as the router runs, although every other
\* advertisement is lost, for every choice of the intervals and phases.
THEOREM RouteCorrect ==
  ASSUME Lasting PROVE ToolsSpec => RouteKept
<1> DEFINE Inv == part = "router" => RouterInv
<1>0. Ro!RouterAssumption
  BY ToolsAssumption
<1>1. ToolsInit => Inv
  BY <1>0, RouterInit DEF ToolsInit
<1>2. Inv /\ [ToolsNext]_toolVars => Inv' /\ [part = "router" => Ro!KeepsRoute]_toolVars
  <2> SUFFICES ASSUME Inv, [ToolsNext]_toolVars, part = "router"
               PROVE  RouterInv' /\ Ro!KeepsRoute
    BY RunsAlone
  <2>1. Ro!Next \/ UNCHANGED memory
    BY RunsAlone
  <2>2. QED
    BY <1>0, <2>1, RouterStep
<1>3. QED
  BY <1>1, <1>2, PTL DEF ToolsSpec, RouteKept

-----------------------------------------------------------------------------
(* clockdiff *)

\* The remainder of a number that is less than one day off.
LEMMA DayRemainder ==
  ASSUME NEW M \in Nat \ {0}, NEW x \in Int
  PROVE  /\ 0 <= x /\ x < M => x % M = x
         /\ M <= x /\ x < 2 * M => x % M = x - M
         /\ -M <= x /\ x < 0 => x % M = x + M
<1>1. \A q \in Int, r \in 0 .. M - 1 : x = M * q + r => x % M = r
  OBVIOUS
<1>2. 0 <= x /\ x < M => x % M = x
  OBVIOUS
<1>3. M <= x /\ x < 2 * M => x % M = x - M
  <2> SUFFICES ASSUME M <= x, x < 2 * M PROVE x % M = x - M
    OBVIOUS
  <2>1. x - M \in 0 .. M - 1 /\ x = M * 1 + (x - M) /\ 1 \in Int
    OBVIOUS
  <2>2. QED
    BY <1>1, <2>1
<1>4. -M <= x /\ x < 0 => x % M = x + M
  <2> SUFFICES ASSUME -M <= x, x < 0 PROVE x % M = x + M
    OBVIOUS
  <2>1. x + M \in 0 .. M - 1 /\ x = M * (-1) + (x + M) /\ -1 \in Int
    OBVIOUS
  <2>2. QED
    BY <1>1, <2>1
<1>5. QED
  BY <1>2, <1>3, <1>4

\* measure(): the differences of the stamps of an answer that did not cross
\* midnight, whatever the day of the remote clock.
LEMMA Differences ==
  ASSUME Cd!ClockAssumption,
         NEW s \in 0 .. clockdiff.MODULO - 1, NEW f \in clockdiff.Delays, NEW b \in clockdiff.Delays,
         NEW k \in clockdiff.Skews, ((s + (f + b)) % clockdiff.MODULO) - s >= 0
  PROVE  /\ (s + (f + b)) % clockdiff.MODULO = s + f + b
         /\ Cd!Wrap(((s + f + k) % clockdiff.MODULO) - s) = f + k
         /\ Cd!Wrap(((s + (f + b)) % clockdiff.MODULO) - ((s + f + k) % clockdiff.MODULO)) = b - k
         /\ f + b < clockdiff.MODULO /\ f \in Nat /\ b \in Nat /\ k \in Int
<1> DEFINE M == clockdiff.MODULO
           H == M \div 2
           r == (s + (f + b)) % M
           h == (s + f + k) % M
<1>1. M \in Nat /\ M % 2 = 0 /\ f \in Nat /\ b \in Nat /\ k \in Int
  BY DEF Cd!ClockAssumption
<1>2. H \in Int /\ M = 2 * H
  BY <1>1
<1>3. Cd!BIASP = H - 1 /\ Cd!BIASN = -H
  BY DEF Cd!BIASP, Cd!BIASN
<1>4. k + f <= H - 1 /\ f - k <= H - 1 /\ k + b <= H - 1 /\ b - k <= H - 1 /\ 2 * f < M /\ 2 * b < M
  BY <1>3 DEF Cd!ClockAssumption
<1> HIDE DEF H, M
<1>5. M \in Nat \ {0} /\ s \in 0 .. M - 1
  BY <1>1, <1>4 DEF M
<1>6. r = s + f + b
  <2>1. r - s >= 0
    BY DEF M
  <2>2. s + (f + b) \in Int /\ 0 <= s + (f + b) /\ s + (f + b) < 2 * M
    BY <1>1, <1>4, <1>5
  <2>3. CASE s + (f + b) < M
    <3> DEFINE x == s + (f + b)
    <3>1. x \in Int /\ 0 <= x /\ x < M /\ x = s + f + b
      BY <1>1, <1>5, <2>2, <2>3
    <3> HIDE DEF x
    <3>2. x % M = x
      BY <1>5, <3>1, DayRemainder
    <3>3. QED
      BY <3>1, <3>2 DEF x
  <2>4. CASE s + (f + b) >= M
    <3>1. r = (s + (f + b)) - M
      BY <1>5, <2>2, <2>4, DayRemainder
    <3>2. QED
      BY <1>1, <1>4, <1>5, <2>1, <3>1
  <2>5. QED
    BY <1>1, <1>5, <2>2, <2>3, <2>4
<1>7. h \in {s + f + k, (s + f + k) - M, (s + f + k) + M}
  <2>1. s + f + k \in Int /\ -M <= s + f + k /\ s + f + k < 2 * M
    BY <1>1, <1>2, <1>4, <1>5
  <2>2. ASSUME NEW x \in Int, -M <= x, x < 2 * M PROVE x % M = x \/ x % M = x - M \/ x % M = x + M
    <3>1. (0 <= x /\ x < M) \/ (M <= x /\ x < 2 * M) \/ (-M <= x /\ x < 0)
      BY <1>5, <2>2
    <3>2. QED
      BY <1>5, <2>2, <3>1, DayRemainder
  <2>3. (s + f + k) % M = s + f + k \/ (s + f + k) % M = (s + f + k) - M \/ (s + f + k) % M = (s + f + k) + M
    BY <2>1, <2>2
  <2>4. h = s + f + k \/ h = (s + f + k) - M \/ h = (s + f + k) + M
    BY <2>3
  <2>5. QED
    BY <2>4
<1>8. h \in Int /\ Cd!Wrap(h - s) = f + k
  <2> HIDE DEF h
  <2>1. h \in Int /\ h - s \in {f + k, f + k - M, f + k + M}
    BY <1>1, <1>5, <1>7
  <2>2. Cd!Wrap(h - s) = IF h - s < -H THEN (h - s) + M ELSE IF h - s > H - 1 THEN (h - s) - M ELSE h - s
    BY <1>3 DEF Cd!Wrap, M
  <2>3. QED
    BY <1>1, <1>2, <1>4, <1>5, <2>1, <2>2
<1>9. Cd!Wrap(r - h) = b - k
  <2> HIDE DEF h, r
  <2>1. r - h \in {b - k, b - k - M, b - k + M} /\ r - h \in Int
    BY <1>1, <1>5, <1>6, <1>7
  <2>2. Cd!Wrap(r - h) = IF r - h < -H THEN (r - h) + M ELSE IF r - h > H - 1 THEN (r - h) - M ELSE r - h
    BY <1>3 DEF Cd!Wrap, M
  <2>3. QED
    BY <1>1, <1>2, <1>4, <1>5, <2>1, <2>2
<1>10. f + b < M
  BY <1>1, <1>2, <1>4
<1>11. /\ (s + (f + b)) % clockdiff.MODULO = s + f + b
       /\ Cd!Wrap(((s + f + k) % clockdiff.MODULO) - s) = f + k
  BY <1>6, <1>8 DEF M
<1>12. Cd!Wrap(((s + (f + b)) % clockdiff.MODULO) - ((s + f + k) % clockdiff.MODULO)) = b - k
  BY <1>9 DEF M
<1>13. QED
  BY <1>1, <1>10, <1>11, <1>12 DEF M

\* Half a difference, as C divides.
LEMMA HalfNear ==
  ASSUME NEW a \in Int
  PROVE  Cd!Half(a) \in Int /\ 2 * Cd!Half(a) \in a - 1 .. a + 1
BY DEF Cd!Half

\* Half of the difference of two minima is near the skew.
LEMMA HalfOfMinima ==
  ASSUME NEW k \in Int, NEW a \in Int, NEW b \in Int, NEW t \in Int, NEW d \in Int,
         a - k >= 0, b + k >= 0, a + b <= t, 2 * d \in (a - b) - 1 .. (a - b) + 1
  PROVE  2 * d - 2 * k \in -(t + 1) .. (t + 1)
<1>1. 2 * d - 2 * k <= t + 1
  OBVIOUS
<1>2. -(t + 1) <= 2 * d - 2 * k
  OBVIOUS
<1>3. 2 * d - 2 * k \in Int /\ -(t + 1) \in Int /\ t + 1 \in Int
  OBVIOUS
<1>4. QED
  BY <1>1, <1>2, <1>3

\* What an answer to one of clockdiff's messages says.
Genuine(m) ==
  \E s \in 0 .. clockdiff.MODULO - 1, f, b \in clockdiff.Delays :
    m[2] = s /\ m[3] = (s + f + m2) % clockdiff.MODULO /\ m[4] = f + b

\* Some answer has been counted: both minima are those of one way each, and
\* together no more than the quickest round trip.
Measured ==
  /\ m7 \in Int /\ m8 \in Int /\ m9 \in Int /\ m11 \in Int
  /\ m7 - m2 >= 0 /\ m8 + m2 >= 0 /\ m7 + m8 <= m9
  /\ 2 * m11 - 2 * m2 \in -(m9 + 1) .. (m9 + 1)
  /\ pc # "exit" => m9 >= clockdiff.RANGE

ClockInv ==
  /\ m2 \in clockdiff.Skews /\ m3 \in 0 .. clockdiff.MODULO - 1 /\ m6 \in Nat
  /\ \A m \in m12 : Genuine(m)
  /\ IF m6 = 0 THEN m7 = Cd!Infinity /\ m8 = Cd!Infinity /\ m9 = Cd!Infinity ELSE Measured
  /\ m14 = "good" => pc = "exit"
  /\ Cd!Accurate

LEMMA ClockNumbers ==
  ASSUME Cd!ClockAssumption
  PROVE  /\ clockdiff.MODULO \in Nat \ {0} /\ clockdiff.RANGE \in Nat /\ clockdiff.MSGS \in Nat \ {0}
         /\ clockdiff.Skews \subseteq Int /\ clockdiff.Delays \subseteq Nat /\ Cd!Infinity = 4 * clockdiff.MODULO
         /\ \A x \in Int : x % clockdiff.MODULO \in 0 .. clockdiff.MODULO - 1
<1>1. clockdiff.MODULO \in Nat \ {0}
  BY DEF Cd!ClockAssumption
<1>2. \A x \in Int, M \in Nat \ {0} : x % M \in 0 .. M - 1
  OBVIOUS
<1>3. \A x \in Int : x % clockdiff.MODULO \in 0 .. clockdiff.MODULO - 1
  BY <1>1, <1>2
<1>4. QED
  BY <1>1, <1>3 DEF Cd!ClockAssumption, Cd!Infinity

LEMMA ClockInit ==
  ASSUME Cd!ClockAssumption, Cd!Init PROVE ClockInv
<1>1. m2 \in clockdiff.Skews /\ m3 \in {0, clockdiff.MODULO - 1} /\ m6 = 0 /\ m12 = {} /\ m14 = ""
      /\ m7 = Cd!Infinity /\ m8 = Cd!Infinity /\ m9 = Cd!Infinity
  BY DEF Cd!Init
<1>2. m3 \in 0 .. clockdiff.MODULO - 1
  <2>1. \A M \in Nat \ {0} : 0 \in 0 .. M - 1 /\ M - 1 \in 0 .. M - 1
    OBVIOUS
  <2>2. QED
    BY <1>1, <2>1, ClockNumbers
<1>3. QED
  BY <1>1, <1>2 DEF ClockInv, Cd!Accurate

\* Steps that take no answer and compute nothing.
LEMMA ClockStutter ==
  ASSUME ClockInv, UNCHANGED <<m2, m3, m6, m7, m8, m9, m10, m11>>,
         \A m \in m12' : m \in m12, pc' # "exit" => pc # "exit", (m14' = m14 /\ pc' = pc) \/ m14' # "good"
  PROVE  ClockInv'
<1>1. \A m \in m12' : Genuine(m)'
  BY DEF ClockInv, Genuine
<1>2. IF m6' = 0 THEN m7' = Cd!Infinity' /\ m8' = Cd!Infinity' /\ m9' = Cd!Infinity' ELSE Measured'
  BY DEF ClockInv, Measured, Cd!Infinity
<1>3. Cd!Accurate' /\ (m14' = "good" => pc' = "exit")
  BY DEF ClockInv, Cd!Accurate
<1>4. QED
  BY <1>1, <1>2, <1>3 DEF ClockInv

LEMMA SendStepClock ==
  ASSUME Cd!ClockAssumption, ClockInv, Cd!Send PROVE ClockInv'
<1>1. UNCHANGED <<m2, m3, m6, m7, m8, m9, m11>> /\ pc = "send" /\ m14 # "good"
  BY DEF Cd!Send, ClockInv
<1>2. CASE m6 >= clockdiff.MSGS
  <2>1. pc' = "exit" /\ m14' = "good" /\ m10' = Cd!Half(m7 - m8) /\ m12' = m12
    BY <1>2 DEF Cd!Send, Cd!End
  <2>2. m6 # 0 /\ Measured
    BY <1>2, ClockNumbers DEF ClockInv
  <2>3. m2 \in Int /\ m7 - m8 \in Int
    BY <2>2, ClockNumbers DEF ClockInv, Measured
  <2>4. m10' \in Int /\ 2 * m10' \in (m7 - m8) - 1 .. (m7 - m8) + 1
    BY <2>1, <2>3, HalfNear
  <2>5. 2 * m10' - 2 * m2 \in -(m9 + 1) .. (m9 + 1)
    <3>1. m7 \in Int /\ m8 \in Int /\ m9 \in Int /\ m7 - m2 >= 0 /\ m8 + m2 >= 0 /\ m7 + m8 <= m9
      BY <2>2 DEF Measured
    <3>2. QED
      BY <2>3, <2>4, <3>1, HalfOfMinima
  <2>6. Cd!Accurate'
    BY <1>1, <2>2, <2>5 DEF Measured, Cd!Accurate
  <2>7. Measured' /\ \A m \in m12' : Genuine(m)'
    BY <1>1, <2>1, <2>2 DEF ClockInv, Genuine, Measured
  <2>8. QED
    BY <1>1, <2>1, <2>2, <2>6, <2>7 DEF ClockInv
<1>3. CASE m6 < clockdiff.MSGS
  <2>0. ~(m6 >= clockdiff.MSGS)
    BY <1>3, ClockNumbers DEF ClockInv
  <2>1. m10' = m10 /\ m14' # "good"
    BY <1>1, <2>0 DEF Cd!Send, Cd!End
  <2>2. \A m \in m12' : m \in m12 \/ Genuine(m)
    <3>1. m12' = m12 \/ \E f, b \in clockdiff.Delays : m12' = m12 \cup {Cd!Stamps(f, b)}
      BY <2>0 DEF Cd!Send, Cd!End
    <3>2. ASSUME NEW f \in clockdiff.Delays, NEW b \in clockdiff.Delays PROVE Genuine(Cd!Stamps(f, b))
      BY DEF Genuine, ClockInv, Cd!Stamps
    <3>3. QED
      BY <3>1, <3>2
  <2>3. \A m \in m12' : Genuine(m)'
    BY <1>1, <2>2 DEF ClockInv, Genuine
  <2>4. IF m6' = 0 THEN m7' = Cd!Infinity' /\ m8' = Cd!Infinity' /\ m9' = Cd!Infinity' ELSE Measured'
    BY <1>1 DEF ClockInv, Measured, Cd!Infinity
  <2>5. Cd!Accurate'
    BY <2>1 DEF Cd!Accurate
  <2>6. QED
    BY <1>1, <2>1, <2>3, <2>4, <2>5 DEF ClockInv
<1>4. QED
  BY <1>2, <1>3, ClockNumbers DEF ClockInv

LEMMA CountedStep ==
  ASSUME Cd!ClockAssumption, ClockInv, pc = "wait", m2' = m2,
         NEW s \in 0 .. clockdiff.MODULO - 1, NEW f \in clockdiff.Delays, NEW b \in clockdiff.Delays,
         ((s + (f + b)) % clockdiff.MODULO) - s >= 0,
         Cd!Counted(s, (s + f + m2) % clockdiff.MODULO, (s + (f + b)) % clockdiff.MODULO,
                    ((s + (f + b)) % clockdiff.MODULO) - s)
  PROVE  /\ m6' \in Nat /\ m6' # 0 /\ Measured' /\ Cd!Accurate' /\ (m14' = "good" => pc' = "exit")
<1> DEFINE M == clockdiff.MODULO
           r == (s + (f + b)) % M
           h == (s + f + m2) % M
           d1 == f + m2
           d2 == b - m2
           quick == f + b < clockdiff.RANGE
<1>1. m2 \in clockdiff.Skews /\ m2 \in Int /\ m6 \in Nat /\ m14 # "good"
  BY ClockNumbers DEF ClockInv
<1>2. /\ r = s + f + b /\ Cd!Wrap(h - s) = d1 /\ Cd!Wrap(r - h) = d2
      /\ f + b < M /\ f \in Nat /\ b \in Nat
  BY <1>1, Differences
<1>3. r - s = f + b
  BY <1>2
<1>4. /\ m7' = (IF quick THEN d1 ELSE Cd!Least(m7, d1)) /\ m8' = (IF quick THEN d2 ELSE Cd!Least(m8, d2))
      /\ m6' = m6 + 1
      /\ IF d1 + d2 < m9 THEN m9' = d1 + d2 /\ m11' = Cd!Half(d1 - d2) ELSE m9' = m9 /\ m11' = m11
      /\ IF quick THEN pc' = "exit" /\ m14' = "good" /\ m10' = Cd!Half(m7' - m8')
                  ELSE pc' = pc /\ m14' = m14 /\ m10' = m10
  <2> HIDE DEF h, r
  <2>1. Cd!Counted(s, h, r, f + b)
    BY <1>3 DEF h, r
  <2>2. QED
    BY <1>2, <2>1 DEF Cd!Counted, Cd!End
<1>5. d1 + d2 = f + b /\ d1 \in Int /\ d2 \in Int /\ d1 - d2 \in Int /\ d1 - d2 = f - b + 2 * m2
  BY <1>1, <1>2
<1>6. Cd!Half(d1 - d2) \in Int /\ 2 * Cd!Half(d1 - d2) - 2 * m2 \in -(f + b + 1) .. (f + b + 1)
  <2>1. Cd!Half(d1 - d2) \in Int /\ 2 * Cd!Half(d1 - d2) \in (d1 - d2) - 1 .. (d1 - d2) + 1
    BY <1>5, HalfNear
  <2>2. QED
    BY <1>1, <1>2, <1>5, <2>1
<1>7. d1 < 4 * M /\ d2 < 4 * M /\ f + b < 4 * M
  <2>1. /\ m2 + f <= Cd!BIASP /\ b - m2 <= Cd!BIASP
    BY <1>1 DEF Cd!ClockAssumption
  <2>2. Cd!BIASP < M /\ M \in Nat \ {0} /\ Cd!BIASP \in Int
    BY ClockNumbers DEF Cd!BIASP
  <2> HIDE DEF M
  <2>3. QED
    BY <1>1, <1>2, <2>1, <2>2
<1>8. clockdiff.RANGE \in Nat /\ M \in Nat \ {0} /\ Cd!Infinity = 4 * M
  BY ClockNumbers
<1> HIDE DEF M, r, h
<1>9. m6 = 0 => m7 = 4 * M /\ m8 = 4 * M /\ m9 = 4 * M
  BY <1>8 DEF ClockInv
<1>10. m6 # 0 => /\ m7 \in Int /\ m8 \in Int /\ m9 \in Int /\ m11 \in Int /\ m7 - m2 >= 0 /\ m8 + m2 >= 0
                 /\ m7 + m8 <= m9 /\ 2 * m11 - 2 * m2 \in -(m9 + 1) .. (m9 + 1) /\ m9 >= clockdiff.RANGE
  BY DEF ClockInv, Measured
<1> HIDE DEF d1, d2
<1>11. m9' \in Int /\ m11' \in Int /\ 2 * m11' - 2 * m2 \in -(m9' + 1) .. (m9' + 1)
  <2>1. CASE m6 = 0
    BY <1>2, <1>4, <1>5, <1>6, <1>7, <1>9, <2>1
  <2>2. CASE m6 # 0
    BY <1>2, <1>4, <1>5, <1>6, <1>10, <2>2
  <2>3. QED
    BY <2>1, <2>2
<1>12. m7' \in Int /\ m8' \in Int /\ m7' - m2 >= 0 /\ m8' + m2 >= 0 /\ m7' + m8' <= m9'
  <2>1. d1 - m2 >= 0 /\ d2 + m2 >= 0
    BY <1>1, <1>2 DEF d1, d2
  <2>2. CASE m6 = 0
    BY <1>1, <1>2, <1>4, <1>5, <1>7, <1>8, <1>9, <2>1, <2>2 DEF Cd!Least
  <2>3. CASE m6 # 0
    BY <1>1, <1>2, <1>4, <1>5, <1>8, <1>10, <2>1, <2>3 DEF Cd!Least
  <2>4. QED
    BY <2>2, <2>3
<1>13. ~quick => m9' >= clockdiff.RANGE
  BY <1>2, <1>4, <1>5, <1>7, <1>8, <1>9, <1>10
<1>14. Measured'
  BY <1>4, <1>11, <1>12, <1>13 DEF Measured
<1>15. Cd!Accurate'
  <2> SUFFICES ASSUME quick PROVE Cd!Accurate'
    BY <1>1, <1>4 DEF Cd!Accurate
  <2>1. m10' = Cd!Half(m7' - m8') /\ m7' - m8' \in Int
    BY <1>4, <1>12
  <2>2. m10' \in Int /\ 2 * m10' \in (m7' - m8') - 1 .. (m7' - m8') + 1
    BY <2>1, HalfNear
  <2>3. 2 * m10' - 2 * m2 \in -(m9' + 1) .. (m9' + 1)
    BY <1>1, <1>11, <1>12, <2>2, HalfOfMinima
  <2>4. QED
    BY <1>11, <2>3 DEF Cd!Accurate
<1>16. QED
  BY <1>1, <1>4, <1>14, <1>15

LEMMA AnswerStep ==
  ASSUME Cd!ClockAssumption, ClockInv, NEW m \in m12, NEW again \in BOOLEAN, Cd!Answer(m, again) PROVE ClockInv'
<1>1. PICK s \in 0 .. clockdiff.MODULO - 1, f \in clockdiff.Delays, b \in clockdiff.Delays :
        m[2] = s /\ m[3] = (s + f + m2) % clockdiff.MODULO /\ m[4] = f + b
  BY DEF ClockInv, Genuine
<1> DEFINE r == (s + (f + b)) % clockdiff.MODULO
<1>2. pc = "wait" /\ m2' = m2 /\ m3' = r /\ m14 # "good" /\ m6 \in Nat /\ \A x \in m12' : x \in m12
  BY <1>1 DEF Cd!Answer, ClockInv
<1>3. m3' \in 0 .. clockdiff.MODULO - 1
  <2>1. s + (f + b) \in Int
    BY ClockNumbers
  <2>2. QED
    BY <1>2, <2>1, ClockNumbers
<1>4. \A x \in m12' : Genuine(x)'
  BY <1>2 DEF ClockInv, Genuine
<1>5. CASE UNCHANGED <<m6, m7, m8, m9, m10, m11>> /\ m14' # "good" /\ (pc' # "exit" => pc # "exit")
  <2>1. IF m6' = 0 THEN m7' = Cd!Infinity' /\ m8' = Cd!Infinity' /\ m9' = Cd!Infinity' ELSE Measured'
    BY <1>2, <1>5 DEF ClockInv, Measured, Cd!Infinity
  <2>2. Cd!Accurate'
    BY <1>5 DEF Cd!Accurate
  <2>3. QED
    BY <1>2, <1>3, <1>4, <1>5, <2>1, <2>2 DEF ClockInv
<1>6. CASE r - s >= 0 /\ Cd!Counted(s, (s + f + m2) % clockdiff.MODULO, r, r - s)
  <2>1. m6' \in Nat /\ m6' # 0 /\ Measured' /\ Cd!Accurate' /\ (m14' = "good" => pc' = "exit")
    BY <1>2, <1>6, CountedStep
  <2>2. QED
    BY <1>2, <1>3, <1>4, <2>1 DEF ClockInv
<1>7. QED
  BY <1>1, <1>2, <1>5, <1>6 DEF Cd!Answer, Cd!WrongTimes, Cd!NonStandard, Cd!End, Cd!results

LEMMA ClockStep ==
  ASSUME Cd!ClockAssumption, ClockInv, Cd!Next \/ UNCHANGED <<pc, memory>> PROVE ClockInv'
<1>1. CASE Cd!Setup \/ Cd!Empty \/ Cd!Timeout \/ Cd!Foreign \/ UNCHANGED <<pc, memory>>
  <2>1. /\ UNCHANGED <<m2, m3, m6, m7, m8, m9, m10, m11>> /\ \A m \in m12' : m \in m12
        /\ pc' # "exit" => pc # "exit"
        /\ (m14' = m14 /\ pc' = pc) \/ m14' # "good"
    BY <1>1 DEF Cd!Setup, Cd!Empty, Cd!Timeout, Cd!Foreign, Cd!End, Cd!results, memory, ClockInv
  <2>2. QED
    BY <2>1, ClockStutter
<1>2. QED
  BY <1>1, SendStepClock, AnswerStep DEF Cd!Next

\* clockdiff, measure(): the difference printed is that of the clocks to within
\* half the quickest round trip, for every length of a day, every skew and
\* delay that add up to less than half a day, and any losses, doubles and
\* late answers.
THEOREM AccurateCorrect == ToolsSpec => []Accurate
<1> DEFINE Inv == part = "clockdiff" => ClockInv
<1>0. Cd!ClockAssumption
  BY ToolsAssumption
<1>1. ToolsInit => Inv
  BY <1>0, ClockInit DEF ToolsInit
<1>2. Inv /\ [ToolsNext]_toolVars => Inv'
  BY <1>0, RunsAlone, ClockStep
<1>3. Inv => Accurate
  BY DEF ClockInv, Accurate
<1>4. QED
  BY <1>1, <1>2, <1>3, PTL DEF ToolsSpec
-----------------------------------------------------------------------------
(* ping: main() to setup() *)

\* The steps after the checks of ping4_run() and ping6_run(), and after setup().
AfterCheck == {"setup", "mark", "ready", "loop"}
AfterSetup == {"mark", "ready", "loop"}

\* The values of the options, and what has been required of them so far.
Limits ==
  /\ m5.interval \in Nat /\ m5.preload \in 1 .. setup.MAX_DUP_CHK
  /\ m5 = [interval |-> m5.interval, preload |-> m5.preload, pmtudisc |-> m5.pmtudisc, mark |-> m5.mark,
           device |-> m5.device, source |-> m5.source]
  /\ m1 # 0 => m5.preload <= 3
  /\ pc \in AfterCheck /\ m1 # 0 /\ Ps!ManyAnswer => m5.interval >= 1000 /\ m5.pmtudisc = "do"
  /\ pc \in AfterSetup => (m1 # 0 => m5.interval >= setup.MINUSERINTERVAL) /\ m5.interval * m5.preload <= setup.INT_MAX

\* The capabilities that are raised.
Raised ==
  /\ m3 \subseteq m2
  /\ pc \in {"socket4", "socket6", "family", "bound4", "bound6"} => m3 \subseteq {"raw"}
  /\ pc = "mark" => m3 \subseteq {"admin"}
  /\ pc \notin {"socket4", "socket6", "family", "bound4", "bound6", "mark", "exit"} => m3 = {}

\* The sockets there must be.
Opened ==
  /\ m10 \in {"unspec", "4", "6"} /\ {m12, m13} \subseteq {"closed", "dgram", "raw"} /\ m14 \in Ps!Targets
  /\ m11 \in {"dgram", "raw"}
  /\ pc \in {"options", "socket4"} => m12 = "closed" /\ m13 = "closed"
  /\ pc = "socket6" => m13 = "closed" /\ (m10 = "4" => m12 # "closed") /\ (m10 = "6" => m12 = "closed")
  /\ pc = "family" => (m10 = "4" => m12 # "closed") /\ (m10 = "6" => m13 # "closed") /\ (m12 # "closed" \/ m13 # "closed")
  /\ pc = "resolve" => (m10 # "6" => m12 # "closed") /\ (m10 # "4" => m13 # "closed")
  /\ pc \in {"bind4", "bound4", "check4"} => m14.v = 4 /\ m12 # "closed"
  /\ pc \in {"bind6", "bound6", "check6"} => m14.v = 6 /\ m13 # "closed"
  /\ pc \in AfterCheck => (IF m14.v = 4 THEN m12 ELSE m13) # "closed"

\* The node information query: the flags are those of the query, and a subject
\* that is there has its type.
Asked ==
  /\ \A f \in m7 : f \in Ps!NiFlags /\ Ps!NiQtype[f] = m6
  /\ m8 \in {"null"} \cup Ps!NiSubjects /\ (m8 # "null" => m9 = m8)
  /\ (pc \in {"bound6", "check6"} \cup AfterCheck /\ m14.v = 6 /\ Ps!niquery_is_enabled) => m8 = m9

SetupInv ==
  /\ pc \in {"options", "socket4", "socket6", "family", "resolve", "bind4", "bound4", "check4",
             "bind6", "bound6", "check6", "exit"} \cup AfterCheck
  /\ Limits /\ Raised /\ Opened /\ Asked

\* setup(): an interval below INT_MAX / preload.
LEMMA NoOverflow ==
  ASSUME NEW a \in Nat, NEW i \in Nat, NEW p \in Nat \ {0}, ~(i >= a \div p)
  PROVE  i * p <= a
<1> DEFINE q == a \div p
<1>1. q \in Int /\ p * q <= a
  OBVIOUS
<1>2. i <= q
  BY <1>1
<1> HIDE DEF q
<1>3. i * p <= q * p
  BY <1>1, <1>2
<1>4. q * p = p * q
  BY <1>1
<1>5. QED
  BY <1>1, <1>3, <1>4

LEMMA SetupInit ==
  ASSUME Ps!SetupAssumption, Ps!Init PROVE SetupInv
<1>1. Limits
  BY DEF Ps!SetupAssumption, Ps!Init, Limits, Ps!Defaults, AfterCheck, AfterSetup
<1>2. Raised /\ Opened /\ Asked
  BY DEF Ps!Init, Raised, Opened, Asked, Ps!Targets, AfterCheck, AfterSetup, Ps!NiSubjects
<1>3. QED
  BY <1>1, <1>2 DEF SetupInv, Ps!Init

\* ping ends.
LEMMA SetupExit ==
  ASSUME SetupInv, pc' = "exit", UNCHANGED <<m1, m2, m4, m5, m6, m7, m8, m9, m10, m11, m14>>, m3' \subseteq m2,
         {m12', m13'} \subseteq {"closed", "dgram", "raw"}
  PROVE  SetupInv'
<1>1. Limits'
  BY DEF SetupInv, Limits, AfterCheck, AfterSetup
<1>2. Raised'
  BY DEF SetupInv, Raised, AfterCheck, AfterSetup
<1>3. Opened'
  BY DEF SetupInv, Opened, AfterCheck, AfterSetup, Ps!Targets
<1>4. Asked'
  BY DEF SetupInv, Asked, AfterCheck, AfterSetup, Ps!NiFlags, Ps!NiQtype, Ps!NiSubjects
<1>5. QED
  BY <1>1, <1>2, <1>3, <1>4 DEF SetupInv

LEMMA ExitStep ==
  ASSUME SetupInv, Ps!Exit PROVE SetupInv'
<1>1. m3 \subseteq m2 /\ {m12, m13} \subseteq {"closed", "dgram", "raw"}
  BY DEF SetupInv, Raised, Opened
<1>2. QED
  BY <1>1, SetupExit DEF Ps!Exit, Ps!capVars, Ps!niVars, Ps!sockVars

\* main(): an option.
LEMMA OptionStep ==
  ASSUME SetupInv, pc = "options", pc' = "options", UNCHANGED <<m1, m2, m3, m12, m13, m14>>,
         m5'.interval \in Nat, m5'.preload \in 1 .. setup.MAX_DUP_CHK, m1 # 0 => m5'.preload <= 3,
         m5' = [interval |-> m5'.interval, preload |-> m5'.preload, pmtudisc |-> m5'.pmtudisc, mark |-> m5'.mark,
                device |-> m5'.device, source |-> m5'.source],
         m10' \in {"unspec", "4", "6"}, m11' \in {"dgram", "raw"},
         \A f \in m7' : f \in Ps!NiFlags /\ Ps!NiQtype[f] = m6', m8' \in {"null"} \cup Ps!NiSubjects, m8' # "null" => m9' = m8'
  PROVE  SetupInv'
<1>1. Limits'
  BY DEF Limits, AfterCheck, AfterSetup
<1>2. Raised' /\ Opened'
  BY DEF SetupInv, Raised, Opened, AfterCheck, AfterSetup, Ps!Targets
<1>3. Asked'
  BY DEF Asked, AfterCheck, Ps!NiFlags, Ps!NiQtype, Ps!NiSubjects
<1>4. QED
  BY <1>1, <1>2, <1>3 DEF SetupInv

\* What main() does to the values of the options.
LEMMA ValueStep ==
  ASSUME Ps!SetupAssumption, SetupInv,
         \/ \E f \in {"4", "6"} : Ps!OptFamily(f) \/ Ps!OptFamilyTwice(f)
         \/ \E i \in setup.Intervals : Ps!OptInterval(i)
         \/ \E n \in setup.Preloads : Ps!OptPreload(n)
         \/ \E ch \in {"f", "b"} : Ps!OptFlag(ch)
         \/ \E v \in setup.Pmtu : Ps!OptValue("M", v)
         \/ \E v \in {"device", "address"} : Ps!OptValue("I", v)
         \/ Ps!OptValue("m", "mark")
  PROVE  SetupInv'
<1>0. /\ m5.interval \in Nat /\ m5.preload \in 1 .. setup.MAX_DUP_CHK /\ (m1 # 0 => m5.preload <= 3)
      /\ m5 = [interval |-> m5.interval, preload |-> m5.preload, pmtudisc |-> m5.pmtudisc, mark |-> m5.mark,
               device |-> m5.device, source |-> m5.source]
      /\ m10 \in {"unspec", "4", "6"} /\ m11 \in {"dgram", "raw"}
      /\ \A f \in m7 : f \in Ps!NiFlags /\ Ps!NiQtype[f] = m6
      /\ m8 \in {"null"} \cup Ps!NiSubjects /\ (m8 # "null" => m9 = m8)
  BY DEF SetupInv, Limits, Opened, Asked
<1>1. ASSUME NEW f \in {"4", "6"}, Ps!OptFamily(f) PROVE SetupInv'
  <2>1. /\ pc = "options" /\ pc' = "options" /\ UNCHANGED <<m1, m2, m3, m5, m6, m7, m8, m9, m11, m12, m13, m14>>
        /\ m10' = f
    BY <1>1 DEF Ps!OptFamily, Ps!Option, Ps!capVars, Ps!niVars
  <2>2. QED
    BY <1>0, <2>1, OptionStep
<1>2. ASSUME NEW f \in {"4", "6"}, Ps!OptFamilyTwice(f) PROVE SetupInv'
  BY <1>2, ExitStep DEF Ps!OptFamilyTwice
<1>3. ASSUME NEW i \in setup.Intervals, Ps!OptInterval(i) PROVE SetupInv'
  <2>1. /\ pc = "options" /\ pc' = "options" /\ UNCHANGED <<m1, m2, m3, m6, m7, m8, m9, m10, m11, m12, m13, m14>>
        /\ m5' = [m5 EXCEPT !.interval = i]
    BY <1>3 DEF Ps!OptInterval, Ps!Option, Ps!capVars, Ps!niVars, Ps!sockVars
  <2>2. i \in Nat
    BY DEF Ps!SetupAssumption
  <2>3. QED
    BY <1>0, <2>1, <2>2, OptionStep
<1>4. ASSUME NEW n \in setup.Preloads, Ps!OptPreload(n) PROVE SetupInv'
  <2> DEFINE p == IF n > setup.MAX_DUP_CHK THEN setup.MAX_DUP_CHK ELSE n
  <2>1. n \in Int /\ setup.MAX_DUP_CHK \in Nat \ {0}
    BY DEF Ps!SetupAssumption
  <2>2. CASE n <= 0 \/ (m1 # 0 /\ p > 3)
    BY <1>4, <2>2, ExitStep DEF Ps!OptPreload
  <2>3. CASE ~(n <= 0 \/ (m1 # 0 /\ p > 3))
    <3>1. /\ pc = "options" /\ pc' = "options" /\ UNCHANGED <<m1, m2, m3, m6, m7, m8, m9, m10, m11, m12, m13, m14>>
          /\ m5' = [m5 EXCEPT !.preload = p]
      BY <1>4, <2>3 DEF Ps!OptPreload, Ps!Option, Ps!capVars, Ps!niVars, Ps!sockVars
    <3>2. p \in 1 .. setup.MAX_DUP_CHK /\ (m1 # 0 => p <= 3)
      BY <2>1, <2>3
    <3> HIDE DEF p
    <3>3. QED
      BY <1>0, <3>1, <3>2, OptionStep
  <2>4. QED
    BY <2>2, <2>3
<1>5. ASSUME NEW ch \in {"f", "b"}, Ps!OptFlag(ch) PROVE SetupInv'
  <2>1. /\ pc = "options" /\ pc' = "options" /\ UNCHANGED <<m1, m2, m3, m5, m6, m7, m8, m9, m10, m11, m12, m13, m14>>
    BY <1>5 DEF Ps!OptFlag, Ps!Option, Ps!capVars, Ps!niVars, Ps!sockVars
  <2>2. QED
    BY <1>0, <2>1, OptionStep
<1>6. ASSUME NEW ch \in {"M", "I", "m"}, NEW v, Ps!OptValue(ch, v) PROVE SetupInv'
  <2>1. /\ pc = "options" /\ pc' = "options" /\ UNCHANGED <<m1, m2, m3, m6, m7, m8, m9, m10, m11, m12, m13, m14>>
        /\ \/ m5' = [m5 EXCEPT !.pmtudisc = v] \/ m5' = [m5 EXCEPT !.mark = TRUE]
           \/ m5' = [m5 EXCEPT !.device = TRUE] \/ m5' = [m5 EXCEPT !.source = TRUE]
    BY <1>6 DEF Ps!OptValue, Ps!Option, Ps!capVars, Ps!niVars, Ps!sockVars
  <2>2. QED
    BY <1>0, <2>1, OptionStep
<1>7. QED
  BY <1>1, <1>2, <1>3, <1>4, <1>5, <1>6

\* niquery_option_handler()
LEMMA NodeInfoStep ==
  ASSUME SetupInv, NEW opt \in Ps!NiSubjects \cup DOMAIN Ps!NiQtype, Ps!OptNodeInfo(opt)
  PROVE  SetupInv'
<1>0. /\ m5.interval \in Nat /\ m5.preload \in 1 .. setup.MAX_DUP_CHK /\ (m1 # 0 => m5.preload <= 3)
      /\ m5 = [interval |-> m5.interval, preload |-> m5.preload, pmtudisc |-> m5.pmtudisc, mark |-> m5.mark,
               device |-> m5.device, source |-> m5.source]
      /\ m10 \in {"unspec", "4", "6"} /\ m11 \in {"dgram", "raw"}
      /\ \A f \in m7 : f \in Ps!NiFlags /\ Ps!NiQtype[f] = m6
      /\ m8 \in {"null"} \cup Ps!NiSubjects /\ (m8 # "null" => m9 = m8)
  BY DEF SetupInv, Limits, Opened, Asked
<1>1. CASE Ps!Conflict(opt)
  BY <1>1, ExitStep DEF Ps!OptNodeInfo
<1>2. CASE Ps!Fails("resolve")
  BY <1>2, ExitStep DEF Ps!Fails
<1>3. CASE ~Ps!Conflict(opt) /\ Ps!Option(opt) /\ Ps!NiOption(opt) /\ m11' = "raw" /\ UNCHANGED <<m5, m10, m12, m13>>
  <2>1. pc = "options" /\ pc' = "options" /\ UNCHANGED <<m1, m2, m3, m14>>
    BY <1>3 DEF Ps!Option, Ps!capVars
  <2>2. CASE opt \in Ps!NiSubjects
    <3>1. m9' = opt /\ (m8' = opt \/ m8' = m8) /\ m6' = m6 /\ m7' = m7
      BY <1>3, <2>2 DEF Ps!NiOption, Ps!SetSubject, Ps!SubjectName, Ps!SubjectAddr
    <3>2. m8 # "null" => m9 = opt
      BY <1>0, <1>3, <2>2 DEF Ps!Conflict, Ps!niquery_is_subject_valid, Ps!NiSubjects
    <3>3. m8' \in {"null"} \cup Ps!NiSubjects /\ (m8' # "null" => m9' = m8')
      BY <1>0, <2>2, <3>1, <3>2
    <3>4. QED
      BY <1>0, <1>3, <2>1, <3>1, <3>3, OptionStep
  <2>3. CASE opt \notin Ps!NiSubjects
    <3>1. /\ m6' = Ps!NiQtype[opt] /\ m7' = (IF opt \in Ps!NiFlags THEN m7 \cup {opt} ELSE m7)
          /\ m8' = m8 /\ m9' = m9
      BY <1>3, <2>3 DEF Ps!NiOption, Ps!SetQuery
    <3>2. m6 = "none" \/ m6 = m6'
      BY <1>3, <2>3, <3>1 DEF Ps!Conflict
    <3>3. \A f \in m7' : f \in Ps!NiFlags /\ Ps!NiQtype[f] = m6'
      <4>1. \A f \in Ps!NiFlags : Ps!NiQtype[f] # "none"
        BY DEF Ps!NiFlags, Ps!NiQtype
      <4>2. QED
        BY <1>0, <3>1, <3>2, <4>1
    <3>4. QED
      BY <1>0, <1>3, <2>1, <3>1, <3>3, OptionStep
  <2>4. QED
    BY <2>2, <2>3
<1>4. QED
  BY <1>1, <1>2, <1>3 DEF Ps!OptNodeInfo

\* create_socket() and the steps to getaddrinfo().
LEMMA SocketStep ==
  ASSUME SetupInv, Ps!OptionsEnd \/ Ps!Socket4 \/ Ps!Socket6 \/ Ps!LimitFamily \/ Ps!Resolve
  PROVE  SetupInv'
<1>1. CASE Ps!OptionsEnd \/ Ps!LimitFamily
  <2>1. /\ UNCHANGED <<m1, m2, m4, m5, m6, m7, m8, m9, m11, m12, m13, m14>> /\ m3' \subseteq m2
        /\ \/ pc = "options" /\ pc' = "socket4" /\ m10' = m10 /\ m3' = m3 \cup ({"raw"} \cap m2)
           \/ /\ pc = "family" /\ pc' = "resolve" /\ m3' = m3 \ {"raw"}
              /\ m10' = IF m10 # "unspec" THEN m10 ELSE IF m12 = "closed" THEN "6" ELSE IF m13 = "closed" THEN "4" ELSE m10
    BY <1>1 DEF Ps!OptionsEnd, Ps!LimitFamily, Ps!enable_capability, Ps!disable_capability, Ps!niVars, Ps!sockVars,
                SetupInv, Raised
  <2>2. Limits'
    BY <2>1 DEF SetupInv, Limits, AfterCheck, AfterSetup
  <2>3. Raised'
    BY <2>1 DEF SetupInv, Raised, AfterCheck, AfterSetup
  <2>4. Opened'
    BY <2>1 DEF SetupInv, Opened, AfterCheck, AfterSetup, Ps!Targets
  <2>5. Asked'
    BY <2>1 DEF SetupInv, Asked, AfterCheck, Ps!NiFlags, Ps!NiQtype, Ps!NiSubjects
  <2>6. QED
    BY <2>1, <2>2, <2>3, <2>4, <2>5 DEF SetupInv
<1>2. CASE Ps!Socket4 \/ Ps!Socket6
  <2>1. /\ UNCHANGED <<m1, m2, m3, m4, m5, m6, m7, m8, m9, m10, m11, m14>>
        /\ {m12', m13'} \subseteq {"closed", "dgram", "raw"}
        /\ \/ /\ pc = "socket4" /\ m13' = m13 /\ m10 # "6"
              /\ pc' = IF m12' = "closed" /\ m10 = "4" THEN "exit" ELSE "socket6"
           \/ pc = "socket4" /\ pc' = "socket6" /\ m10 = "6" /\ m12' = m12 /\ m13' = m13
           \/ /\ pc = "socket6" /\ m12' = m12 /\ m10 # "4"
              /\ pc' = IF m13' = "closed" /\ m12 = "closed" THEN "exit" ELSE "family"
           \/ pc = "socket6" /\ pc' = "family" /\ m10 = "4" /\ m12' = m12 /\ m13' = m13
    BY <1>2 DEF Ps!Socket4, Ps!Socket6, Ps!create_socket, Ps!Created, Ps!niVars, Ps!sockVars, Ps!capVars,
                SetupInv, Opened
  <2>2. CASE pc' = "exit"
    <3>1. m3' \subseteq m2
      BY <2>1 DEF SetupInv, Raised
    <3>2. QED
      BY <2>1, <2>2, <3>1, SetupExit
  <2>3. CASE pc' # "exit"
    <3>2. Limits'
      BY <2>1, <2>3 DEF SetupInv, Limits, AfterCheck, AfterSetup
    <3>3. Raised'
      BY <2>1, <2>3 DEF SetupInv, Raised
    <3>4. Opened'
      BY <2>1, <2>3 DEF SetupInv, Opened, AfterCheck, AfterSetup, Ps!Targets
    <3>5. Asked'
      BY <2>1, <2>3 DEF SetupInv, Asked, AfterCheck, Ps!NiFlags, Ps!NiQtype, Ps!NiSubjects
    <3>6. QED
      BY <2>1, <2>3, <3>2, <3>3, <3>4, <3>5 DEF SetupInv
  <2>4. QED
    BY <2>2, <2>3
<1>3. CASE Ps!Resolve
  <2>1. CASE Ps!Fails("resolve")
    BY <2>1, ExitStep DEF Ps!Fails
  <2>2. CASE /\ m14' \in {t \in Ps!Targets : m10 = "unspec" \/ m10 = (IF t.v = 4 THEN "4" ELSE "6")}
             /\ pc' = IF m14'.v = 4 THEN "bind4" ELSE "bind6"
             /\ UNCHANGED <<m1, m2, m3, m4, m5, m6, m7, m8, m9, m10, m11, m12, m13>>
    <3>1. pc = "resolve" /\ m14'.v \in {4, 6}
      BY <1>3, <2>2 DEF Ps!Resolve, Ps!Targets
    <3>2. Limits'
      BY <2>2, <3>1 DEF SetupInv, Limits, AfterCheck, AfterSetup
    <3>3. Raised'
      BY <2>2, <3>1 DEF SetupInv, Raised
    <3>4. Opened'
      BY <2>2, <3>1 DEF SetupInv, Opened, AfterCheck, AfterSetup, Ps!Targets
    <3>5. Asked'
      BY <2>2, <3>1 DEF SetupInv, Asked, AfterCheck, Ps!NiFlags, Ps!NiQtype, Ps!NiSubjects
    <3>6. QED
      BY <2>2, <3>1, <3>2, <3>3, <3>4, <3>5 DEF SetupInv
  <2>3. QED
    BY <1>3, <2>1, <2>2 DEF Ps!Resolve, Ps!capVars, Ps!niVars, Ps!sockVars
<1>4. QED
  BY <1>1, <1>2, <1>3

\* ping4_run(), ping6_run(): the device.
LEMMA BindStep ==
  ASSUME SetupInv, Ps!Bind4 \/ Ps!Bound4 \/ Ps!Bind6 \/ Ps!Bound6
  PROVE  SetupInv'
<1>1. CASE Ps!Bind4 \/ Ps!Bound4
  <2>1. /\ UNCHANGED <<m1, m2, m4, m5, m6, m7, m8, m9, m10, m11, m12, m13, m14>>
        /\ \/ pc = "bind4" /\ pc' = "bound4" /\ m3' = m3 \cup ({"raw"} \cap m2)
           \/ pc = "bind4" /\ pc' = "check4" /\ m3' = m3
           \/ pc = "bound4" /\ pc' \in {"check4", "exit"} /\ m3' = m3 \ {"raw"}
    BY <1>1 DEF Ps!Bind4, Ps!Bound4, Ps!enable_capability, Ps!disable_capability, Ps!niVars, Ps!sockVars
  <2>2. Limits'
    BY <2>1 DEF SetupInv, Limits, AfterCheck, AfterSetup
  <2>3. Raised'
    BY <2>1 DEF SetupInv, Raised
  <2>4. Opened'
    BY <2>1 DEF SetupInv, Opened, AfterCheck, AfterSetup, Ps!Targets
  <2>5. Asked'
    BY <2>1 DEF SetupInv, Asked, AfterCheck, Ps!NiFlags, Ps!NiQtype, Ps!NiSubjects
  <2>6. QED
    BY <2>1, <2>2, <2>3, <2>4, <2>5 DEF SetupInv
<1>2. CASE Ps!Bound6 /\ Ps!Fails("bind")
  BY <1>2, ExitStep DEF Ps!Fails
<1>3. CASE Ps!Bind6 \/ (Ps!Bound6 /\ ~Ps!Fails("bind"))
  <2>1. /\ UNCHANGED <<m1, m2, m4, m5, m6, m7, m10, m11, m12, m13, m14>>
        /\ \/ pc = "bind6" /\ pc' = "bound6" /\ m3' = m3 \cup ({"raw"} \cap m2)
           \/ pc = "bind6" /\ pc' = "check6" /\ m3' = m3
           \/ pc = "bound6" /\ pc' = "check6" /\ m3' = m3 \ {"raw"} /\ m8' = m8 /\ m9' = m9
        /\ pc = "bind6" => IF Ps!niquery_is_enabled /\ ~Ps!niquery_is_subject_valid
                             THEN m8' = "subj_ipv6" /\ m9' = "subj_ipv6" ELSE m8' = m8 /\ m9' = m9
    BY <1>3 DEF Ps!Bind6, Ps!Bound6, Ps!enable_capability, Ps!disable_capability, Ps!niVars, Ps!sockVars
  <2>2. Limits'
    BY <2>1 DEF SetupInv, Limits, AfterCheck, AfterSetup
  <2>3. Raised'
    BY <2>1 DEF SetupInv, Raised
  <2>4. Opened'
    BY <2>1 DEF SetupInv, Opened, AfterCheck, AfterSetup, Ps!Targets
  <2>5. Asked'
    <3>1. /\ \A f \in m7 : f \in Ps!NiFlags /\ Ps!NiQtype[f] = m6
          /\ m8 \in {"null"} \cup Ps!NiSubjects /\ (m8 # "null" => m9 = m8)
          /\ pc = "bound6" /\ m14.v = 6 /\ Ps!niquery_is_enabled => m8 = m9
      BY DEF SetupInv, Asked
    <3>2. m8' \in {"null"} \cup Ps!NiSubjects /\ (m8' # "null" => m9' = m8')
      BY <2>1, <3>1 DEF Ps!NiSubjects
    <3>3. m14.v = 6 /\ Ps!niquery_is_enabled => m8' = m9'
      BY <2>1, <3>1 DEF Ps!niquery_is_subject_valid
    <3>4. \A f \in m7' : f \in Ps!NiFlags /\ Ps!NiQtype[f] = m6'
      BY <2>1, <3>1
    <3>5. QED
      BY <2>1, <3>2, <3>3, <3>4 DEF Asked, Ps!niquery_is_enabled, Ps!NiFlags, Ps!NiQtype, Ps!NiSubjects
  <2>6. QED
    BY <2>1, <2>2, <2>3, <2>4, <2>5 DEF SetupInv
<1>4. QED
  BY <1>1, <1>2, <1>3

\* ping4_run(), ping6_run(): what is required of probes that many may answer.
LEMMA CheckStep ==
  ASSUME SetupInv, Ps!Check4 \/ Ps!Check6
  PROVE  SetupInv'
<1>1. pc \in {"check4", "check6"} /\ Ps!Checked
  BY DEF Ps!Check4, Ps!Check6
<1>2. CASE Ps!Exit
  BY <1>2, ExitStep
<1>3. CASE ~Ps!Exit
  <2> DEFINE pm == IF Ps!ManyAnswer /\ m5.pmtudisc = "unset" THEN "do" ELSE m5.pmtudisc
  <2>1. /\ pc' = "setup" /\ UNCHANGED <<m1, m2, m3, m4, m6, m7, m8, m9, m10, m11, m12, m13, m14>>
        /\ m5' = [m5 EXCEPT !.pmtudisc = pm]
        /\ ~(Ps!ManyAnswer /\ m1 # 0 /\ (m5.interval < 1000 \/ m5.pmtudisc \notin {"unset", "do"}))
    BY <1>1, <1>3 DEF Ps!Checked, Ps!Fails, Ps!capVars, Ps!niVars, Ps!sockVars
  <2>2. Limits'
    <3>1. /\ m5.interval \in Nat /\ m5.preload \in 1 .. setup.MAX_DUP_CHK /\ (m1 # 0 => m5.preload <= 3)
          /\ m5 = [interval |-> m5.interval, preload |-> m5.preload, pmtudisc |-> m5.pmtudisc, mark |-> m5.mark,
                   device |-> m5.device, source |-> m5.source]
      BY DEF SetupInv, Limits
    <3>2. m1 # 0 /\ Ps!ManyAnswer => m5.interval >= 1000 /\ pm = "do"
      BY <2>1, <3>1
    <3>3. Ps!ManyAnswer' = Ps!ManyAnswer
      BY <2>1 DEF Ps!ManyAnswer
    <3> HIDE DEF pm
    <3>4. /\ m5'.interval = m5.interval /\ m5'.preload = m5.preload /\ m5'.pmtudisc = pm
          /\ m5' = [interval |-> m5'.interval, preload |-> m5'.preload, pmtudisc |-> m5'.pmtudisc, mark |-> m5'.mark,
                    device |-> m5'.device, source |-> m5'.source]
      BY <2>1, <3>1
    <3>5. QED
      BY <2>1, <3>1, <3>2, <3>3, <3>4 DEF Limits, AfterSetup
  <2>3. Raised'
    BY <1>1, <2>1 DEF SetupInv, Raised
  <2>4. Opened'
    BY <1>1, <2>1 DEF SetupInv, Opened, AfterCheck, Ps!Targets
  <2>5. Asked'
    <3>1. pc = "check4" => m14.v # 6
      BY DEF SetupInv, Opened
    <3>2. QED
      BY <1>1, <2>1, <3>1 DEF SetupInv, Asked, AfterCheck, Ps!niquery_is_enabled, Ps!NiFlags, Ps!NiQtype, Ps!NiSubjects
  <2>6. QED
    BY <2>1, <2>2, <2>3, <2>4, <2>5 DEF SetupInv, AfterCheck
<1>4. QED
  BY <1>2, <1>3

\* setup()
LEMMA LimitStep ==
  ASSUME Ps!SetupAssumption, SetupInv, Ps!Setup
  PROVE  SetupInv'
<1> DEFINE iv == IF "f" \in m4 /\ "i" \notin m4 THEN 0 ELSE m5.interval
<1>0. /\ setup.INT_MAX \in Nat /\ setup.MINUSERINTERVAL \in Nat \ {0} /\ setup.MAX_DUP_CHK \in Nat
      /\ m5.interval \in Nat /\ m5.preload \in 1 .. setup.MAX_DUP_CHK /\ (m1 # 0 => m5.preload <= 3)
      /\ m5 = [interval |-> m5.interval, preload |-> m5.preload, pmtudisc |-> m5.pmtudisc, mark |-> m5.mark,
               device |-> m5.device, source |-> m5.source]
      /\ pc = "setup"
      /\ m1 # 0 /\ Ps!ManyAnswer => m5.interval >= 1000 /\ m5.pmtudisc = "do"
  BY DEF Ps!SetupAssumption, SetupInv, Limits, Ps!Setup, AfterCheck
<1>1. CASE (m1 # 0 /\ iv < setup.MINUSERINTERVAL) \/ iv >= setup.INT_MAX \div m5.preload
  BY <1>1, ExitStep DEF Ps!Setup
<1>2. CASE ~((m1 # 0 /\ iv < setup.MINUSERINTERVAL) \/ iv >= setup.INT_MAX \div m5.preload)
  <2>1. /\ UNCHANGED <<m1, m2, m4, m6, m7, m8, m9, m10, m11, m12, m13, m14>>
        /\ m5' = [m5 EXCEPT !.interval = iv]
        /\ \/ pc' = "mark" /\ m3' = m3 \cup ({"admin"} \cap m2)
           \/ pc' = "ready" /\ m3' = m3
    BY <1>2 DEF Ps!Setup, Ps!enable_capability, Ps!niVars, Ps!sockVars
  <2>2. Limits'
    <3>1. iv \in Nat /\ (m1 # 0 => iv >= setup.MINUSERINTERVAL)
      BY <1>0, <1>2
    <3>2. iv * m5.preload <= setup.INT_MAX
      <4>1. m5.preload \in Nat \ {0}
        BY <1>0
      <4> DEFINE p == m5.preload
                 a == setup.INT_MAX
      <4>2. p \in Nat \ {0} /\ a \in Nat /\ ~(iv >= a \div p)
        BY <1>0, <1>2, <4>1
      <4> HIDE DEF p, a, iv
      <4>3. iv * p <= a
        BY <3>1, <4>2, NoOverflow
      <4>4. QED
        BY <4>3 DEF p, a
    <3>3. m1 # 0 /\ Ps!ManyAnswer => iv >= 1000
      BY <1>0, <3>1, <1>2
    <3>4. Ps!ManyAnswer' = Ps!ManyAnswer
      BY <2>1 DEF Ps!ManyAnswer
    <3> HIDE DEF iv
    <3>5. /\ m5'.interval = iv /\ m5'.preload = m5.preload /\ m5'.pmtudisc = m5.pmtudisc
          /\ m5' = [interval |-> m5'.interval, preload |-> m5'.preload, pmtudisc |-> m5'.pmtudisc, mark |-> m5'.mark,
                    device |-> m5'.device, source |-> m5'.source]
      BY <1>0, <2>1
    <3>6. QED
      BY <1>0, <2>1, <3>1, <3>2, <3>3, <3>4, <3>5 DEF Limits
  <2>3. Raised'
    BY <1>0, <2>1 DEF SetupInv, Raised
  <2>4. Opened'
    BY <1>0, <2>1 DEF SetupInv, Opened, AfterCheck, Ps!Targets
  <2>5. Asked'
    BY <1>0, <2>1 DEF SetupInv, Asked, AfterCheck, Ps!niquery_is_enabled, Ps!NiFlags, Ps!NiQtype, Ps!NiSubjects
  <2>6. QED
    BY <2>1, <2>2, <2>3, <2>4, <2>5 DEF SetupInv, AfterCheck
<1>3. QED
  BY <1>1, <1>2

\* setup(), drop_capabilities(): to the loop.
LEMMA ReadyStep ==
  ASSUME SetupInv, Ps!Mark \/ Ps!drop_capabilities
  PROVE  SetupInv'
<1>1. /\ UNCHANGED <<m1, m4, m5, m6, m7, m8, m9, m10, m11, m12, m13, m14>>
      /\ \/ pc = "mark" /\ pc' = "ready" /\ m3' = m3 \ {"admin"} /\ m2' = m2
         \/ pc = "ready" /\ pc' = "loop" /\ m3' \subseteq m3 /\ m3' \subseteq m2'
  BY DEF Ps!Mark, Ps!drop_capabilities, Ps!disable_capability, Ps!niVars, Ps!sockVars, SetupInv, Raised
<1>2. Limits'
  BY <1>1 DEF SetupInv, Limits, AfterCheck, AfterSetup, Ps!ManyAnswer
<1>3. Raised'
  BY <1>1 DEF SetupInv, Raised
<1>4. Opened'
  BY <1>1 DEF SetupInv, Opened, AfterCheck, Ps!Targets
<1>5. Asked'
  BY <1>1 DEF SetupInv, Asked, AfterCheck, Ps!niquery_is_enabled, Ps!NiFlags, Ps!NiQtype, Ps!NiSubjects
<1>6. QED
  BY <1>1, <1>2, <1>3, <1>4, <1>5 DEF SetupInv, AfterCheck

LEMMA SetupStep ==
  ASSUME Ps!SetupAssumption, SetupInv, Ps!Next \/ UNCHANGED <<pc, memory>>
  PROVE  SetupInv'
<1>1. CASE UNCHANGED <<pc, memory>>
  BY <1>1 DEF memory, SetupInv, Limits, Raised, Opened, Asked, AfterCheck, AfterSetup, Ps!ManyAnswer,
              Ps!niquery_is_enabled, Ps!Targets, Ps!NiFlags, Ps!NiQtype, Ps!NiSubjects
<1>2. CASE Ps!Next
  BY <1>2, ValueStep, NodeInfoStep, SocketStep, BindStep, CheckStep, LimitStep, ReadyStep DEF Ps!Next
<1>3. QED
  BY <1>1, <1>2

LEMMA SetupTrue ==
  ASSUME SetupInv PROVE Ps!SetupSound
<1>1. Ps!UserLimits
  BY DEF SetupInv, Limits, Ps!UserLimits, AfterCheck, AfterSetup, Ps!ManyAnswer
<1>2. Ps!SocketReady
  BY DEF SetupInv, Raised, Opened, Ps!SocketReady, AfterCheck
<1>3. Ps!QueryConsistent
  BY DEF SetupInv, Asked, Ps!QueryConsistent, AfterCheck
<1>4. QED
  BY <1>1, <1>2, <1>3 DEF Ps!SetupSound

\* main() to setup() of ping: for any command line, a user who gets to the loop
\* keeps the limits of users, the loop has a socket of the family of its address
\* and no capability in effect, and a node information query is consistent.
THEOREM SetupCorrect == ToolsSpec => []SetupSound
<1> DEFINE Inv == part = "setup" => SetupInv
<1>0. Ps!SetupAssumption
  BY ToolsAssumption
<1>1. ToolsInit => Inv
  BY <1>0, SetupInit DEF ToolsInit
<1>2. Inv /\ [ToolsNext]_toolVars => Inv'
  BY <1>0, RunsAlone, SetupStep
<1>3. Inv => SetupSound
  BY SetupTrue DEF SetupSound
<1>4. QED
  BY <1>1, <1>2, <1>3, PTL DEF ToolsSpec
-----------------------------------------------------------------------------
(* ping: sequence numbers *)

\* The remainder is the only one.
LEMMA Remainder ==
  ASSUME NEW M \in Nat \ {0}, NEW q \in Int, NEW r \in 0 .. M - 1
  PROVE  (M * q + r) % M = r
OBVIOUS

\* A number and its remainder.
LEMMA Divided ==
  ASSUME NEW M \in Nat \ {0}, NEW x \in Int
  PROVE  \E q \in Int, r \in 0 .. M - 1 : x = M * q + r /\ x % M = r
<1> DEFINE q == x \div M
           r == x - M * q
<1>1. q \in Int
  OBVIOUS
<1>2. M * q <= x
  OBVIOUS
<1>3. x < M * q + M
  OBVIOUS
<1>4. M * q \in Int
  BY <1>1
<1> HIDE DEF q
<1>5. r \in 0 .. M - 1 /\ x = M * q + r
  BY <1>2, <1>3, <1>4
<1> HIDE DEF r
<1>6. x % M = r
  BY <1>1, <1>5, Remainder
<1>7. QED
  BY <1>1, <1>5, <1>6

\* r is the remainder of a.
Residue(M, a, r) == r = a % M

\* Of two numbers less than M apart.
LEMMA Apart ==
  ASSUME NEW M \in Nat \ {0}, NEW a \in Int, NEW b \in Int, 0 <= a - b, a - b < M,
         NEW r \in Int, Residue(M, a, r), NEW s \in Int, Residue(M, b, s)
  PROVE  /\ r \in 0 .. M - 1 /\ s \in 0 .. M - 1
         /\ r - s = a - b \/ r - s = (a - b) - M
         /\ r = s => a = b
         /\ Residue(M, a - s, a - b)
<1>1. PICK q \in Int : r \in 0 .. M - 1 /\ a = M * q + r
  BY Divided DEF Residue
<1>2. PICK p \in Int : s \in 0 .. M - 1 /\ b = M * p + s
  BY Divided DEF Residue
<1> DEFINE k == q - p
<1>3. r \in 0 .. M - 1 /\ s \in 0 .. M - 1 /\ a = M * q + r /\ b = M * p + s
  BY <1>1, <1>2
<1>4. k \in Int /\ M * k = M * q - M * p
  <2>1. \A m, i, j \in Int : m * (i - j) = m * i - m * j
    OBVIOUS
  <2>2. QED
    BY <2>1
<1>5. M * k = (a - b) - (r - s)
  BY <1>3, <1>4
<1>6. -M < M * k /\ M * k < 2 * M
  BY <1>3, <1>5
<1> HIDE DEF k
<1>7. k = 0 \/ k = 1
  <2>1. k >= 2 => M * k >= 2 * M
    <3>1. \A i \in Int : i >= 2 => M * i >= M * 2
      OBVIOUS
    <3>2. QED
      BY <1>4, <3>1
  <2>2. k <= -1 => M * k <= -M
    <3>1. \A i \in Int : i <= -1 => M * i <= M * (-1)
      OBVIOUS
    <3>2. M * (-1) = -M
      OBVIOUS
    <3>3. QED
      BY <1>4, <3>1, <3>2
  <2>3. M * k \in Int
    BY <1>4
  <2>4. QED
    BY <1>4, <1>6, <2>1, <2>2, <2>3
<1>8. M * k = 0 \/ M * k = M
  BY <1>7
<1>9. r - s = a - b \/ r - s = (a - b) - M
  BY <1>3, <1>5, <1>8
<1>10. r = s => a = b
  <2>1. a \in Int /\ b \in Int /\ a - b < M /\ M \in Nat
    OBVIOUS
  <2>2. QED
    BY ONLY <2>1, <1>3, <1>9
<1>11. Residue(M, a - s, a - b)
  <2>1. a - s = M * p + (a - b)
    <3>1. M * p \in Int
      OBVIOUS
    <3>2. QED
      BY <1>3, <3>1
  <2>2. a - b \in 0 .. M - 1
    OBVIOUS
  <2>3. QED
    BY <2>1, <2>2, Remainder DEF Residue
<1>12. QED
  BY <1>1, <1>2, <1>9, <1>10, <1>11

\* A number and the one a whole turn before.
LEMMA Turn ==
  ASSUME NEW M \in Nat \ {0}, NEW a \in Int
  PROVE  (a - M) % M = a % M
<1>1. PICK q \in Int, r \in 0 .. M - 1 : a = M * q + r /\ a % M = r
  BY Divided
<1>2. r \in 0 .. M - 1 /\ a = M * q + r
  BY <1>1
<1>3. a - M = M * (q - 1) + r
  <2>1. \A m, i \in Int : m * (i - 1) = m * i - m
    OBVIOUS
  <2>2. M * (q - 1) = M * q - M
    BY <2>1
  <2>3. M * q \in Int
    OBVIOUS
  <2>4. QED
    BY <1>2, <2>2, <2>3
<1>4. q - 1 \in Int
  OBVIOUS
<1>5. (a - M) % M = r
  BY <1>2, <1>3, <1>4, Remainder
<1>6. QED
  BY <1>1, <1>5

Windows ==
  [ntransmitted : Nat, acked : 0 .. window.SEQ - 1, pipesize : Int, rcvd : SUBSET (0 .. window.SEQ - 1),
   nreceived : Nat, nrepeats : Int, nchecksum : Nat, nerrors : Nat]

\* Probe n can still be told from the others by its number.
Recent(v, n) == n \in Nat /\ n <= v.ntransmitted /\ v.ntransmitted - n < window.SEQ

\* The number last acknowledged is that of probe n, which is in the half of the
\* numbers before the last probe.
Tracks(v, n) ==
  /\ n \in Nat /\ n <= v.ntransmitted /\ v.ntransmitted - n < Se!Half
  /\ v.acked = Se!u16(n)

\* The number of a probe, and half of the numbers.
LEMMA Halves ==
  ASSUME Se!SeqAssumption
  PROVE  /\ window.SEQ \in Nat \ {0} /\ Se!Half \in Nat \ {0} /\ window.SEQ = 2 * Se!Half
         /\ \A n \in Int : Se!u16(n) = n % window.SEQ /\ Se!u16(n) \in 0 .. window.SEQ - 1
<1>1. window.SEQ \in Nat \ {0} /\ window.SEQ % 2 = 0
  BY DEF Se!SeqAssumption
<1>2. Se!Half \in Nat \ {0} /\ window.SEQ = 2 * Se!Half
  BY <1>1 DEF Se!Half
<1>3. QED
  BY <1>1, <1>2 DEF Se!u16

\* s16(): the difference of two numbers, as long as it is less than half of them.
LEMMA Signed ==
  ASSUME Se!SeqAssumption, NEW a \in Nat, NEW b \in Nat, a - b < Se!Half, b - a < Se!Half
  PROVE  /\ Se!s16(Se!u16(a) - Se!u16(b)) = a - b
         /\ ~(Se!u16(a) - Se!u16(b) >= Se!Half) \/ a < b
<1> DEFINE M == window.SEQ
           H == Se!Half
           p == Se!u16(a)
           q == Se!u16(b)
           d == p - q
<1>1. M \in Nat \ {0} /\ H \in Nat \ {0} /\ M = 2 * H
  BY Halves
<1>2. p \in 0 .. M - 1 /\ q \in 0 .. M - 1 /\ Residue(M, a, p) /\ Residue(M, b, q)
  BY Halves DEF Residue
<1>3. a - b < H /\ b - a < H
  OBVIOUS
<1>4. \A i \in Int : Se!s16(i) = IF i % M < H THEN i % M ELSE (i % M) - M
  BY Halves DEF Se!s16
<1> HIDE DEF M, H, p, q
<1>5. d \in Int /\ -M < d /\ d < M
  BY <1>1, <1>2
<1> HIDE DEF d
<1>6. CASE b <= a
  <2>1. 0 <= a - b /\ a - b < M
    BY <1>1, <1>3, <1>6
  <2>2. p - q = a - b \/ p - q = (a - b) - M
    <3>1. a \in Int /\ b \in Int /\ p \in Int /\ q \in Int
      BY <1>1, <1>2
    <3>2. QED
      BY ONLY <2>1, <3>1, <1>1, <1>2, Apart
  <2>3. d = a - b \/ d = (a - b) - M
    BY ONLY <2>2 DEF d
  <2>4. d % M = a - b
    <3>1. CASE d = a - b
      BY <3>1, <2>1, <1>1, <1>5, DayRemainder
    <3>2. CASE d = (a - b) - M
      <4>1. -M <= d /\ d < 0 /\ d + M = a - b
        BY <3>2, <2>1, <1>1, <1>5
      <4>2. QED
        BY <4>1, <1>1, <1>5, DayRemainder
    <3>3. QED
      BY <3>1, <3>2, <2>3
  <2>5. Se!s16(d) = a - b
    BY <2>4, <1>1, <1>3, <1>4, <1>5
  <2>6. ~(d >= H)
    BY <2>3, <2>1, <1>1, <1>3
  <2>7. QED
    BY <2>5, <2>6 DEF d, p, q, H
<1>7. CASE a < b
  <2>1. 0 <= b - a /\ b - a < M
    BY <1>1, <1>3, <1>7
  <2>2. q - p = b - a \/ q - p = (b - a) - M
    <3>1. a \in Int /\ b \in Int /\ p \in Int /\ q \in Int
      BY <1>1, <1>2
    <3>2. QED
      BY ONLY <2>1, <3>1, <1>1, <1>2, Apart
  <2>3. d = a - b \/ d = (a - b) + M
    <3>1. p \in Int /\ q \in Int
      BY <1>1, <1>2
    <3>2. QED
      BY ONLY <2>2, <3>1, <1>1, a \in Nat, b \in Nat DEF d
  <2>4. d % M = (a - b) + M
    <3>1. CASE d = (a - b) + M
      <4>1. 0 <= d /\ d < M
        BY <3>1, <2>1, <1>1, <1>5, <1>7
      <4>2. QED
        BY <3>1, <4>1, <1>1, <1>5, DayRemainder
    <3>2. CASE d = a - b
      <4>1. -M <= d /\ d < 0
        BY <3>2, <1>1, <1>5, <1>7
      <4>2. QED
        BY <3>2, <4>1, <1>1, <1>5, DayRemainder
    <3>3. QED
      BY <3>1, <3>2, <2>3
  <2>5. ~((a - b) + M < H)
    BY <1>1, <1>3
  <2>6. Se!s16(d) = ((a - b) + M) - M
    BY <2>4, <2>5, <1>4, <1>5
  <2>7. QED
    BY <2>6, <1>1, <1>7 DEF d, p, q
<1>8. QED
  BY <1>6, <1>7

\* What u16(ntransmitted - seq) says of the probe with that number.
LEMMA Behind ==
  ASSUME Se!SeqAssumption, NEW v \in Windows, NEW n, Recent(v, n)
  PROVE  Se!u16(v.ntransmitted - Se!u16(n)) = v.ntransmitted - n
<1> DEFINE M == window.SEQ
           t == v.ntransmitted
           s == Se!u16(n)
<1>1. M \in Nat \ {0} /\ t \in Nat /\ n \in Nat /\ n <= t /\ t - n < M
  BY Halves DEF Windows, Recent
<1>2. Residue(M, n, s) /\ s \in Int
  BY <1>1, Halves DEF Residue
<1>3. \A i \in Int : Se!u16(i) = i % M
  BY Halves
<1> HIDE DEF M, t, s
<1>4. 0 <= t - n /\ t \in Int /\ n \in Int
  BY <1>1
<1>5. Residue(M, t - s, t - n)
  <2>1. PICK r \in Int : Residue(M, t, r)
    BY <1>1 DEF Residue
  <2>2. QED
    BY ONLY <1>1, <1>2, <1>4, <2>1, Apart
<1>6. (t - s) % M = t - n /\ t - s \in Int
  BY ONLY <1>1, <1>2, <1>5 DEF Residue
<1>7. Se!u16(t - s) = t - n
  BY ONLY <1>3, <1>6
<1>8. QED
  BY <1>7 DEF t, s

\* advance_ntransmitted() and acknowledge() see no overrun while the last
\* acknowledgement is recent.
LEMMA NoOverrun ==
  ASSUME Se!SeqAssumption, NEW v \in Windows, NEW n, Tracks(v, n)
  PROVE  ~Se!Overrun(v)
<1> DEFINE t == v.ntransmitted
<1>1. t \in Nat /\ n \in Nat /\ 0 <= t - n /\ t - n < Se!Half /\ n - t < Se!Half /\ ~(t < n)
  BY Halves DEF Windows, Tracks
<1> HIDE DEF t
<1>2. ~(Se!u16(t) - Se!u16(n) >= Se!Half)
  BY <1>1, Signed
<1>3. QED
  BY <1>2 DEF Tracks, Se!Overrun, t

\* in_flight(): the probes after the last one acknowledged.
LEMMA FlightExact ==
  ASSUME Se!SeqAssumption, NEW v \in Windows, NEW n, Tracks(v, n)
  PROVE  Se!in_flight(v) = v.ntransmitted - n
<1>1. Recent(v, n)
  BY Halves DEF Tracks, Recent, Windows
<1>2. Se!u16(v.ntransmitted - v.acked) = v.ntransmitted - n
  BY <1>1, Behind DEF Tracks
<1>3. QED
  BY <1>2 DEF Tracks, Se!in_flight

\* acknowledge(): of a recent probe.
LEMMA Acknowledged ==
  ASSUME Se!SeqAssumption, NEW v \in Windows, NEW n, Recent(v, n), NEW l
  PROVE  LET x == Se!acknowledge(v, Se!u16(n))
         IN  /\ x \in Windows /\ x.ntransmitted = v.ntransmitted /\ x.rcvd = v.rcvd
             /\ x.nreceived = v.nreceived /\ x.nrepeats = v.nrepeats
             /\ Tracks(v, l) /\ v.ntransmitted - n < Se!Half => Tracks(x, IF n > l THEN n ELSE l)
             /\ ~(v.ntransmitted - n < Se!Half) => x = v
<1> DEFINE s == Se!u16(n)
           diff == Se!u16(v.ntransmitted - s)
           x == Se!acknowledge(v, s)
<1>1. diff = v.ntransmitted - n
  BY Behind
<1>2. n \in Nat /\ v.ntransmitted \in Nat /\ diff \in Nat /\ s \in 0 .. window.SEQ - 1
  BY <1>1, Halves DEF Recent, Windows
<1>3. Se!Half \in Nat \ {0}
  BY Halves
<1>4. CASE diff >= Se!Half
  <2>1. x = v
    BY <1>4 DEF Se!acknowledge
  <2>2. QED
    BY <2>1, <1>1, <1>4, <1>2, <1>3
<1>5. CASE ~(diff >= Se!Half)
  <2> DEFINE pipe == IF diff + 1 > v.pipesize THEN diff + 1 ELSE v.pipesize
             ack == IF Se!s16(s - v.acked) > 0 \/ Se!Overrun(v) THEN s ELSE v.acked
  <2>1. x = [v EXCEPT !.pipesize = pipe, !.acked = ack]
    BY <1>5 DEF Se!acknowledge
  <2>2. pipe \in Int /\ ack \in 0 .. window.SEQ - 1
    BY <1>2 DEF Windows
  <2>3. ASSUME Tracks(v, l) PROVE ack = Se!u16(IF n > l THEN n ELSE l)
    <3>1. l \in Nat /\ n - l < Se!Half /\ l - n < Se!Half /\ v.acked = Se!u16(l)
      BY <2>3, <1>1, <1>2, <1>3, <1>5 DEF Tracks
    <3>2. Se!s16(s - v.acked) = n - l
      BY <3>1, <1>2, Signed
    <3>3. ~Se!Overrun(v)
      BY <2>3, NoOverrun
    <3>4. QED
      BY <3>1, <3>2, <3>3, <1>2
  <2> HIDE DEF pipe, ack, x, diff
  <2>4. x \in Windows
    BY <2>1, <2>2 DEF Windows
  <2>5. x.ntransmitted = v.ntransmitted /\ x.rcvd = v.rcvd /\ x.nreceived = v.nreceived /\ x.nrepeats = v.nrepeats
    BY <2>1 DEF Windows
  <2>6. x.acked = ack
    BY <2>1 DEF Windows
  <2>7. ASSUME Tracks(v, l) PROVE Tracks(x, IF n > l THEN n ELSE l)
    BY <2>3, <2>5, <2>6, <2>7, <1>1, <1>2, <1>3, <1>5 DEF Tracks
  <2>8. v.ntransmitted - n < Se!Half
    BY <1>1, <1>2, <1>3, <1>5
  <2>9. QED
    BY <2>4, <2>5, <2>7, <2>8 DEF x
<1>6. QED
  BY <1>4, <1>5

\* The bits that are set are those of the probes answered, among the ones that
\* can be told apart; and unless the network was silent for half of the numbers,
\* the number acknowledged is that of the latest probe acknowledged.
WindowInv ==
  /\ m1 \in Windows /\ m2 \in BOOLEAN /\ m8 \in BOOLEAN
  /\ \A n \in m3 \cup m4 : Recent(m1, n)
  /\ m1.rcvd = {Se!u16(n) : n \in m4}
  /\ m5 = m1.nreceived /\ m7 \in Nat /\ m1.nrepeats = m7 - m5
  /\ m6 \in Nat /\ m6 <= m1.ntransmitted
  /\ ~m8 => Tracks(m1, m6)

\* Probes that can be told apart have numbers of their own.
LEMMA OwnNumber ==
  ASSUME Se!SeqAssumption, NEW a \in Nat, NEW b \in Nat, a - b < window.SEQ, b - a < window.SEQ,
         Se!u16(a) = Se!u16(b)
  PROVE  a = b
<1> DEFINE M == window.SEQ
           r == Se!u16(a)
<1>1. M \in Nat \ {0} /\ r \in Int /\ Residue(M, a, r) /\ Residue(M, b, r)
  BY Halves DEF Residue
<1>2. a - b < M /\ b - a < M
  OBVIOUS
<1> HIDE DEF M, r
<1>3. CASE a >= b
  <2>1. 0 <= a - b /\ a \in Int /\ b \in Int
    BY <1>3
  <2>2. QED
    BY ONLY <1>1, <1>2, <2>1, Apart
<1>4. CASE b >= a
  <2>1. 0 <= b - a /\ a \in Int /\ b \in Int
    BY <1>4
  <2>2. QED
    BY ONLY <1>1, <1>2, <2>1, Apart
<1>5. QED
  BY <1>3, <1>4

\* rcvd_clear(): the number of the next probe is the one of the probe that can
\* no longer be told from it, and of no other.
LEMMA Cleared ==
  ASSUME Se!SeqAssumption, NEW t \in Nat, NEW S,
         \A n \in S : n \in Nat /\ n <= t /\ t - n < window.SEQ
  PROVE  {Se!u16(n) : n \in S} \ {Se!u16(t + 1)} = {Se!u16(n) : n \in {m \in S : (t + 1) - m < window.SEQ}}
<1> DEFINE M == window.SEQ
<1>1. M \in Nat \ {0}
  BY Halves
<1>2. ASSUME NEW n \in S PROVE Se!u16(n) = Se!u16(t + 1) <=> ~((t + 1) - n < M)
  <2>1. n \in Nat /\ n <= t /\ t - n < M /\ t + 1 \in Nat
    BY <1>2
  <2>2. ASSUME (t + 1) - n < M PROVE Se!u16(n) # Se!u16(t + 1)
    <3>1. n - (t + 1) < M /\ n # t + 1
      BY <2>1, <1>1
    <3>2. QED
      BY <2>1, <2>2, <3>1, OwnNumber
  <2>3. ASSUME ~((t + 1) - n < M) PROVE Se!u16(n) = Se!u16(t + 1)
    <3>1. n = (t + 1) - M /\ t + 1 \in Int /\ n \in Int
      BY <2>1, <2>3, <1>1
    <3>2. ((t + 1) - M) % M = (t + 1) % M
      BY <3>1, <1>1, Turn
    <3>3. n % M = (t + 1) % M
      BY <3>1, <3>2
    <3>4. QED
      BY <3>1, <3>3, Halves
  <2>4. QED
    BY <2>2, <2>3
<1>3. QED
  BY <1>2

LEMMA WindowInit ==
  ASSUME Se!SeqAssumption, Se!Init
  PROVE  WindowInv
<1>1. m1 \in Windows
  BY Halves DEF Se!Init, Se!NewWindow, Windows
<1>2. Tracks(m1, 0)
  <2>1. Se!u16(0) = 0
    BY Halves, DayRemainder
  <2>2. QED
    BY <2>1, Halves DEF Se!Init, Se!NewWindow, Tracks
<1>3. m1.rcvd = {Se!u16(n) : n \in m4}
  BY DEF Se!Init, Se!NewWindow
<1>4. m5 = m1.nreceived /\ m7 \in Nat /\ m1.nrepeats = m7 - m5 /\ m6 = 0 /\ m6 <= m1.ntransmitted
  BY DEF Se!Init, Se!NewWindow
<1>5. m2 \in BOOLEAN /\ m8 \in BOOLEAN /\ \A n \in m3 \cup m4 : Recent(m1, n)
  BY DEF Se!Init
<1>6. QED
  BY <1>1, <1>2, <1>3, <1>4, <1>5 DEF WindowInv

LEMMA ProbeStep ==
  ASSUME Se!SeqAssumption, WindowInv, NEW sent \in BOOLEAN, Se!Probe(sent)
  PROVE  WindowInv'
<1> DEFINE M == window.SEQ
           t == m1.ntransmitted
           n == t + 1
           u == Se!rcvd_clear(m1, Se!u16(n))
           v == [u EXCEPT !.ntransmitted = @ + 1]
           x == [v EXCEPT !.acked = IF Se!Overrun(v) THEN Se!u16(v.ntransmitted + 1) ELSE @]
<1>1. m1 \in Windows /\ t \in Nat /\ n \in Nat /\ M \in Nat \ {0} /\ Se!Half \in Nat \ {0}
  BY Halves DEF WindowInv, Windows
<1>2. u \in Windows /\ u = [m1 EXCEPT !.rcvd = @ \ {Se!u16(n)}]
  BY <1>1 DEF Se!rcvd_clear, Windows
<1>3. v \in Windows /\ v.ntransmitted = n /\ v.acked = m1.acked /\ v.rcvd = m1.rcvd \ {Se!u16(n)}
      /\ v.nreceived = m1.nreceived /\ v.nrepeats = m1.nrepeats
  <2> HIDE DEF u
  <2>1. QED
    BY <1>1, <1>2 DEF Windows
<1>4. m1' = x
  BY DEF Se!Probe, Se!advance_ntransmitted, Se!ping4_send_probe, Se!ping6_send_probe
<1>5. m1'.ntransmitted = n
  <2> HIDE DEF v
  <2>1. QED
    BY <1>3, <1>4 DEF Windows
<1>6. /\ m3' = {m \in m3 \cup (IF sent THEN {n} ELSE {}) : n - m < M}
      /\ m4' = {m \in m4 : n - m < M}
      /\ m8' = (m8 \/ n - m6 >= Se!Half)
      /\ m2' = m2 /\ m5' = m5 /\ m6' = m6 /\ m7' = m7
  <2> DEFINE y == Se!advance_ntransmitted(IF m2 THEN Se!ping6_send_probe(m1) ELSE Se!ping4_send_probe(m1))
  <2>1. m1' = y
    BY DEF Se!Probe
  <2> HIDE DEF y
  <2>2. y.ntransmitted = n
    BY <2>1, <1>5
  <2>3. QED
    BY <2>2 DEF Se!Probe, y
<1> HIDE DEF u, v
<1>7. /\ m1' \in Windows /\ m1'.rcvd = m1.rcvd \ {Se!u16(n)}
      /\ m1'.nreceived = m1.nreceived /\ m1'.nrepeats = m1.nrepeats
      /\ ~Se!Overrun(v) => m1'.acked = m1.acked
  <2>1. Se!u16(v.ntransmitted + 1) \in 0 .. M - 1
    BY <1>1, <1>3, Halves
  <2>2. QED
    BY <1>3, <1>4, <2>1 DEF Windows
<1> HIDE DEF x
<1>8. m2' \in BOOLEAN /\ m8' \in BOOLEAN
  BY <1>6 DEF WindowInv
<1>9. ASSUME NEW m \in m3' \cup m4' PROVE Recent(m1', m)
  <2>1. m = n \/ Recent(m1, m)
    BY <1>6, <1>9 DEF WindowInv
  <2>2. n - m < M
    BY <1>6, <1>9
  <2>3. QED
    BY <1>1, <1>5, <2>1, <2>2 DEF Recent
<1>10. m1'.rcvd = {Se!u16(m) : m \in m4'}
  <2>1. \A m \in m4 : m \in Nat /\ m <= t /\ t - m < M
    BY DEF WindowInv, Recent
  <2>2. {Se!u16(m) : m \in m4} \ {Se!u16(t + 1)} = {Se!u16(m) : m \in {k \in m4 : (t + 1) - k < M}}
    BY <2>1, <1>1, Cleared
  <2>3. QED
    BY <2>2, <1>6, <1>7 DEF WindowInv
<1>11. ASSUME ~m8' PROVE Tracks(m1', m6')
  <2>1. ~m8 /\ ~(n - m6 >= Se!Half)
    BY <1>6, <1>11 DEF WindowInv
  <2>2. Tracks(m1, m6) /\ m6 \in Nat
    BY <2>1 DEF WindowInv
  <2>3. n - m6 < Se!Half /\ m6 <= n
    BY <2>1, <2>2, <1>1 DEF Tracks
  <2>4. Tracks(v, m6)
    BY <2>2, <2>3, <1>3 DEF Tracks
  <2>5. ~Se!Overrun(v)
    BY <2>4, <1>3, NoOverrun
  <2>6. QED
    BY <2>4, <2>5, <1>3, <1>5, <1>6, <1>7 DEF Tracks
<1>12. m6' \in Nat /\ m6' <= m1'.ntransmitted
  BY <1>1, <1>5, <1>6 DEF WindowInv
<1>13. m5' = m1'.nreceived /\ m7' \in Nat /\ m1'.nrepeats = m7' - m5'
  BY <1>6, <1>7 DEF WindowInv
<1>14. QED
  BY <1>7, <1>8, <1>9, <1>10, <1>11, <1>12, <1>13 DEF WindowInv

\* A step that acknowledges probe n, or does not: the latest one acknowledged.
LEMMA LatestTracks ==
  ASSUME Se!SeqAssumption, WindowInv, NEW n \in m3, NEW x, x = Se!acknowledge(m1, Se!u16(n))
  PROVE  /\ x \in Windows /\ x.ntransmitted = m1.ntransmitted /\ x.rcvd = m1.rcvd
         /\ x.nreceived = m1.nreceived /\ x.nrepeats = m1.nrepeats
         /\ Se!Latest(n) \in Nat /\ Se!Latest(n) <= m1.ntransmitted
         /\ ~m8 => Tracks(x, Se!Latest(n))
<1>1. m1 \in Windows /\ Recent(m1, n)
  BY DEF WindowInv
<1>2. /\ x \in Windows /\ x.ntransmitted = m1.ntransmitted /\ x.rcvd = m1.rcvd
      /\ x.nreceived = m1.nreceived /\ x.nrepeats = m1.nrepeats
      /\ Tracks(m1, m6) /\ m1.ntransmitted - n < Se!Half => Tracks(x, IF n > m6 THEN n ELSE m6)
      /\ ~(m1.ntransmitted - n < Se!Half) => x = m1
  BY <1>1, Acknowledged
<1>3. Se!Latest(n) = IF m1.ntransmitted - n < Se!Half /\ n > m6 THEN n ELSE m6
  BY DEF Se!Latest, Se!Acknowledges
<1>4. ~m8 => Tracks(x, Se!Latest(n))
  BY <1>2, <1>3 DEF WindowInv
<1>5. Se!Latest(n) \in Nat /\ Se!Latest(n) <= m1.ntransmitted
  BY <1>1, <1>3 DEF WindowInv, Recent
<1>6. QED
  BY <1>2, <1>4, <1>5

\* What is left to show of a step that changes neither the probes nor the answers.
LEMMA Acknowledging ==
  ASSUME Se!SeqAssumption, WindowInv, NEW n \in m3,
         UNCHANGED <<m2, m3, m4, m5, m7, m8>>,
         m1' \in Windows, m1'.ntransmitted = m1.ntransmitted, m1'.rcvd = m1.rcvd,
         m1'.nreceived = m1.nreceived, m1'.nrepeats = m1.nrepeats,
         m6' \in Nat, m6' <= m1.ntransmitted, ~m8 => Tracks(m1', m6')
  PROVE  WindowInv'
<1>1. \A k \in m3' \cup m4' : Recent(m1', k)
  BY DEF WindowInv, Recent
<1>2. QED
  BY <1>1 DEF WindowInv

LEMMA ErrorStep ==
  ASSUME Se!SeqAssumption, WindowInv, NEW n \in m3, NEW origin \in {"icmp", "local"}, Se!ErrorMsg(n, origin)
  PROVE  WindowInv'
<1> DEFINE x == Se!acknowledge(m1, Se!u16(n))
<1>1. UNCHANGED <<m2, m3, m4, m5, m7, m8>> /\ m1 \in Windows
  BY DEF Se!ErrorMsg, WindowInv
<1>2. CASE origin = "icmp" /\ ~m2
  <2>1. m1' = [x EXCEPT !.nerrors = @ + 1] /\ m6' = Se!Latest(n)
    BY <1>2 DEF Se!ErrorMsg, Se!ping4_receive_error_msg
  <2>2. /\ x \in Windows /\ x.ntransmitted = m1.ntransmitted /\ x.rcvd = m1.rcvd
        /\ x.nreceived = m1.nreceived /\ x.nrepeats = m1.nrepeats
        /\ Se!Latest(n) \in Nat /\ Se!Latest(n) <= m1.ntransmitted
        /\ ~m8 => Tracks(x, Se!Latest(n))
    BY LatestTracks
  <2> HIDE DEF x
  <2>3. /\ m1' \in Windows /\ m1'.ntransmitted = x.ntransmitted /\ m1'.rcvd = x.rcvd
        /\ m1'.nreceived = x.nreceived /\ m1'.nrepeats = x.nrepeats /\ m1'.acked = x.acked
    BY <2>1, <2>2 DEF Windows
  <2>4. ~m8 => Tracks(m1', m6')
    BY <2>1, <2>2, <2>3 DEF Tracks
  <2>5. QED
    BY <1>1, <2>1, <2>2, <2>3, <2>4, Acknowledging
<1>3. CASE ~(origin = "icmp" /\ ~m2)
  <2>1. m1' = [m1 EXCEPT !.nerrors = @ + 1] /\ m6' = m6
    BY <1>3 DEF Se!ErrorMsg, Se!ping4_receive_error_msg, Se!ping6_receive_error_msg, Se!LocalError
  <2>2. /\ m1' \in Windows /\ m1'.ntransmitted = m1.ntransmitted /\ m1'.rcvd = m1.rcvd
        /\ m1'.nreceived = m1.nreceived /\ m1'.nrepeats = m1.nrepeats /\ m1'.acked = m1.acked
    BY <1>1, <2>1 DEF Windows
  <2>3. ~m8 => Tracks(m1', m6')
    BY <2>1, <2>2 DEF Tracks, WindowInv
  <2>4. m6' \in Nat /\ m6' <= m1.ntransmitted
    BY <2>1 DEF WindowInv
  <2>5. QED
    BY <1>1, <2>2, <2>3, <2>4, Acknowledging
<1>4. QED
  BY <1>2, <1>3

LEMMA RawStep ==
  ASSUME Se!SeqAssumption, WindowInv, NEW n \in m3, Se!RawError(n)
  PROVE  WindowInv'
<1> DEFINE x == Se!acknowledge(m1, Se!u16(n))
<1>1. UNCHANGED <<m2, m3, m4, m5, m7, m8>> /\ m6' = Se!Latest(n)
  BY DEF Se!RawError
<1>2. m1' = x \/ m1' = [x EXCEPT !.nerrors = @ + 1]
  BY DEF Se!RawError, Se!parse_reply, Se!ping4_parse_reply, Se!ping6_parse_reply, Se!Message
<1>3. /\ x \in Windows /\ x.ntransmitted = m1.ntransmitted /\ x.rcvd = m1.rcvd
      /\ x.nreceived = m1.nreceived /\ x.nrepeats = m1.nrepeats
      /\ Se!Latest(n) \in Nat /\ Se!Latest(n) <= m1.ntransmitted
      /\ ~m8 => Tracks(x, Se!Latest(n))
  BY LatestTracks
<1> HIDE DEF x
<1>4. /\ m1' \in Windows /\ m1'.ntransmitted = x.ntransmitted /\ m1'.rcvd = x.rcvd
      /\ m1'.nreceived = x.nreceived /\ m1'.nrepeats = x.nrepeats /\ m1'.acked = x.acked
  BY <1>2, <1>3 DEF Windows
<1>5. ~m8 => Tracks(m1', m6')
  BY <1>1, <1>3, <1>4 DEF Tracks
<1>6. QED
  BY <1>1, <1>3, <1>4, <1>5, Acknowledging

LEMMA EchoStep ==
  ASSUME Se!SeqAssumption, WindowInv, NEW n \in m3, NEW csfailed \in BOOLEAN, Se!EchoReply(n, csfailed)
  PROVE  WindowInv'
<1> DEFINE s == Se!u16(n)
           x == Se!acknowledge(m1, s)
<1>1. UNCHANGED <<m2, m3, m8>> /\ m1 \in Windows /\ Recent(m1, n)
  BY DEF Se!EchoReply, WindowInv
<1>2. m1' = Se!gather_statistics(m1, s, csfailed)
  BY DEF Se!EchoReply, Se!parse_reply, Se!ping4_parse_reply, Se!ping6_parse_reply, Se!Message
<1>3. CASE csfailed
  <2>1. m1' = [m1 EXCEPT !.nchecksum = @ + 1] /\ UNCHANGED <<m4, m5, m6, m7>>
    BY <1>2, <1>3 DEF Se!EchoReply, Se!gather_statistics
  <2>2. /\ m1' \in Windows /\ m1'.ntransmitted = m1.ntransmitted /\ m1'.rcvd = m1.rcvd
        /\ m1'.nreceived = m1.nreceived /\ m1'.nrepeats = m1.nrepeats /\ m1'.acked = m1.acked
    BY <1>1, <2>1 DEF Windows
  <2>3. ~m8 => Tracks(m1', m6')
    BY <2>1, <2>2 DEF Tracks, WindowInv
  <2>4. m6' \in Nat /\ m6' <= m1.ntransmitted
    BY <2>1 DEF WindowInv
  <2>5. QED
    BY <1>1, <2>1, <2>2, <2>3, <2>4, Acknowledging
<1>4. CASE ~csfailed
  <2>1. /\ m4' = m4 \cup {n} /\ m5' = (IF n \in m4 THEN m5 ELSE m5 + 1) /\ m7' = m7 + 1
        /\ m6' = Se!Latest(n)
    BY <1>4 DEF Se!EchoReply
  <2>2. /\ x \in Windows /\ x.ntransmitted = m1.ntransmitted /\ x.rcvd = m1.rcvd
        /\ x.nreceived = m1.nreceived /\ x.nrepeats = m1.nrepeats
        /\ Se!Latest(n) \in Nat /\ Se!Latest(n) <= m1.ntransmitted
        /\ ~m8 => Tracks(x, Se!Latest(n))
    BY LatestTracks
  <2>3. s \in m1.rcvd <=> n \in m4
    <3>1. m1.rcvd = {Se!u16(m) : m \in m4}
      BY DEF WindowInv
    <3>2. ASSUME NEW m \in m4, Se!u16(m) = s PROVE m = n
      <4>1. Recent(m1, m)
        BY DEF WindowInv
      <4>2. m \in Nat /\ n \in Nat /\ m - n < window.SEQ /\ n - m < window.SEQ
        BY <1>1, <4>1, Halves DEF Recent, Windows
      <4>3. QED
        BY <3>2, <4>2, OwnNumber
    <3>3. QED
      BY <3>1, <3>2
  <2>4. m1' = IF s \in m1.rcvd THEN [x EXCEPT !.nrepeats = @ + 1]
              ELSE [x EXCEPT !.nreceived = @ + 1, !.rcvd = @ \cup {s}]
    <3>1. x \in Windows
      BY <2>2
    <3>2. m1' = IF s \in m1.rcvd THEN [x EXCEPT !.nrepeats = @ + 1]
                ELSE Se!rcvd_set([x EXCEPT !.nreceived = @ + 1], s)
      BY <1>2, <1>4 DEF Se!gather_statistics, Se!rcvd_test
    <3> HIDE DEF x
    <3>3. Se!rcvd_set([x EXCEPT !.nreceived = @ + 1], s) = [x EXCEPT !.nreceived = @ + 1, !.rcvd = @ \cup {s}]
      BY <3>1 DEF Se!rcvd_set, Windows
    <3>4. QED
      BY <3>2, <3>3
  <2>5. s \in 0 .. window.SEQ - 1
    BY <1>1, Halves DEF Recent
  <2> HIDE DEF x, s
  <2>6. m1' \in Windows /\ m1'.ntransmitted = x.ntransmitted /\ m1'.acked = x.acked
    <3>1. CASE s \in m1.rcvd
      <4>1. m1' = [x EXCEPT !.nrepeats = @ + 1] /\ x \in Windows
        BY <3>1, <2>2, <2>4
      <4>2. QED
        BY ONLY <4>1 DEF Windows
    <3>2. CASE s \notin m1.rcvd
      <4>1. m1' = [x EXCEPT !.nreceived = @ + 1, !.rcvd = @ \cup {s}] /\ x \in Windows
        BY <3>2, <2>2, <2>4
      <4>2. x.rcvd \cup {s} \in SUBSET (0 .. window.SEQ - 1) /\ x.nreceived + 1 \in Nat
        BY ONLY <4>1, <2>5 DEF Windows
      <4>3. QED
        BY ONLY <4>1, <4>2 DEF Windows
    <3>3. QED
      BY <3>1, <3>2
  <2>7. /\ m1'.rcvd = IF n \in m4 THEN m1.rcvd ELSE m1.rcvd \cup {s}
        /\ m1'.nreceived = IF n \in m4 THEN m1.nreceived ELSE m1.nreceived + 1
        /\ m1'.nrepeats = IF n \in m4 THEN m1.nrepeats + 1 ELSE m1.nrepeats
    BY <2>2, <2>3, <2>4 DEF Windows
  <2>8. m1'.rcvd = {Se!u16(m) : m \in m4'}
    <3>1. m1.rcvd = {Se!u16(m) : m \in m4}
      BY DEF WindowInv
    <3>2. {Se!u16(m) : m \in m4 \cup {n}} = m1.rcvd \cup {s}
      BY <3>1 DEF s
    <3>3. n \in m4 => s \in m1.rcvd
      BY <2>3
    <3>4. QED
      BY <2>1, <2>7, <3>2, <3>3
  <2>9. m5' = m1'.nreceived /\ m7' \in Nat /\ m1'.nrepeats = m7' - m5'
    BY <2>1, <2>7, <1>1 DEF WindowInv, Windows
  <2>10. ~m8 => Tracks(m1', m6')
    BY <2>1, <2>2, <2>6 DEF Tracks
  <2>11. \A k \in m3' \cup m4' : Recent(m1', k)
    BY <1>1, <2>1, <2>2, <2>6 DEF WindowInv, Recent
  <2>12. QED
    BY <1>1, <2>1, <2>2, <2>6, <2>8, <2>9, <2>10, <2>11 DEF WindowInv
<1>5. QED
  BY <1>3, <1>4

LEMMA WindowStep ==
  ASSUME Se!SeqAssumption, WindowInv, Se!Next \/ UNCHANGED <<pc, memory>>
  PROVE  WindowInv'
<1>1. CASE \E sent \in BOOLEAN : Se!Probe(sent)
  BY <1>1, ProbeStep
<1>2. CASE \E n \in m3, csfailed \in BOOLEAN : Se!EchoReply(n, csfailed)
  BY <1>2, EchoStep
<1>3. CASE \E n \in m3, origin \in {"icmp", "local"} : Se!ErrorMsg(n, origin)
  BY <1>3, ErrorStep
<1>4. CASE \E n \in m3 : Se!RawError(n)
  BY <1>4, RawStep
<1>5. CASE \E n \in m3 : Se!Lose(n)
  BY <1>5 DEF Se!Lose, WindowInv
<1>6. CASE UNCHANGED <<pc, memory>>
  BY <1>6 DEF memory, WindowInv
<1>7. QED
  BY <1>1, <1>2, <1>3, <1>4, <1>5, <1>6 DEF Se!Next

LEMMA WindowTrue ==
  ASSUME Se!SeqAssumption, WindowInv
  PROVE  Se!CountsExact
<1>1. ~m8 => Se!in_flight(m1) = m1.ntransmitted - m6
  BY FlightExact DEF WindowInv
<1>2. QED
  BY <1>1 DEF WindowInv, Se!CountsExact, Se!InFlightExact

\* gather_statistics(), acknowledge() and in_flight() of ping: for any even
\* number of sequence numbers and any number of probes, however the network
\* loses, duplicates, delays and reorders, across the wrap of the numbers each
\* probe answered is counted once, every other answer is a duplicate, and the
\* estimate of the probes in flight is exact unless half of the numbers were
\* used without an acknowledgement.
THEOREM CountsCorrect == ToolsSpec => []CountsExact
<1> DEFINE Inv == part = "window" => WindowInv
<1>0. Se!SeqAssumption
  BY ToolsAssumption
<1>1. ToolsInit => Inv
  BY <1>0, WindowInit DEF ToolsInit
<1>2. Inv /\ [ToolsNext]_toolVars => Inv'
  BY <1>0, RunsAlone, WindowStep
<1>3. Inv => CountsExact
  BY <1>0, WindowTrue DEF CountsExact
<1>4. QED
  BY <1>1, <1>2, <1>3, PTL DEF ToolsSpec
-----------------------------------------------------------------------------
(* tracepath *)

Errors ==
  [errno : {"EMSGSIZE", "exceeded", "ECONNREFUSED", "EHOSTUNREACH"}, info : Nat,
   slot : 0 .. tracepath.Slots - 1, ttl : Nat, full : BOOLEAN]

\* Where the error of a probe is looked up there is nothing, or the TTL of this
\* probe or of a later one.
Owned(h, t, e) == e.ttl <= t /\ (h[e.slot] = 0 \/ h[e.slot] >= e.ttl)

\* No link of path p is too narrow for packets of length m.
Fitting(p, m) == \A k \in 1 .. Len(p) : m <= p[k]

\* What an error tells of the path, m being the length in use.
Told(p, m, e) ==
  /\ e.errno = "ECONNREFUSED" => Len(p) <= e.ttl /\ Fitting(p, m)
  /\ e.errno = "EMSGSIZE" => e.info <= m /\ \E k \in 1 .. Len(p) : p[k] = e.info

\* An error under way names the first link that is too narrow for its probe, at
\* most t hops away and no wider than the path MTU b that the kernel knows of.
Linked(p, m, t, b, e) ==
  e.errno = "EMSGSIZE" =>
    e.info <= b /\ \E k \in 1 .. Len(p) : k <= t /\ p[k] = e.info /\ \A j \in 1 .. k - 1 : m <= p[j]

\* Later errors name links that are not wider.
Falling(q) ==
  \A i \in DOMAIN q, j \in DOMAIN q :
    i < j /\ q[i].errno = "EMSGSIZE" /\ q[j].errno = "EMSGSIZE" => q[j].info <= q[i].info

\* The errors under way.
Coming ==
  /\ m10 \in Seq(Errors) /\ Falling(m10)
  /\ \A i \in DOMAIN m10 : Owned(m8, m2, m10[i]) /\ Told(m1, m5, m10[i]) /\ Linked(m1, m5, m2, m7, m10[i])

\* The errors that wait on the socket.
Queued ==
  /\ m11 \in Seq(Errors) /\ Falling(m11)
  /\ \A i \in DOMAIN m11 : /\ Owned(m8, m2, m11[i]) /\ Told(m1, m5, m11[i])
                           /\ m11[i].errno = "EMSGSIZE" => m7 <= m11[i].info

\* The length in use is the first one, or what some link lets through.
Lengths ==
  /\ m1 \in Seq(Nat \ {0}) /\ m1 # <<>> /\ m2 \in Nat
  /\ m5 \in Nat /\ m5 <= tracepath.mtu0 /\ (m5 = tracepath.mtu0 \/ \E k \in 1 .. Len(m1) : m5 = m1[k])
  /\ \E k \in 1 .. Len(m1) : m7 = m1[k]
  /\ m8 \in [0 .. tracepath.Slots - 1 -> Nat] /\ m9 \in 0 .. tracepath.Slots - 1
  /\ \A s \in 0 .. tracepath.Slots - 1 : m8[s] <= m2
  /\ m14 # -1 => m14 \in Len(m1) .. m2 /\ Fitting(m1, m5)

\* The errors are read in the order in which they name narrower links, so the
\* length in use never grows.
PathInv == Lengths /\ Coming /\ Queued

LEMMA LeastIs ==
  ASSUME NEW S \in SUBSET Nat, S # {}
  PROVE  Tp!Least(S) \in S /\ \A j \in S : Tp!Least(S) <= j
BY LeastExists DEF Tp!Least

\* The length in use is that of the path when it fits every link: it is the
\* first one, or the MTU of a link.
LEMMA FittingLeast ==
  ASSUME Tp!PathAssumption, PathInv, Fitting(m1, m5)
  PROVE  m5 = Tp!PathMin(Tp!Target)
<1> DEFINE S == {tracepath.mtu0} \cup {m1[j] : j \in 1 .. Len(m1)}
<1>1. tracepath.mtu0 \in Nat /\ \A j \in 1 .. Len(m1) : m1[j] \in Nat
  BY DEF Tp!PathAssumption, PathInv, Lengths
<1>2. S \in SUBSET Nat /\ S # {}
  BY <1>1
<1>3. m5 \in S /\ \A j \in S : m5 <= j
  BY DEF PathInv, Lengths, Fitting
<1>4. Tp!PathMin(Tp!Target) = Tp!Least(S)
  BY DEF Tp!PathMin, Tp!Target
<1> HIDE DEF S
<1>5. Tp!Least(S) \in S /\ \A j \in S : Tp!Least(S) <= j
  BY <1>2, LeastIs
<1>6. m5 \in Nat /\ Tp!Least(S) \in Nat /\ m5 <= Tp!Least(S) /\ Tp!Least(S) <= m5
  BY <1>2, <1>3, <1>5
<1>7. QED
  BY <1>4, <1>6

\* An error remains owned by its probe while the TTL does not fall and a slot is
\* cleared or taken by a probe with the current TTL.
LEMMA OwnedStays ==
  ASSUME NEW e \in Errors, NEW h, NEW t \in Nat, Owned(h, t, e), NEW i, NEW u \in Nat, t <= u,
         \A s \in 0 .. tracepath.Slots - 1 : i[s] \in {0, h[s], u}
  PROVE  Owned(i, u, e)
<1>1. e.slot \in 0 .. tracepath.Slots - 1 /\ e.ttl \in Nat
  BY DEF Errors
<1>2. i[e.slot] = 0 \/ i[e.slot] = h[e.slot] \/ i[e.slot] = u
  BY <1>1
<1>3. e.ttl <= u
  BY <1>1 DEF Owned
<1>4. QED
  BY <1>1, <1>2, <1>3 DEF Owned

\* What an error tells stays true of a smaller length.
LEMMA ToldStays ==
  ASSUME NEW e, NEW p \in Seq(Nat \ {0}), NEW m \in Nat, NEW n \in Nat, n <= m, Told(p, m, e),
         e.errno = "EMSGSIZE" => e.info <= n
  PROVE  Told(p, n, e)
<1>1. Fitting(p, m) => Fitting(p, n)
  <2>1. \A k \in 1 .. Len(p) : p[k] \in Nat
    OBVIOUS
  <2>2. QED
    BY <2>1 DEF Fitting
<1>2. QED
  BY <1>1 DEF Told

\* And the link that an error names, in more hops and as the kernel learns of it.
LEMMA LinkedStays ==
  ASSUME NEW e \in Errors, NEW p \in Seq(Nat \ {0}), NEW m \in Nat, NEW n \in Nat, n <= m,
         NEW t \in Nat, NEW u \in Nat, t <= u, NEW b \in Nat, NEW c \in Nat, Linked(p, m, t, b, e),
         e.errno = "EMSGSIZE" => e.info <= c
  PROVE  Linked(p, n, u, c, e)
<1> SUFFICES ASSUME e.errno = "EMSGSIZE"
             PROVE  \E k \in 1 .. Len(p) : k <= u /\ p[k] = e.info /\ \A j \in 1 .. k - 1 : n <= p[j]
  BY DEF Linked
<1>1. PICK k \in 1 .. Len(p) : k <= t /\ p[k] = e.info /\ \A j \in 1 .. k - 1 : m <= p[j]
  BY DEF Linked
<1>2. \A j \in 1 .. k - 1 : p[j] \in Nat
  OBVIOUS
<1>3. \A j \in 1 .. k - 1 : n <= p[j]
  BY <1>1, <1>2
<1>4. QED
  BY <1>1, <1>3

LEMMA PathInit ==
  ASSUME Tp!PathAssumption, Tp!Init
  PROVE  PathInv
<1>1. m1 \in Seq(Nat \ {0}) /\ m1 # <<>> /\ 1 \in 1 .. Len(m1)
  <2>1. m1 \in Seq(Nat \ {0}) /\ m1 # <<>>
    BY DEF Tp!PathAssumption, Tp!Init
  <2>2. QED
    BY ONLY <2>1
<1>2. tracepath.Slots \in Nat \ {0} /\ tracepath.mtu0 \in Nat
  BY DEF Tp!PathAssumption
<1>3. m8 \in [0 .. tracepath.Slots - 1 -> Nat] /\ \A s \in 0 .. tracepath.Slots - 1 : m8[s] <= m2
  <2>1. m8 = [s \in 0 .. tracepath.Slots - 1 |-> 0] /\ m2 = 0
    BY DEF Tp!Init
  <2>2. QED
    BY ONLY <2>1
<1>4. m10 = <<>> /\ m11 = <<>> /\ m14 = -1 /\ m2 = 0 /\ m5 = tracepath.mtu0 /\ m7 = m1[1] /\ m9 = 0
  BY DEF Tp!Init
<1>5. QED
  BY <1>1, <1>2, <1>3, <1>4 DEF PathInv, Lengths, Coming, Queued, Falling

LEMMA PathTypes ==
  ASSUME PathInv
  PROVE  /\ m1 \in Seq(Nat \ {0}) /\ Len(m1) \in Nat \ {0} /\ \A k \in 1 .. Len(m1) : m1[k] \in Nat
         /\ m2 \in Nat /\ m5 \in Nat /\ m7 \in Nat /\ m10 \in Seq(Errors) /\ m11 \in Seq(Errors)
         /\ \A s \in 0 .. tracepath.Slots - 1 : m8[s] \in Nat /\ m8[s] <= m2
<1>1. m1 \in Seq(Nat \ {0}) /\ m1 # <<>>
  BY DEF PathInv, Lengths
<1>2. Len(m1) \in Nat \ {0} /\ \A k \in 1 .. Len(m1) : m1[k] \in Nat
  BY ONLY <1>1
<1>3. \E k \in 1 .. Len(m1) : m7 = m1[k]
  BY DEF PathInv, Lengths
<1>4. m7 \in Nat
  BY ONLY <1>2, <1>3
<1>5. \A s \in 0 .. tracepath.Slots - 1 : m8[s] \in Nat /\ m8[s] <= m2
  BY DEF PathInv, Lengths
<1>6. QED
  BY <1>1, <1>2, <1>4, <1>5 DEF PathInv, Lengths, Coming, Queued

\* A step that moves the TTL up or writes slots, and what of the errors is as before.
LEMMA SlotStep ==
  ASSUME PathInv, UNCHANGED <<m1, m5, m7, m14>>, m2' \in Nat, m2 <= m2',
         m8' \in [0 .. tracepath.Slots - 1 -> Nat], m9' \in 0 .. tracepath.Slots - 1,
         \A s \in 0 .. tracepath.Slots - 1 : m8'[s] \in {0, m8[s], m2'}
  PROVE  /\ Lengths' /\ (m10' = m10 => Coming') /\ (m11' = m11 => Queued')
         /\ \A i \in DOMAIN m10 : /\ Owned(m8', m2', m10[i]) /\ Told(m1, m5, m10[i])
                                  /\ Linked(m1, m5, m2', m7, m10[i])
<1>1. /\ m1 \in Seq(Nat \ {0}) /\ m2 \in Nat /\ m5 \in Nat /\ m10 \in Seq(Errors) /\ m11 \in Seq(Errors)
      /\ m7 \in Nat /\ \A s \in 0 .. tracepath.Slots - 1 : m8[s] \in Nat /\ m8[s] <= m2
  BY PathTypes
<1>2. \A s \in 0 .. tracepath.Slots - 1 : m8'[s] <= m2'
  BY <1>1
<1>3. ASSUME NEW i \in DOMAIN m10
      PROVE  Owned(m8', m2', m10[i]) /\ Told(m1, m5, m10[i]) /\ Linked(m1, m5, m2', m7, m10[i])
  <2>1. m10[i] \in Errors
    BY <1>1
  <2>2. Owned(m8, m2, m10[i]) /\ Told(m1, m5, m10[i]) /\ Linked(m1, m5, m2, m7, m10[i])
    BY DEF PathInv, Coming
  <2>3. m10[i].errno = "EMSGSIZE" => m10[i].info <= m7
    BY <2>2 DEF Linked
  <2>4. Owned(m8', m2', m10[i])
    BY <1>1, <2>1, <2>2, OwnedStays
  <2>5. Linked(m1, m5, m2', m7, m10[i])
    BY <1>1, <2>1, <2>2, <2>3, LinkedStays
  <2>6. QED
    BY <2>2, <2>4, <2>5
<1>4. ASSUME NEW i \in DOMAIN m11
      PROVE  Owned(m8', m2', m11[i]) /\ Told(m1, m5, m11[i]) /\ (m11[i].errno = "EMSGSIZE" => m7 <= m11[i].info)
  <2>1. m11[i] \in Errors
    BY <1>1
  <2>2. Owned(m8, m2, m11[i]) /\ Told(m1, m5, m11[i]) /\ (m11[i].errno = "EMSGSIZE" => m7 <= m11[i].info)
    BY DEF PathInv, Queued
  <2>3. Owned(m8', m2', m11[i])
    BY <1>1, <2>1, <2>2, OwnedStays
  <2>4. QED
    BY <2>2, <2>3
<1>5. m14 # -1 => m14 \in Len(m1) .. m2' /\ Fitting(m1, m5)
  BY <1>1 DEF PathInv, Lengths
<1>6. Lengths'
  BY <1>2, <1>5 DEF PathInv, Lengths
<1>7. m10' = m10 => Coming'
  BY <1>3 DEF PathInv, Coming
<1>8. m11' = m11 => Queued'
  BY <1>4 DEF PathInv, Queued
<1>9. QED
  BY <1>3, <1>6, <1>7, <1>8

\* Fate(): the first link that is too narrow, the end of the TTL or the target.
LEMMA FateIs ==
  ASSUME PathInv, NEW f, f = Tp!Fate(m2, m5)
  PROVE  /\ f[1] \in {"EMSGSIZE", "exceeded", "ECONNREFUSED"} /\ f[2] \in Nat
         /\ f[1] = "ECONNREFUSED" => Len(m1) <= m2 /\ Fitting(m1, m5)
         /\ f[1] = "EMSGSIZE" => /\ f[2] < m5
                                 /\ \E k \in 1 .. Len(m1) : k <= m2 /\ m1[k] = f[2] /\ \A j \in 1 .. k - 1 : m5 <= m1[j]
<1> DEFINE last == IF m2 < Len(m1) THEN m2 ELSE Len(m1)
           narrow == {k \in 1 .. last : m1[k] < m5}
           k0 == Tp!Least(narrow)
<1>1. /\ Len(m1) \in Nat \ {0} /\ \A k \in 1 .. Len(m1) : m1[k] \in Nat
      /\ m2 \in Nat /\ m5 \in Nat
  BY PathTypes
<1>2. f = IF narrow # {} THEN <<"EMSGSIZE", m1[k0]>>
          ELSE IF m2 < Len(m1) THEN <<"exceeded", 0>> ELSE <<"ECONNREFUSED", 0>>
  BY DEF Tp!Fate, Tp!Target
<1>3. last \in Nat /\ last <= m2 /\ last <= Len(m1)
  BY <1>1
<1>4. CASE narrow # {}
  <2>1. f[1] = "EMSGSIZE" /\ f[2] = m1[k0]
    BY <1>2, <1>4
  <2>2. narrow \in SUBSET Nat
    BY <1>3
  <2>3. k0 \in narrow /\ \A j \in narrow : k0 <= j
    <3> HIDE DEF narrow
    <3>1. QED
      BY <1>4, <2>2, LeastIs
  <2> HIDE DEF k0, last
  <2>4. k0 \in 1 .. Len(m1) /\ k0 <= m2 /\ m1[k0] < m5 /\ m1[k0] \in Nat
    BY <2>3, <1>1, <1>3
  <2>5. ASSUME NEW j \in 1 .. k0 - 1 PROVE m5 <= m1[j]
    <3>1. j \in 1 .. last /\ j \in 1 .. Len(m1) /\ ~(k0 <= j)
      BY <1>1, <1>3, <2>3, <2>4
    <3>2. ~(m1[j] < m5) /\ m1[j] \in Nat
      BY <3>1, <2>3, <1>1
    <3>3. QED
      BY <3>2, <1>1
  <2>6. QED
    BY <2>1, <2>4, <2>5
<1>5. CASE narrow = {} /\ m2 < Len(m1)
  <2>1. f = <<"exceeded", 0>>
    BY <1>2, <1>5
  <2>2. QED
    BY ONLY <2>1
<1>6. CASE narrow = {} /\ ~(m2 < Len(m1))
  <2>1. f = <<"ECONNREFUSED", 0>>
    BY <1>2, <1>6
  <2>2. last = Len(m1) /\ Len(m1) <= m2
    BY <1>1, <1>6
  <2>3. \A k \in 1 .. Len(m1) : ~(m1[k] < m5)
    BY <1>6, <2>2
  <2>4. Fitting(m1, m5)
    BY <1>1, <2>3 DEF Fitting
  <2>5. QED
    BY <2>1, <2>2, <2>4
<1>7. QED
  BY <1>4, <1>5, <1>6

\* The first link that is too narrow for a packet is not wider than those that
\* errors of earlier, longer packets name.
LEMMA Narrower ==
  ASSUME PathInv, NEW i \in DOMAIN m10, m10[i].errno = "EMSGSIZE",
         NEW k \in 1 .. Len(m1), k <= m2, m1[k] < m5, \A j \in 1 .. k - 1 : m5 <= m1[j]
  PROVE  m1[k] <= m10[i].info
<1> DEFINE e == m10[i]
<1>1. Told(m1, m5, e) /\ Linked(m1, m5, m2, m7, e)
  BY DEF PathInv, Coming
<1>2. PICK l \in 1 .. Len(m1) : l <= m2 /\ m1[l] = e.info /\ \A j \in 1 .. l - 1 : m5 <= m1[j]
  BY <1>1 DEF Linked
<1>3. e.info <= m5
  BY <1>1 DEF Told
<1>4. /\ Len(m1) \in Nat \ {0} /\ m5 \in Nat /\ m1[k] \in Nat /\ m1[l] \in Nat
  BY PathTypes
<1> HIDE DEF e
<1>5. CASE l < k
  <2>1. m5 <= m1[l]
    BY <1>5, <1>4
  <2>2. QED
    BY <2>1, <1>2, <1>3, <1>4 DEF e
<1>6. CASE k < l
  <2>1. m5 <= m1[k]
    BY <1>2, <1>4, <1>6
  <2>2. QED
    BY <2>1, <1>4
<1>7. CASE k = l
  BY <1>2, <1>4, <1>7 DEF e
<1>8. QED
  BY <1>4, <1>5, <1>6, <1>7

\* main() and probe_ttl() between the errors.
LEMMA QuietStep ==
  ASSUME Tp!PathAssumption, PathInv,
         Tp!Setup \/ Tp!NextHop \/ Tp!DataWait \/ Tp!ReplyReceived \/ Tp!NoError \/ UNCHANGED <<pc, memory>>
  PROVE  PathInv'
<1>1. /\ m2 \in Nat /\ m9 \in 0 .. tracepath.Slots - 1 /\ tracepath.Slots \in Nat \ {0}
      /\ m8 \in [0 .. tracepath.Slots - 1 -> Nat]
  BY DEF PathInv, Lengths, Tp!PathAssumption
<1>2. /\ UNCHANGED <<m1, m5, m7, m10, m11, m14>> /\ (m2' = m2 \/ m2' = m2 + 1)
      /\ m8' = m8 \/ m8' = [m8 EXCEPT ![m9] = 0]
      /\ m9' = m9 \/ m9' = Tp!NextSlot
  <2>1. CASE Tp!Setup
    BY <2>1 DEF Tp!Setup
  <2>2. CASE Tp!NextHop
    BY <2>2 DEF Tp!NextHop
  <2>3. CASE Tp!DataWait
    BY <2>3 DEF Tp!DataWait
  <2>4. CASE Tp!ReplyReceived
    BY <2>4 DEF Tp!ReplyReceived
  <2>5. CASE Tp!NoError
    <3>1. UNCHANGED <<m1, m2, m5, m7, m10, m11, m14>> /\ Tp!ErrsReturn(m12)
      BY <2>5 DEF Tp!NoError
    <3>2. (m8' = m8 \/ m8' = [m8 EXCEPT ![m9] = 0]) /\ (m9' = m9 \/ m9' = Tp!NextSlot)
      BY <3>1 DEF Tp!ErrsReturn
    <3>3. QED
      BY <3>1, <3>2
  <2>6. CASE UNCHANGED <<pc, memory>>
    BY <2>6 DEF memory
  <2>7. QED
    BY <2>1, <2>2, <2>3, <2>4, <2>5, <2>6
<1>3. Tp!NextSlot \in 0 .. tracepath.Slots - 1
  BY <1>1 DEF Tp!NextSlot
<1>4. m2' \in Nat /\ m2 <= m2' /\ m9' \in 0 .. tracepath.Slots - 1 /\ m8' \in [0 .. tracepath.Slots - 1 -> Nat]
  BY <1>1, <1>2, <1>3
<1>5. \A s \in 0 .. tracepath.Slots - 1 : m8'[s] \in {0, m8[s], m2'}
  BY <1>1, <1>2
<1>6. Lengths' /\ Coming' /\ Queued'
  BY <1>2, <1>4, <1>5, SlotStep
<1>7. QED
  BY <1>6 DEF PathInv

\* An error at the end of a queue.
LEMMA FallingAppend ==
  ASSUME NEW q \in Seq(Errors), Falling(q), NEW e \in Errors,
         \A i \in DOMAIN q : q[i].errno = "EMSGSIZE" /\ e.errno = "EMSGSIZE" => e.info <= q[i].info
  PROVE  Falling(Append(q, e))
<1> DEFINE r == Append(q, e)
           n == Len(q)
<1>1. n \in Nat /\ DOMAIN q = 1 .. n /\ DOMAIN r = 1 .. n + 1 /\ r[n + 1] = e /\ \A i \in 1 .. n : r[i] = q[i]
  OBVIOUS
<1> HIDE DEF r, n
<1> SUFFICES ASSUME NEW i \in 1 .. n + 1, NEW j \in 1 .. n + 1, i < j,
                    r[i].errno = "EMSGSIZE", r[j].errno = "EMSGSIZE"
             PROVE  r[j].info <= r[i].info
  BY <1>1 DEF Falling, r
<1>2. i \in 1 .. n
  BY <1>1
<1>3. CASE j = n + 1
  BY <1>1, <1>2, <1>3
<1>4. CASE j \in 1 .. n
  BY <1>1, <1>2, <1>4 DEF Falling
<1>5. QED
  BY <1>1, <1>3, <1>4

\* The rest of a queue.
LEMMA FallingTail ==
  ASSUME NEW q \in Seq(Errors), q # <<>>, Falling(q)
  PROVE  /\ Tail(q) \in Seq(Errors) /\ Falling(Tail(q)) /\ 1 \in DOMAIN q /\ Head(q) = q[1]
         /\ \A i \in DOMAIN Tail(q) : i + 1 \in DOMAIN q /\ Tail(q)[i] = q[i + 1] /\ 1 < i + 1
<1> DEFINE r == Tail(q)
           n == Len(q)
<1>1. /\ n \in Nat \ {0} /\ DOMAIN q = 1 .. n /\ DOMAIN r = 1 .. n - 1 /\ r \in Seq(Errors)
      /\ \A i \in 1 .. n - 1 : r[i] = q[i + 1]
  OBVIOUS
<1>2. Head(q) = q[1]
  OBVIOUS
<1> HIDE DEF r, n
<1>3. \A i \in 1 .. n - 1 : i + 1 \in 1 .. n /\ 1 < i + 1
  BY <1>1
<1>4. Falling(r)
  <2> SUFFICES ASSUME NEW i \in 1 .. n - 1, NEW j \in 1 .. n - 1, i < j,
                      r[i].errno = "EMSGSIZE", r[j].errno = "EMSGSIZE"
               PROVE  r[j].info <= r[i].info
    BY <1>1 DEF Falling
  <2>1. i + 1 \in DOMAIN q /\ j + 1 \in DOMAIN q /\ i + 1 < j + 1
    BY <1>1, <1>3
  <2>2. q[i + 1].errno = "EMSGSIZE" /\ q[j + 1].errno = "EMSGSIZE"
    BY <1>1
  <2>3. q[j + 1].info <= q[i + 1].info
    BY <2>1, <2>2 DEF Falling
  <2>4. QED
    BY <1>1, <2>3
<1>5. QED
  BY <1>1, <1>2, <1>3, <1>4 DEF r

\* probe_ttl(): a probe leaves, or fails with a pending error.
LEMMA WrittenSlot ==
  ASSUME Tp!PathAssumption, PathInv, m8' = [m8 EXCEPT ![m9] = m2], m2' = m2,
         m9' \in {m9, Tp!NextSlot}
  PROVE  /\ m2' \in Nat /\ m2 <= m2' /\ m9' \in 0 .. tracepath.Slots - 1
         /\ m8' \in [0 .. tracepath.Slots - 1 -> Nat] /\ m8'[m9] = m2 /\ m9 \in 0 .. tracepath.Slots - 1
         /\ \A s \in 0 .. tracepath.Slots - 1 : m8'[s] \in {0, m8[s], m2'}
<1>1. /\ m2 \in Nat /\ m9 \in 0 .. tracepath.Slots - 1 /\ tracepath.Slots \in Nat \ {0}
      /\ m8 \in [0 .. tracepath.Slots - 1 -> Nat]
  BY DEF PathInv, Lengths, Tp!PathAssumption
<1>2. Tp!NextSlot \in 0 .. tracepath.Slots - 1
  BY <1>1 DEF Tp!NextSlot
<1>3. QED
  BY <1>1, <1>2

LEMMA SentStep ==
  ASSUME Tp!PathAssumption, PathInv, Tp!Sent
  PROVE  PathInv'
<1>1. /\ m8' = [m8 EXCEPT ![m9] = m2] /\ m9' = Tp!NextSlot /\ m5 <= m7
      /\ UNCHANGED <<m1, m2, m5, m7, m11, m14>>
  BY DEF Tp!Sent
<1>2. /\ m2' \in Nat /\ m2 <= m2' /\ m9' \in 0 .. tracepath.Slots - 1
      /\ m8' \in [0 .. tracepath.Slots - 1 -> Nat] /\ m8'[m9] = m2 /\ m9 \in 0 .. tracepath.Slots - 1
      /\ \A s \in 0 .. tracepath.Slots - 1 : m8'[s] \in {0, m8[s], m2'}
  BY <1>1, WrittenSlot
<1>3. /\ Lengths' /\ (m10' = m10 => Coming') /\ Queued'
      /\ \A i \in DOMAIN m10 : /\ Owned(m8', m2', m10[i]) /\ Told(m1, m5, m10[i])
                               /\ Linked(m1, m5, m2', m7, m10[i])
  BY <1>1, <1>2, SlotStep
<1>4. CASE m10' = m10
  BY <1>3, <1>4 DEF PathInv
<1>5. CASE \E full \in BOOLEAN, f \in {Tp!Fate(m2, m5), <<"EHOSTUNREACH", 0>>} :
             m10' = Append(m10, [errno |-> f[1], info |-> f[2], slot |-> m9, ttl |-> m2, full |-> full])
  <2>1. PICK full \in BOOLEAN, f \in {Tp!Fate(m2, m5), <<"EHOSTUNREACH", 0>>} :
             m10' = Append(m10, [errno |-> f[1], info |-> f[2], slot |-> m9, ttl |-> m2, full |-> full])
    BY <1>5
  <2> DEFINE e == [errno |-> f[1], info |-> f[2], slot |-> m9, ttl |-> m2, full |-> full]
             n == Len(m10)
  <2>2. /\ m1 \in Seq(Nat \ {0}) /\ Len(m1) \in Nat \ {0} /\ \A k \in 1 .. Len(m1) : m1[k] \in Nat
        /\ m2 \in Nat /\ m5 \in Nat /\ m7 \in Nat /\ m10 \in Seq(Errors) /\ Falling(m10)
    BY PathTypes DEF PathInv, Coming
  <2>3. /\ f[1] \in {"EMSGSIZE", "exceeded", "ECONNREFUSED", "EHOSTUNREACH"} /\ f[2] \in Nat
        /\ f[1] = "ECONNREFUSED" => Len(m1) <= m2 /\ Fitting(m1, m5)
        /\ f[1] = "EMSGSIZE" => /\ f[2] < m5
                                /\ \E k \in 1 .. Len(m1) : k <= m2 /\ m1[k] = f[2] /\ \A j \in 1 .. k - 1 : m5 <= m1[j]
    <3>1. CASE f = Tp!Fate(m2, m5)
      BY <3>1, FateIs
    <3>2. CASE f = <<"EHOSTUNREACH", 0>>
      BY ONLY <3>2
    <3>3. QED
      BY <3>1, <3>2
  <2>4. e \in Errors /\ e.errno = f[1] /\ e.info = f[2] /\ e.ttl = m2 /\ e.slot = m9
    BY <1>2, <2>2, <2>3 DEF Errors
  <2>5. m10' = Append(m10, e)
    BY <2>1
  <2> HIDE DEF e
  <2>6. Owned(m8', m2', e)
    BY <1>1, <1>2, <2>2, <2>4 DEF Owned
  <2>7. Told(m1, m5, e)
    BY <2>2, <2>3, <2>4 DEF Told
  <2>8. Linked(m1, m5, m2', m7, e)
    BY <1>1, <2>2, <2>3, <2>4 DEF Linked
  <2>9. ASSUME NEW i \in DOMAIN m10, m10[i].errno = "EMSGSIZE", e.errno = "EMSGSIZE"
        PROVE  e.info <= m10[i].info
    <3>1. PICK k \in 1 .. Len(m1) : k <= m2 /\ m1[k] = f[2] /\ f[2] < m5 /\ \A j \in 1 .. k - 1 : m5 <= m1[j]
      BY <2>3, <2>4, <2>9
    <3>2. QED
      BY <3>1, <2>4, <2>9, Narrower
  <2>10. Falling(m10')
    BY <2>2, <2>4, <2>5, <2>9, FallingAppend
  <2>11. /\ m10' \in Seq(Errors) /\ DOMAIN m10' = DOMAIN m10 \cup {n + 1} /\ m10'[n + 1] = e
         /\ \A i \in DOMAIN m10 : m10'[i] = m10[i]
    BY <2>2, <2>4, <2>5
  <2>12. ASSUME NEW i \in DOMAIN m10'
         PROVE  Owned(m8', m2', m10'[i]) /\ Told(m1, m5, m10'[i]) /\ Linked(m1, m5, m2', m7, m10'[i])
    BY <1>3, <2>6, <2>7, <2>8, <2>11, <2>12
  <2>13. Coming'
    BY <1>1, <2>10, <2>11, <2>12 DEF Coming
  <2>14. QED
    BY <1>3, <2>13 DEF PathInv
<1>6. QED
  BY <1>4, <1>5 DEF Tp!Sent

LEMMA FailedStep ==
  ASSUME Tp!PathAssumption, PathInv, NEW other \in BOOLEAN, Tp!SendFailed(other)
  PROVE  PathInv'
<1> DEFINE e == [errno |-> "EMSGSIZE", info |-> m7, slot |-> m9, ttl |-> m2, full |-> FALSE]
<1>1. /\ m8' = [m8 EXCEPT ![m9] = m2] /\ m9' = m9
      /\ m11' = IF m5 > m7 /\ m11 = <<>> THEN <<e>> ELSE m11
      /\ UNCHANGED <<m1, m2, m5, m7, m10, m14>>
  BY DEF Tp!SendFailed
<1>2. /\ m2' \in Nat /\ m2 <= m2' /\ m9' \in 0 .. tracepath.Slots - 1
      /\ m8' \in [0 .. tracepath.Slots - 1 -> Nat] /\ m8'[m9] = m2 /\ m9 \in 0 .. tracepath.Slots - 1
      /\ \A s \in 0 .. tracepath.Slots - 1 : m8'[s] \in {0, m8[s], m2'}
  BY <1>1, WrittenSlot
<1>3. Lengths' /\ Coming' /\ (m11' = m11 => Queued')
  BY <1>1, <1>2, SlotStep
<1>4. CASE m11' = m11
  BY <1>3, <1>4 DEF PathInv
<1>5. CASE m5 > m7 /\ m11' = <<e>>
  <2>1. m2 \in Nat /\ m5 \in Nat /\ m7 \in Nat /\ \E k \in 1 .. Len(m1) : m7 = m1[k]
    BY PathTypes DEF PathInv, Lengths
  <2>2. e \in Errors
    BY <1>2, <2>1 DEF Errors
  <2>3. Owned(m8', m2', e)
    BY <1>1, <1>2, <2>1 DEF Owned
  <2>4. Told(m1, m5, e)
    BY <1>5, <2>1 DEF Told
  <2>5. e.errno = "EMSGSIZE" /\ e.info = m7
    OBVIOUS
  <2> HIDE DEF e
  <2>6. m11' \in Seq(Errors) /\ DOMAIN m11' = {1} /\ m11'[1] = e
    BY <1>5, <2>2
  <2>7. Falling(m11')
    BY <2>6 DEF Falling
  <2>8. Queued'
    BY <1>1, <2>1, <2>3, <2>4, <2>5, <2>6, <2>7 DEF Queued
  <2>9. QED
    BY <1>3, <2>8 DEF PathInv
<1>6. QED
  BY <1>1, <1>4, <1>5

\* recverr(): an error is read.
LEMMA RecvErrStep ==
  ASSUME Tp!PathAssumption, PathInv, Tp!RecvErr
  PROVE  PathInv'
<1> DEFINE e == Head(m11)
           used == [m8 EXCEPT ![e.slot] = IF e.slot < tracepath.Slots - 1 THEN 0 ELSE @]
<1>1. /\ m11 # <<>> /\ m11' = Tail(m11) /\ m5' = Tp!NewMtu(e)
      /\ m8' = used \/ m8' = [used EXCEPT ![m9] = 0]
      /\ UNCHANGED <<m1, m2, m7, m9, m10>>
      /\ \/ m14' = m14
         \/ e.errno = "ECONNREFUSED" /\ m14' = IF Tp!SndHops(e) < 0 THEN m2 ELSE Tp!SndHops(e)
  BY DEF Tp!RecvErr
<1>2. /\ m1 \in Seq(Nat \ {0}) /\ Len(m1) \in Nat \ {0} /\ \A k \in 1 .. Len(m1) : m1[k] \in Nat
      /\ m2 \in Nat /\ m5 \in Nat /\ m7 \in Nat /\ m10 \in Seq(Errors) /\ m11 \in Seq(Errors) /\ Falling(m11)
      /\ \A s \in 0 .. tracepath.Slots - 1 : m8[s] \in Nat /\ m8[s] <= m2
  BY PathTypes DEF PathInv, Queued
<1>3. /\ Tail(m11) \in Seq(Errors) /\ Falling(Tail(m11)) /\ 1 \in DOMAIN m11 /\ Head(m11) = m11[1]
      /\ \A i \in DOMAIN Tail(m11) : i + 1 \in DOMAIN m11 /\ Tail(m11)[i] = m11[i + 1] /\ 1 < i + 1
  BY <1>1, <1>2, FallingTail
<1>4. /\ e \in Errors /\ Owned(m8, m2, e) /\ Told(m1, m5, e) /\ (e.errno = "EMSGSIZE" => m7 <= e.info)
  BY <1>2, <1>3 DEF PathInv, Queued
<1>5. e.slot \in 0 .. tracepath.Slots - 1 /\ e.info \in Nat /\ e.ttl \in Nat /\ e.full \in BOOLEAN
  BY <1>4 DEF Errors
<1>6. m8 \in [0 .. tracepath.Slots - 1 -> Nat] /\ m9 \in 0 .. tracepath.Slots - 1
  BY DEF PathInv, Lengths
<1>7. m8' \in [0 .. tracepath.Slots - 1 -> Nat] /\ \A s \in 0 .. tracepath.Slots - 1 : m8'[s] \in {0, m8[s], m2}
  <2> HIDE DEF e
  <2>1. used \in [0 .. tracepath.Slots - 1 -> Nat] /\ \A s \in 0 .. tracepath.Slots - 1 : used[s] \in {0, m8[s]}
    BY <1>5, <1>6
  <2> HIDE DEF used
  <2>2. CASE m8' = used
    BY <2>1, <2>2
  <2>3. CASE m8' = [used EXCEPT ![m9] = 0]
    BY <2>1, <2>3, <1>6
  <2>4. QED
    BY <1>1, <2>2, <2>3
<1> HIDE DEF e, used
<1>8. m5' = IF e.errno = "EMSGSIZE" THEN e.info ELSE m5
  BY <1>1 DEF Tp!NewMtu
<1>9. m5' \in Nat /\ m5' <= m5 /\ (e.errno # "EMSGSIZE" => m5' = m5)
  BY <1>2, <1>4, <1>5, <1>8 DEF Told
<1>10. Fitting(m1, m5) => Fitting(m1, m5')
  BY <1>2, <1>9 DEF Fitting
<1>11. m14' # -1 => m14' \in Len(m1) .. m2 /\ Fitting(m1, m5')
  <2>1. CASE m14' = m14
    BY <1>10, <2>1 DEF PathInv, Lengths
  <2>2. CASE e.errno = "ECONNREFUSED" /\ m14' = IF Tp!SndHops(e) < 0 THEN m2 ELSE Tp!SndHops(e)
    <3>1. Len(m1) <= e.ttl /\ Fitting(m1, m5) /\ e.ttl <= m2 /\ (m8[e.slot] = 0 \/ m8[e.slot] >= e.ttl)
      BY <1>4, <2>2 DEF Told, Owned
    <3>2. m8[e.slot] \in Nat /\ m8[e.slot] <= m2
      BY <1>2, <1>5
    <3>3. Tp!SndHops(e) = -1 \/ Tp!SndHops(e) \in Len(m1) .. m2
      <4>1. Tp!SndHops(e) = e.ttl \/ (Tp!SndHops(e) = m8[e.slot] /\ m8[e.slot] # 0) \/ Tp!SndHops(e) = -1
        BY <1>5 DEF Tp!SndHops
      <4>2. e.ttl \in Len(m1) .. m2
        BY <1>2, <1>5, <3>1
      <4>3. m8[e.slot] # 0 => m8[e.slot] \in Len(m1) .. m2
        BY <1>2, <1>5, <3>1, <3>2
      <4>4. QED
        BY <4>1, <4>2, <4>3
    <3>4. m14' \in Len(m1) .. m2
      <4>1. m2 \in Len(m1) .. m2
        BY <1>2, <1>5, <3>1
      <4>2. QED
        BY <2>2, <3>3, <4>1, <1>2
    <3>5. QED
      BY <1>10, <3>1, <3>4
  <2>3. QED
    BY <1>1, <2>1, <2>2
<1>12. Lengths'
  <2>1. tracepath.mtu0 \in Nat /\ m5 <= tracepath.mtu0
    BY DEF PathInv, Lengths, Tp!PathAssumption
  <2>2. m5' <= tracepath.mtu0
    BY <1>2, <1>9, <2>1
  <2>3. m5' = tracepath.mtu0 \/ \E k \in 1 .. Len(m1) : m5' = m1[k]
    <3>1. CASE e.errno = "EMSGSIZE"
      BY <1>4, <1>8, <3>1 DEF Told
    <3>2. CASE e.errno # "EMSGSIZE"
      BY <1>9, <3>2 DEF PathInv, Lengths
    <3>3. QED
      BY <3>1, <3>2
  <2>4. ASSUME NEW s \in 0 .. tracepath.Slots - 1 PROVE m8'[s] <= m2
    <3>1. m8'[s] = 0 \/ m8'[s] = m8[s] \/ m8'[s] = m2
      BY <1>7
    <3>2. m8[s] <= m2 /\ 0 <= m2 /\ m2 <= m2
      BY <1>2
    <3>3. QED
      BY ONLY <3>1, <3>2
  <2>5. QED
    BY <1>1, <1>7, <1>9, <1>11, <2>2, <2>3, <2>4 DEF PathInv, Lengths
<1>13. Coming'
  <2>1. ASSUME NEW i \in DOMAIN m10
        PROVE  Owned(m8', m2, m10[i]) /\ Told(m1, m5', m10[i]) /\ Linked(m1, m5', m2, m7, m10[i])
    <3>1. m10[i] \in Errors
      BY <1>2
    <3>2. Owned(m8, m2, m10[i]) /\ Told(m1, m5, m10[i]) /\ Linked(m1, m5, m2, m7, m10[i])
      BY DEF PathInv, Coming
    <3>3. m10[i].errno = "EMSGSIZE" => m10[i].info <= m7 /\ m10[i].info <= m5
      BY <3>2 DEF Linked, Told
    <3>4. m10[i].errno = "EMSGSIZE" => m10[i].info <= m5'
      <4>1. m10[i].info \in Nat
        BY <3>1 DEF Errors
      <4>2. QED
        BY <1>2, <1>4, <1>5, <1>8, <3>3, <4>1
    <3>5. Owned(m8', m2, m10[i])
      <4>1. m2 <= m2
        BY <1>2
      <4>2. QED
        BY ONLY <1>2, <1>7, <3>1, <3>2, <4>1, OwnedStays
    <3>6. Told(m1, m5', m10[i])
      BY <1>2, <1>9, <3>2, <3>4, ToldStays
    <3>7. Linked(m1, m5', m2, m7, m10[i])
      <4>1. m2 <= m2
        BY <1>2
      <4>2. QED
        BY ONLY <1>2, <1>9, <3>1, <3>2, <3>3, <4>1, LinkedStays
    <3>8. QED
      BY <3>5, <3>6, <3>7
  <2>2. QED
    BY <1>1, <2>1 DEF PathInv, Coming
<1>14. Queued'
  <2> DEFINE q == Tail(m11)
  <2>1. ASSUME NEW i \in DOMAIN q
        PROVE  Owned(m8', m2, q[i]) /\ Told(m1, m5', q[i]) /\ (q[i].errno = "EMSGSIZE" => m7 <= q[i].info)
    <3>1. i + 1 \in DOMAIN m11 /\ q[i] = m11[i + 1] /\ 1 < i + 1
      BY <1>3
    <3> DEFINE x == m11[i + 1]
    <3>2. x \in Errors /\ Owned(m8, m2, x) /\ Told(m1, m5, x) /\ (x.errno = "EMSGSIZE" => m7 <= x.info)
      BY <3>1, <1>2 DEF PathInv, Queued
    <3>3. x.errno = "EMSGSIZE" => x.info <= m5
      BY <3>2 DEF Told
    <3>4. x.errno = "EMSGSIZE" /\ e.errno = "EMSGSIZE" => x.info <= e.info
      BY <3>1, <1>2, <1>3 DEF Falling, e
    <3> HIDE DEF x
    <3>5. x.errno = "EMSGSIZE" => x.info <= m5'
      BY <1>8, <3>3, <3>4
    <3>6. Owned(m8', m2, x)
      <4>1. m2 <= m2
        BY <1>2
      <4>2. QED
        BY ONLY <1>2, <1>7, <3>2, <4>1, OwnedStays
    <3>7. Told(m1, m5', x)
      BY <1>2, <1>9, <3>2, <3>5, ToldStays
    <3>8. QED
      BY <3>1, <3>2, <3>6, <3>7 DEF x
  <2>2. q \in Seq(Errors) /\ Falling(q)
    BY <1>3
  <2> HIDE DEF q
  <2>3. m11' = q /\ UNCHANGED <<m1, m2, m7>>
    BY <1>1 DEF q
  <2>4. QED
    BY <2>1, <2>2, <2>3 DEF Queued
<1>15. QED
  BY <1>12, <1>13, <1>14 DEF PathInv

\* An error arrives, in its turn.
LEMMA ArriveStep ==
  ASSUME Tp!PathAssumption, PathInv, NEW k \in DOMAIN m10, Tp!Arrive(k), tracepath.Reorder = FALSE
  PROVE  PathInv'
<1> DEFINE e == m10[1]
<1>1. /\ m1 \in Seq(Nat \ {0}) /\ Len(m1) \in Nat \ {0} /\ m2 \in Nat /\ m5 \in Nat /\ m7 \in Nat
      /\ m10 \in Seq(Errors) /\ m11 \in Seq(Errors) /\ Falling(m10) /\ Falling(m11)
  BY PathTypes DEF PathInv, Queued, Coming
<1>2. k = 1 /\ m10 # <<>>
  BY <1>1 DEF Tp!Arrive
<1>3. m10' = Tail(m10)
  <2>1. m10' = Tp!RemoveAt(m10, 1)
    BY <1>2 DEF Tp!Arrive
  <2>2. Tp!RemoveAt(m10, 1) = Tail(m10)
    BY <1>1, <1>2 DEF Tp!RemoveAt
  <2>3. QED
    BY <2>1, <2>2
<1>4. /\ m11' = Append(m11, e)
      /\ m7' = IF e.errno = "EMSGSIZE" /\ e.info < m7 THEN e.info ELSE m7
      /\ UNCHANGED <<m1, m2, m5, m8, m9, m14>>
  BY <1>2 DEF Tp!Arrive
<1>5. /\ Tail(m10) \in Seq(Errors) /\ Falling(Tail(m10)) /\ 1 \in DOMAIN m10
      /\ \A i \in DOMAIN Tail(m10) : i + 1 \in DOMAIN m10 /\ Tail(m10)[i] = m10[i + 1] /\ 1 < i + 1
  BY <1>1, <1>2, FallingTail
<1>6. e \in Errors /\ Owned(m8, m2, e) /\ Told(m1, m5, e) /\ Linked(m1, m5, m2, m7, e)
  BY <1>1, <1>5 DEF PathInv, Coming
<1>7. e.info \in Nat /\ (e.errno = "EMSGSIZE" => e.info <= m7)
  BY <1>6 DEF Errors, Linked
<1>8. m7' = (IF e.errno = "EMSGSIZE" THEN e.info ELSE m7) /\ m7' \in Nat /\ m7' <= m7
  <2> HIDE DEF e
  <2>1. QED
    BY <1>1, <1>4, <1>7
<1>9. Lengths'
  <2>1. \E j \in 1 .. Len(m1) : m7' = m1[j]
    <3>1. CASE e.errno = "EMSGSIZE"
      BY <1>6, <1>8, <3>1 DEF Told
    <3>2. CASE e.errno # "EMSGSIZE"
      BY <1>8, <3>2 DEF PathInv, Lengths
    <3>3. QED
      BY <3>1, <3>2
  <2>2. QED
    BY <1>4, <2>1 DEF PathInv, Lengths
<1>10. Coming'
  <2> DEFINE q == Tail(m10)
  <2>1. ASSUME NEW i \in DOMAIN q
        PROVE  Owned(m8, m2, q[i]) /\ Told(m1, m5, q[i]) /\ Linked(m1, m5, m2, m7', q[i])
    <3>1. i + 1 \in DOMAIN m10 /\ q[i] = m10[i + 1] /\ 1 < i + 1
      BY <1>5
    <3> DEFINE x == m10[i + 1]
    <3>2. x \in Errors /\ Owned(m8, m2, x) /\ Told(m1, m5, x) /\ Linked(m1, m5, m2, m7, x)
      BY <3>1, <1>1 DEF PathInv, Coming
    <3>3. x.errno = "EMSGSIZE" => x.info <= m7
      BY <3>2 DEF Linked
    <3>4. x.errno = "EMSGSIZE" /\ e.errno = "EMSGSIZE" => x.info <= e.info
      BY <3>1, <1>1, <1>5 DEF Falling
    <3> HIDE DEF x, e
    <3>5. x.errno = "EMSGSIZE" => x.info <= m7'
      BY <1>8, <3>3, <3>4
    <3>6. Linked(m1, m5, m2, m7', x)
      <4>1. m2 <= m2 /\ m5 <= m5
        BY <1>1
      <4>2. QED
        BY ONLY <1>1, <1>8, <3>2, <3>5, <4>1, LinkedStays
    <3>7. QED
      BY <3>1, <3>2, <3>6 DEF x
  <2>2. q \in Seq(Errors) /\ Falling(q)
    BY <1>5
  <2> HIDE DEF q
  <2>3. m10' = q /\ UNCHANGED <<m1, m2, m5, m8>>
    BY <1>3, <1>4 DEF q
  <2>4. QED
    BY <2>1, <2>2, <2>3 DEF Coming
<1>11. Queued'
  <2> DEFINE n == Len(m11)
  <2> HIDE DEF e
  <2>1. ASSUME NEW i \in DOMAIN m11
        PROVE  /\ m11[i] \in Errors /\ Owned(m8, m2, m11[i]) /\ Told(m1, m5, m11[i])
               /\ m11[i].errno = "EMSGSIZE" => m7 <= m11[i].info /\ m7' <= m11[i].info
    <3>0. m11[i] \in Errors
      BY <1>1
    <3>1. m11[i] \in Errors /\ m11[i].info \in Nat
      BY ONLY <3>0 DEF Errors
    <3>2. Owned(m8, m2, m11[i]) /\ Told(m1, m5, m11[i]) /\ (m11[i].errno = "EMSGSIZE" => m7 <= m11[i].info)
      BY DEF PathInv, Queued
    <3>3. QED
      BY <1>1, <1>8, <3>1, <3>2
  <2>2. ASSUME NEW i \in DOMAIN m11, m11[i].errno = "EMSGSIZE", e.errno = "EMSGSIZE"
        PROVE  e.info <= m11[i].info
    BY <1>8, <2>1, <2>2
  <2>3. Falling(m11')
    BY <1>1, <1>4, <1>6, <2>2, FallingAppend
  <2>4. /\ m11' \in Seq(Errors) /\ DOMAIN m11' = DOMAIN m11 \cup {n + 1} /\ m11'[n + 1] = e
        /\ \A i \in DOMAIN m11 : m11'[i] = m11[i]
    BY <1>1, <1>4, <1>6
  <2>5. e.errno = "EMSGSIZE" => m7' <= e.info
    BY <1>7, <1>8
  <2>6. ASSUME NEW i \in DOMAIN m11'
        PROVE  /\ Owned(m8, m2, m11'[i]) /\ Told(m1, m5, m11'[i])
               /\ m11'[i].errno = "EMSGSIZE" => m7' <= m11'[i].info
    BY <1>6, <2>1, <2>4, <2>5, <2>6
  <2>7. QED
    BY <1>4, <2>3, <2>4, <2>6 DEF Queued
<1>12. QED
  BY <1>9, <1>10, <1>11 DEF PathInv

LEMMA PathStep ==
  ASSUME Tp!PathAssumption, PathInv, Tp!Next \/ UNCHANGED <<pc, memory>>, tracepath.Reorder = FALSE
  PROVE  PathInv'
<1>1. CASE Tp!Setup \/ Tp!NextHop \/ Tp!DataWait \/ Tp!ReplyReceived \/ Tp!NoError \/ UNCHANGED <<pc, memory>>
  BY <1>1, QuietStep
<1>2. CASE Tp!Sent
  BY <1>2, SentStep
<1>3. CASE Tp!SendFailed(FALSE) \/ Tp!SendFailed(TRUE)
  BY <1>3, FailedStep
<1>4. CASE Tp!RecvErr
  BY <1>4, RecvErrStep
<1>5. CASE \E k \in DOMAIN m10 : Tp!Arrive(k)
  BY <1>5, ArriveStep
<1>6. QED
  BY <1>1, <1>2, <1>3, <1>4, <1>5 DEF Tp!Next, Tp!Step

\* recverr() of tracepath: on any path, as long as the errors come in the order
\* of their causes, a trace that says the target was reached gives the MTU of
\* the path and a number of hops that reaches it, whatever is lost, late or
\* comes back without the payload.
THEOREM PmtuCorrect ==
  ASSUME tracepath.Reorder = FALSE PROVE ToolsSpec => []PmtuTrue
<1> DEFINE Inv == part = "tracepath" => PathInv
<1>0. Tp!PathAssumption
  BY ToolsAssumption
<1>1. ToolsInit => Inv
  BY <1>0, PathInit DEF ToolsInit
<1>2. Inv /\ [ToolsNext]_toolVars => Inv'
  BY <1>0, RunsAlone, PathStep
<1>3. Inv => PmtuTrue
  <2> SUFFICES ASSUME PathInv, m14 # -1 PROVE m5 = Tp!PathMin(Tp!Target) /\ m14 \in Tp!Target .. m2
    BY DEF PmtuTrue, Tp!PmtuTrue
  <2>1. m14 \in Len(m1) .. m2 /\ Fitting(m1, m5)
    BY DEF PathInv, Lengths
  <2>2. QED
    BY <1>0, <2>1, FittingLeast DEF Tp!Target
<1>4. QED
  BY <1>1, <1>2, <1>3, PTL DEF ToolsSpec
=============================================================================
