----------------------------- MODULE MCNetTools -----------------------------
(***************************************************************************)
(* NetTools on small hosts, networks and command lines.                    *)
(***************************************************************************)
EXTENDS NetTools

(* The command lines, files, packets and hosts of the instances. *)
TftpFiles == {<<>>, <<"a", "lf">>, <<"a", "cr", "lf">>, <<"lf", "a", "a">>, <<"cr", "a", "a", "lf", "a">>}

PingOption(i, p, n, d, a) ==
  [interval |-> i, preload |-> p, npackets |-> n, deadline |-> d, adaptive |-> a, timing |-> TRUE, quiet |-> FALSE]
PingOptions == {PingOption(2, 2, 2, 0, FALSE), PingOption(0, 1, 2, 0, FALSE), PingOption(1, 1, 1, 0, TRUE),
                PingOption(2, 1, 0, 4, FALSE)}

ArpOption(mode, b, q, c, t, s, n) ==
  [dad |-> mode = "D", unsolicited |-> mode = "U", advert |-> mode = "U", broadcast_only |-> b,
   quit_on_reply |-> q, count |-> c, timeout |-> t, source |-> s, name |-> n]
ArpOptions == {ArpOption("D", FALSE, TRUE, 2, 0, "0", "e0"), ArpOption("", FALSE, FALSE, 2, 2, "0", ""),
               ArpOption("U", FALSE, FALSE, 2, 0, "0", "e0"), ArpOption("", TRUE, FALSE, -1, 1, "ours", "e0"),
               ArpOption("", FALSE, FALSE, 0, 0, "ours", "")}
ArpPacket(o, sh, di, dh, t) ==
  [op |-> o, src_ip |-> "target", src_hw |-> sh, dst_ip |-> di, dst_hw |-> dh, type |-> t]
ArpPackets == {ArpPacket("reply", "a", "ours", "me", "host"), ArpPacket("request", "b", "x", "bc", "broadcast"),
               ArpPacket("request", "me", "x", "bc", "outgoing"), ArpPacket("reply", "b", "ours", "me", "broadcast")}
ArpDevice(n, u, a, h) ==
  [name |-> n, up |-> u, arp |-> a, halen |-> h, broadaddr |-> h > 0, running |-> n = "e0"]
ArpDevices == {<<ArpDevice("lo", TRUE, FALSE, 6), ArpDevice("e0", TRUE, TRUE, 6)>>,
               <<ArpDevice("e0", TRUE, TRUE, 6), ArpDevice("e1", TRUE, TRUE, 6)>>,
               <<ArpDevice("e0", TRUE, TRUE, 0)>>, <<ArpDevice("lo", TRUE, FALSE, 6)>>,
               <<ArpDevice("e0", FALSE, TRUE, 6), ArpDevice("e1", TRUE, TRUE, 6)>>}

RarpOption(a, o, e, i) == [listen_arp |-> a, allow_offlink |-> o, only_ethers |-> e, ifidx |-> i]
RarpOptions == {RarpOption(TRUE, FALSE, FALSE, "any"), RarpOption(FALSE, TRUE, TRUE, "any"),
                RarpOption(FALSE, FALSE, TRUE, "e0")}
RarpRequest(h, i, p, sane) == [hw |-> h, if |-> i, proto |-> p, op |-> "rrequest", sane |-> sane]
RarpRequests == {RarpRequest("h1", "e0", "rarp", TRUE), RarpRequest("h2", "e1", "rarp", TRUE),
                 RarpRequest("h3", "e0", "arp", TRUE), RarpRequest("h1", "e0", "rarp", FALSE)}

NiAddr(a, i, s, v, st, d) == [addr |-> a, if |-> i, scope |-> s, v6 |-> v, state |-> st, deprecated |-> d]
NiKernels == {<<NiAddr("x", 1, "linklocal", TRUE, "usual", FALSE), NiAddr("y", 1, "global", TRUE, "usual", TRUE),
                NiAddr("z", 2, "global", TRUE, "usual", FALSE), NiAddr("v", 1, "global", FALSE, "secondary", FALSE)>>}
NiHosts == {[labels |-> <<"h">>, dot |-> FALSE, proper |-> TRUE], [labels |-> <<"g", "d">>, dot |-> TRUE, proper |-> TRUE]}
NiQuery(s, d, t, c, u) ==
  [src |-> s, dst |-> d, if |-> 1, qtype |-> t, code |-> c, subject |-> u,
   name |-> [labels |-> <<"h">>, full |-> FALSE], long |-> FALSE, flags |-> {"linklocal", "global"}, nonce |-> 0]
NiQueries == {NiQuery("local", "x", "addr6", "ipv6", "x"), NiQuery("global", "y", "name", "fqdn", ""),
              NiQuery("local", "mclink", "name", "fqdn", ""), NiQuery("local", "y", "addr4", "ipv6", "y"),
              NiQuery("local", "y", "strange", "fqdn", ""), NiQuery("global", "x", "addr6", "ipv6", "x")}
-----------------------------------------------------------------------------
(* Two routers on one link, good, bad and ineligible, that live for two timer ticks. *)
MCrdisc ==
  [Routers |-> {"r1", "r2"}, Link |-> [r1 |-> "e0", r2 |-> "e0", r3 |-> "e1"], Prefs |-> {-1, 0, 1},
   Ttls |-> {0, 6}, TIMER_INTERVAL |-> 3, GETIFCONF_TIMER |-> 3, MAX_SOLICITATIONS |-> 2,
   RouteFaults |-> {"add"}]

(* The shortest interval whose lifetime outlasts a lost advertisement and the phases of the timers. *)
MCrouter ==
  [max_adv_int |-> 14, TIMER_INTERVAL |-> 3, GETIFCONF_TIMER |-> 6, initial_advert_interval |-> 16,
   initial_advertisements |-> 3, Devices |-> {"e0", "e1"}, HostDev |-> "e0"]

(* Blocks of two characters, block numbers of three bits: a line end or a cr may
   be cut by a block, and a file may end with a full block; an upload to an
   empty file, and over a longer and a shorter one. *)
MCtftpd ==
  [Files |-> TftpFiles, Olds |-> {<<>>, <<"x", "x", "x">>}, SEGSIZE |-> 2, Half |-> 4, maxtimeout |-> 2, NetCap |-> 1, QueueCap |-> 1]

(* Sequence numbers of two bits, which wrap. *)
MCwindow ==
  [SEQ |-> 4, MaxProbes |-> 6, MaxRepeats |-> 1, MaxErrors |-> 1]

(* Command lines of up to three options, of root and of a user. *)
MCsetup ==
  [Uids |-> {0, 1}, Intervals |-> {0, 200}, Preloads |-> {3, 4}, Pmtu |-> {"do", "want"},
   INT_MAX |-> 4000, MAX_DUP_CHK |-> 4, MINUSERINTERVAL |-> 200,
   Faults |-> {"malloc", "resolve", "bind", "setsockopt"}, MaxOptions |-> 3]

(* A burst of two, a flood, an adaptive one, and a deadline. *)
MCping ==
  [SEQ |-> 64, MININTERVAL |-> 1, lingertime |-> 3, Longest |-> 3, Options |-> PingOptions,
   Intervals |-> {1, 2}, Rtts |-> {1}, MaxAnswers |-> 2, SendFaults |-> {"oom", "again", "local"},
   MaxAgain |-> 1, Jumps |-> {2}]

(* The options of the three modes, with claims, replies and echoes of this host. *)
MCarping ==
  [Options |-> ArpOptions, Packets |-> ArpPackets, DeviceLists |-> ArpDevices, MaxSendErrors |-> 1,
   MaxReceived |-> 2]

(* Two links and two clients, one of which has addresses on both. *)
MCrarpd ==
  [Ifaces |-> {"e0", "e1"}, Nets |-> {"n1", "n2"},
   Hosts |-> [h1 |-> <<"n1", "n2">>, h2 |-> <<"n2">>], Images |-> {"n1"}, Options |-> RarpOptions,
   Requests |-> RarpRequests, MaxRequests |-> 2, MaxChanges |-> 1, MaxHups |-> 1, MaxFaults |-> 1]

(* A day of twelve milliseconds. *)
MCclockdiff ==
  [MODULO |-> 12, MSGS |-> 2, TRIALS |-> 1, RANGE |-> 1, Skews |-> {-1, 2}, Delays |-> {0, 2},
   Modes |-> {"o"}, MaxLate |-> 2, MaxDup |-> 1]

(* Links that get narrower on the way. *)
MCtracepath ==
  [Paths |-> {<<5, 3>>, <<4>>}, mtu0 |-> 6, max_hops |-> 3, Slots |-> 3, Reorder |-> FALSE,
   Tries |-> 2, Sends |-> 2, MaxLate |-> 2]

(* A target two or three hops away, behind a router that may refuse. *)
MCtraceroute6 ==
  [Distances |-> {2, 3}, Blocked |-> {2}, nprobes |-> 2, max_ttl |-> 3, waittime |-> 2,
   MaxPending |-> 3]

(* An interface with two addresses and one with another, three addresses to a reply. *)
MCninfod ==
  [MaxAddrs |-> 3, Queries |-> NiQueries, Kernels |-> NiKernels, Hosts |-> NiHosts,
   Threads |-> TRUE, MaxQueries |-> 2, MaxRenames |-> 1, MaxFaults |-> 1]
=============================================================================
