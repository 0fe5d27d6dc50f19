------------------------------ MODULE NetTools ------------------------------
(***************************************************************************)
(* The network tools of iputils, which the benchmark's image builds: twelve*)
(* programs, or halves of one, that run on their own.  part, chosen in the *)
(* initial state, says which of them runs; each is explored completely.    *)
(*                                                                         *)
(* They never run in one process, so they use one memory: pc, and m1 to    *)
(* m19 for the other variables of the program that runs.                   *)
(***************************************************************************)
EXTENDS Integers, Sequences, FiniteSets

CONSTANTS
  Parts,     \* the programs explored
  (* The parameters of each program: a record with a field for every constant
     of its module. *)
  rdisc, router, tftpd, window, setup, ping, arping, rarpd, clockdiff, tracepath, traceroute6, ninfod

VARIABLES part, pc, m1, m2, m3, m4, m5, m6, m7, m8, m9, m10,
          m11, m12, m13, m14, m15, m16, m17, m18, m19

memory == <<m1, m2, m3, m4, m5, m6, m7, m8, m9, m10, m11, m12, m13, m14, m15, m16, m17, m18, m19>>
toolVars == <<part, pc, memory>>
-----------------------------------------------------------------------------
(* The twelve programs. *)
Rd == INSTANCE Rdisc
       WITH Routers <- rdisc.Routers, Link <- rdisc.Link, Prefs <- rdisc.Prefs, Ttls <- rdisc.Ttls,
            TIMER_INTERVAL <- rdisc.TIMER_INTERVAL, GETIFCONF_TIMER <- rdisc.GETIFCONF_TIMER,
            MAX_SOLICITATIONS <- rdisc.MAX_SOLICITATIONS, RouteFaults <- rdisc.RouteFaults,
            best_preference <- m1, solicit <- m2, forever <- m3, ntransmitted <- m4,
            nreceived <- m5, left_until_solicit <- m6, left_until_getifconf <- m7, armed <- m8,
            devs <- m9, interfaces <- m10, table <- m11, kernel <- m12, walk <- m13, max <- m14,
            recalculate_max <- m15, tp <- m16, refused <- m17

Ro == INSTANCE RdiscRouter
       WITH max_adv_int <- router.max_adv_int, TIMER_INTERVAL <- router.TIMER_INTERVAL,
            GETIFCONF_TIMER <- router.GETIFCONF_TIMER,
            initial_advert_interval <- router.initial_advert_interval,
            initial_advertisements <- router.initial_advertisements, Devices <- router.Devices,
            HostDev <- router.HostDev, left_until_advertise <- m1, left_until_getifconf <- m2,
            ntransmitted <- m3, devs <- m4, interfaces <- m5, running <- m6, ahead <- m7,
            host <- m8, lost <- m9

Tf == INSTANCE Tftp
       WITH Files <- tftpd.Files, Olds <- tftpd.Olds, SEGSIZE <- tftpd.SEGSIZE, Half <- tftpd.Half,
            maxtimeout <- tftpd.maxtimeout, NetCap <- tftpd.NetCap, QueueCap <- tftpd.QueueCap,
            req <- m1, content <- m2, i <- m3, bfs <- m4, nextone <- m5, current <- m6,
            newline <- m7, prevchar <- m8, pos <- m9, disk <- m10, block <- m11, timeout <- m12,
            blocked <- m13, queue <- m14, up <- m15, down <- m16, client <- m17, old <- m18,
            failed <- m19

Se == INSTANCE PingSeq
       WITH SEQ <- window.SEQ, MaxProbes <- window.MaxProbes, MaxRepeats <- window.MaxRepeats,
            MaxErrors <- window.MaxErrors, w <- m1, v6 <- m2, net <- m3, answered <- m4,
            distinct <- m5, latest <- m6, echoes <- m7, silent <- m8

Ps == INSTANCE PingSetup
       WITH Uids <- setup.Uids, Intervals <- setup.Intervals, Preloads <- setup.Preloads,
            Pmtu <- setup.Pmtu, INT_MAX <- setup.INT_MAX, MAX_DUP_CHK <- setup.MAX_DUP_CHK,
            MINUSERINTERVAL <- setup.MINUSERINTERVAL, Faults <- setup.Faults,
            MaxOptions <- setup.MaxOptions, uid <- m1, permitted <- m2, effective <- m3,
            given <- m4, o <- m5, ni_query <- m6, ni_flag <- m7, ni_subject <- m8,
            ni_subject_type <- m9, family <- m10, socktype <- m11, sock4 <- m12, sock6 <- m13,
            target <- m14

Pl == INSTANCE PingLoop
       WITH SEQ <- ping.SEQ, MININTERVAL <- ping.MININTERVAL, lingertime <- ping.lingertime,
            Longest <- ping.Longest, Options <- ping.Options, Intervals <- ping.Intervals,
            Rtts <- ping.Rtts, MaxAnswers <- ping.MaxAnswers, SendFaults <- ping.SendFaults,
            MaxAgain <- ping.MaxAgain, Jumps <- ping.Jumps, w <- m1, opt <- m2, interval <- m3,
            tokens <- m4, oom_count <- m5, since <- m6, tmax <- m7, waittime <- m8, alarm <- m9,
            exiting <- m10, left <- m11, net <- m12, rq <- m13, once <- m14, again <- m15,
            status <- m16, bucket <- m17

Ar == INSTANCE Arping
       WITH Options <- arping.Options, Packets <- arping.Packets, DeviceLists <- arping.DeviceLists,
            MaxSendErrors <- arping.MaxSendErrors, MaxReceived <- arping.MaxReceived, opt <- m1,
            devices <- m2, device <- m3, src <- m4, he <- m5, unicasting <- m6, sent <- m7,
            brd_sent <- m8, received <- m9, brd_recv <- m10, req_recv <- m11, clock <- m12,
            idle <- m13, alarm <- m14, blocked <- m15, inherited <- m16, queue <- m17,
            errors <- m18, status <- m19

Ra == INSTANCE Rarpd
       WITH Ifaces <- rarpd.Ifaces, Nets <- rarpd.Nets, Hosts <- rarpd.Hosts,
            Images <- rarpd.Images, Options <- rarpd.Options, Requests <- rarpd.Requests,
            MaxRequests <- rarpd.MaxRequests, MaxChanges <- rarpd.MaxChanges,
            MaxHups <- rarpd.MaxHups, MaxFaults <- rarpd.MaxFaults, opt <- m1, kernel <- m2,
            ifl_list <- m3, do_reload <- m4, pset <- m5, psize <- m6, inbox <- m7, reply <- m8,
            requests <- m9, changes <- m10, hups <- m11, faults <- m12

Cd == INSTANCE Clockdiff
       WITH MODULO <- clockdiff.MODULO, MSGS <- clockdiff.MSGS, TRIALS <- clockdiff.TRIALS,
            RANGE <- clockdiff.RANGE, Skews <- clockdiff.Skews, Delays <- clockdiff.Delays,
            Modes <- clockdiff.Modes, MaxLate <- clockdiff.MaxLate, MaxDup <- clockdiff.MaxDup,
            mode <- m1, skew <- m2, now <- m3, seqno <- m4, acked <- m5, msgcount <- m6, min1 <- m7,
            min2 <- m8, min_rtt <- m9, measure_delta <- m10, measure_delta1 <- m11, net <- m12,
            dup <- m13, status <- m14

Tp == INSTANCE Tracepath
       WITH Paths <- tracepath.Paths, mtu0 <- tracepath.mtu0, max_hops <- tracepath.max_hops,
            Slots <- tracepath.Slots, Reorder <- tracepath.Reorder, Tries <- tracepath.Tries,
            Sends <- tracepath.Sends, MaxLate <- tracepath.MaxLate, path <- m1, ttl <- m2,
            try <- m3, send_try <- m4, mtu <- m5, old_mtu <- m6, pmtu <- m7, his <- m8,
            hisptr <- m9, net <- m10, errq <- m11, progress <- m12, caller <- m13, hops_to <- m14,
            status <- m15

Tr == INSTANCE Traceroute6
       WITH Distances <- traceroute6.Distances, Blocked <- traceroute6.Blocked,
            nprobes <- traceroute6.nprobes, max_ttl <- traceroute6.max_ttl,
            waittime <- traceroute6.waittime, MaxPending <- traceroute6.MaxPending, distance <- m1,
            ttl <- m2, probe <- m3, seq <- m4, wait <- m5, got_there <- m6, unreachable <- m7,
            pending <- m8, report <- m9, status <- m10

Ni == INSTANCE Ninfod
       WITH MaxAddrs <- ninfod.MaxAddrs, Queries <- ninfod.Queries, Kernels <- ninfod.Kernels,
            Hosts <- ninfod.Hosts, Threads <- ninfod.Threads, MaxQueries <- ninfod.MaxQueries,
            MaxRenames <- ninfod.MaxRenames, MaxFaults <- ninfod.MaxFaults, pidfile <- m1,
            kernel <- m2, host <- m3, nodename <- m4, nigroup <- m5, joined <- m6, got_signal <- m7,
            query <- m8, inbox <- m9, workers <- m10, sent <- m11, last <- m12, contexts <- m13,
            buffers <- m14, queries <- m15, renames <- m16, faults <- m17

ASSUME ToolsAssumption ==
  /\ Rd!RdiscAssumption /\ Ro!RouterAssumption /\ Tf!TftpAssumption /\ Se!SeqAssumption
  /\ Ps!SetupAssumption /\ Pl!LoopAssumption /\ Ar!ArpAssumption /\ Ra!RarpAssumption
  /\ Cd!ClockAssumption /\ Tp!PathAssumption /\ Tr!TraceAssumption /\ Ni!NinfoAssumption

(* Memory the program that runs does not use. *)
Unused8 == m9 = 0 /\ m10 = 0 /\ m11 = 0 /\ m12 = 0 /\ m13 = 0 /\ m14 = 0 /\ m15 = 0 /\ m16 = 0 /\ m17 = 0 /\ m18 = 0 /\ m19 = 0
Unused9 == m10 = 0 /\ m11 = 0 /\ m12 = 0 /\ m13 = 0 /\ m14 = 0 /\ m15 = 0 /\ m16 = 0 /\ m17 = 0 /\ m18 = 0 /\ m19 = 0
Unused10 == m11 = 0 /\ m12 = 0 /\ m13 = 0 /\ m14 = 0 /\ m15 = 0 /\ m16 = 0 /\ m17 = 0 /\ m18 = 0 /\ m19 = 0
Unused12 == m13 = 0 /\ m14 = 0 /\ m15 = 0 /\ m16 = 0 /\ m17 = 0 /\ m18 = 0 /\ m19 = 0
Unused14 == m15 = 0 /\ m16 = 0 /\ m17 = 0 /\ m18 = 0 /\ m19 = 0
Unused15 == m16 = 0 /\ m17 = 0 /\ m18 = 0 /\ m19 = 0
Unused17 == m18 = 0 /\ m19 = 0

ToolsInit ==
  /\ part \in Parts
  /\ \/ part = "rdisc" /\ Rd!Init /\ Unused17
     \/ part = "router" /\ Ro!Init /\ pc = "none" /\ Unused9
     \/ part = "tftpd" /\ Tf!Init
     \/ part = "window" /\ Se!Init /\ pc = "none" /\ Unused8
     \/ part = "setup" /\ Ps!Init /\ Unused14
     \/ part = "ping" /\ Pl!Init /\ Unused17
     \/ part = "arping" /\ Ar!Init
     \/ part = "rarpd" /\ Ra!Init /\ Unused12
     \/ part = "clockdiff" /\ Cd!Init /\ Unused14
     \/ part = "tracepath" /\ Tp!Init /\ Unused15
     \/ part = "traceroute6" /\ Tr!Init /\ Unused10
     \/ part = "ninfod" /\ Ni!Init /\ Unused17

InRdisc(A) == part = "rdisc" /\ A /\ UNCHANGED <<part, m18, m19>>
InRdiscRouter(A) == part = "router" /\ A /\ UNCHANGED <<part, pc, m10, m11, m12, m13, m14, m15, m16, m17, m18, m19>>
InTftp(A) == part = "tftpd" /\ A /\ UNCHANGED <<part>>
InPingSeq(A) == part = "window" /\ A /\ UNCHANGED <<part, pc, m9, m10, m11, m12, m13, m14, m15, m16, m17, m18, m19>>
InPingSetup(A) == part = "setup" /\ A /\ UNCHANGED <<part, m15, m16, m17, m18, m19>>
InPingLoop(A) == part = "ping" /\ A /\ UNCHANGED <<part, m18, m19>>
InArping(A) == part = "arping" /\ A /\ UNCHANGED <<part>>
InRarpd(A) == part = "rarpd" /\ A /\ UNCHANGED <<part, m13, m14, m15, m16, m17, m18, m19>>
InClockdiff(A) == part = "clockdiff" /\ A /\ UNCHANGED <<part, m15, m16, m17, m18, m19>>
InTracepath(A) == part = "tracepath" /\ A /\ UNCHANGED <<part, m16, m17, m18, m19>>
InTraceroute6(A) == part = "traceroute6" /\ A /\ UNCHANGED <<part, m11, m12, m13, m14, m15, m16, m17, m18, m19>>
InNinfod(A) == part = "ninfod" /\ A /\ UNCHANGED <<part, m18, m19>>

ToolsNext ==
  \/ InRdisc(Rd!Next) \/ InRdiscRouter(Ro!Next) \/ InTftp(Tf!Next) \/ InPingSeq(Se!Next)
  \/ InPingSetup(Ps!Next) \/ InPingLoop(Pl!Next) \/ InArping(Ar!Next) \/ InRarpd(Ra!Next)
  \/ InClockdiff(Cd!Next) \/ InTracepath(Tp!Next) \/ InTraceroute6(Tr!Next) \/ InNinfod(Ni!Next)

ToolsSpec == ToolsInit /\ [][ToolsNext]_toolVars

(* With the fairness of rdisc, ping, arping and traceroute6, see Spec in their
   modules. *)
FairSpec ==
  /\ ToolsSpec
  /\ WF_toolVars(InRdisc(Rd!Timer)) /\ WF_toolVars(InRdisc(\E r \in rdisc.Routers : Rd!AgeEntry(r)))
  /\ WF_toolVars(InRdisc(Rd!DeleteExpired)) /\ WF_toolVars(InRdisc(\E r \in rdisc.Routers : Rd!AddRoute(r)))
  /\ WF_toolVars(InRdisc(Rd!MarkRoute)) /\ WF_toolVars(InRdisc(Rd!Rearm))
  /\ WF_toolVars(InPingLoop(Pl!Step)) /\ WF_toolVars(InPingLoop(Pl!Tick))
  /\ WF_toolVars(InArping(Ar!find_device \/ Ar!SetSource \/ Ar!Unblock \/ Ar!recv_pack \/ Ar!Recvfrom))
  /\ WF_toolVars(InArping(Ar!Second)) /\ SF_toolVars(InArping(\E ok \in BOOLEAN : Ar!Catcher(ok)))
  /\ WF_toolVars(InTraceroute6(Tr!Step))
-----------------------------------------------------------------------------
(* The state of the program that runs has its type. *)
ToolsTypeOK ==
  /\ part = "rdisc" => Rd!TypeOK
  /\ part = "router" => Ro!TypeOK
  /\ part = "tftpd" => Tf!TypeOK
  /\ part = "window" => Se!TypeOK
  /\ part = "setup" => Ps!TypeOK
  /\ part = "ping" => Pl!TypeOK
  /\ part = "arping" => Ar!TypeOK
  /\ part = "rarpd" => Ra!TypeOK
  /\ part = "clockdiff" => Cd!TypeOK
  /\ part = "tracepath" => Tp!TypeOK
  /\ part = "traceroute6" => Tr!TypeOK
  /\ part = "ninfod" => Ni!TypeOK

(* rdisc, record_router() and age_table(): the routes in the kernel are those
   of the best routers, and none is forgotten. *)
RoutesAreBest == part = "rdisc" => Rd!RoutesAreBest

(* rdisc, timer(): a router that falls silent loses its route. *)
SilentRouterDropped ==
  \A r \in rdisc.Routers :
    \/ []<><<InRdisc(Rd!Advertised(r))>>_toolVars
    \/ <>[](part = "rdisc" => Rd!Dropped(r)) \/ <>(pc = "exit")

(* rdisc as a router, timer(): hosts keep their route while it runs. *)
RouteKept == [][part = "router" => Ro!KeepsRoute]_toolVars

(* tftpd: a transfer that was completed is the file, as far as reads and writes
   of the file worked, and no packet on the way carries another block than it
   says. *)
TransferIntact == part = "tftpd" => Tf!TransferIntact

(* ping, gather_statistics(): answers are counted once, over the wrap of the
   sequence numbers, and in_flight() is exact. *)
CountsExact == part = "window" => Se!CountsExact

(* ping, main() to setup(): a user's limits, the socket and the node
   information query of any command line. *)
SetupSound == part = "setup" => Ps!SetupSound

(* ping, pinger(): no more probes than interval and preload allow. *)
PacketsPaced == part = "ping" => Pl!PacketsPaced

(* ping, __schedule_exit(): -c and -w end it. *)
StopsTimed == (part = "ping" /\ Pl!MustStop /\ Pl!TimerSet) => <>(pc = "done")

(* arping counts its probes and uses a fit device; traceroute6 reports for a
   hop what was caused by a probe of that hop. *)
ProbesOwn ==
  /\ part = "arping" => Ar!ProbesCounted /\ Ar!DeviceFits
  /\ part = "traceroute6" => Tr!HopsOwn

(* arping with -c or -w ends, and so does every trace of traceroute6, under
   any traffic. *)
ToolsEnd == (part = "traceroute6" \/ (part = "arping" /\ Ar!MustStop)) => <>(pc = "exit")

(* rarpd, serve_it(): a client is told an address of its own that fits its
   link. *)
AnswerFits == part = "rarpd" => Ra!AnswerFits

(* clockdiff, measure(): the difference is right to within the round trip. *)
Accurate == part = "clockdiff" => Cd!Accurate

(* tracepath: the path MTU and the number of hops are true. *)
PmtuTrue == part = "tracepath" => Tp!PmtuTrue

(* ninfod, pr_nodeinfo(): no context is lost or freed twice, and a query from
   afar is refused. *)
RepliesSound == part = "ninfod" => Ni!ContextsFreed /\ Ni!PolicyKept
=============================================================================
