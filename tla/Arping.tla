------------------------------- MODULE Arping -------------------------------
(***************************************************************************)
(* arping: the choice of a device, the probes sent by the SIGALRM handler  *)
(* catcher(), the packets taken by recv_pack() with signals blocked, and   *)
(* the end, in finish(), from either of them or from SIGINT.               *)
(*                                                                         *)
(* Addresses are model values; a packet carries the four of an ARP packet, *)
(* its operation and how it reached this host.  Time is in seconds: the    *)
(* half seconds catcher() adds to its limits make the comparisons strict.  *)
(***************************************************************************)
EXTENDS Integers, FiniteSets, Sequences

CONSTANTS Options,    \* command lines, see OptionType
          Packets,    \* what may arrive
          DeviceLists,\* what getifaddrs() may list
          MaxSendErrors, MaxReceived   \* bounds on failing calls and on answers

Me == "me"            \* hardware address of this host
Zero == "0"           \* no IP address

OptionType == [dad : BOOLEAN, unsolicited : BOOLEAN, advert : BOOLEAN, broadcast_only : BOOLEAN,
               quit_on_reply : BOOLEAN, count : Int, timeout : Nat, source : STRING, name : STRING]
PacketType == [op : {"request", "reply"}, src_ip : STRING, src_hw : STRING, dst_ip : STRING,
               dst_hw : STRING, type : {"host", "broadcast", "outgoing"}]
DeviceType == [name : STRING, up : BOOLEAN, arp : BOOLEAN, halen : Nat, broadaddr : BOOLEAN,
               running : BOOLEAN]

ArpAssumption ==
  /\ Options \subseteq OptionType /\ Packets \subseteq PacketType
  /\ DeviceLists \subseteq Seq(DeviceType) /\ {MaxSendErrors, MaxReceived} \subseteq Nat

VARIABLES
  pc,       \* "find", "source", "loop", "recv", "pack", "exit"
  opt, devices, device, src,
  he,       \* where probes are sent
  unicasting, sent, brd_sent, received, brd_recv, req_recv,
  clock,    \* whole seconds since start, capped
  idle,     \* whether at least a second has passed since the last probe
  alarm,    \* "off", "set" or "due" (SIGALRM pending)
  blocked, inherited, \* SIGALRM and SIGINT are blocked, now and in osset
  queue, errors, status

counters == <<unicasting, sent, brd_sent, received, brd_recv, req_recv>>
vars == <<pc, opt, devices, device, src, he, counters, clock, idle, alarm,
          blocked, inherited, queue, errors, status>>

NoDevice == [name |-> "", up |-> FALSE, arp |-> FALSE, halen |-> 0, broadaddr |-> FALSE,
             running |-> FALSE]

Init ==
  /\ pc = "find" /\ opt \in Options /\ devices \in DeviceLists /\ device = NoDevice
  /\ src = opt.source /\ he = "broadcast"
  /\ unicasting = FALSE /\ sent = 0 /\ brd_sent = 0 /\ received = 0 /\ brd_recv = 0 /\ req_recv = 0
  /\ clock = 0 /\ idle = TRUE /\ alarm = "off"
  /\ inherited \in BOOLEAN /\ blocked = inherited
  /\ queue = <<>> /\ errors = 0 /\ status = 0
-----------------------------------------------------------------------------
(* Mutant: a device that cannot do ARP is taken. *)
check_ifflags_Up(d) == d.up

(* check_ifflags(). *)
check_ifflags(d) == d.up /\ d.arp

Named(d) == opt.name = "" \/ d.name = opt.name

(* The devices a way of looking for them accepts, and the first of them. *)
Fitting(P(_)) ==
  {i \in DOMAIN devices : Named(devices[i]) /\ check_ifflags(devices[i]) /\ P(devices[i])}
FirstOf(fit) == devices[CHOOSE i \in fit : \A j \in fit : i <= j]

(* find_device_by_ifaddrs(): there has to be exactly one. *)
find_device_by_ifaddrs ==
  LET fit == Fitting(LAMBDA d : d.halen > 0 /\ d.broadaddr)
  IN  IF Cardinality(fit) = 1 THEN FirstOf(fit) ELSE NoDevice

(* find_device_by_sysfs(): a device that is running hides those after it, any
   other makes the second one too many. *)
find_device_by_sysfs ==
  LET fit == Fitting(LAMBDA d : d.halen > 0)
  IN  IF fit # {} /\ (Cardinality(fit) = 1 \/ FirstOf(fit).running) THEN FirstOf(fit) ELSE NoDevice

(* find_device_by_ioctl(): the device given by name; without a name each check
   is made of the buffer's empty name, so none is found. *)
find_device_by_ioctl ==
  LET fit == Fitting(LAMBDA d : opt.name # "")
  IN  IF fit # {} THEN FirstOf(fit) ELSE NoDevice

(* check_ifflags(), fatal, for a device given by name. *)
Unfit == {i \in 1 .. Len(devices) : opt.name # "" /\ Named(devices[i]) /\ ~check_ifflags(devices[i])}

End(s) == pc' = "exit" /\ status' = s

(* find_device(): each way is tried when those before it fail as such. *)
find_device ==
  /\ pc = "find"
  /\ IF Unfit # {}
       THEN /\ \E i \in Unfit : End(IF devices[i].up /\ opt.dad THEN 0 ELSE 2)
            /\ UNCHANGED device
       ELSE /\ device' \in {find_device_by_ifaddrs, find_device_by_sysfs, find_device_by_ioctl}
            /\ IF device' = NoDevice THEN End(2) ELSE pc' = "source" /\ UNCHANGED status
  /\ UNCHANGED <<opt, devices, src, he, counters, clock, idle, alarm, blocked, inherited, queue, errors>>

(* main(): the source address: given, the target itself (-U, -A), or the one
   a socket connected to the target gets, "ours"; none for -D. *)
SetSource ==
  /\ pc = "source"
  /\ \/ End(2) /\ UNCHANGED src              \* getaddrinfo(), bind() or connect()
     \/ device.halen = 0 /\ End(IF opt.dad THEN 0 ELSE 2) /\ UNCHANGED src
     \/ /\ device.halen > 0
        /\ src' = IF opt.dad \/ src # Zero THEN src
                  ELSE IF opt.unsolicited THEN "target" ELSE "ours"
        /\ pc' = "loop" /\ UNCHANGED status
  /\ alarm' = "due"                                     \* main() calls catcher()
  /\ UNCHANGED <<opt, devices, device, he, counters, clock, idle, blocked, inherited, queue, errors>>
-----------------------------------------------------------------------------
(* finish(): the exit status. *)
finish(n) == End(IF opt.dad THEN (IF n > 0 THEN 1 ELSE 0)
                 ELSE IF opt.unsolicited \/ n > 0 THEN 0 ELSE 1)

(* send_pack(): counted only when it was sent. *)
send_pack(ok) ==
  /\ IF ok THEN /\ sent' = sent + 1 /\ idle' = FALSE
                /\ brd_sent' = IF unicasting THEN brd_sent ELSE brd_sent + 1
                /\ UNCHANGED errors
     ELSE errors < MaxSendErrors /\ errors' = errors + 1 /\ UNCHANGED <<sent, idle, brd_sent>>

TimeIsUp == opt.timeout > 0 /\ clock > opt.timeout

(* Mutant: with a count one more probe leaves before the test. *)
AllSent_Late == opt.timeout = 0 /\ sent = opt.count + 1

AllSent == opt.timeout = 0 /\ sent = opt.count

(* catcher(), the handler of SIGALRM. *)
Catcher(ok) ==
  /\ alarm = "due" /\ pc \in {"loop", "recv"}
  /\ ~blocked \/ clock = 0                 \* the first one is called by main()
  /\ IF TimeIsUp \/ (idle /\ AllSent)
       THEN finish(received) /\ alarm' = "off" /\ UNCHANGED <<sent, brd_sent, idle, errors>>
       ELSE /\ IF idle THEN send_pack(ok) ELSE ok /\ UNCHANGED <<sent, brd_sent, idle, errors>>
            /\ IF idle /\ sent' = opt.count /\ opt.unsolicited
                 THEN finish(received) /\ alarm' = "off"
                 ELSE alarm' = "set" /\ UNCHANGED <<pc, status>>
  /\ UNCHANGED <<opt, devices, device, src, he, unicasting, received, brd_recv, req_recv, clock,
                 blocked, inherited, queue>>

(* Mutant: the mask of the parent stays. *)
Unblocked_Keep == blocked

(* SIG_UNBLOCK before recvfrom(). *)
Unblocked == FALSE

Unblock ==
  /\ pc = "loop" /\ (alarm # "due" \/ clock > 0)
  /\ blocked' = Unblocked /\ inherited' = blocked /\ pc' = "recv"
  /\ UNCHANGED <<opt, devices, device, src, he, counters, clock, idle, alarm, queue, errors, status>>

(* recvfrom() fails: ENETDOWN ends arping, any other error starts the loop
   again, and the mask it will restore is then the unblocked one. *)
RecvError ==
  /\ pc = "recv" /\ errors < MaxSendErrors /\ errors' = errors + 1
  /\ End(2) \/ (pc' = "loop" /\ UNCHANGED status)
  /\ UNCHANGED <<opt, devices, device, src, he, counters, clock, idle, alarm, blocked, inherited, queue>>

(* recvfrom() returns; a pending signal is handled before it waits. *)
Recvfrom ==
  /\ pc = "recv" /\ queue # <<>>
  /\ pc' = "pack" /\ blocked' = TRUE
  /\ UNCHANGED <<opt, devices, device, src, he, counters, clock, idle, alarm, inherited, queue, errors, status>>

(* recv_pack(): a packet that is an answer, or with -D a claim. *)
Answers(p) ==
  /\ p.type # "outgoing" /\ p.src_ip = "target"
  /\ IF opt.dad THEN p.src_hw # Me /\ (src = Zero \/ p.dst_ip = src)
     ELSE p.dst_ip = src /\ p.dst_hw = Me

recv_pack ==
  LET p == queue[1]
      full == opt.timeout > 0 /\ received + 1 = opt.count
      stop == opt.quit_on_reply \/ (opt.count = 0 /\ received + 1 = sent)
  IN  /\ pc = "pack"
      /\ queue' = <<>> /\ blocked' = inherited
      /\ IF ~Answers(p) THEN pc' = "loop" /\ UNCHANGED <<he, counters, status>>
         ELSE /\ received' = received + 1
              /\ brd_recv' = IF full \/ p.type = "host" THEN brd_recv ELSE brd_recv + 1
              /\ req_recv' = IF full \/ p.op = "reply" THEN req_recv ELSE req_recv + 1
              /\ IF full \/ stop THEN finish(received + 1) /\ UNCHANGED <<he, unicasting>>
                 ELSE /\ pc' = "loop" /\ UNCHANGED status
                      /\ he' = IF opt.broadcast_only THEN he ELSE p.src_hw
                      /\ unicasting' = (unicasting \/ ~opt.broadcast_only)
              /\ UNCHANGED <<sent, brd_sent>>
      /\ UNCHANGED <<opt, devices, device, src, clock, idle, alarm, inherited, errors>>

(* SIGINT. *)
Interrupt ==
  /\ pc \in {"loop", "recv"} /\ ~blocked /\ finish(received)
  /\ UNCHANGED <<opt, devices, device, src, he, counters, clock, idle, alarm, blocked, inherited, queue, errors>>

(* External: a packet; a second, of which catcher() sees all or none. *)
Arrive(p) ==
  /\ pc \in {"loop", "recv"} /\ queue = <<>> /\ sent > 0 /\ received < MaxReceived
  /\ queue' = <<p>>
  /\ UNCHANGED <<pc, opt, devices, device, src, he, counters, clock, idle, alarm, blocked, inherited, errors, status>>

Second ==
  /\ alarm = "set" /\ pc \in {"loop", "recv", "pack"}
  /\ alarm' = "due" /\ idle' = TRUE
  /\ clock' = IF clock <= opt.timeout THEN clock + 1 ELSE clock
  /\ UNCHANGED <<pc, opt, devices, device, src, he, counters, blocked, inherited, queue, errors, status>>

Next ==
  \/ find_device \/ SetSource \/ Unblock \/ RecvError \/ Recvfrom \/ recv_pack \/ Interrupt \/ Second
  \/ \E ok \in BOOLEAN : Catcher(ok)
  \/ \E p \in Packets : Arrive(p)

(* The process runs, seconds pass, and the handler is run when it may be. *)
Spec ==
  /\ Init /\ [][Next]_vars
  /\ WF_vars(find_device \/ SetSource \/ Unblock \/ recv_pack \/ Recvfrom)
  /\ WF_vars(Second) /\ SF_vars(\E ok \in BOOLEAN : Catcher(ok))
-----------------------------------------------------------------------------
TypeOK ==
  /\ pc \in {"find", "source", "loop", "recv", "pack", "exit"} /\ status \in 0 .. 2
  /\ brd_sent <= sent /\ brd_recv <= received /\ alarm \in {"off", "set", "due"}

(* -c without -w: however sending fails and whatever arrives, no more probes
   leave than asked for. *)
ProbesCounted == opt.timeout = 0 /\ opt.count >= 0 => sent <= opt.count

(* find_device(): whichever way found it, arping only ever runs on a device that
   is up, can do ARP, has a hardware address and is the one named, if one is. *)
DeviceFits ==
  pc \in {"loop", "recv", "pack"} => device.up /\ device.arp /\ device.halen > 0 /\ Named(device)

(* -c and -w end arping even if its parent blocked SIGALRM ("Unblock SIGALRM
   so that the previously called alarm() can prevent recvfrom from blocking
   forever"). *)
MustStop == opt.count >= 0 \/ opt.timeout > 0
ArpingStops == MustStop => <>(pc = "exit")
=============================================================================
