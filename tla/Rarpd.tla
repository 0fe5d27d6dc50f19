-------------------------------- MODULE Rarpd --------------------------------
(***************************************************************************)
(* rarpd: the sockets main() opens, its poll loop with the reload on       *)
(* SIGHUP, and serve_it(), which answers a request from a table of the     *)
(* interfaces that may be out of date.                                     *)
(*                                                                         *)
(* An address is known by the net it lies on: kernel[i] is the set of nets *)
(* the interface i has an address on, NoNet an address without mask.       *)
(***************************************************************************)
EXTENDS Integers, FiniteSets, Sequences

CONSTANTS Ifaces, Nets,
          Hosts,      \* /etc/ethers and the name service: hardware address -> nets of its addresses
          Images,     \* nets with a boot image for the client
          Options,    \* command lines, see OptionType
          Requests,   \* what may arrive, see RequestType
          MaxRequests, MaxChanges, MaxHups, MaxFaults   \* bounds on the environment

NoNet == "none"
NoIf == "any"                       \* ifidx = 0: no interface was given

OptionType == [listen_arp : BOOLEAN, allow_offlink : BOOLEAN, only_ethers : BOOLEAN, ifidx : Ifaces \cup {NoIf}]
RequestType == [hw : STRING, if : Ifaces, proto : {"rarp", "arp"}, op : {"rrequest", "other"}, sane : BOOLEAN]

RarpAssumption ==
  /\ NoNet \notin Nets /\ NoIf \notin Ifaces /\ IsFiniteSet(Ifaces) /\ IsFiniteSet(Nets)
  /\ DOMAIN Hosts \subseteq STRING /\ \A h \in DOMAIN Hosts : Hosts[h] \in Seq(Nets)
  /\ Images \subseteq Nets /\ Options \subseteq OptionType /\ Requests \subseteq RequestType
  /\ {MaxRequests, MaxChanges, MaxHups, MaxFaults} \subseteq Nat

VARIABLES
  pc,         \* "start", "test", "configure", "clear", "enter", "poll", "exit"
  opt,
  kernel,     \* the interfaces as they are
  ifl_list,   \* the interfaces as load_if() found them: a function on a subset of Ifaces
  do_reload,
  pset,       \* sockets in the order of the array: "rarp", "arp", or "closed"
  psize,
  inbox,      \* socket -> packets received
  reply,      \* the last answer sent, <<>> before
  requests, changes, hups, faults    \* how much of its bounds the environment used

env == <<requests, changes, hups, faults>>
vars == <<pc, opt, kernel, ifl_list, do_reload, pset, psize, inbox, reply, env>>

Init ==
  /\ pc = "start" /\ opt \in Options
  /\ kernel \in [Ifaces -> {{}, {CHOOSE n \in Nets : TRUE}}]
  /\ ifl_list = <<>> /\ do_reload = TRUE /\ pset = <<"rarp", "closed">> /\ psize = 1
  /\ inbox = [s \in {"rarp", "arp"} |-> <<>>] /\ reply = <<>>
  /\ requests = 0 /\ changes = 0 /\ hups = 0 /\ faults = 0
-----------------------------------------------------------------------------
(* load_if(): what the table becomes.  ok is false when the socket or
   SIOCGIFCONF fails; skipped are interfaces whose own ioctls fail.  A host
   with no address at all keeps the old table. *)
load_if(ok, skipped) ==
  LET listed == {i \in Ifaces : kernel[i] # {}}
  IN  IF ~ok \/ listed = {} THEN ifl_list
      ELSE [i \in {j \in listed \ skipped : opt.ifidx \in {NoIf, j}} |-> kernel[i] \ {NoNet}]

(* A run of load_if(), with or without a fault. *)
Loading(skipped, ok) ==
  IF ok /\ skipped = {} THEN UNCHANGED faults
  ELSE faults < MaxFaults /\ faults' = faults + 1

OnLink(table, i, net) == i \in DOMAIN table /\ net \in table[i]

(* select_ipaddr(): the first of the addresses that is on the link. *)
FirstOnLink(table, i, addrs) ==
  LET on == {k \in DOMAIN addrs : OnLink(table, i, addrs[k])}
  IN  IF on = {} THEN 0 ELSE CHOOSE k \in on : \A j \in on : k <= j

(* select_ipaddr(): the table is read again when the link is unknown or the
   first address is not on it. *)
Stale(i, addrs) == i \notin DOMAIN ifl_list \/ (addrs # <<>> /\ ~OnLink(ifl_list, i, addrs[1]))

(* Mutant: an address of another net is good enough. *)
select_ipaddr_Any(table, i, addrs) ==
  IF i \notin DOMAIN table \/ addrs = <<>> THEN NoNet ELSE addrs[1]

select_ipaddr(table, i, addrs) ==
  LET k == FirstOnLink(table, i, addrs)
  IN  IF k # 0 THEN addrs[k]
      ELSE IF i \in DOMAIN table /\ Len(addrs) = 1 /\ opt.allow_offlink /\ table[i] # {} THEN addrs[1]
      ELSE NoNet

bootable(net) == net \in Images

(* put_myipaddr(): zero for a client that is off the link. *)
put_myipaddr(table, i, net) == IF OnLink(table, i, net) THEN net ELSE NoNet

(* serve_it(): the packets that are not dropped. *)
Accepted(p) == p.op = "rrequest" /\ p.sane /\ opt.ifidx \in {NoIf, p.if}

(* serve_it() on the first packet of a socket.  The reply may fail to be
   sent within five seconds; it is not tried again. *)
serve_it(s, ok, skipped, sent) ==
  LET p == Head(inbox[s])
      known == Accepted(p) /\ p.hw \in DOMAIN Hosts
      table == IF known /\ Stale(p.if, Hosts[p.hw]) THEN load_if(ok, skipped) ELSE ifl_list
      net == select_ipaddr(table, p.if, Hosts[p.hw])
  IN  /\ inbox' = [inbox EXCEPT ![s] = Tail(@)]
      /\ ifl_list' = table
      /\ IF known /\ Stale(p.if, Hosts[p.hw]) THEN Loading(skipped, ok)
         ELSE ok /\ skipped = {} /\ UNCHANGED faults
      /\ reply' = IF known /\ net # NoNet /\ (opt.only_ethers \/ bootable(net)) /\ sent
                    THEN <<p, net, put_myipaddr(table, p.if, net)>> ELSE reply
-----------------------------------------------------------------------------
(* main(): socket() and bind() of the two sockets, each may fail; psize is
   the number of sockets that will be polled. *)
Sockets(rarp, arp) ==
  LET one == <<IF rarp THEN "rarp" ELSE "closed", IF opt.listen_arp /\ arp THEN "arp" ELSE "closed">>
  IN  /\ pc = "start"
      /\ pset' = IF rarp THEN one ELSE <<one[2], one[2]>>
      /\ psize' = IF rarp THEN 1 ELSE 0
      /\ pc' = IF psize' = 0 THEN "exit" ELSE "test"
      /\ UNCHANGED <<opt, kernel, ifl_list, do_reload, inbox, reply, env>>

TestReload ==
  /\ pc = "test" /\ pc' = IF do_reload THEN "configure" ELSE "enter"
  /\ UNCHANGED <<opt, kernel, ifl_list, do_reload, pset, psize, inbox, reply, env>>

(* configure(). *)
Configure(ok, skipped) ==
  /\ pc = "configure" /\ pc' = "clear"
  /\ ifl_list' = load_if(ok, skipped) /\ Loading(skipped, ok)
  /\ UNCHANGED <<opt, kernel, do_reload, pset, psize, inbox, reply, requests, changes, hups>>

(* The flag is cleared after the table was read. *)
ClearReload ==
  /\ pc = "clear" /\ pc' = "enter" /\ do_reload' = FALSE
  /\ UNCHANGED <<opt, kernel, ifl_list, pset, psize, inbox, reply, env>>

EnterPoll ==
  /\ pc = "enter" /\ pc' = "poll"
  /\ UNCHANGED <<opt, kernel, ifl_list, do_reload, pset, psize, inbox, reply, env>>

(* poll() returned: the socket that is polled is served. *)
Poll(ok, skipped, sent) ==
  /\ pc = "poll" /\ pc' = "test"
  /\ \E i \in 1 .. psize :
       /\ pset[i] # "closed" /\ inbox[pset[i]] # <<>>
       /\ serve_it(pset[i], ok, skipped, sent)
  /\ UNCHANGED <<opt, kernel, do_reload, pset, psize, requests, changes, hups>>
-----------------------------------------------------------------------------
(* A packet reaches the socket of its protocol; load_arp_bpflet() keeps
   everything but requests off the ARP socket. *)
Arrive(p) ==
  /\ requests < MaxRequests /\ requests' = requests + 1 /\ pc \notin {"start", "exit"}
  /\ p.proto \in {pset[1], pset[2]} /\ (p.proto = "arp" => p.op = "rrequest")
  /\ inbox' = [inbox EXCEPT ![p.proto] = Append(@, p)]
  /\ UNCHANGED <<pc, opt, kernel, ifl_list, do_reload, pset, psize, reply, changes, hups, faults>>

(* The addresses of an interface are changed. *)
Change(i, nets) ==
  /\ changes < MaxChanges /\ changes' = changes + 1 /\ kernel[i] # nets
  /\ kernel' = [kernel EXCEPT ![i] = nets]
  /\ UNCHANGED <<pc, opt, ifl_list, do_reload, pset, psize, inbox, reply, requests, hups, faults>>

(* sig_hup(); it interrupts poll(). *)
Hup ==
  /\ hups < MaxHups /\ hups' = hups + 1 /\ pc \notin {"start", "exit"}
  /\ do_reload' = TRUE /\ pc' = IF pc = "poll" THEN "test" ELSE pc
  /\ UNCHANGED <<opt, kernel, ifl_list, pset, psize, inbox, reply, requests, changes, faults>>

Step ==
  \/ \E rarp, arp \in BOOLEAN : Sockets(rarp, arp)
  \/ TestReload \/ ClearReload \/ EnterPoll
  \/ \E ok \in BOOLEAN, skipped \in SUBSET Ifaces :
       Configure(ok, skipped) \/ \E sent \in BOOLEAN : Poll(ok, skipped, sent)

Environment ==
  \/ \E p \in Requests : Arrive(p)
  \/ \E i \in Ifaces, nets \in SUBSET (Nets \cup {NoNet}) : Change(i, nets)
  \/ Hup

Next == Step \/ Environment

Spec == Init /\ [][Next]_vars
-----------------------------------------------------------------------------
TypeOK ==
  /\ pc \in {"start", "test", "configure", "clear", "enter", "poll", "exit"}
  /\ opt \in Options /\ kernel \in [Ifaces -> SUBSET (Nets \cup {NoNet})]
  /\ DOMAIN ifl_list \subseteq Ifaces /\ \A i \in DOMAIN ifl_list : ifl_list[i] \subseteq Nets
  /\ do_reload \in BOOLEAN /\ pset \in Seq({"rarp", "arp", "closed"}) /\ psize \in 0 .. 2
  /\ inbox \in [{"rarp", "arp"} -> Seq(Requests)]

(* What a client is told is an address of its own; it lies on a net of the
   link the request came from, and so does the address rarpd gives as its
   own, unless -o allowed an answer off the link and rarpd had no other
   address of the client to choose from. *)
AnswerFits ==
  reply # <<>> =>
    LET p == reply[1]
    IN  /\ p.op = "rrequest" /\ p.sane /\ opt.ifidx \in {NoIf, p.if}
        /\ \E k \in DOMAIN Hosts[p.hw] : Hosts[p.hw][k] = reply[2]
        /\ opt.only_ethers \/ reply[2] \in Images
        /\ reply[3] = reply[2] \/ (reply[3] = NoNet /\ opt.allow_offlink /\ Len(Hosts[p.hw]) = 1)
==============================================================================
