----------------------------- MODULE NinfodAddrs -----------------------------
(***************************************************************************)
(* What ninfod answers: the addresses pr_nodeinfo_ipv6addr() and           *)
(* pr_nodeinfo_ipv4addr() collect in two passes over the list that         *)
(* ni_ifaddrs() got from the kernel, and the names of ninfod_name.c.       *)
(*                                                                         *)
(* A name is a sequence of labels and whether it is known to be complete   *)
(* (full: one zero ends its encoding) or only its beginning (two zeros).   *)
(***************************************************************************)
EXTENDS Integers, Sequences
LOCAL INSTANCE SequencesExt

CONSTANTS MaxAddrs    \* addresses that fit into a reply

Scopes == {"loopback", "compat", "linklocal", "sitelocal", "global"}
AddrType == [addr : STRING, if : Nat \ {0}, scope : Scopes, v6 : BOOLEAN,
             state : {"usual", "tentative", "secondary"},
             deprecated : BOOLEAN]

(* ni_ifaddrs(): the netlink dump fails (an error for the caller), there is
   no memory for the list and it looks empty, or it holds what the kernel has. *)
ni_ifaddrs(kernel, v6, how) ==
  IF how \in {"ok", "nodata"} THEN SelectSeq(kernel, LAMBDA a : a.v6 = v6) ELSE <<>>

(* filter_ipv6addr(): which addresses the flags of the query leave out. *)
filter_ipv6addr(a, flags) == a.scope = "loopback" \/ a.scope \notin flags

(* Pass 0: the interface a subject address stands for, 0 for none.  An
   interface found first is only replaced while it is the receiving one. *)
SubjectIf(list, subject, q) ==
  LET start == IF q.dst = subject /\ \E i \in DOMAIN list : list[i].v6 /\ list[i].state = "usual" THEN q.if ELSE 0
      visit(ifindex, a) ==
        IF a.state = "usual" /\ a.scope # "loopback" /\ a.addr = subject /\ (ifindex = 0 \/ ifindex = q.if)
          THEN a.if ELSE ifindex
  IN  FoldLeft(visit, start, list)

(* Pass 1: the number of addresses to be returned. *)
Counted(list, flags, ifindex, v6) ==
  LET wanted(a) == /\ a.state = "usual" \/ (~v6 /\ a.state = "secondary")
                   /\ ("all" \in flags \/ a.if = ifindex)
                   /\ (v6 => ~filter_ipv6addr(a, flags))
  IN  SelectSeq(list, wanted)

Truncated(counted) == Len(counted) >= MaxAddrs

(* Truncation turns on every other flag of an IPv6 query; that of an IPv4
   query gets the flag that says so. *)
FlagsAfter(flags, counted, v6) ==
  IF ~Truncated(counted) THEN flags
  ELSE IF v6 THEN Scopes \cup {"all"} ELSE flags \cup {"truncate"}

(* Pass 2: no more addresses are stored than were counted, in the order of the
   list, preferred ones from the first place and deprecated ones after the
   preferred ones that were counted.  A place that was counted and not filled
   keeps what the memory held; when this pass finds more deprecated or more
   preferred addresses than the first did, it writes over others or beyond the
   addrs0 places that were allocated, and those places are part of the result. *)
Stored(list, flags, ifindex, v6, addrs0, paddrs0) ==
  LET all == Counted(list, flags, ifindex, v6)
      taken == SubSeq(all, 1, IF Len(all) < addrs0 THEN Len(all) ELSE addrs0)
      Place(n) ==
        Len(SelectSeq(SubSeq(taken, 1, n), LAMBDA a : a.deprecated = taken[n].deprecated))
          + (IF taken[n].deprecated THEN paddrs0 ELSE 0)
      store(places, n) == (Place(n) :> taken[n].addr) @@ places
  IN  FoldLeft(store, [k \in 1 .. addrs0 |-> "junk"], [n \in DOMAIN taken |-> n])

(* pr_nodeinfo_ipv6addr(), pr_nodeinfo_ipv4addr(): if1 is the interface of
   the first pass, if2 that of the second. *)
AddrReply(list, flags, if1, if2, v6) ==
  LET counted == Counted(list, flags \ {"truncate"}, if1, v6)
      addrs0 == IF Truncated(counted) THEN MaxAddrs - 1 ELSE Len(counted)
      paddrs0 == Len(SelectSeq(SubSeq(counted, 1, addrs0), LAMBDA a : ~a.deprecated))
  IN  Stored(list, FlagsAfter(flags, counted, v6), if2, v6, addrs0, paddrs0)
-----------------------------------------------------------------------------
(* encode_dnsname(): a host name that is not well formed has no encoding. *)
encode_dnsname(host) ==
  IF host.labels = <<>> \/ ~host.proper THEN <<>> ELSE <<[labels |-> host.labels, full |-> host.dot]>>

(* compare_dnsname(): whether a subject matches the node name. *)
compare_dnsname(s, n) ==
  LET common == {k \in 1 .. Len(s.labels) : \A j \in 1 .. k :
                   j <= Len(n.labels) /\ s.labels[j] = n.labels[j]}
      m == IF common = {} THEN 0 ELSE CHOOSE k \in common : \A j \in common : j <= k
  IN  \/ s = n
      \/ m = Len(s.labels)                            \* the subject is a beginning
      \/ m = Len(n.labels) /\ n.full                  \* the node name is, and complete

(* nodeinfo_group(): a hash of the first label. *)
nodeinfo_group(n) == <<"group", Head(n.labels)>>
==============================================================================
