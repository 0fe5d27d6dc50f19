----------------------------- MODULE PingSetup -----------------------------
(***************************************************************************)
(* From the command line of ping to its main loop: main(), create_socket(),*)
(* ping4_run(), ping6_run() up to main_loop(), setup(), the Node           *)
(* Information options (-N) and the capabilities.                          *)
(*                                                                         *)
(* Options that only select what is printed or a value of a socket option  *)
(* are left out; a system call that may fail is a choice (Fails).          *)
(***************************************************************************)
EXTENDS Integers, FiniteSets

CONSTANTS Uids, Intervals, Preloads, Pmtu,
          INT_MAX, MAX_DUP_CHK, MINUSERINTERVAL,
          Faults,     \* the calls explored as failing
          MaxOptions  \* bound on the options of a command line

SetupAssumption ==
  /\ {MaxOptions, INT_MAX, MAX_DUP_CHK, MINUSERINTERVAL} \subseteq Nat \ {0}
  /\ Intervals \subseteq Nat /\ Preloads \subseteq Int

VARIABLES
  pc,           \* the next step; "loop" is main_loop(), "exit" the end
  uid, permitted, effective,
  given,        \* options seen so far
  o,            \* their values
  ni_query, ni_flag, ni_subject, ni_subject_type,
  family, socktype, sock4, sock6,
  target        \* what the name stands for: [v, multicast]

capVars == <<uid, permitted, effective>>
niVars  == <<ni_query, ni_flag, ni_subject, ni_subject_type>>
sockVars == <<family, socktype, sock4, sock6>>
vars == <<pc, capVars, given, o, niVars, sockVars, target>>

Defaults == [interval |-> 1000, preload |-> 1, pmtudisc |-> "unset", mark |-> FALSE,
             device |-> FALSE, source |-> FALSE]

Targets == [v : {4, 6}, multicast : BOOLEAN]

(* limit_capabilities(): of the capabilities it was started with ping keeps two
   as permitted and none as effective; any failure ends it. *)
Init ==
  /\ pc = "options"
  /\ uid \in Uids /\ permitted \in {{}, {"raw", "admin"}} /\ effective = {}
  /\ given = {} /\ o = Defaults
  /\ ni_query = "none" /\ ni_flag = {} /\ ni_subject = "null" /\ ni_subject_type = "none"
  /\ family = "unspec" /\ socktype = "dgram" /\ sock4 = "closed" /\ sock6 = "closed"
  /\ target = [v |-> 4, multicast |-> FALSE]      \* not known yet

(* modify_capability(): without the capability nothing is done. *)
enable_capability(c)  == effective' = effective \cup ({c} \cap permitted)
disable_capability(c) == effective' = effective \ {c}

Exit == pc' = "exit" /\ UNCHANGED <<capVars, given, o, niVars, sockVars, target>>

(* A call that may fail with an exit does so. *)
Fails(call) == call \in Faults /\ Exit
-----------------------------------------------------------------------------
(* main(): one option of the command line, at most once but for -4 and -6. *)
Option(ch) ==
  /\ pc = "options" /\ ch \notin given /\ Cardinality(given) < MaxOptions
  /\ given' = given \cup {ch} /\ UNCHANGED <<pc, capVars, target>>

(* -4, -6 and a name that ends in one of them. *)
OptFamily(f) ==
  /\ Option(f) /\ family = "unspec" /\ family' = f
  /\ UNCHANGED <<o, niVars, socktype, sock4, sock6>>

OptFamilyTwice(f) == pc = "options" /\ family \notin {"unspec", f} /\ Exit

(* -i, with the double turned into milliseconds. *)
OptInterval(i) == Option("i") /\ o' = [o EXCEPT !.interval = i] /\ UNCHANGED <<niVars, sockVars>>

(* Mutant: the limit for users is not tested. *)
OptPreload_AnyUser(n) ==
  /\ Option("l") /\ n > 0
  /\ o' = [o EXCEPT !.preload = IF n > MAX_DUP_CHK THEN MAX_DUP_CHK ELSE n]
  /\ UNCHANGED <<niVars, sockVars>>

(* -l. *)
OptPreload(n) ==
  LET preload == IF n > MAX_DUP_CHK THEN MAX_DUP_CHK ELSE n
  IN  IF n <= 0 \/ (uid # 0 /\ preload > 3) THEN pc = "options" /\ Exit
      ELSE /\ Option("l") /\ o' = [o EXCEPT !.preload = preload]
           /\ UNCHANGED <<niVars, sockVars>>

(* -f and -b. *)
OptFlag(ch) == Option(ch) /\ UNCHANGED <<o, niVars, sockVars>>

(* -M, -m and -I (a device, or an address to bind). *)
OptValue(ch, v) ==
  /\ Option(ch)
  /\ o' = CASE ch = "M" -> [o EXCEPT !.pmtudisc = v]
            [] ch = "m" -> [o EXCEPT !.mark = TRUE]
            [] ch = "I" -> IF v = "device" THEN [o EXCEPT !.device = TRUE]
                           ELSE [o EXCEPT !.source = TRUE]
  /\ UNCHANGED <<niVars, sockVars>>

(* -N: the suboptions and the query or the subject each of them sets. *)
NiQtype == [name |-> "name", ipv6 |-> "ipv6", ipv6_all |-> "ipv6", ipv4 |-> "ipv4", ipv4_all |-> "ipv4"]
NiFlags == {"ipv6_all", "ipv4_all"}
NiSubjects == {"subj_ipv6", "subj_ipv4", "subj_name"}

niquery_is_enabled == ni_query # "none"
niquery_is_subject_valid == ni_subject_type # "none" /\ ni_subject # "null"

(* Mutant: a second query type replaces the first. *)
Conflict_Subject(opt) == opt \in NiSubjects /\ niquery_is_subject_valid /\ ni_subject_type # opt

(* niquery_set_qtype() and niquery_set_subject_type(): one query type and, once
   there is a subject, one subject type. *)
Conflict(opt) ==
  IF opt \in NiSubjects THEN niquery_is_subject_valid /\ ni_subject_type # opt
  ELSE ni_query \notin {"none", NiQtype[opt]}

(* The handlers of queries, with the flag of some. *)
SetQuery(opt) ==
  /\ ni_query' = NiQtype[opt]
  /\ ni_flag' = IF opt \in NiFlags THEN ni_flag \cup {opt} ELSE ni_flag
  /\ UNCHANGED <<ni_subject, ni_subject_type>>

(* niquery_option_subject_addr_handler(): without memory the address is not
   kept, but its type is. *)
SubjectAddr(opt) == ni_subject' \in {opt} \cup (IF "malloc" \in Faults THEN {ni_subject} ELSE {})

(* niquery_option_subject_name_handler(): the name in DNS form, or the end. *)
SubjectName(opt) == ni_subject' = opt

SetSubject(opt) ==
  /\ ni_subject_type' = opt
  /\ IF opt = "subj_name" THEN SubjectName(opt) ELSE SubjectAddr(opt)
  /\ UNCHANGED <<ni_query, ni_flag>>

NiOption(opt) == IF opt \in NiSubjects THEN SetSubject(opt) ELSE SetQuery(opt)

(* niquery_option_handler(): a handler that refuses leads to the help text,
   which exits; so does a subject that is not found. *)
OptNodeInfo(opt) ==
  IF Conflict(opt) THEN pc = "options" /\ Exit
  ELSE \/ pc = "options" /\ opt \in NiSubjects /\ Fails("resolve")
       \/ Option(opt) /\ NiOption(opt) /\ socktype' = "raw" /\ UNCHANGED <<o, family, sock4, sock6>>
-----------------------------------------------------------------------------
OptionsEnd ==
  /\ pc = "options" /\ pc' = "socket4" /\ enable_capability("raw")
  /\ UNCHANGED <<uid, permitted, given, o, niVars, sockVars, target>>

(* socket(): which kinds the kernel may give out.  A raw one needs CAP_NET_RAW. *)
Created(kind) ==
  IF kind = "raw" THEN (IF "raw" \in effective THEN {"raw", "closed"} ELSE {"closed"})
  ELSE {"dgram", "closed"} \cup (IF "raw" \in effective THEN {"raw"} ELSE {})

(* create_socket(): a datagram socket, or when that is not allowed or not known
   a raw one; an end if the socket was required. *)
create_socket(sock, requisite, next) ==
  \E s \in Created(socktype) :
    /\ sock' = s
    /\ pc' = IF s = "closed" /\ requisite THEN "exit" ELSE next
    /\ UNCHANGED <<capVars, given, o, niVars, family, socktype, target>>

Socket4 ==
  /\ pc = "socket4"
  /\ IF family # "6" THEN create_socket(sock4, family = "4", "socket6") /\ UNCHANGED sock6
     ELSE pc' = "socket6" /\ UNCHANGED <<capVars, given, o, niVars, sockVars, target>>

(* Mutant: the second socket is never required. *)
Socket6_Optional ==
  /\ pc = "socket6"
  /\ IF family # "4" THEN create_socket(sock6, FALSE, "family") /\ UNCHANGED sock4
     ELSE pc' = "family" /\ UNCHANGED <<capVars, given, o, niVars, sockVars, target>>

Socket6 ==
  /\ pc = "socket6"
  /\ IF family # "4" THEN create_socket(sock6, sock4 = "closed", "family") /\ UNCHANGED sock4
     ELSE pc' = "family" /\ UNCHANGED <<capVars, given, o, niVars, sockVars, target>>

(* disable_capability_raw(); a system with one protocol. *)
LimitFamily ==
  /\ pc = "family" /\ pc' = "resolve" /\ disable_capability("raw")
  /\ family' = IF family # "unspec" THEN family
               ELSE IF sock4 = "closed" THEN "6" ELSE IF sock6 = "closed" THEN "4" ELSE family
  /\ UNCHANGED <<uid, permitted, given, o, niVars, socktype, sock4, sock6, target>>

(* getaddrinfo(): an address of the family asked for, or none. *)
Resolve ==
  /\ pc = "resolve"
  /\ \/ Fails("resolve")
     \/ /\ target' \in {t \in Targets : family = "unspec" \/ family = (IF t.v = 4 THEN "4" ELSE "6")}
        /\ pc' = IF target'.v = 4 THEN "bind4" ELSE "bind6"
        /\ UNCHANGED <<capVars, given, o, niVars, sockVars>>

(* ping4_run(): SO_BINDTODEVICE on a socket of its own and on the other, with
   the capability raised around each call; then connect(). *)
Bind4 ==
  /\ pc = "bind4"
  /\ IF o.device /\ ~o.source THEN pc' = "bound4" /\ enable_capability("raw")
     ELSE pc' = "check4" /\ UNCHANGED effective
  /\ UNCHANGED <<uid, permitted, given, o, niVars, sockVars, target>>

Bound4 ==
  /\ pc = "bound4" /\ disable_capability("raw")
  /\ pc' \in {"check4"} \cup (IF "bind" \in Faults THEN {"exit"} ELSE {})
  /\ UNCHANGED <<uid, permitted, given, o, niVars, sockVars, target>>

(* ping6_run(): the same, but a failure exits before the capability is lowered,
   and a Node Information query without a subject asks for the target. *)
Bind6 ==
  /\ pc = "bind6"
  /\ IF o.device /\ ~o.source THEN pc' = "bound6" /\ enable_capability("raw")
     ELSE pc' = "check6" /\ UNCHANGED effective
  /\ IF niquery_is_enabled /\ ~niquery_is_subject_valid
       THEN ni_subject' = "subj_ipv6" /\ ni_subject_type' = "subj_ipv6"
       ELSE UNCHANGED <<ni_subject, ni_subject_type>>
  /\ UNCHANGED <<uid, permitted, given, o, ni_query, ni_flag, sockVars, target>>

Bound6 ==
  /\ pc = "bound6"
  /\ \/ Fails("bind")
     \/ /\ disable_capability("raw") /\ pc' = "check6"
        /\ UNCHANGED <<uid, permitted, given, o, niVars, sockVars, target>>

(* Probes that may be answered by many. *)
ManyAnswer == target.multicast \/ (target.v = 4 /\ "b" \in given)

(* What is required of those, and the calls that may fail. *)
Checked ==
  \/ Fails("setsockopt")
  \/ IF ManyAnswer /\ uid # 0 /\ (o.interval < 1000 \/ o.pmtudisc \notin {"unset", "do"})
       THEN Exit
       ELSE /\ pc' = "setup"
            /\ o' = [o EXCEPT !.pmtudisc = IF ManyAnswer /\ @ = "unset" THEN "do" ELSE @]
            /\ UNCHANGED <<capVars, given, niVars, sockVars, target>>

Check4 == pc = "check4" /\ Checked
Check6 == pc = "check6" /\ Checked

(* setup(): the interval of a flood, the limits, SO_MARK; ping6_run() gives up
   all capabilities after it. *)
Setup ==
  /\ pc = "setup"
  /\ LET interval == IF "f" \in given /\ "i" \notin given THEN 0 ELSE o.interval
     IN  IF (uid # 0 /\ interval < MINUSERINTERVAL) \/ interval >= INT_MAX \div o.preload
           THEN Exit
           ELSE /\ o' = [o EXCEPT !.interval = interval]
                /\ IF o.mark THEN pc' = "mark" /\ enable_capability("admin")
                   ELSE pc' = "ready" /\ UNCHANGED effective
                /\ UNCHANGED <<uid, permitted, given, niVars, sockVars, target>>

Mark ==
  /\ pc = "mark" /\ pc' = "ready" /\ disable_capability("admin")
  /\ UNCHANGED <<uid, permitted, given, o, niVars, sockVars, target>>

drop_capabilities ==
  /\ pc = "ready" /\ pc' = "loop"
  /\ IF target.v = 6 THEN permitted' = {} /\ effective' = {} ELSE UNCHANGED <<permitted, effective>>
  /\ UNCHANGED <<uid, given, o, niVars, sockVars, target>>

Next ==
  \/ \E f \in {"4", "6"} : OptFamily(f) \/ OptFamilyTwice(f)
  \/ \E i \in Intervals : OptInterval(i)
  \/ \E n \in Preloads : OptPreload(n)
  \/ \E ch \in {"f", "b"} : OptFlag(ch)
  \/ \E v \in Pmtu : OptValue("M", v)
  \/ \E v \in {"device", "address"} : OptValue("I", v)
  \/ OptValue("m", "mark")
  \/ \E opt \in NiSubjects \cup DOMAIN NiQtype : OptNodeInfo(opt)
  \/ OptionsEnd \/ Socket4 \/ Socket6 \/ LimitFamily \/ Resolve
  \/ Bind4 \/ Bound4 \/ Bind6 \/ Bound6 \/ Check4 \/ Check6 \/ Setup \/ Mark \/ drop_capabilities

Spec == Init /\ [][Next]_vars
-----------------------------------------------------------------------------
TypeOK ==
  /\ effective \subseteq permitted /\ o.preload \in 1 .. MAX_DUP_CHK /\ o.interval \in Nat
  /\ {sock4, sock6} \subseteq {"closed", "dgram", "raw"} /\ target \in Targets

(* The limits of main(), ping4_run(), ping6_run() and setup(): whatever options
   lead to the loop, a user keeps the interval and the preload of users and
   sends to many at most once a second, unfragmented; and interval * preload,
   which pinger() computes, does not overflow. *)
UserLimits ==
  pc = "loop" =>
    /\ uid # 0 => /\ o.interval >= MINUSERINTERVAL /\ o.preload <= 3
                  /\ target.multicast \/ (target.v = 4 /\ "b" \in given)
                       => o.interval >= 1000 /\ o.pmtudisc = "do"
    /\ o.interval * o.preload <= INT_MAX

(* create_socket() and main(): the loop runs on an open socket of the family of
   the address; no capability is effective in it, nor while a name is looked
   up. *)
SocketReady ==
  /\ pc = "loop" => (IF target.v = 4 THEN sock4 ELSE sock6) # "closed"
  /\ pc \in {"options", "resolve", "loop"} => effective = {}

(* The handlers of -N: the flags sent are flags of the query sent, and the
   subject is of the type that is sent with it. *)
QueryConsistent ==
  (pc = "loop" /\ target.v = 6 /\ niquery_is_enabled) =>
    /\ \A f \in ni_flag : NiQtype[f] = ni_query
    /\ ni_subject = ni_subject_type

(* What holds of every command line that gets to the loop. *)
SetupSound == UserLimits /\ SocketReady /\ QueryConsistent
=============================================================================
