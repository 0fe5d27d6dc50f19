-------------------------------- MODULE Ninfod --------------------------------
(***************************************************************************)
(* ninfod: start as a daemon, the main loop that takes one query after the *)
(* other, pr_nodeinfo() with its ten steps, the workers that send replies  *)
(* after a random delay, and the end on a signal.                          *)
(***************************************************************************)
EXTENDS NinfodAddrs, FiniteSets

CONSTANTS Queries,     \* what may arrive, see QueryType
          Kernels,     \* lists of addresses the host may have
          Hosts,       \* what uname() may give: [labels, dot, proper]
          Threads,     \* whether replies are sent by threads or by processes
          MaxQueries, MaxRenames, MaxFaults    \* bounds on the environment

QueryType == [src : {"local", "global"}, dst : STRING, if : Nat, qtype : STRING, code : STRING,
              subject : STRING, name : [labels : Seq(STRING), full : BOOLEAN], long : BOOLEAN,
              flags : SUBSET (Scopes \cup {"all"}), nonce : Nat]

NinfoAssumption ==
  /\ Queries \subseteq QueryType /\ \A k \in Kernels : k \in Seq(AddrType)
  /\ Threads \in BOOLEAN /\ {MaxAddrs, MaxQueries, MaxRenames, MaxFaults} \subseteq Nat

VARIABLES
  pc,          \* "start", "alloc", "test", "recv", "taken", "exit"
  pidfile,     \* "none", "mine", "other"
  kernel, host, \* addresses and name of the host, as they are
  nodename, nigroup, \* as init_core() found them; <<>> for none
  joined,      \* groups the socket is a member of
  got_signal,
  query,       \* the query being taken, <<>> for none
  inbox,
  workers,     \* replies not yet sent
  sent,
  last,        \* whether the last limited reply was sent within this second
  contexts, buffers,   \* memory in use
  queries, renames, faults   \* how much of its bounds the environment used

env == <<queries, renames, faults>>
memory == <<contexts, buffers>>
naming == <<nodename, nigroup, joined>>
vars == <<pc, pidfile, kernel, host, naming, got_signal, query, inbox, workers, sent, last, memory, env>>

Init ==
  /\ pc = "start" /\ pidfile \in {"none", "other"} /\ kernel \in Kernels /\ host \in Hosts
  /\ nodename = <<>> /\ nigroup = <<>> /\ joined = {} /\ got_signal = FALSE /\ query = <<>> /\ inbox = <<>>
  /\ workers = {} /\ sent = {} /\ last = FALSE /\ contexts = 0 /\ buffers = 0
  /\ queries = 0 /\ renames = 0 /\ faults = 0
-----------------------------------------------------------------------------
(* init_nodeinfo_nodename(), the only part of init_core() that has state:
   leave the group of the old name and join that of the new one. *)
Rename(leaves, joins) ==
  LET new == encode_dnsname(host)
      left == IF nigroup # <<>> /\ leaves THEN joined \ {nigroup} ELSE joined
  IN  /\ nodename' = new
      /\ IF new = <<>> \/ ~joins THEN nigroup' = <<>> /\ joined' = left
         ELSE nigroup' = nodeinfo_group(new[1]) /\ joined' = left \cup {nigroup'}

init_core(forced, leaves, joins) ==
  IF forced \/ encode_dnsname(host) # nodename THEN Rename(leaves, joins)
  ELSE leaves /\ joins /\ UNCHANGED naming

(* main() up to the loop: capabilities, socket, arguments; do_daemonize()
   takes the pid file unless there is one. *)
Start(ok, daemon) ==
  /\ pc = "start"
  /\ IF ~ok \/ (daemon /\ pidfile = "other") THEN pc' = "exit" /\ UNCHANGED <<pidfile, naming>>
     ELSE /\ pc' = "alloc" /\ pidfile' = IF daemon THEN "mine" ELSE pidfile
          /\ \E leaves, joins \in BOOLEAN : init_core(TRUE, leaves, joins)
  /\ UNCHANGED <<kernel, host, got_signal, query, inbox, workers, sent, last, memory, env>>

(* Cleanup: cleanup_pidfile(); threads end with the process. *)
Quit ==
  /\ pc' = "exit" /\ pidfile' = IF pidfile = "mine" THEN "none" ELSE pidfile
  /\ workers' = IF Threads THEN {} ELSE workers

(* main(): the top of the loop; without memory it sleeps and tries again. *)
Alloc(ok) ==
  /\ pc = "alloc"
  /\ IF got_signal THEN ok /\ Quit /\ UNCHANGED <<memory, naming, faults>>
     ELSE /\ \E leaves, joins \in BOOLEAN : init_core(FALSE, leaves, joins)
          /\ IF ok THEN pc' = "test" /\ contexts' = contexts + 1 /\ UNCHANGED faults
             ELSE faults < MaxFaults /\ faults' = faults + 1 /\ UNCHANGED <<pc, contexts>>
          /\ UNCHANGED <<pidfile, workers, buffers>>
  /\ UNCHANGED <<kernel, host, got_signal, query, inbox, sent, last, queries, renames>>

(* The inner loop looks at the signal before it blocks in recvmsg(). *)
Test ==
  /\ pc = "test" /\ pc' = IF got_signal THEN "taken" ELSE "recv"
  /\ UNCHANGED <<pidfile, kernel, host, naming, got_signal, query, inbox, workers, sent, last, memory, env>>

(* ni_recv(). *)
Receive ==
  /\ pc = "recv" /\ inbox # <<>> /\ query' = <<Head(inbox)>> /\ inbox' = Tail(inbox) /\ pc' = "taken"
  /\ UNCHANGED <<pidfile, kernel, host, naming, got_signal, workers, sent, last, memory, env>>
-----------------------------------------------------------------------------
KnownType == {"noop", "suptypes", "name", "addr6", "addr4"}

(* Step 2: the subject is checked by the function of its code; queries that
   have none use the null subject. *)
Subject(q) == IF q.qtype \in {"noop", "suptypes"} THEN "null"
              ELSE IF q.code \in {"ipv6", "fqdn", "ipv4"} THEN q.code ELSE "unknown"

(* Step 4: the same function checks the subject and fills the reply. *)
OnCheck(q) == <<q.qtype, Subject(q)>> \in
  {<<"noop", "null">>, <<"name", "fqdn">>, <<"addr6", "ipv6">>, <<"addr4", "ipv4">>}

(* checksubj(): the interface of the subject, or -1 when it is not ours. *)
checksubj(q, how) ==
  LET list == ni_ifaddrs(kernel, Subject(q) = "ipv6", how)
      found == SubjectIf(list, q.subject, q)
  IN  CASE Subject(q) = "null" -> IF q.code = "fqdn" /\ q.long THEN -1 ELSE 0
        [] Subject(q) = "fqdn" -> IF nodename'= <<>> \/ ~compare_dnsname(q.name, nodename'[1])
                                    THEN -1 ELSE q.if
        [] OTHER -> IF q.long \/ found = 0 THEN -1 ELSE found

(* getreply() for addresses: with the subject (subj_if is null) the IPv6 one
   counts for the subject's interface and stores for the receiving one, the
   IPv4 one the other way round. *)
Addresses(q, subj_if, how) ==
  LET v6 == q.qtype = "addr6"
      list == ni_ifaddrs(kernel, v6, how)
      own == IF subj_if = 0 THEN q.if ELSE subj_if
      if1 == IF OnCheck(q) /\ ~v6 THEN q.if ELSE own
      if2 == IF OnCheck(q) /\ v6 THEN q.if ELSE own
  IN  AddrReply(list, q.flags, if1, if2, v6)

(* The data of a successful reply; <<>> is a reply without data, as is one
   for whose data there was no memory ("nodata"). *)
Data(q, subj_if, how) ==
  CASE q.qtype = "noop" \/ how = "nodata" -> <<>>
    [] q.qtype = "suptypes" -> <<"types">>
    [] q.qtype = "name" -> IF nodename' = <<>> THEN <<>> ELSE nodename'[1].labels
    [] q.qtype \in {"addr6", "addr4"} -> Addresses(q, subj_if, how)
    [] OTHER -> <<>>

(* Mutant: a reply filled with the subject check is sent in spite of the
   policy. *)
ni_policy_Late(q) == q.src = "local" \/ OnCheck(q)

(* Step 5: queries from afar are refused. *)
ni_policy(q) == q.src = "local"

(* Steps 6 to 8: the reply. *)
Reply(q, subj_if, how) ==
  [query |-> q,
   code |-> IF ~ni_policy(q) THEN "refused" ELSE IF q.qtype \in KnownType THEN "success" ELSE "unknown",
   data |-> IF ~ni_policy(q) THEN <<>> ELSE Data(q, subj_if, how)]

(* Step 7: ni_ratelimit(), for replies that only say no. *)
Limited(r) == r.code # "success" /\ last

Free == contexts' = contexts - 1 /\ UNCHANGED buffers
Drop == Free /\ UNCHANGED <<workers, last>>

(* Mutant: the context stays when no worker could be started. *)
Hand_Lost(r, started) ==
  IF ~started THEN contexts' = contexts /\ UNCHANGED <<buffers, workers, last>>
  ELSE /\ workers' = workers \cup {r} /\ last' = (last \/ r.code # "success")
       /\ buffers' = buffers + (IF r.data = <<>> THEN 0 ELSE 1) /\ UNCHANGED contexts

(* Step 10: a worker is started, or all is freed. *)
Hand(r, started) ==
  IF ~started THEN Drop
  ELSE /\ workers' = workers \cup {r} /\ last' = (last \/ r.code # "success")
       /\ buffers' = buffers + (IF r.data = <<>> THEN 0 ELSE 1) /\ UNCHANGED contexts

(* The addresses were needed and could not be read, or there was no memory
   for the list of supported types. *)
Unread(q, how) ==
  \/ how = "fail" /\ (Subject(q) \in {"ipv6", "ipv4"} \/ (ni_policy(q) /\ q.qtype \in {"addr6", "addr4"}))
  \/ how = "nodata" /\ ni_policy(q) /\ q.qtype = "suptypes"

(* main() and pr_nodeinfo() on a query that was taken; how tells whether the
   addresses could be read, started whether a worker was. *)
Answer(q, how, started) ==
  LET subj_if == checksubj(q, how)
      r == Reply(q, subj_if, how)
  IN  IF \/ q.dst = "mcglobal" \/ Subject(q) = "unknown" \/ subj_if = -1
         \/ Unread(q, how) \/ Limited(r)
        THEN started /\ Drop ELSE Hand(r, started)

(* The rest of the loop: init_core(), then the query if there is one. *)
Take(how, started) ==
  /\ pc = "taken" /\ pc' = "alloc" /\ query' = <<>>
  /\ \E leaves, joins \in BOOLEAN : init_core(FALSE, leaves, joins)
  /\ IF query = <<>> THEN how = "ok" /\ started /\ Drop ELSE Answer(query[1], how, started)
  /\ IF how = "ok" /\ started THEN UNCHANGED faults ELSE faults < MaxFaults /\ faults' = faults + 1
  /\ UNCHANGED <<pidfile, kernel, host, got_signal, inbox, sent, queries, renames>>

(* ni_send(), in a worker, after a delay when the query was multicast; it
   may fail, as may the second fork() of a worker that is a process. *)
Send(r) ==
  /\ r \in workers /\ workers' = workers \ {r} /\ sent' \in {sent, sent \cup {r}}
  /\ contexts' = contexts - 1 /\ buffers' = buffers - (IF r.data = <<>> THEN 0 ELSE 1)
  /\ UNCHANGED <<pc, pidfile, kernel, host, naming, got_signal, query, inbox, last, env>>

(* sig_handler(); a blocked recvmsg() ends with EINTR. *)
Signal ==
  /\ ~got_signal /\ pc \notin {"start", "exit"} /\ got_signal' = TRUE
  /\ pc' = IF pc = "recv" THEN "taken" ELSE pc
  /\ UNCHANGED <<pidfile, kernel, host, naming, query, inbox, workers, sent, last, memory, env>>

Arrive(q) ==
  /\ queries < MaxQueries /\ queries' = queries + 1 /\ pc \notin {"start", "exit"}
  /\ q.dst = "mclink" => nigroup # <<>>
  /\ inbox' = Append(inbox, [q EXCEPT !.nonce = queries'])
  /\ UNCHANGED <<pc, pidfile, kernel, host, naming, got_signal, query, workers, sent, last, memory, renames, faults>>

(* The host is renamed, and a second passes. *)
Change(h) ==
  /\ renames < MaxRenames /\ renames' = renames + 1 /\ host' = h /\ last' = FALSE
  /\ UNCHANGED <<pc, pidfile, kernel, naming, got_signal, query, inbox, workers, sent, memory, queries, faults>>

Next ==
  \/ \E ok, daemon \in BOOLEAN : Start(ok, daemon)
  \/ \E ok \in BOOLEAN : Alloc(ok)
  \/ Test \/ Receive \/ Signal
  \/ \E how \in {"ok", "fail", "nomem", "nodata"}, started \in BOOLEAN : Take(how, started)
  \/ \E r \in workers : Send(r)
  \/ \E q \in Queries : Arrive(q)
  \/ \E h \in Hosts : Change(h)

Spec == Init /\ [][Next]_vars
-----------------------------------------------------------------------------
TypeOK ==
  /\ pc \in {"start", "alloc", "test", "recv", "taken", "exit"} /\ pidfile \in {"none", "mine", "other"}
  /\ kernel \in Kernels /\ host \in Hosts /\ {contexts, buffers} \subseteq Nat
  /\ got_signal \in BOOLEAN /\ Len(query) <= 1

Replies == workers \cup sent

(* A query from afar gets nothing but a refusal, whichever function filled
   its reply first, and names and addresses go to local queries only. *)
PolicyKept ==
  \A r \in Replies : r.query.src # "local" => r.code = "refused" /\ r.data = <<>>

(* Every packet context is held by the loop or by exactly one worker, every
   buffer of data by a worker: on no path through pr_nodeinfo() is memory
   lost or freed twice. *)
ContextsFreed ==
  pc # "exit" =>
    /\ contexts = Cardinality(workers) + (IF pc \in {"test", "recv", "taken"} THEN 1 ELSE 0)
    /\ buffers = Cardinality({r \in workers : r.data # <<>>})
==============================================================================
