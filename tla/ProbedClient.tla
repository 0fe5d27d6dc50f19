---------------------------- MODULE ProbedClient ----------------------------
(***************************************************************************)
(* The client half of probed: measurement sessions, their outstanding      *)
(* probes and the children that hold the TCP connections (client_msess_*,  *)
(* client_res_* and client_fork() of SLANG-probed/client.c, driven by the  *)
(* PONG and pipe sections of loop_or_die() in loop.c).                     *)
(*                                                                         *)
(* A probe is PING out, PONG back over UDP and TIME back over TCP, child   *)
(* and pipe; it is reported when both are in, or when it is too old.       *)
(* Time is the age of a probe in seconds.  The remote servers and the      *)
(* network (loss, duplication, reordering) are the environment.            *)
(***************************************************************************)
EXTENDS Integers, Sequences, FiniteSets

CONSTANTS Clients,     \* how the program may be run: records of
                       \*   Op: "CLIENT" (one session, from argv) or "DAEMON",
                       \*   Configs: what the configuration file may hold: lists of sessions,
                       \*   Faults: what may go wrong, see FaultKinds
          NPackets,    \* the -n option
          Timeout,     \* TIMEOUT: 10 seconds
          ClearEvery,  \* TIMEOUT_INTERVAL / SEND_INTERVAL: 100 ticks
          Period,      \* sends is counted modulo this multiple of all intervals
          MaxSeq,      \* bound: probes of one session
          MaxReload,   \* bound: reloads requested with SIGHUP
          MaxPid,      \* bound: children forked
          MaxChan      \* bound: messages on a TCP connection, in the pipe

FaultKinds == {"loss",      \* a datagram is lost
               "dup",       \* a datagram is delivered once more
               "send",      \* sendto() fails
               "txstamp",   \* no TX timestamp arrives in time
               "hangup",    \* a child loses its TCP connection
               "giveup",    \* ... for the last time, and exits, see TcpChild
               "badconf",   \* the configuration file cannot be read
               "fork",      \* fork() fails
               "clock",     \* the clock is set back
               "hup"}       \* a reload is requested with SIGHUP

Sessions == UNION {{c[i] : i \in DOMAIN c} : c \in UNION {k.Configs : k \in Clients}}
Addrs == {s.addr : s \in Sessions}
Ids   == {s.id : s \in Sessions}

ASSUME ClientAssumption ==
  /\ NPackets \in Nat /\ Timeout \in Nat /\ MaxSeq \in Nat
  /\ MaxReload \in Nat /\ MaxPid \in Nat /\ MaxChan \in Nat
  /\ Period \in Nat \ {0} /\ ClearEvery \in Nat \ {0} /\ Period % ClearEvery = 0
  /\ \A s \in Sessions : s.ival \in Nat /\ (s.ival > 0 => Period % s.ival = 0)
  /\ \A k \in Clients :
       /\ k.Op \in {"CLIENT", "DAEMON"} /\ k.Faults \subseteq FaultKinds
       /\ k.Configs \subseteq Seq(Sessions)
       /\ \A c \in k.Configs : \A i, j \in DOMAIN c : c[i].id = c[j].id => i = j
       /\ k.Op = "CLIENT" => \A c \in k.Configs : Len(c) = 1

VARIABLES
  client,         \* how the program is run, a member of Clients
  msess,          \* msess_head: sequence of sessions, each with its res list
  should_reload, sends, res_ok,
  child,          \* pid -> the TCP child: [addr, st]
  chan,           \* pid -> TCP connection of the child, what it has not read
  pipe,           \* fd_client_pipe
  tick,           \* fd_send_pipe holds a trigger
  udp,            \* datagrams in the network
  pc,             \* "run", "exit" (SIGINT raised) or "alone": kill(-1) has ended
                  \* the timer and all other processes, no trigger comes any more
  epoch,          \* which configuration is loaded, a number (ghost)
  reloads,        \* SIGHUPs received (bound)
  setback,        \* the clock was set back, which it is once (bound)
  tracked,        \* probes entered in a res list (ghost)
  out, dup        \* per probe: outcomes reported; PONGs seen, DUPs reported (ghost)

main  == <<msess, should_reload, sends, res_ok, pc>>
procs == <<child, chan, pipe>>
ghost == <<epoch, tracked, out, dup>>
env   == <<client, reloads, setback>>
vars  == <<main, procs, tick, udp, env, ghost>>

Op      == client.Op
Configs == client.Configs
Faults  == client.Faults

Pids == 1 .. MaxPid
NoChild == [addr |-> "none", st |-> "none"]
Uid(e, id, seq) == [ep |-> e, id |-> id, seq |-> seq]
Uids == [ep : 0 .. MaxReload + 1, id : Ids, seq : 1 .. MaxSeq]

(* A session as client_msess_add() and client_msess_reconf() make it. *)
Fresh(s) == [id |-> s.id, addr |-> s.addr, ival |-> s.ival, hello |-> FALSE,
             last_seq |-> 0, child |-> 0, res |-> <<>>]

Init ==
  /\ client \in Clients
  /\ msess \in IF Op = "CLIENT" THEN {<<Fresh(c[1])>> : c \in Configs} ELSE {<<>>}
  /\ should_reload = TRUE /\ sends = 0 /\ res_ok = 0 /\ pc = "run"
  /\ child = [p \in Pids |-> NoChild]
  /\ chan = [p \in Pids |-> <<>>]
  /\ pipe = <<>> /\ tick = FALSE /\ udp = {} /\ reloads = 0 /\ setback = FALSE
  /\ epoch = 0 /\ tracked = {}
  /\ out = [u \in Uids |-> <<>>] /\ dup = [u \in Uids |-> [pongs |-> 0, dups |-> 0]]
-----------------------------------------------------------------------------
(* client_msess_transmit(): the sessions whose turn it is. *)
Due(s) == s.hello /\ s.ival >= 1 /\ sends % s.ival = 0 /\ s.last_seq < MaxSeq

(* How send_w_ts() may end: sent and stamped, sent but "skipping send", or
   not sent. *)
SendResults == {"ok"} \cup (IF "txstamp" \in Faults THEN {"nostamp"} ELSE {})
                      \cup (IF "send" \in Faults THEN {"nosend"} ELSE {})

Probe(s) == [seq |-> s.last_seq + 1, addr |-> s.addr, pong |-> FALSE, time |-> FALSE,
             age |-> 0, ep |-> epoch, eps |-> {}]

Transmit(s, r) ==
  IF ~Due(s) THEN s
  ELSE [s EXCEPT !.last_seq = @ + 1,
                 !.res = IF r = "ok" THEN <<Probe(s)>> \o @ ELSE @]

Pings(how) == {[type |-> "PING", id |-> msess[i].id, seq |-> msess[i].last_seq + 1,
                addr |-> msess[i].addr, ep |-> epoch] :
                 i \in {j \in DOMAIN msess : Due(msess[j]) /\ how[j] # "nosend"}}

Inserted(how) == {Uid(epoch, msess[i].id, msess[i].last_seq + 1) :
                    i \in {j \in DOMAIN msess : Due(msess[j]) /\ how[j] = "ok"}}

(* The age is compared without its sign, which is negative after the clock
   was set back. *)
Overdue(r) == r.age \notin -Timeout .. Timeout

(* Mutant: a probe that got no answer at all is passed over. *)
Old_OnlyMarked(res) ==
  {i \in DOMAIN res : \A j \in i .. Len(res) :
     Overdue(res[j]) /\ (res[j].pong \/ res[j].time)}

(* client_res_clear_timeouts() goes from the oldest probe to the first young
   one; how old ones are reported. *)
Old(res) == {i \in DOMAIN res : \A j \in i .. Len(res) : Overdue(res[j])}
Young(res) == SubSeq(res, 1, Len(res) - Cardinality(Old(res)))

(* Mutant: the PONG is asked for where the TIME should be. *)
TimeoutState_Swapped(r) == IF r.pong THEN "PONGLOSS" ELSE IF r.time THEN "TS_ERR" ELSE "TIMEOUT"

TimeoutState(r) == IF r.time THEN "PONGLOSS" ELSE IF r.pong THEN "TS_ERR" ELSE "TIMEOUT"

(* The probes with number u that clearing the lists of m takes out, and the
   outcomes it adds to the reports o. *)
Expired(m, u) ==
  UNION {{m[i].res[k] : k \in {j \in Old(m[i].res) : u = Uid(m[i].res[j].ep, m[i].id, m[i].res[j].seq)}} :
           i \in DOMAIN m}
Reported(m, o) ==
  [u \in Uids |-> IF Expired(m, u) = {} THEN o[u]
                  ELSE LET r == CHOOSE x \in Expired(m, u) : TRUE
                       IN  Append(o[u], [st |-> TimeoutState(r), eps |-> r.eps])]

(* client_msess_reconf() sends SIGKILL to the children the sessions know. *)
Killed(ch, m) ==
  [p \in Pids |-> IF \E i \in DOMAIN m : m[i].child = p THEN [ch[p] EXCEPT !.st = "dead"]
                                                         ELSE ch[p]]

(* Mutant: another session's child is not looked for. *)
Taken_Never(m, i) == FALSE

(* client_msess_isaddrtaken(): another id, same address, with a child. *)
Taken(m, i) == \E j \in DOMAIN m : m[j].id # m[i].id /\ m[j].child # 0 /\ m[j].addr = m[i].addr

(* client_msess_forkall() goes down the list; pids are taken in order.  fail
   holds the ids of the sessions whose fork() fails, each on its own; a child
   that could not be forked has pid -1. *)
FreshPids(ch) == {p \in Pids : ch[p] = NoChild}
ForkStep(acc, i) ==
  IF Taken(acc.m, i) THEN acc
  ELSE IF acc.m[i].id \in acc.fail \/ FreshPids(acc.ch) = {}
  THEN [acc EXCEPT !.m[i].child = -1]
  ELSE LET p == CHOOSE p \in FreshPids(acc.ch) : \A q \in FreshPids(acc.ch) : p <= q
       IN  [acc EXCEPT !.m[i].child = p,
                       !.ch[p] = [addr |-> acc.m[i].addr, st |-> "connecting"]]

Forks(m, ch, fail) ==
  LET f[k \in 0 .. Len(m)] == IF k = 0 THEN [m |-> m, ch |-> ch, fail |-> fail]
                              ELSE ForkStep(f[k - 1], k)
  IN  f
ForkAll(m, ch, fail) == Forks(m, ch, fail)[Len(m)]

(* The reload of the send section: reconf(), which leaves everything alone
   unless a daemon finds a configuration, whose sessions it puts at the head
   of the list one after the other, then forkall(). *)
Reload(m, c, fail) ==
  LET good == Op = "DAEMON" /\ c.ok
      n    == Len(c.sess)
      m2   == IF good THEN [i \in 1 .. n |-> Fresh(c.sess[n + 1 - i])] ELSE m
      ch2  == IF good THEN Killed(child, m) ELSE child
  IN  [f |-> ForkAll(m2, ch2, fail), good |-> good,
       massacre |-> good /\ \E i \in DOMAIN m : m[i].child = -1]

Cleared(m) == [i \in DOMAIN m |-> [m[i] EXCEPT !.res = Young(@)]]

(* The send section of the loop, triggered by the timer: transmit, reload if
   requested, clear timeouts now and then, count. *)
SendSection(how, c, fail) ==
  LET m1 == [i \in DOMAIN msess |-> Transmit(msess[i], how[i])]
      rl == Reload(m1, c, fail)
      m2 == IF should_reload THEN rl.f.m ELSE m1
      clear == sends % ClearEvery = 0
  IN  /\ tick /\ pc = "run"
      /\ tick' = FALSE
      /\ udp' = udp \cup Pings(how)
      /\ tracked' = tracked \cup Inserted(how)
      /\ should_reload' = FALSE
      /\ child' = IF should_reload THEN rl.f.ch ELSE child
      /\ pc' = IF should_reload /\ rl.massacre THEN "alone" ELSE "run"
      /\ epoch' = IF should_reload /\ rl.good THEN epoch + 1 ELSE epoch
      /\ msess' = IF clear THEN Cleared(m2) ELSE m2
      /\ out' = IF clear THEN Reported(m2, out) ELSE out
      /\ sends' = (sends + 1) % Period
      /\ chan' = [p \in Pids |-> IF child'[p].st = "dead" THEN <<>> ELSE chan[p]]
      /\ UNCHANGED <<res_ok, pipe, env, dup>>
-----------------------------------------------------------------------------
(* client_res_update(): the session is the one with the message's id, the
   probe the one with its sequence number and address. *)
SessionOf(x) == {i \in DOMAIN msess : msess[i].id = x.id}
Matches(i, x) == {k \in DOMAIN msess[i].res :
                    msess[i].res[k].seq = x.seq /\ msess[i].res[k].addr = x.addr}

Remove(s, k) == [i \in 1 .. Len(s) - 1 |-> IF i < k THEN s[i] ELSE s[i + 1]]

(* Mutant: any message completes a probe that already had one. *)
Marked_Any(r, x) ==
  [r EXCEPT !.pong = @ \/ x.type = "PONG" \/ r.time,
            !.time = @ \/ x.type = "TIME" \/ r.pong,
            !.eps = @ \cup {[type |-> x.type, ep |-> x.ep]}]

Marked(r, x) == [r EXCEPT !.pong = @ \/ x.type = "PONG", !.time = @ \/ x.type = "TIME",
                          !.eps = @ \cup {[type |-> x.type, ep |-> x.ep]}]

(* Mutant: a finished probe stays in the list. *)
Finish_Keep(s, k, r) == [s EXCEPT !.res[k] = r]

Finish(s, k, r) == [s EXCEPT !.res = Remove(@, k)]

(* Mutant: the stop is checked with > instead of >=. *)
Enough_More(n) == n > NPackets

Enough(n) == n >= NPackets

(* A match.  Whether a complete probe is a success is decided by its
   timestamps, see ResultStats; here it is a choice. *)
UpdateMatch(i, k, x) ==
  LET r == Marked(msess[i].res[k], x)
  IN  IF r.pong /\ r.time
      THEN /\ msess' = [msess EXCEPT ![i] = Finish(@, k, r)]
           /\ out' = [out EXCEPT ![Uid(r.ep, msess[i].id, r.seq)] =
                        Append(@, [st |-> "DONE", eps |-> r.eps])]
           /\ res_ok' \in IF Op = "CLIENT" THEN {res_ok, res_ok + 1} ELSE {res_ok}
           /\ pc' = IF Enough(res_ok') THEN "exit" ELSE pc
      ELSE /\ msess' = [msess EXCEPT ![i].res[k] = r]
           /\ pc' = IF Enough(res_ok) THEN "exit" ELSE pc
           /\ UNCHANGED <<out, res_ok>>

(* Mutant: a TIME that matches nothing is a DUP, too. *)
IsDup_AnyType(x) ==
  \E i \in DOMAIN msess :
    msess[i].addr = x.addr /\ msess[i].id = x.id /\ msess[i].last_seq >= x.seq

(* No match: a PONG no newer than the last PING of its session is a DUP. *)
IsDup(x) == /\ x.type = "PONG"
            /\ \E i \in DOMAIN msess :
                 msess[i].addr = x.addr /\ msess[i].id = x.id /\ msess[i].last_seq >= x.seq

CapTwo(n) == IF n < 2 THEN n + 1 ELSE 2
Seen(x, isDup) ==
  [dup EXCEPT ![Uid(x.ep, x.id, x.seq)] =
     [pongs |-> IF x.type = "PONG" THEN CapTwo(@.pongs) ELSE @.pongs,
      dups  |-> IF isDup THEN CapTwo(@.dups) ELSE @.dups]]

Update(x) ==
  LET hit == {h \in SessionOf(x) \X (1 .. MaxSeq) : h[2] \in Matches(h[1], x)}
  IN  IF hit # {}
      THEN /\ \E h \in hit : UpdateMatch(h[1], h[2], x)
           /\ dup' = Seen(x, FALSE)
      ELSE /\ dup' = Seen(x, SessionOf(x) # {} /\ IsDup(x))
           /\ UNCHANGED <<msess, out, res_ok, pc>>

(* PONG out of the network, perhaps not for the last time. *)
RecvPong(x) ==
  /\ pc = "run" /\ x.type = "PONG"
  /\ \/ udp' = udp \ {x}
     \/ "dup" \in Faults /\ UNCHANGED udp
  /\ Update(x)
  /\ UNCHANGED <<should_reload, sends, procs, tick, env, epoch, tracked>>

(* Mutant: only the first session of the address is told. *)
GotHello_First(a) ==
  [i \in DOMAIN msess |->
     IF msess[i].addr = a /\ \A j \in 1 .. i - 1 : msess[j].addr # a
     THEN [msess[i] EXCEPT !.hello = TRUE] ELSE msess[i]]

(* client_msess_gothello() *)
GotHello(a) == [i \in DOMAIN msess |->
                  IF msess[i].addr = a THEN [msess[i] EXCEPT !.hello = TRUE] ELSE msess[i]]

(* HELO or TIME out of the children's pipe. *)
RecvPipe ==
  /\ pc = "run" /\ pipe # <<>>
  /\ pipe' = Tail(pipe)
  /\ IF Head(pipe).type = "HELO"
     THEN /\ msess' = GotHello(Head(pipe).addr)
          /\ UNCHANGED <<out, dup, res_ok, pc>>
     ELSE Update(Head(pipe))
  /\ UNCHANGED <<should_reload, sends, child, chan, tick, udp, env, epoch, tracked>>
-----------------------------------------------------------------------------
(* The TCP child, client_fork(): connect, forward, reconnect. *)
Hello(a) == [type |-> "HELO", addr |-> a]

ChildConnect(p) ==
  /\ pc = "run" /\ child[p].st = "connecting"
  /\ child' = [child EXCEPT ![p].st = "up"]
  /\ chan' = [chan EXCEPT ![p] = <<Hello(child[p].addr)>>]
  /\ UNCHANGED <<main, pipe, tick, udp, env, ghost>>

ChildForward(p) ==
  /\ pc = "run" /\ child[p].st = "up" /\ chan[p] # <<>> /\ Len(pipe) < MaxChan
  /\ pipe' = Append(pipe, Head(chan[p]))
  /\ chan' = [chan EXCEPT ![p] = Tail(@)]
  /\ UNCHANGED <<main, child, tick, udp, env, ghost>>

ChildHangup(p) ==
  /\ pc = "run" /\ child[p].st = "up"
  /\ \/ "hangup" \in Faults /\ child' = [child EXCEPT ![p].st = "connecting"]
     \/ "giveup" \in Faults /\ child' = [child EXCEPT ![p].st = "dead"]
  /\ chan' = [chan EXCEPT ![p] = <<>>]
  /\ UNCHANGED <<main, pipe, tick, udp, env, ghost>>

(* The timer child, the user and the clock. *)
Tick ==
  /\ pc = "run" /\ ~tick
  /\ tick' = TRUE
  /\ UNCHANGED <<main, procs, udp, env, ghost>>

Hup ==
  /\ "hup" \in Faults /\ pc = "run" /\ Op = "DAEMON" /\ reloads < MaxReload /\ epoch <= MaxReload
  /\ should_reload' = TRUE
  /\ reloads' = reloads + 1
  /\ UNCHANGED <<client, setback, msess, sends, res_ok, pc, procs, tick, udp, ghost>>

Older(r) == [r EXCEPT !.age = IF @ > Timeout THEN @ ELSE @ + 1]
Second ==
  /\ pc = "run"
  /\ \E i \in DOMAIN msess : \E k \in DOMAIN msess[i].res : msess[i].res[k].age <= Timeout
  /\ msess' = [i \in DOMAIN msess |->
                 [msess[i] EXCEPT !.res = [k \in DOMAIN @ |-> Older(@[k])]]]
  /\ UNCHANGED <<should_reload, sends, res_ok, pc, procs, tick, udp, env, ghost>>

(* The clock is set back so far that a probe sent just now is overdue and one
   that was is young again. *)
Younger(r) == [r EXCEPT !.age = @ - (Timeout + 1)]
SetBack ==
  /\ "clock" \in Faults /\ pc = "run" /\ ~setback /\ setback' = TRUE
  /\ \E i \in DOMAIN msess : msess[i].res # <<>>
  /\ msess' = [i \in DOMAIN msess |->
                 [msess[i] EXCEPT !.res = [k \in DOMAIN @ |-> Younger(@[k])]]]
  /\ UNCHANGED <<should_reload, sends, res_ok, pc, procs, tick, udp, client, reloads, ghost>>

(* The remote server answers a PING: PONG over UDP and, if the address has a
   connection, TIME over the newest one. *)
Listening(a) == {p \in Pids : child[p].addr = a /\ child[p].st = "up"}

Serve(x) ==
  /\ pc = "run" /\ x.type = "PING"
  /\ \A p \in Listening(x.addr) : Len(chan[p]) < MaxChan
  /\ \/ udp' = (udp \ {x}) \cup {[x EXCEPT !.type = "PONG"]}
     \/ "dup" \in Faults /\ udp' = udp \cup {[x EXCEPT !.type = "PONG"]}
  /\ chan' = [p \in Pids |->
                IF p \in Listening(x.addr) /\ \A q \in Listening(x.addr) : q <= p
                THEN Append(chan[p], [x EXCEPT !.type = "TIME"]) ELSE chan[p]]
  /\ UNCHANGED <<main, child, pipe, tick, env, ghost>>

Lose(x) ==
  /\ "loss" \in Faults /\ pc = "run"
  /\ udp' = udp \ {x}
  /\ UNCHANGED <<main, procs, tick, env, ghost>>

NoConf == [ok |-> FALSE, sess |-> <<>>]
Readable == {[ok |-> TRUE, sess |-> c] : c \in Configs}
              \cup (IF "badconf" \in Faults THEN {NoConf} ELSE {})
SendStep ==
  \E how \in [DOMAIN msess -> SendResults],
     c \in IF should_reload THEN Readable ELSE {NoConf},
     fail \in IF "fork" \in Faults /\ should_reload THEN SUBSET Ids ELSE {{}} :
    SendSection(how, c, fail)

Pongs == \E x \in udp : RecvPong(x)
Served == \E x \in udp : Serve(x)

Next ==
  \/ SendStep \/ Pongs \/ RecvPipe
  \/ \E p \in Pids : ChildConnect(p) \/ ChildForward(p) \/ ChildHangup(p)
  \/ Tick \/ Hup \/ Second \/ SetBack
  \/ Served \/ \E x \in udp : Lose(x)

Spec == Init /\ [][Next]_vars
-----------------------------------------------------------------------------
Outstanding(u) == \E i \in DOMAIN msess : \E k \in DOMAIN msess[i].res :
                    u = Uid(msess[i].res[k].ep, msess[i].id, msess[i].res[k].seq)

TypeOK ==
  /\ \A i \in DOMAIN msess :
       /\ msess[i].id \in Ids /\ msess[i].addr \in Addrs
       /\ msess[i].hello \in BOOLEAN /\ msess[i].last_seq \in 0 .. MaxSeq
       /\ msess[i].child \in Pids \cup {0, -1}
       /\ Len(msess[i].res) <= msess[i].last_seq
       /\ \A k \in DOMAIN msess[i].res : msess[i].res[k].age \in -(Timeout + 1) .. Timeout + 1
  /\ should_reload \in BOOLEAN /\ tick \in BOOLEAN
  /\ sends \in 0 .. Period - 1 /\ res_ok \in Nat
  /\ pc \in {"run", "exit", "alone"}
  /\ child \in [Pids -> [addr : Addrs, st : {"connecting", "up", "dead"}] \cup {NoChild}]
  /\ tracked \subseteq Uids

(* No probe is lost and none is reported twice: one that was entered in a
   list is either still there or has exactly one outcome, unless a reload has
   thrown it away; nothing else has an outcome. *)
Conservation ==
  \A u \in Uids :
    /\ Len(out[u]) <= 1
    /\ out[u] # <<>> => u \in tracked /\ ~Outstanding(u)
    /\ (u \in tracked /\ u.ep = epoch) => (Outstanding(u) \/ out[u] # <<>>)

(* A finished probe was finished by a PONG and a TIME, both answers to its
   own PING. *)
StampsBelong ==
  \A u \in Uids : \A n \in DOMAIN out[u] :
    out[u][n].st = "DONE" =>
      out[u][n].eps = {[type |-> "PONG", ep |-> u.ep], [type |-> "TIME", ep |-> u.ep]}

(* A timeout is reported for what is really missing: PONGLOSS only without a
   PONG, TS_ERR only without a TIME, TIMEOUT only without either. *)
Missing(st) == IF st = "PONGLOSS" THEN {"PONG"}
               ELSE IF st = "TS_ERR" THEN {"TIME"} ELSE {"PONG", "TIME"}
TimeoutsAreTrue ==
  \A u \in Uids : \A n \in DOMAIN out[u] :
    out[u][n].st # "DONE" =>
      {e.type : e \in out[u][n].eps} = {"PONG", "TIME"} \ Missing(out[u][n].st)

(* A probe is reported as DUP only when its PONG came twice, came after the
   timeout, or answers a PING that was sent but skipped for want of a TX
   timestamp. *)
DupExplained ==
  \A u \in Uids : dup[u].dups > 0 =>
    \/ dup[u].pongs >= 2
    \/ u \notin tracked
    \/ \E n \in DOMAIN out[u] : out[u][n].st # "DONE"

(* client_res_clear_timeouts(): every probe gets its outcome, whatever the network does, while the client
   runs. *)
Resolved(u) == Outstanding(u) ~> (~Outstanding(u) \/ pc # "run")

(* There is one TCP child for every address that is being probed, and none
   that the next reload would not find and kill. *)
Live == {p \in Pids : child[p].st \in {"connecting", "up"}}
OneChildPerAddress ==
  /\ \A p, q \in Live : child[p].addr = child[q].addr => p = q
  /\ \A p \in Live : \E i \in DOMAIN msess : msess[i].child = p

(* A session waits for its HELO; it will come as long as no fork() for its
   address has failed and no child loses its connection. *)
Forked(i) == \A j \in DOMAIN msess : msess[j].addr = msess[i].addr => msess[j].child # -1
Waiting == \E i \in DOMAIN msess : ~msess[i].hello /\ Forked(i)
Kept == pc = "run" /\ {"hangup", "giveup"} \cap Faults = {}

(* The client runs until it has its NPackets results and not longer. *)
StopsInTime == NPackets > 0 => res_ok <= NPackets /\ (pc = "run" => res_ok < NPackets)
-----------------------------------------------------------------------------
(* client_res_update(), client_res_clear_timeouts(): no probe is lost, none
   is reported twice, and the client stops in time. *)
ProbesConserved == TypeOK /\ Conservation /\ StopsInTime

(* client_res_update(), client_res_clear_timeouts(): what is reported of a
   probe is true: what is missing and, as long as there are no reloads, which
   begin to count anew, its own stamps. *)
NoReload == "hup" \notin Faults
ReportsTrue == TimeoutsAreTrue /\ (NoReload => StampsBelong)

(* client_res_update(): a DUP has a cause, which may be a reload. *)
DupsExplained == NoReload => DupExplained

(* client_msess_forkall(): one child for each address, none forgotten, unless
   the configuration cannot be read. *)
OneChild == "badconf" \notin Faults => OneChildPerAddress
=============================================================================
