# Formal models of baseliner-docker

TLA+ modules, TLC configurations and TLAPS proofs for the programs of this
repository that keep state over several steps: the delay probe daemon `probed`
(`src/SLANG-probed`), the network tools `src/iputils-ns` and the benchmark driver
(`src/benchmark.sh`, `src/scripts/orchestrator.py`).

- [1. The system](#1-the-system)
- [2. Modules](#2-modules)
- [3. Runs](#3-runs)
- [4. Fairness](#4-fairness)
- [5. Proofs](#5-proofs)
- [6. Where code and comments disagree](#6-where-code-and-comments-disagree)
- [7. What is not modelled](#7-what-is-not-modelled)
- [8. Plan](#8-plan)

A module is parsed with `tlasany M.tla`, a run is `tlc -config X.cfg M`, proofs are
checked with `tlapm M_proofs.tla`. `PROJECT.json` lists the runs, the lines of
source every definition stands for, and for every property one or more mutants: a
plausible bug in one definition (defined right before it, with a comment
`Mutant:`) with which TLC finds the property violated.

## 1. The system

The container (`Dockerfile`) runs `benchmark.sh`: CPU, memory and disk benchmarks,
whose results `orchestrator.py` writes to an InfluxDB. It is started once or by
cron (`README.md`). Beside the vendored benchmarks (NPB, STREAM, membench) the
repository carries network tools: `iputils-ns` and `probed`, which measures
round trips between hosts.

### probed

One process can be server and client at once. Its parts:

| Part | State | Operations | Talks to |
|---|---|---|---|
| main loop, server half (`loop.c`) | descriptor set `fs`, `fd_max`, `nclients`, list of peers, `cfg.lm` | one turn: select, UDP section, TCP section, pipe sections, kill section | clients by UDP (PING, PONG) and TCP (HELO, TIME) |
| main loop, client half (`client.c`, `loop.c`) | sessions with their lists of outstanding probes, `got_hello`, `last_seq`, `should_reload`, `sends`, `res_ok` | transmit, update by PONG or TIME, clear timeouts, report, reload, fork | servers by UDP, TCP children and timer by pipes |
| TCP child, one per server address (`client_fork`) | record buffer, `fail_setup`, `fail_exec` | connect, recv, write to pipe, reconnect, give up | server by TCP, main loop by a blocking pipe |
| timer (`client_send_fork`) | `time_dev`, `niter`, `last` | sleep, trigger, correct | main loop by a pipe |
| send path (`net.c`, `tstamp.c`) | timestamp mode, TOS of the socket, error queue of the kernel | set mode, set DSCP, send, fetch TX timestamp | kernel |
| result FIFO (`client_write_fifo`) | queue, its counter and high-water mark | flush, write or queue | a reader process |
| statistics (`client_res_update`) | minimum, maximum, counters | evaluate four timestamps | |
| `diff_ts`, `cmp_ts` (`util.c`) | | time arithmetic | |

What is hard here: the server, its clients, the children, the timer, the kernel
and the user (SIGHUP) take steps in any order; PONG (UDP) and TIME (TCP) of one
probe race each other and the timeout; datagrams are lost, doubled and late;
descriptors are reused; the error queue does not say which packet a stamp
belongs to; two main loops can block in `send()` towards each other; FIFO and
pipes fill up; a reload replaces all sessions with answers still under way;
`fork()`, `accept()`, `send()` and the configuration file may fail.

What makes it correct: every probe is reported once, with its own timestamps
and with the true reason if it failed; a success is a possible round trip; the
peer list, the set and the counter describe the same clients; a TIME goes to the
address the PING came from; whoever has gone is removed; nobody waits for ever;
the sleep of the timer converges to the interval.

### iputils

Programs that run on their own, each against the network and the kernel:

| Program | State | Operations | What is hard, and what makes it right |
|---|---|---|---|
| ping, ping6 | 16-bit sequence numbers, bitmap of the answered ones, `acked`, counters; tokens, interval, timer, `exiting`; options, capabilities, sockets | parse the options, open sockets, send a probe, handle a sending error, wait, take a reply or an error, SIGALRM, SIGINT | numbers wrap while late replies come; signals between a test and a wait; each probe counts once, the pace is kept, `-c` and `-w` end it, a user's limits hold for any order of options |
| rdisc, as a host | router table with preference, lifetime and `in_kernel`; kernel routes; interfaces; solicitation timer | advertisement, aging in the SIGALRM handler, SIGTERM, SIGINT, SIGHUP | signals in the middle of the walk; the routes are those of the best routers, a silent one is dropped |
| rdisc -r | advertisement timer, interfaces | advertise, answer solicitations, look at the interfaces | timers of two machines, random intervals, a lost advertisement; hosts keep their route |
| tftpd | two buffers, netascii state, `block`, `timeout`, signal mask | send or receive a block, acknowledge, retransmit | a block read ahead while the last one may have to be sent again; reads and writes that fail, a file that is written over; a completed transfer is the file as far as reading and writing worked |
| arping | device, source, hardware address, counters, signal mask | choose a device, probe in the SIGALRM handler, take a packet | handler and loop share everything; probes are counted, it ends |
| rarpd | interface table, sockets, `do_reload` | reload, answer | table out of date; the answer fits client and link |
| clockdiff | `seqno`, `acked`, minima | send, take an answer | late answers, midnight; the difference is right to within the round trip |
| tracepath | TTL, MTU, 64 slots of sent probes | probe, read the error queue | errors of other probes; MTU and hops are true |
| traceroute6 | TTL, probe, sequence number, time left | probe, wait | late and foreign answers; an answer is printed for its own hop |
| ninfod | addresses, node name, packet contexts, workers, rate limit | take a query, answer it in ten steps, send with a delay, stop | every step may end the query; a context is freed once, strangers are refused |

### Benchmark driver

| Part | State | Operations |
|---|---|---|
| `benchmark.sh` | on the host: MSR and governor of each thread, partition tables, contents; in the container: `bin/`, result files, `dvfs`, `oldgovernor`, `testdevs` | benchmark loops, DVFS off and back, choice of the partitions, fio |
| `orchestrator.py` | the data base | machine information, then the results by collection and socket |

What is hard here: `set -e` ends the script at any command, the container is
thrown away but the host keeps what was done to it, and cron starts the next run
in that state. What makes it correct: a result was measured the way its name
and columns say, the host is left as it was, no partition with data is written
to, and every result is saved once under the right tags.

## 2. Modules

```
Timespec <- ResultStats <- ClientParts (instances of FifoQueue, TcpChild, SendTimer, UdpSend)
ProbedServer      DaemonPair      Baseliner
ProbedClient <- MCProbedClient
PingWindow <- PingSeq, PingLoop <- MCPingLoop          NinfodAddrs <- Ninfod
NetTools (instances of Rdisc, RdiscRouter, Tftp, PingSeq, PingLoop, PingSetup, Arping,
          Rarpd, Clockdiff, Tracepath, Traceroute6, Ninfod) <- MCNetTools
```

Each `X_proofs` extends `X`; each `MCX` extends `X` with the values of the constants.
ClientParts and NetTools take the constants of each instance as one record
(`childOf.MaxExec`, `ping.Options`), so that what is proved of the composition is proved
for all of them; MCClientParts and MCNetTools give the records of the runs.

- **Timespec**: `diff_ts()` and `cmp_ts()` on records of seconds and nanoseconds.
  `NSEC` is a constant, 10^9 in the code.
- **ResultStats**: the branch of `client_res_update()` for a complete probe:
  status, minimum, maximum and threshold counter of three quantities. Means and
  variances are floating point and left out.
- **ProbedServer**: one turn of the main loop is `Select`, `UdpSection`, `TcpSection`,
  `PipeSection` and `KillSection`, which kills one descriptor per step. Clients
  connect, send, close and reset between any two of them. `sock` is what the kernel
  knows of each connection; `accept()` takes the lowest free descriptor, so numbers
  are reused, also while `fs_tmp` still names them. `lm` is `cfg.lm` (lock mode).
- **ProbedClient**: `SendSection` is everything one trigger of the timer makes the
  loop do: transmit, reload (`reconf()` and `forkall()`), clear timeouts, count.
  `RecvPong` and `RecvPipe` are the two ways into `client_res_update()`. The network
  is a set of datagrams (reordering for free), a connection a sequence. A probe
  ages by `Second`, and by `SetBack`
  gets a negative age, which the code takes without its sign. `Clients` are the ways to
  run it (mode, configurations, what may go wrong), of which a behaviour has one,
  `client`; so a single run explores several. Ghosts record which configuration a message belongs to
  and every outcome of every probe.
- **UdpSend**: `dscp_set()`, `send_w_ts()`, the choice of the mode and
  `tstamp_fetch_tx()`. The error queue is a sequence, of which a prefix has arrived.
- **TcpChild**: a message is two halves, so that `recv()` can return a part of one.
- **FifoQueue**: one `write()` per step. The code does not look into a result, so
  two results are followed among any number of others.
- **SendTimer**: the correction of the interval in microseconds with the code's
  constants.
- **DaemonPair**: two main loops and two children reduced to how many records are
  where, for the question whether they can wait for each other. The four waits
  are `send()` in the UDP section and `write()` of the child, on both sides.
- **ClientParts**: ResultStats, FifoQueue, TcpChild, SendTimer and UdpSend share no
  state, so a single run explores each completely; the variable `part` chooses
  which one steps. What they share with the rest of the client is in ProbedClient:
  a trigger there is `Tick`, a record from a child `ChildForward`.
- **Baseliner**: `benchmark.sh` by loop and by command where the host is changed, and
  `orchestrator.py` by write. A result file keeps, beside its labels, the build and
  the setting of the CPUs it was measured with: as before the first run (clock modulation
  on and the governors), all off, or something between (`Setting`). `Fail` is any command that fails;
  `Cron` starts the next container on what the last one left.

The modules of iputils. Addresses, packets and command lines are small records or
model values; a system call that may fail is a choice; handlers that run with
signals blocked are one step, others are as many as a signal can tell apart.

- **PingWindow**: `ping.h` and `gather_statistics()` as operators on a record of the
  counters. `SEQ` stands for 2^16; the comparisons are those of 16-bit and of `int`
  arithmetic. **PingSeq** puts them against a network that loses, doubles, delays
  and reorders, for ping and ping6, with ghosts that count in unbounded numbers.
- **PingLoop**: `main_loop()`, `pinger()`, `schedule_exit()`. A millisecond may pass
  and SIGALRM come at any step. `bucket` is a ghost that fills by one per
  millisecond and pays for each probe.
- **PingSetup**: `main()`, `create_socket()`, `ping4_run()`, `ping6_run()` and `setup()` for
  any command line of up to `MaxOptions` options, with the capabilities raised and
  dropped on the way, and the node information options.
- **Rdisc**: `pr_pack()` for one advertised address (several in one packet are several
  steps), `timer()` and `age_table()` as one step per entry, and one each for
  unlinking it and for the route. **RdiscRouter**: `timer()` of a router, and one
  host whose timer may be a tick ahead or behind.
- **Tftp**: one request. `setjmp()` does not restore the signal mask, so SIGALRM stays
  blocked after the first timeout (`blocked`). A file is a sequence over
  letters, lf and cr; conversion works character by character across blocks. The file of
  an upload exists, holds `old` (a ghost) and is not truncated. Any read may fail and any
  write may fail or fall short, so `read_ahead()` and `write_behind()` are sets of what may
  come of them; `failed`, a ghost, is the offset at which the first one did. The one
  simplification: a stream is written out at every `fseek()`, as in the program, and at the
  end of each block, where the program waits until its buffer is full or closed; that
  changes how much one failure loses. `SocketFails` is a `send()` or `recv()` that fails.
- **Arping**, **Rarpd**, **Clockdiff**, **Tracepath**, **Traceroute6**, **Ninfod** (with
  **NinfodAddrs** for what an answer contains): see the comment at the head of each.
- **NetTools**: the twelve, one of which runs. They never run in one process, so they
  use the same variables, `pc` and `m1` to `m19`; each `INSTANCE` says which is which.
  The bounds of the runs are in MCNetTools.

## 3. Runs

| Run | Module, cfg | Checks | Shows |
|---|---|---|---|
| client_parts | MCClientParts, ClientParts.cfg | PartsTypeOK, SuccessIsRoundTrip, ExtremesAreExact, NothingLost, LagBounded, ForwardsInOrder, NothingStuck, Converges | only a possible round trip is a success, extremes are exact; no result is lost, doubled or overtaken by one that came after it was queued; a stamp is late by no more packets than fetches have failed; records that arrive whole are forwarded whole, in order, once; queue, records and the fetch of a stamp do not get stuck; the timer settles whatever the clock did |
| server_faults | MCProbedServer, ServerFaults.cfg | FdSetSound, NewestEntryIsOwner | after any failure the loop watches open, reachable descriptors only, and killing one removes the right client |
| server_modes | MCProbedServer, ServerModes.cfg | AccountingExact, TimeToSender, DeadClientsRemoved | without resets the books are exact, a TIME goes to the sender, whoever has gone is removed: so the lock of lock mode is released |
| client_runs | MCProbedClient, ClientRuns.cfg | ProbesConserved, ReportsTrue, DupsExplained, OneChild, ProbesResolved, SessionsStarted | each probe is reported once, truly and in the end; -n stops in time; reloads leave one child per address, none forgotten, and every session starts |
| pair | MCDaemonPair, Pair.cfg | NoCircularWait, KeepsLooping | two daemons do not block each other |
| base_hosts | MCBaseliner, BaseHosts.cfg | LabelsTrue, HostRestored, DataSpared, SavedExactly | see 1; also after runs that broke off |
| tools_safe | MCNetTools, ToolsSafe.cfg | ToolsTypeOK, TransferIntact (tftpd), CountsExact, SetupSound (ping), AnswerFits (rarpd), Accurate (clockdiff), PmtuTrue (tracepath), RepliesSound (ninfod), RouteKept (rdisc -r) | see the table in 1 |
| tools_live | MCNetTools, ToolsLive.cfg | RoutesAreBest, SilentRouterDropped (rdisc), PacketsPaced, StopsTimed (ping), ProbesOwn (arping, traceroute6), ToolsEnd (both) | see the table in 1 |
| client_stale_answer | MCProbedClient, ClientStale.cfg | StampsBelong | violated, see 6 |
| client_reload_orphan | MCProbedClient, ClientOrphan.cfg | OneChildPerAddress | violated, see 6 |
| base_raw_disk | MCBaseliner, BaseRaw.cfg | RunsComplete | violated, see 6 |
| ping_count | MCPingLoop, PingCount.cfg | Stops | violated, see 6 |

Bounds, and why they are enough:

- client_parts: a second of two nanoseconds and stamps of up to two seconds give
  every borrow, sign and the limit for strange results; two results in a row
  give every order of a new extreme. A FIFO of two and a queue of three fill up in
  the middle of a flush; two followed results are what an order is about. The
  child's limits are 2, 3 and 2 instead of 3, 12 and 30, with two messages per
  connection and a pipe of two, so that each limit and the full pipe are
  reached. The timer has the code's interval, limit and second, corrects
  every five turns instead of a hundred, and the clock is set twice, by up
  to two seconds and back. The send path has enough packets for a late stamp to be
  taken by the next one and for that one's to be late in turn.
- server: two addresses and two client descriptors, so that descriptors run out and
  are reused; one waiting connection and one datagram at a time (select reports
  each kind once per turn); three list entries, so that a stale one can
  lie beside two live ones; `nclients` modulo 3, so that an underflow shows.
- client_runs: one session with two probes under way (what matching and timeouts tell
  apart), a timeout of one second; the clock is set back once, by one second more than
  the timeout, so that it moves probes across the limit both ways; `-n` is 1 with two probes under way, so that a
  second answer can come too late.
  For reloads two sessions that share an address until a configuration moves one, or
  drops both, and two SIGHUPs; at each reload `fork()` fails for any of the sessions, and only for
  those; their interval is one that `client_msess_transmit()` refuses,
  since no code that forks, kills or starts a session looks at a probe, and what reloads do
  to probes is proved.
- pair: buffers of one datagram, one TCP record and three pipe records, the smallest
  for which the property holds; the proof is for all larger ones.
- base_hosts: a host with two sockets, two threads, two disks and three runs, and one
  with ten sockets, four devices and one run; every command may fail.
- rdisc: two routers, which may be equal, better, worse or ineligible, with a
  lifetime of two ticks of the timer. rdisc -r: an interval of 14 s with timers of
  3 s; for much shorter ones three intervals do not outlast a lost
  advertisement and the ticks.
- tftpd: blocks of two characters with line ends and a cr cut by a block, an empty
  file and a last block that is full, written over an empty file and over a longer one of
  other characters; any read or write may fail; three bits of block number; one datagram under
  way in each direction and one in the socket, any of which is lost or repeated.
- ping: two bits of sequence number and six probes, more than a whole turn; pace with a
  burst of two, a flood, an adaptive interval and a deadline; command lines of
  three options, of root and of a user.
- arping: five command lines of the three modes, claims, replies and its own echoes,
  lists of devices with none, one or two fit. rarpd: two links, a client with
  addresses on both. clockdiff: a day of twelve milliseconds, starting before and at
  midnight. tracepath: two links that get narrower, three slots. traceroute6: a target
  two or three hops away, behind a router that may refuse. ninfod: two interfaces,
  three addresses to a reply, two queries.

Deadlock is checked where the system must not stop (server_modes, pair); elsewhere the model ends when the program does (exit, SIGPIPE, give up, end
of the script) or at its bound.

## 4. Fairness

- server_modes: the loop runs (WF). `select()` is fair to a quiet moment (SF on a
  `Select` with nothing but dead clients to report): it returns at once while a
  dead client makes its descriptor readable. DeadClientsRemoved still assumes that
  the other input falls silent again and again, since the kill section is skipped
  by every turn that reads something.
- client_runs, for `-n` and for reloads: the timer ticks, the loop takes its send and
  pipe sections, time passes, some child that can connect or forward does (WF each). Nothing
  is assumed of datagrams, and SIGHUPs come to an end (`MaxReload`).
- client_parts: the writer keeps producing results and the reader reads (WF);
  NothingStuck also assumes that a result again and again finds room when it comes,
  because a reader that makes room only between the flush and the direct write
  starves the queue. The child connects, reads and writes, TCP delivers, the main
  loop reads (WF each). The timer process is scheduled (WF). `tstamp_fetch_tx()` is
  called in a loop that reads the clock, which goes forward (WF).
- pair: main loops, children and timers are scheduled (WF each).
- tools_live: each process runs and its alarm comes (WF of its steps and of the passing
  of time). The SIGALRM handler of arping runs if again and again it may (SF), since
  the signal is blocked while a packet is handled. Nothing is assumed of the
  network: SilentRouterDropped speaks of a router that is no longer heard.
- The other programs of iputils have no liveness property: tftpd waits for ever after
  a second loss, rarpd, ninfod and clockdiff wait for packets.

## 5. Proofs

All for arbitrary constants under the `ASSUME` of the module (for UdpSend under
`SendAssumption`, a hypothesis of its theorems, which TLC evaluates in ClientParts).
The table has the theorems that state a property of a run.

| Property | Theorem | Hypotheses beyond the `ASSUME` |
|---|---|---|
| SuccessIsRoundTrip, ExtremesAreExact | ResultStats_proofs: SuccessCorrect, ExtremesCorrect | |
| NothingLost, LagBounded, ForwardsInOrder, PartsTypeOK | ClientParts_proofs: NothingLostCorrect, LagBoundedCorrect, ForwardsCorrect, PartsTypeCorrect | |
| FdSetSound, NewestEntryIsOwner | ProbedServer_proofs: FdSetCorrect, OwnerCorrect | |
| AccountingExact, TimeToSender | ProbedServer_proofs: AccountingCorrect, TimeReachesSender | no resets; the counter is wider than the number of descriptors |
| ProbesConserved, ReportsTrue, DupsExplained, OneChild | ProbedClient_proofs: ConservedProbes, TrueReports, ExplainedDups, SingleChild | |
| NoCircularWait | DaemonPair_proofs: NoDeadlock | |
| LabelsTrue, HostRestored, DataSpared | Baseliner_proofs: LabelsCorrect, RestoreCorrect, DataSafe | |
| SavedExactly | Baseliner_proofs: SavedCorrect | at most ten sockets |
| AnswerFits, ProbesOwn, PacketsPaced, RepliesSound, RoutesAreBest, Accurate | NetTools_proofs: AnswerCorrect, ProbesCorrect, PaceCorrect, RepliesCorrect, RoutesCorrect, AccurateCorrect | |
| SetupSound, CountsExact | NetTools_proofs: SetupCorrect, CountsCorrect | |
| PmtuTrue | NetTools_proofs: PmtuCorrect | errors arrive in the order of their causes (`Reorder = FALSE`) |
| RouteKept | NetTools_proofs: RouteCorrect | three maximal intervals are longer than two of the longest interval and three ticks |

These hypotheses are what the code needs: with a reset the books are wrong (6),
`nclients` is an `unsigned int` and there are at most FD_SETSIZE descriptors; with eleven
sockets `orchestrator.py` saves a file under two (6); with the 16 s of the first
advertisements and timers of 3 s, the lifetime of three maximal intervals outlasts a lost
advertisement from `-T 14` on, which includes the default of 600 s; an EMSGSIZE that
overtakes a later one makes tracepath raise its MTU again (7).

- **ResultStats_proofs**. `DiffTsCorrect`: `diff_ts()` returns the normalised absolute
  difference and its sign, for every `NSEC`. From it `SuccessCorrect` (no lucky
  combination of three unsigned differences is reported as a success) and
  `ExtremesCorrect`, whose invariant says that the extremes are attained by and bound
  the successes, or that there are none and the minimum is the sentinel.
- **ClientParts_proofs**. A step of the composition is a step of one part or leaves it
  alone (`PartsApart`), so that each part has an invariant of its own.
  *FIFO* (`FifoInv`): each of the two results followed is at one place at most, none before
  it has been produced, and at one place unless it was lost; what is in the queue is known
  to have been queued. For the order, y is ahead of x only if x was queued and y was not:
  that must be said of every place y can overtake x at (`Overtaken`), not only of what
  has been read. *TCP child* (`ChildInv`): what TCP holds is always the last halves of what
  the server has sent (`FromEnd` counts them from the end, which no step moves); while
  messages arrive whole the number of halves is even, the buffer holds the message after
  the last one forwarded, and the last record written is of this connection or of an
  earlier one. *Timer* (`TimerInv`): the correction stays within its limit, hence the sleep
  within that of the interval. Send path and statistics refine UdpSend and ResultStats
  (`PartsUdp`, `PartsStats`) and inherit their theorems.
- **ProbedServer_proofs**. `FdSetSound` is not inductive alone: a kill removes the
  first list entry of a descriptor, and the next step is only safe if that
  entry was the client's own. The inductive invariant `IInv` joins the types,
  `FdSetSound` and, for each watched descriptor, that its newest entry
  carries the address of the client behind it; and it says that what
  `select()` reported as pending still is (only the loop takes it). Lemmas on
  inserting and removing list entries carry it through `server_kill_peer()`, the
  registration and the failing HELO. Results: `TypeCorrect`, `FdSetCorrect`,
  `OwnerCorrect`, for any number of clients, descriptors and stale entries.
  `AccountingCorrect` and `TimeReachesSender` add `AccInv`: no descriptor is listed twice,
  every entry is that of a watched connection from its address, and what `select()`
  reported is still watched. So a kill removes one entry and one descriptor, and
  `server_find_peer_fd()` has one entry to find.
- **ProbedClient_proofs**, for any set of ways to run the client, any lists of sessions, and
  any loss, duplication, reordering and failure together with any number of reloads, which
  no run has all at once. The inductive invariant `Inv` has five parts. `Lists`:
  no two entries of a list have one sequence number, all were given out by their session and
  are still short of an answer, and the lists agree with the reports (`Books`): of the configuration in force, a probe that
  was entered is in its list or has its one outcome, and none that has not been numbered has
  either; of earlier ones only outcomes remain. `Kids`: a session's child was
  forked for its address (`Known`); every child that runs is that of a session, and
  no two sessions of one address have one (`Only`), which is what makes
  `client_msess_isaddrtaken()` and the kills of `client_msess_reconf()` sufficient.
  `Wires` and `Flags` are types and the limit of `-n`. `Single` is for runs
  without SIGHUP: every message under way belongs to the present configuration and
  to a number given out, every stamp of an outstanding probe is its own and has been
  counted, and a DUP was reported of a probe that had lost its place. StampsBelong alone is not inductive: it is about
  outcomes, and nothing in it speaks of the stamps a probe gathers before. The send section
  does up to three things in one step, so its intermediate states have a
  predicate of their own, `Mid`, kept by transmit, reload and clear one after the other.
  `client_msess_forkall()` is a recursive function; that the recursion
  is well defined (`ForksExist`) and what each of its rounds keeps (`Stage`) is proved by
  the least counterexample, since the induction theorems cannot be used.
- **UdpSend_proofs**. `LagCorrect`: a stamp is never of a later packet and lags by no
  more than the fetches that gave up. Inductive with `StampLag`: the i-th entry of the
  queue lags by at most the misses less its place. `DscpCorrect`: the receiver
  extracts the DSCP modulo 64. `TypeCorrect`.
- **DaemonPair_proofs**. `NoDeadlock`, for all buffer sizes with room for three
  records in the pipe. A daemon sends at most one TIME per turn, and in the same turn
  takes one record out of its own pipe if there was one. `Weight` counts the
  records on their way to a daemon, corrected for a turn that has yet to take one
  or that may send without taking; the sum over both never exceeds
  2 TcpCap + PipeCap + 4 (`Balance`), less than both being blocked needs.
- **Baseliner_proofs**, for any set of machines and any number of runs, with a command
  failing anywhere. `LabelsCorrect` and `RestoreCorrect` rest on `CpuInv`: how far each of the
  four loops over the threads has come, in terms of the thread it is at, and that a
  run that has not yet touched the CPUs has them, governors included, as it found them.
  `DataSafe`: the
  partitions chosen, and those fio has written to, are among the spare ones, which new
  partitions only add to. `SavedCorrect` follows the files from the phase that makes them
  (each phase has made the files of the sockets it has passed, all of it before the next) to the
  data base (of the collection being saved, what is not in `todo` is there; of earlier ones
  everything, of later ones nothing; all that is there of this run came from its own files).
- **NetTools_proofs**, a section for each program.
  *rarpd*: `select_ipaddr()` takes the first address of the client on the link, or the only
  one it has, and `put_myipaddr()` looks at the same table; AnswerFits is inductive by itself. *traceroute6*
  (`TraceInv`): a packet that names the current sequence number carries the current hop
  limit, because sequence numbers are never used again. *arping* (`ArpInv`): from the choice of the device on
  it is up, does ARP and is the one named. *ping* (`PingInv`): without `-A`, what
  `pinger()` would have after a refill never exceeds what the ghost bucket holds, which is
  full before the first probe; hence the code's own arithmetic on `cur_time` and `tokens`
  never lets it overdraw. *ninfod* (`NinfodInv`): queries are numbered as they come and no number
  is at two places, so that replies under way can be counted. *rdisc* (`RdInv`): outside of `age_table()` the routers
  marked `in_kernel` are exactly the best ones; in the middle of it they are among them, and
  exactly them until a best router has been unlinked; the kernel has the routes
  that are marked and, between the two halves of a change, that of the router being
  worked on, less those it refused. That `max_preference()` exists and which routers attain it
  before and after a router joins, leaves or ages are lemmas on finite sets. *rdisc -r*
  (`RouterInv`): what is left of the host's route is more than the router's timer, plus the
  ticks by which the two machines' timers may be apart, plus a whole interval unless the
  last advertisement was the one that got lost. *clockdiff* (`ClockInv`): every answer under
  way was stamped by a remote clock that is ahead by the skew; the differences of such stamps come out right
  on both sides of midnight, both minima are those of one way each and together no more than
  the quickest round trip, and once a quick answer has come the minima are its own.
  *Setup of ping* (`SetupInv`): what has been required of the options so far, which
  capabilities can be raised, which sockets are open and what is known of the node information
  query, at each step from `main()` to `main_loop()`; an interval below `INT_MAX / preload` cannot overflow
  when multiplied. *Sequence numbers of ping* (`WindowInv`): the bits that are set are those of the
  probes answered among the last `SEQ`, two of which never share a number; `rcvd_clear()` clears
  the bit of exactly the probe that leaves them (`Cleared`); and unless the network was silent for half of the
  numbers, `acked` is the number of the latest probe acknowledged (`Tracks`), because the signed 16-bit
  difference of two numbers less than half apart is that of their probes (`Signed`). The only
  thing used of 65536 is that it is even. *tracepath* (`PathInv`): the MTU in use never
  grows. An error under way names the first link that is too narrow for its probe;
  a probe that is sent later is not longer and goes at least as far, so its error names
  the same link or a narrower one (`Narrower`), and what waits on the socket is at least the
  kernel's path MTU, which is at least what is under way. So when the target answers, the MTU in
  use fits every link, and stays so.

Proof attempts that failed showed two mistakes in the models, since corrected: `Put` of
Baseliner lacked the guard that the upload is on, and the `First` of PingLoop (no probe
sent yet) could be reached by a clock that is set back.

Only model-checked:

- All liveness properties: NothingStuck, Converges, DeadClientsRemoved, ProbesResolved,
  SessionsStarted, KeepsLooping, SilentRouterDropped, StopsTimed, ToolsEnd. The prover has no ENABLED.
- Of NetTools TransferIntact (what netascii conversion makes of a whole file is a
  recursive function: induction over data) and ToolsTypeOK, of which the invariants above hold
  what each proof uses.

## 6. Where code and comments disagree

Shown by a run:

- `client_stale_answer`: after a reload sequence numbers start again, so an answer to
  a PING of the old configuration completes a new probe (`client.c:465`).
- `client_reload_orphan`: `loop.c:259` ignores that the configuration could not be
  read and forks every child once more; the old ones are never killed.
- `base_raw_disk`: at a disk without partitions `grep -c` answers 1 and `set -e` ends
  the script (`benchmark.sh:279`); the branch for such disks is never reached.
- `ping_count`: `ping -f -c 2` with packets too short to be timed: after one reply
  `__schedule_exit()` sets its timer to zero, which is no timer, and if another reply
  is lost ping never ends (`ping_common.c:296` against `doc/ping.xml:104`).

In the models, and visible in how a property is stated:

- A failed HELO leaves a list entry for a closed descriptor (`loop.c:202-209`); hence
  AccountingExact and TimeToSender are checked without resets, and
  NewestEntryIsOwner speaks of watched descriptors.
- The second TIME to a client that has closed raises SIGPIPE, which is not ignored
  (`loop.c:165`, `pc = "dead"`).
- A client rejected in lock mode is accepted, neither watched nor closed
  (`loop.c:186`).
- A PONG after the timeout, or for a PING whose TX stamp was missing, is reported as
  DUP (`client.c:609`); DupExplained lists the cases.
- `got_hello` survives the connection it was set for (`client.c:880`).
- A `fork()` that fails, for one session or several, leaves pid -1, and the next reload calls `kill(-1, SIGKILL)`
  (`client.c:972`): the timer and all other processes end (`pc = "alone"`).
- `-n` counts successes, not packets (`client.c:602` against `main.c:151`).
- A TX timestamp that comes late is taken for the next packet's, and all later ones
  stay late (`tstamp.c:245` against the comment at 197); LagBounded is what remains.
- The child's counters are never reset: it exits at the twelfth lost connection
  of its life (`client.c:393` against 342 and 394). A record that TCP splits is
  forwarded as two wrong ones and the stream stays out of step (`client.c:381`);
  ForwardsInOrder holds while `whole`.
- The first correction of the timer compares one turn with a hundred
  (`client.c:246`); Converges shows that it recovers.
- A run that breaks off with DVFS off leaves the host so: the next run saves
  "performance" as the old governor and labels its results "dvfs" (`benchmark.sh:140`).
  The same holds of one that breaks off on the way back, with some governors still
  "performance" (between lines 241 and 242). Line 242 sets CPU 0's governor on every
  thread. HostRestored and LabelsTrue are stated relative to what a run found.
- The partition `sgdisk` makes is not labelled Empty; the next run looks for free space
  again and ends if there is none (`benchmark.sh:292`).
- `orchestrator.py:105` looks for the socket in the file name; with eleven sockets,
  socket1 also matches socket10.

Of iputils:

- rdisc: SIGINT leaves the routes in the kernel, and SIGTERM in the middle of
  `age_table()` the one in progress. A route the kernel refused counts as set
  (`rdisc.c:1438`). The preference of `-p` is lost when `initifs()` makes its list
  anew. The first advertisements come every 16 s even if `-T` asks for less.
- tftpd: `th_block` is a short, `block` an int, so a transfer stalls at block 32768
  (`tftpd.c:376`). After one timeout SIGALRM stays blocked: a second loss is not
  retried and `maxtimeout` is not reached (comment at `tftpd.c:466`). The test for a
  lost last ACK looks into `dp`, not into the packet received. A write that fails
  or falls short is acknowledged like any other (`tftpd.c:425`, `457-462`), and the file is
  opened without O_TRUNC (`tftpd.c:304`), so a shorter upload keeps the end of the
  longer file; a read error in netascii looks like the end of the file (`tftpsubs.c:138`).
  TransferIntact says what remains: a completed upload lies over the old contents if
  every write worked; in octet mode the file is, at all times, what was sent up to the first
  failure and untouched behind what was written; a download is a prefix of the file,
  and the file once complete, unless netascii text could not be read.
- ping: `tmax` and the round trip are nanoseconds taken for microseconds in
  `__schedule_exit()` and `update_interval()`; so ping waits a thousand times longer than
  the two round trips of `doc/ping.xml:464`, and with `-A` the interval overflows above
  two seconds. ping6 counts an error twice on a raw socket (`ping6_common.c:909`
  against the comment at 1416). EAGAIN is retried without limit; a clock that is
  set back stops the probes until it has caught up.
- arping: without `-I` the ioctl way of finding a device finds none. A failed send does
  not count, so `-c` alone does not end it while sending fails; MustStop therefore counts on
  a working device, or on `-w`. After the first reply it never broadcasts again.
- rarpd: a SIGHUP that comes during `configure()` is forgotten (`rarpd.c:703`), one that
  comes before `poll()` waits for the next packet. With `-A` the second socket is never
  polled (`rarpd.c:631`). Until a reload it answers from the addresses it read.
- clockdiff: times are combined with `&` (`clockdiff.c:473`), so some valid stamps are
  refused. Any ICMP packet restarts the wait (`clockdiff.c:233`).
- tracepath: the last slot is never found (`tracepath.c:160`, `< 63`). PmtuTrue holds if errors
  arrive in the order of their causes: a late EMSGSIZE raises the MTU again.
- ninfod: `flags |= ~...` (`ninfod_addrs.c:237`) turns on all other flags, so the second
  pass over the addresses differs from the first and truncation is never reported; it may
  also store addresses beyond the buffer that was allocated for the first count
  (`ninfod_addrs.c:274-302`, in `Stored`); the
  preference for the receiving interface is inverted (`ninfod_addrs.c:196` against
  the comment at 193); a signal that comes before `recvmsg()` is noticed with the
  next packet; a clock that is set back blocks the rate limit.

## 7. What is not modelled

- NPB, STREAM and membench: numerical kernels, vendored; their state is arrays of
  floating point (out of TLC's reach) and their threads meet in OpenMP barriers only.
  `setparams.c` is text in, text out.
- `iputils-ns/Modules/pg3.c`: a module for the kernel of Linux 2.4, which the image does
  not build.
- In iputils: what is printed, IP options (`-R`, `-T`), option values that are only handed
  to `setsockopt()`, parsing of netlink messages (`ni_ifaddrs.c` is the list it
  returns), `arp_advise()` of rarpd, the resolver. The floating estimate of
  `update_interval()` is any value of a small set. SIGHUP to rdisc while the
  timer itself is in `initifs()`.
- Command line, logging, `bind_or_die()`, libxml parsing of probed: the models start from
  their results. `desthost_reset.sh` and `simplehttp.py` keep no state.
- Two sessions with one id (`client.c:414`), the overflow of `sends` after 24 days
  (`loop.c:296`). SIGPIPE at a FIFO without reader (`client.c:809`) is in FifoQueue: the
  daemon ends and its queue is lost, which nothing promises otherwise.
- Wording and layout of files; the benchmarks' figures.

## 8. Plan

Done, in this order: time arithmetic and statistics; server loop; client loop;
send path; TCP child, FIFO and timer; the pair of daemons; the benchmark driver; the
programs of iputils and their composition.

Then the proofs of the parts of the client, the server's books, the benchmark driver,
the network tools but tftpd, and the client loop.

Next:

1. Proofs of the types of all network tools, and of DataMatchesBlock of tftpd for octet transfers.
2. ProbedClient with duplicate ids; an abstract specification of a measurement (a
   probe is sent, then reported once) that ProbedClient implements.
3. SIGHUP during the interface scan of rdisc; reordered errors in tracepath.
