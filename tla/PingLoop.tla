------------------------------ MODULE PingLoop ------------------------------
(***************************************************************************)
(* main_loop() and pinger() of ping: the pace of the probes, the errors of *)
(* sending, and when ping stops (-c, -w, -W, the two signals).             *)
(*                                                                         *)
(* Time is counted in milliseconds, relative to the last probe (since) and *)
(* to the expiry of the interval timer (alarm) and of a wait (left).  It   *)
(* may pass at any step of the loop, so that SIGALRM can come between the  *)
(* test of exiting and the system call that waits.                         *)
(***************************************************************************)
EXTENDS PingWindow

CONSTANTS MININTERVAL, lingertime,
          Longest,     \* what pinger() returns when there is nothing to send (1000)
          Options,     \* the command lines explored, see OptionType
          Intervals,   \* what update_interval() may arrive at (-A)
          Rtts,        \* values of tmax in units of 1000
          MaxAnswers,  \* bound: probes the network answers
          SendFaults,  \* subset of {"oom", "again", "local", "icmp"}
          MaxAgain,    \* bound on EAGAIN and on settings of the clock
          Jumps        \* by how much the clock may be set back

OptionType == [interval : Nat, preload : Nat \ {0}, npackets : Nat, deadline : Nat,
               adaptive : BOOLEAN, timing : BOOLEAN, quiet : BOOLEAN]

LoopAssumption ==
  /\ MININTERVAL \in Nat \ {0} /\ lingertime \in Nat /\ Options \subseteq OptionType
  /\ Intervals \subseteq Nat /\ Rtts \subseteq Nat /\ MaxAnswers \in Nat
  /\ SendFaults \subseteq {"oom", "again", "local", "icmp"} /\ MaxAgain \in Nat /\ Jumps \subseteq Nat

VARIABLES w, opt,
  interval, tokens, oom_count,
  since,      \* time since cur_time, First before it is set
  tmax, waittime, alarm, exiting,
  pc,         \* "top", "pinger", "wait", "recv" or "done"
  left,       \* how long poll() or recvmsg() still waits
  net, rq,    \* probes under way, and what the socket holds
  once,       \* install_filter() was called: nothing that is not ours is queued
  again, status,
  bucket      \* ghost: a bucket that fills by one in each millisecond

loopVars == <<interval, tokens, oom_count, since, tmax, waittime, alarm>>
vars == <<w, opt, loopVars, exiting, pc, left, net, rq, once, again, status, bucket>>

(* No probe was sent yet; the clock is never set back by as much. *)
First == -1000000000

SCHINT(a) == IF a <= MININTERVAL THEN MININTERVAL ELSE a
AtMost(a, b) == IF a < b THEN a ELSE b
AtLeast(a, b) == IF a > b THEN a ELSE b

Init ==
  /\ opt \in Options
  /\ w = NewWindow /\ interval = opt.interval
  /\ tokens = 0 /\ oom_count = 0 /\ since = First
  /\ tmax = 0 /\ waittime = 0
  /\ alarm = opt.deadline           \* setup()
  /\ exiting = FALSE /\ pc = "top" /\ left = 0
  /\ net = {} /\ rq = <<>> /\ once = FALSE /\ again = 0 /\ status = 0
  /\ bucket = opt.interval * opt.preload
-----------------------------------------------------------------------------
(* The exit conditions at the head of main_loop(). *)
Over == \/ exiting
        \/ opt.npackets > 0 /\ w.nreceived + w.nerrors >= opt.npackets
        \/ opt.deadline > 0 /\ w.nerrors > 0

(* finish(): the exit status. *)
finish == status' = IF w.nreceived = 0 \/ (opt.deadline > 0 /\ w.nreceived < opt.npackets)
                    THEN 1 ELSE 0

Top ==
  /\ pc = "top"
  /\ IF Over THEN pc' = "done" /\ finish ELSE pc' = "pinger" /\ UNCHANGED status
  /\ UNCHANGED <<w, opt, loopVars, exiting, left, net, rq, once, again, bucket>>

Enough(v) == opt.npackets > 0 /\ v.ntransmitted >= opt.npackets /\ opt.deadline = 0

(* Mutant: the timer is only set when there was no answer. *)
ExitTime_NoReply(v) == IF v.nreceived > 0 THEN 0 ELSE lingertime

(* __schedule_exit(): tmax, in nanoseconds, is taken for microseconds. *)
ExitTime(v) == IF v.nreceived > 0 THEN AtLeast(2 * tmax, interval') ELSE lingertime

(* schedule_exit() and the choice of how to wait: with poll() or nonblocking
   when recvmsg(), whose timeout was set from the interval of the command line,
   waits too long. *)
AfterPinger(next, v) ==
  LET arm  == Enough(v) /\ waittime = 0
      nxt  == IF arm THEN AtLeast(next, ExitTime(v)) ELSE next
      full == SCHINT(opt.interval)
      poll == opt.adaptive \/ nxt < SCHINT(interval')
      spin == poll /\ nxt <= MININTERVAL
  IN  /\ waittime' = IF arm THEN ExitTime(v) ELSE waittime
      /\ alarm' = IF arm THEN ExitTime(v) ELSE alarm
      /\ IF nxt <= 0 THEN pc' = "pinger" /\ left' = 0
         ELSE /\ pc' = "wait"
              /\ left' = CASE ~poll -> full
                           [] spin /\ in_flight(v) = 0 -> 0
                           [] spin /\ in_flight(v) # 0 ->
                                IF opt.adaptive \/ interval' > 0 THEN MININTERVAL ELSE full
                           [] OTHER -> nxt

PingerVars == <<opt, exiting, rq, once, status>>

(* pinger(): nothing (more) is to be sent. *)
PingerEnough ==
  /\ pc = "pinger" /\ (exiting \/ Enough(w))
  /\ UNCHANGED <<interval, tokens, oom_count, since, tmax, w, net, again, bucket, PingerVars>>
  /\ AfterPinger(Longest, w)

(* Mutant: what was not used is saved without limit. *)
Refill_NoCap == since + tokens

(* The tokens of the time that has passed, with those left over. *)
Refill == AtMost(since + tokens, interval * opt.preload)

Crowded == interval = 0 /\ since < MININTERVAL /\ in_flight(w) >= opt.preload

(* pinger(): it is too early. *)
PingerEarly ==
  /\ pc = "pinger" /\ ~exiting /\ ~Enough(w) /\ since # First
  /\ Crowded \/ Refill < interval
  /\ UNCHANGED <<interval, tokens, oom_count, since, tmax, w, net, again, bucket, PingerVars>>
  /\ AfterPinger(IF Crowded THEN MININTERVAL - since ELSE interval - Refill, w)

CanSend == /\ pc = "pinger" /\ ~exiting /\ ~Enough(w)
           /\ since = First \/ (~Crowded /\ Refill >= interval)

(* The tokens after a probe is paid for. *)
Paid == IF since = First THEN interval * (opt.preload - 1) ELSE Refill - interval

(* update_interval(): by the round trip time, which is not followed here. *)
update_interval == IF opt.adaptive THEN interval' \in Intervals ELSE UNCHANGED interval

Sent == /\ since' = 0
        /\ bucket' = bucket - interval

SendOk ==
  /\ CanSend
  /\ tokens' = Paid /\ oom_count' = 0 /\ Sent
  /\ w' = advance_ntransmitted(ping4_send_probe(w))
  /\ net' = net \cup (IF w'.ntransmitted <= MaxAnswers THEN {w'.ntransmitted} ELSE {})
  /\ UNCHANGED <<interval, tmax, again, PingerVars>>
  /\ AfterPinger(interval - Paid, w')

(* A hard error: the packet counts as sent, v is the window before it. *)
HardError(v) ==
  /\ tokens' = 0 /\ Sent
  /\ w' = advance_ntransmitted(v)
  /\ AfterPinger(SCHINT(interval'), w')

(* After lingertime of it a lack of buffers is a hard error. *)
GiveUp(nores_interval) == (oom_count + 1) * nores_interval >= lingertime

(* ENOBUFS, ENOMEM: the packet was not sent. *)
SendOom ==
  /\ CanSend /\ "oom" \in SendFaults
  /\ update_interval
  /\ LET nores_interval == AtMost(SCHINT(interval' \div 2), 500)
     IN  /\ oom_count' = AtMost(oom_count + 1, lingertime)
         /\ IF GiveUp(nores_interval)
              THEN HardError(ping4_send_probe(w))
              ELSE /\ w' = ping4_send_probe(w) /\ tokens' = 0 /\ since' = 0
                   /\ AfterPinger(nores_interval, w')
                   /\ UNCHANGED bucket
  /\ UNCHANGED <<tmax, net, again, PingerVars>>

(* EAGAIN: the token is given back. *)
SendAgain ==
  /\ CanSend /\ "again" \in SendFaults /\ again < MaxAgain
  /\ again' = again + 1
  /\ w' = ping4_send_probe(w) /\ tokens' = Paid + interval /\ since' = 0
  /\ UNCHANGED <<interval, oom_count, tmax, net, bucket, PingerVars>>
  /\ AfterPinger(MININTERVAL, w')

(* Another error, with or without an entry of the error queue; one for another
   process only sends again. *)
SendError(origin) ==
  /\ CanSend /\ origin \in SendFaults \cup {"none"} /\ origin \in {"none", "local", "icmp"}
  /\ SendFaults \cap {"local", "icmp"} # {}
  /\ UNCHANGED <<interval, oom_count, tmax, net, again, PingerVars>>
  /\ HardError(ping4_receive_error_msg(ping4_send_probe(w), u16(w.ntransmitted), origin, opt.quiet))
-----------------------------------------------------------------------------
(* poll() or recvmsg(): something has arrived, the time is over, or a signal
   has come. *)
WaitEnds ==
  /\ pc = "wait" /\ (rq # <<>> \/ left = 0 \/ exiting)
  /\ pc' = IF rq # <<>> THEN "recv" ELSE "top"
  /\ left' = 0
  /\ UNCHANGED <<w, opt, loopVars, exiting, net, rq, once, again, status, bucket>>

(* parse_reply() or receive_error_msg() for the head of the queue; back to
   pinger() when nothing is in flight. *)
Receive ==
  /\ pc = "recv" /\ rq # <<>>
  /\ rq' = <<>>
  /\ LET m == rq[1]
     IN  /\ w' = CASE m.kind = "icmp"  -> ping4_receive_error_msg(w, u16(m.probe), "icmp", opt.quiet)
                   [] OTHER -> ping4_parse_reply(w, Message(m.kind, m.probe, FALSE))
         /\ once' = (once \/ m.kind = "other")
  /\ IF w'.nreceived > w.nreceived
       THEN /\ tmax' \in (IF opt.timing THEN {AtLeast(r, tmax) : r \in Rtts} ELSE {0})
            /\ IF opt.timing THEN update_interval ELSE UNCHANGED interval
       ELSE UNCHANGED <<tmax, interval>>
  /\ pc' = IF in_flight(w') = 0 THEN "top" ELSE "recv"
  /\ UNCHANGED <<opt, tokens, oom_count, since, waittime, alarm, exiting, left, net, again, status, bucket>>

(* EAGAIN: the socket is empty. *)
ReceiveNothing ==
  /\ pc = "recv" /\ rq = <<>> /\ pc' = "top"
  /\ UNCHANGED <<w, opt, loopVars, exiting, left, net, rq, once, again, status, bucket>>

(* External: an answer, an error or somebody else's packet arrives. *)
Arrive(n, kind) ==
  /\ pc \notin {"done"} /\ n \in net /\ rq = <<>> /\ (once => kind # "other")
  /\ rq' = <<[kind |-> kind, probe |-> n]>>
  /\ net' = IF kind = "other" THEN net ELSE net \ {n}
  /\ UNCHANGED <<w, opt, loopVars, exiting, pc, left, once, again, status, bucket>>

(* SIGINT. *)
Interrupt ==
  /\ pc # "done" /\ ~exiting /\ exiting' = TRUE
  /\ UNCHANGED <<w, opt, loopVars, pc, left, net, rq, once, again, status, bucket>>

(* A millisecond; SIGALRM when the timer runs out. *)
Tick ==
  /\ pc # "done"
  /\ since' = IF since = First THEN First
              ELSE AtMost(since + 1, AtLeast(interval * opt.preload, MININTERVAL))
  /\ left' = AtLeast(left - 1, 0)
  /\ alarm' = AtLeast(alarm - 1, 0)
  /\ exiting' = (exiting \/ alarm = 1)
  /\ bucket' = AtMost(bucket + 1, opt.interval * opt.preload)
  /\ UNCHANGED <<w, opt, interval, tokens, oom_count, tmax, waittime, pc, net, rq, once, again, status>>

(* The clock is set back. *)
SetBack(d) ==
  /\ pc # "done" /\ since # First /\ since - d > First /\ again < MaxAgain
  /\ again' = again + 1 /\ since' = since - d
  /\ UNCHANGED <<w, opt, interval, tokens, oom_count, tmax, waittime, alarm, exiting, pc, left, net, rq, once, status, bucket>>

Step == Top \/ PingerEnough \/ PingerEarly \/ SendOk \/ SendOom \/ SendAgain
        \/ (\E o \in {"none", "local", "icmp"} : SendError(o))
        \/ WaitEnds \/ Receive \/ ReceiveNothing

Next == Step \/ Tick \/ Interrupt
        \/ (\E n \in net, kind \in {"echo", "icmp", "other"} : Arrive(n, kind))
        \/ (\E d \in Jumps : SetBack(d))

(* The process runs and time passes; the network owes nothing. *)
Spec == Init /\ [][Next]_vars /\ WF_vars(Step) /\ WF_vars(Tick)
-----------------------------------------------------------------------------
TypeOK ==
  /\ opt \in Options /\ interval \in Nat /\ tokens \in Int /\ since \in Int
  /\ alarm \in Nat /\ left \in Nat /\ waittime \in Nat
  /\ pc \in {"top", "pinger", "wait", "recv", "done"} /\ status \in {0, 1}

(* pinger(), "Check that packets < rate*time + preload": through errors, given
   back tokens and waits cut short, no more probes leave than the interval
   and the preload allow. *)
PacketsPaced == opt.adaptive \/ bucket >= 0

(* -c and -w: ping stops, whatever is lost and however sending fails, after
   the clock was set back too. *)
MustStop == opt.npackets > 0 \/ opt.deadline > 0
Stops == MustStop => <>(pc = "done")

(* The same where the timer of __schedule_exit() cannot be set to zero: the
   packets are long enough to be timed, or there is an interval. *)
TimerSet == opt.timing \/ opt.interval > 0
StopsTimed == (MustStop /\ TimerSet) => <>(pc = "done")
=============================================================================
