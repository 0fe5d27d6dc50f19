----------------------------- MODULE SendTimer -----------------------------
(***************************************************************************)
(* The timer process of probed, client_send_fork() in SLANG-probed/        *)
(* client.c: sleep, write a trigger into the main loop's pipe, and every   *)
(* so often correct the sleep by the deviation from the ideal time.        *)
(* All times are microseconds.                                             *)
(***************************************************************************)
EXTENDS Integers

CONSTANTS Interval,  \* SEND_INTERVAL: 1000
          Every,     \* SEND_INTERVAL_DEV_INTERVAL: 100
          Limit,     \* 300
          Second,    \* microseconds per second: tv_nsec / 1000 stays below
          Overheads, \* what one turn of the loop may take besides the sleep
          Jumps,     \* by how much the wall clock may be set
          MaxJumps,  \* bound: how often
          MaxNow     \* bound: what |now - last| can reach

(* What the constants are, asserted where the module is instantiated. *)
TimerAssumption ==
  /\ Interval \in Nat /\ Every \in Nat \ {0} /\ Limit \in Nat /\ Limit < Interval
  /\ Second \in Nat \ {0} /\ Interval * Every < Second
  /\ Overheads \subseteq Nat /\ Jumps \subseteq Int /\ MaxJumps \in Nat /\ MaxNow \in Nat

VARIABLES
  time_dev, niter,  \* as in the code, niter modulo Every
  now,              \* CLOCK_REALTIME since last
  overhead, jumps,  \* the environment
  slept             \* what usleep() was given (ghost)

vars == <<time_dev, niter, now, overhead, jumps, slept>>

Ideal == Interval * Every

Init ==
  /\ time_dev = 0 /\ niter = 0 /\ now = 0
  /\ overhead \in Overheads /\ jumps = 0 /\ slept = Interval

Abs(n) == IF n < 0 THEN -n ELSE n

(* diff_ts() gives the absolute value and, separately, the sign; the
   deviation leaves the whole seconds out. *)
Deviation(passed) ==
  LET t_dev == (Abs(passed - Ideal) % Second) \div Every
  IN  IF passed < Ideal THEN -t_dev ELSE t_dev

(* Mutant: no limit to the modifier. *)
Limited_Not(d) == d

Limited(d) == IF d > Limit THEN Limit ELSE IF d < -Limit THEN -Limit ELSE d

(* Mutant: the deviation replaces the modifier instead of adding to it. *)
Corrected_Set(d, passed) == Limited(Deviation(passed))

Corrected(d, passed) == Limited(d + Deviation(passed))

Due(n) == n = 0

(* One turn: usleep(), write(), and the correction when it is due, after
   which last = now. *)
Turn ==
  /\ slept' = Interval - time_dev
  /\ niter' = (niter + 1) % Every
  /\ LET n == now + slept' + overhead
     IN  IF Due(niter)
         THEN /\ time_dev' = Corrected(time_dev, Abs(n))
              /\ now' = 0
         ELSE /\ Abs(n) <= MaxNow
              /\ now' = n
              /\ UNCHANGED time_dev
  /\ UNCHANGED <<overhead, jumps>>

(* The load changes, or the clock is set. *)
Disturb ==
  /\ jumps < MaxJumps
  /\ jumps' = jumps + 1
  /\ overhead' \in Overheads
  /\ \E j \in Jumps : now' = now + j
  /\ UNCHANGED <<time_dev, niter, slept>>

Next == Turn \/ Disturb

Spec == Init /\ [][Next]_vars

(* The process is scheduled. *)
FairSpec == Spec /\ WF_vars(Turn)
-----------------------------------------------------------------------------
(* The last conjunct says that, whatever the clock does, the argument of
   usleep() is near the interval and never negative (which it would take for
   more than an hour). *)
TypeOK ==
  /\ time_dev \in Int /\ niter \in 0 .. Every - 1
  /\ now \in Int /\ overhead \in Overheads /\ jumps \in 0 .. MaxJumps
  /\ slept \in Interval - Limit .. Interval + Limit

(* Once the load is steady and the clock is left alone, the correction finds
   the overhead and stays: a turn takes the interval again, or as close to it
   as the limit allows. *)
Steady == time_dev = (IF overhead > Limit THEN Limit ELSE overhead)
Converges == <>[]Steady
=============================================================================
