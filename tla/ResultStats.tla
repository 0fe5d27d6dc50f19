---------------------------- MODULE ResultStats ----------------------------
(***************************************************************************)
(* How probed turns the four timestamps of a finished probe into a result  *)
(* and into the statistics of CLIENT mode: the MASK_DONE branch of         *)
(* client_res_update() in SLANG-probed/client.c.                           *)
(*                                                                         *)
(* t1 and t4 are read on the client's clock, t2 and t3 on the server's, so *)
(* any combination of values may meet in one result.  The running means    *)
(* and variances are floating point and are left out.                      *)
(***************************************************************************)
EXTENDS Timespec, FiniteSets

CONSTANTS Stamps,       \* the timestamps a packet may carry, ZeroTs among them
          MAX_RTT_SEC,  \* a longer round trip is "strange": 20 in the code
          Thold,        \* the -t option, in nanoseconds
          MaxResults    \* bound: results evaluated in one run

ASSUME ResultAssumption ==
  /\ Stamps \subseteq ts_t
  /\ MAX_RTT_SEC \in Nat
  /\ Thold \in Nat
  /\ MaxResults \in Nat

Kinds == {"res_rtt", "total_rtt", "kernel_OH"}

VARIABLES res_ok, res_tserror, res_dserror,
          mn, mx,          \* <kind>_min and <kind>_max
          res_thold, res_n_thold,
          last,            \* the result evaluated last (ghost)
          seen             \* every successful result (ghost)

counters == <<res_ok, res_tserror, res_dserror>>
vars == <<counters, mn, mx, res_thold, res_n_thold, last, seen>>

Quads == [1..4 -> Stamps]
NoResult == [q |-> [i \in 1..4 |-> ZeroTs], state |-> "none", rtt |-> ZeroTs]

(* min.tv_sec = -1 marks a minimum that has not been set yet. *)
UnsetMin == Ts(-1, 0)
-----------------------------------------------------------------------------
(* client_init() and the initialisers of the statistics. *)
Init ==
  /\ res_ok = 0 /\ res_tserror = 0 /\ res_dserror = 0
  /\ mn = [k \in Kinds |-> UnsetMin]
  /\ mx = [k \in Kinds |-> ZeroTs]
  /\ res_thold = -1 /\ res_n_thold = 0
  /\ last = NoResult
  /\ seen = {}

(* The time between ping and pong, the server's share of it, and what is
   left for the network, each with the sign diff_ts reports. *)
Total(q)    == diff_ts(q[4], q[1])
Overhead(q) == diff_ts(q[3], q[2])
Rtt(q)      == diff_ts(Total(q).r, Overhead(q).r)

(* Mutant: the sign of the subtractions is not looked at. *)
Status_NoSignCheck(q, dscpErr) ==
  IF \/ \E i \in 1..4 : q[i] = ZeroTs
     \/ ~dscpErr /\ Rtt(q).r.tv_sec > MAX_RTT_SEC
  THEN "TS_ERR"
  ELSE IF dscpErr THEN "DS_ERR" ELSE "SUCCESS"

(* The status code of a probe whose PING, PONG and TIME are all there. *)
Status(q, dscpErr) ==
  IF \/ Total(q).neg \/ Overhead(q).neg \/ Rtt(q).neg
     \/ \E i \in 1..4 : q[i] = ZeroTs
     \/ ~dscpErr /\ Rtt(q).r.tv_sec > MAX_RTT_SEC
  THEN "TS_ERR"
  ELSE IF dscpErr THEN "DS_ERR" ELSE "SUCCESS"

Sample(q) == [k \in Kinds |-> IF k = "res_rtt" THEN Rtt(q).r
                             ELSE IF k = "total_rtt" THEN Total(q).r
                             ELSE Overhead(q).r]

(* Mutant: the sentinel of an unset minimum is compared like a value. *)
NewMin_NoSentinel(old, t) == IF cmp_ts(old, t) = 1 THEN t ELSE old

NewMin(old, t) == IF old.tv_sec = -1 \/ cmp_ts(old, t) = 1 THEN t ELSE old
NewMax(old, t) == IF cmp_ts(old, t) = -1 THEN t ELSE old

OverThold(t, thold) == Nanos(t) > thold

(* One probe completes in CLIENT mode with timestamps q. *)
Complete(q, dscpErr) ==
  LET st == Status(q, dscpErr)
      s  == Sample(q)
      th == IF res_thold < 0 THEN Thold ELSE res_thold
  IN  /\ last' = [q |-> q, state |-> st, rtt |-> Rtt(q).r]
      /\ res_tserror' = res_tserror + (IF st = "TS_ERR" THEN 1 ELSE 0)
      /\ res_dserror' = res_dserror + (IF st = "DS_ERR" THEN 1 ELSE 0)
      /\ IF st = "SUCCESS"
         THEN /\ res_ok' = res_ok + 1
              /\ mx' = [k \in Kinds |-> NewMax(mx[k], s[k])]
              /\ mn' = [k \in Kinds |-> NewMin(mn[k], s[k])]
              /\ res_thold' = th
              /\ res_n_thold' = res_n_thold
                                  + (IF OverThold(s["res_rtt"], th) THEN 1 ELSE 0)
              /\ seen' = seen \cup {[n |-> res_ok + 1, s |-> s]}
         ELSE UNCHANGED <<res_ok, mx, mn, res_thold, res_n_thold, seen>>

Next ==
  /\ res_ok + res_tserror + res_dserror < MaxResults
  /\ \E q \in Quads, dscpErr \in BOOLEAN : Complete(q, dscpErr)

Spec == Init /\ [][Next]_vars
-----------------------------------------------------------------------------
States == {"none", "SUCCESS", "TS_ERR", "DS_ERR"}

TypeOK ==
  /\ res_ok \in Nat /\ res_tserror \in Nat /\ res_dserror \in Nat
  /\ mn \in [Kinds -> ts_t] /\ mx \in [Kinds -> ts_t]
  /\ res_thold \in Int /\ res_n_thold \in Nat
  /\ last.state \in States /\ last.rtt \in ts_t
  /\ last.q \in [1..4 -> ts_t]

(* A result reported as a success states exactly the time the packet spent
   on the network, (t4 - t1) - (t3 - t2), and that time is not negative:
   three unsigned subtractions of diff_ts never conspire to a wrong RTT. *)
SuccessIsRoundTrip ==
  last.state = "SUCCESS" =>
    /\ Nanos(last.rtt) = (Nanos(last.q[4]) - Nanos(last.q[1]))
                           - (Nanos(last.q[3]) - Nanos(last.q[2]))
    /\ Nanos(last.rtt) >= 0
    /\ Nanos(last.q[1]) <= Nanos(last.q[4])
    /\ Nanos(last.q[2]) <= Nanos(last.q[3])

(* The minimum and the maximum that client_res_summary() prints, of each of
   the three quantities, are the extremes of the successful results. *)
ExtremesAreExact ==
  seen # {} =>
    \A k \in Kinds :
      /\ \E x \in seen : x.s[k] = mn[k]
      /\ \A x \in seen : Nanos(mn[k]) <= Nanos(x.s[k]) /\ Nanos(x.s[k]) <= Nanos(mx[k])
      /\ \E x \in seen : x.s[k] = mx[k]
=============================================================================
