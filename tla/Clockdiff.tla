------------------------------ MODULE Clockdiff ------------------------------
(***************************************************************************)
(* clockdiff: measure() and measure_opt(), which send stamped messages     *)
(* until MSGS answers, or one that took less than RANGE, came back, and    *)
(* compute the difference of two clocks that count milliseconds of the day.*)
(*                                                                         *)
(* The remote clock is ahead of the local one by skew, each message takes  *)
(* forth and back milliseconds (rounded by the clocks), and an answer may  *)
(* be late: behind younger messages, or after midnight.                    *)
(***************************************************************************)
EXTENDS Integers, FiniteSets, Sequences, FiniteSetsExt

CONSTANTS MODULO,      \* milliseconds of a day
          MSGS, TRIALS, RANGE,
          Skews,       \* how far the remote clock may be ahead
          Delays,      \* how long one way may take
          Modes,       \* subset of {"icmp", "o", "o1"}: ip_opt_len 0, 36, 28
          MaxLate, MaxDup   \* bounds on the messages under way and doubled

BIASP == MODULO \div 2 - 1
BIASN == -(MODULO \div 2)
Infinity == 4 * MODULO                 \* 0x7fffffff

(* The clocks are within half a day, one way included. *)
ClockAssumption ==
  /\ MODULO \in Nat \ {0} /\ MODULO % 2 = 0 /\ {TRIALS, RANGE, MaxLate, MaxDup} \subseteq Nat
  /\ MSGS \in Nat \ {0}
  /\ Skews \subseteq Int /\ Delays \subseteq Nat /\ Delays # {}
  /\ \A s \in Skews, d \in Delays : s + d <= BIASP /\ d - s <= BIASP /\ 2 * d < MODULO
  /\ Modes \subseteq {"icmp", "o", "o1"}

VARIABLES
  pc,          \* "start", "empty", "send", "wait", "exit"
  mode, skew,
  now,         \* the local clock, in milliseconds of the day
  seqno, acked, msgcount,
  min1, min2, min_rtt, measure_delta, measure_delta1,
  net,         \* messages under way: <<sequence, sendtime, histime, back>>
  dup,
  status       \* "good", "down", "unreachable", "nonstd", "error", ""

results == <<min1, min2, min_rtt, measure_delta, measure_delta1, msgcount>>
vars == <<pc, mode, skew, now, seqno, acked, results, net, dup, status>>

Init ==
  /\ pc = "start" /\ mode \in Modes /\ skew \in Skews /\ now \in {0, MODULO - 1}
  /\ seqno = 0 /\ acked = 0 /\ msgcount = 0
  /\ min1 = Infinity /\ min2 = Infinity /\ min_rtt = Infinity
  /\ measure_delta = Infinity /\ measure_delta1 = Infinity
  /\ net = {} /\ dup = 0 /\ status = ""

Half(a) == IF a < 0 THEN -((-a) \div 2) ELSE a \div 2     \* division truncates
Least(a, b) == IF a < b THEN a ELSE b

(* Mutant: differences are taken as they are. *)
Wrap_None(d) == d

(* Around midnight small differences appear enormous. *)
Wrap(d) == IF d < BIASN THEN d + MODULO ELSE IF d > BIASP THEN d - MODULO ELSE d

End(s) == pc' = "exit" /\ status' = s

(* main(): the socket, the names and connect(); without IP options -o falls
   back to time stamp messages. *)
Setup ==
  /\ pc = "start"
  /\ \/ End("error") /\ UNCHANGED mode
     \/ pc' = "empty" /\ UNCHANGED status /\ mode' \in {mode, "icmp"}
  /\ UNCHANGED <<skew, now, seqno, acked, results, net, dup>>

(* "empties the icmp input queue". *)
Empty ==
  /\ pc = "empty" /\ net' = {}
  /\ (pc' = "send" /\ UNCHANGED status) \/ End("error")           \* recvfrom()
  /\ UNCHANGED <<mode, skew, now, seqno, acked, results, dup>>

(* No answer for TRIALS messages in a row. *)
Down == seqno - acked > TRIALS

(* The time stamps an answer carries, if it comes: the remote time is
   taken when the message got there. *)
Stamps(forth, back) == <<seqno', now, (now + forth + skew) % MODULO, forth + back>>

(* One message is stamped and sent. *)
Send ==
  /\ pc = "send"
  /\ IF msgcount >= MSGS
       THEN /\ End("good") /\ measure_delta' = Half(min1 - min2)
            /\ UNCHANGED <<seqno, net>>
     ELSE IF Down THEN End("down") /\ UNCHANGED <<seqno, net, measure_delta>>
     ELSE /\ UNCHANGED measure_delta
          /\ \/ End("unreachable") /\ UNCHANGED <<seqno, net>>
             \/ /\ seqno' = seqno + 1 /\ pc' = "wait" /\ UNCHANGED status
                /\ \/ /\ Cardinality(net) < MaxLate
                      /\ \E forth, back \in Delays : net' = net \cup {Stamps(forth, back)}
                   \/ UNCHANGED net                                      \* lost
  /\ UNCHANGED <<mode, skew, now, acked, min1, min2, min_rtt, measure_delta1, msgcount, dup>>

(* select() ran out of rtt + rtt_sigma: the next message. *)
Timeout ==
  /\ pc = "wait" /\ pc' = "send"
  /\ UNCHANGED <<mode, skew, now, seqno, acked, results, net, dup, status>>

(* A packet that is no answer to this process; it starts the wait anew. *)
Foreign ==
  /\ pc = "wait"
  /\ \/ UNCHANGED <<pc, status>> \/ End("error")                 \* recvfrom()
  /\ UNCHANGED <<mode, skew, now, seqno, acked, results, net, dup>>

(* measure_opt() takes the times for missing when they have no bit in
   common, which any of them may happen to do; measure() does not look. *)
WrongTimes == mode # "icmp" /\ End("error")

NonStandard == End("nonstd")

(* The results after an answer sent at s, stamped h, read at r, counted. *)
Counted(s, h, r, took) ==
  LET delta1 == Wrap(h - s)
      delta2 == Wrap(r - h)
      quick == took < RANGE
      m1 == IF quick THEN delta1 ELSE Least(min1, delta1)
      m2 == IF quick THEN delta2 ELSE Least(min2, delta2)
  IN  /\ min1' = m1 /\ min2' = m2 /\ msgcount' = msgcount + 1
      /\ IF delta1 + delta2 < min_rtt
           THEN min_rtt' = delta1 + delta2 /\ measure_delta1' = Half(delta1 - delta2)
           ELSE UNCHANGED <<min_rtt, measure_delta1>>
      /\ IF quick THEN End("good") /\ measure_delta' = Half(m1 - m2)
         ELSE UNCHANGED <<pc, status, measure_delta>>

(* An answer is read when it arrives; one that crossed midnight is
   dropped, and the wait goes on for others. *)
Answer(m, again) ==
  LET r == (m[2] + m[4]) % MODULO
  IN  /\ pc = "wait" /\ m \in net
      /\ IF again THEN dup < MaxDup /\ dup' = dup + 1 /\ UNCHANGED net
                  ELSE net' = net \ {m} /\ UNCHANGED dup
      /\ acked' = IF acked < m[1] THEN m[1] ELSE acked
      /\ now' = r
      /\ \/ (WrongTimes \/ NonStandard) /\ UNCHANGED results
         \/ r - m[2] < 0 /\ UNCHANGED <<pc, status, results>>
         \/ r - m[2] >= 0 /\ Counted(m[2], m[3], r, r - m[2])
      /\ UNCHANGED <<mode, skew, seqno>>

Next == Setup \/ Empty \/ Send \/ Timeout \/ Foreign \/ \E m \in net, again \in BOOLEAN : Answer(m, again)

Spec == Init /\ [][Next]_vars
-----------------------------------------------------------------------------
TypeOK ==
  /\ pc \in {"start", "empty", "send", "wait", "exit"}
  /\ {seqno, acked, msgcount} \subseteq Nat /\ acked <= seqno
  /\ {min1, min2, min_rtt, measure_delta, measure_delta1} \subseteq Int

(* The difference printed is the difference of the clocks, to within half
   the quickest round trip: measured around midnight, whatever was lost, late
   or doubled, and by either of the two ways measure() computes it. *)
Accurate ==
  status = "good" =>
    \A d \in {measure_delta, measure_delta1} : 2 * d - 2 * skew \in -(min_rtt + 1) .. (min_rtt + 1)
==============================================================================
