------------------------------ MODULE Timespec ------------------------------
(***************************************************************************)
(* Arithmetic on struct timespec: diff_ts() and cmp_ts() of                *)
(* SLANG-probed/util.c, on which every round trip time of probed rests.    *)
(***************************************************************************)
EXTENDS Integers

CONSTANT NSEC      \* nanoseconds in a second: 1000000000 in the code

ASSUME NsecAssumption == NSEC \in Nat \ {0}

(* A normalised timestamp, the only kind the kernel and diff_ts produce. *)
ts_t == [tv_sec : Int, tv_nsec : 0 .. NSEC - 1]

Ts(s, n) == [tv_sec |-> s, tv_nsec |-> n]

(* A timestamp that is all zeroes: what memset leaves when none was taken. *)
ZeroTs == Ts(0, 0)

(* The reference: the timestamp as one number of nanoseconds. *)
Nanos(t) == t.tv_sec * NSEC + t.tv_nsec

(* Mutant: field by field, the borrow of the second is forgotten. *)
Minus_NoBorrow(x, y) == Ts(x.tv_sec - y.tv_sec, x.tv_nsec - y.tv_nsec)

(* x - y for x not earlier than y: one second is borrowed when the
   nanoseconds of x are the smaller ones. *)
Minus(x, y) ==
  IF x.tv_nsec >= y.tv_nsec
  THEN Ts(x.tv_sec - y.tv_sec, x.tv_nsec - y.tv_nsec)
  ELSE Ts(x.tv_sec - y.tv_sec - 1, NSEC + x.tv_nsec - y.tv_nsec)

Earlier(a, b) == a.tv_sec < b.tv_sec \/ (a.tv_sec = b.tv_sec /\ a.tv_nsec < b.tv_nsec)

(* |a - b|, with neg telling whether a was the earlier of the two. *)
diff_ts(a, b) ==
  IF Earlier(a, b) THEN [neg |-> TRUE,  r |-> Minus(b, a)]
                   ELSE [neg |-> FALSE, r |-> Minus(a, b)]

(* -1, 0 or 1 as t1 is earlier than, equal to or later than t2. *)
cmp_ts(t1, t2) == IF Earlier(t1, t2) THEN -1 ELSE IF Earlier(t2, t1) THEN 1 ELSE 0

=============================================================================
