------------------------- MODULE ResultStats_proofs -------------------------
(***************************************************************************)
(* Proofs about timestamp arithmetic and result evaluation, for every      *)
(* length of a second, every set of timestamps and every number of probes. *)
(***************************************************************************)
EXTENDS ResultStats, TLAPS

(* Products with NSEC distribute over subtraction: the one nonlinear fact
   the arithmetic below needs. *)
LEMMA Scale ==
  ASSUME NEW x \in Int, NEW y \in Int
  PROVE  /\ (x - y) * NSEC = x * NSEC - y * NSEC
         /\ (x - y - 1) * NSEC = x * NSEC - y * NSEC - NSEC
         /\ x * NSEC \in Int
         /\ x >= y + 1 => x * NSEC >= y * NSEC + NSEC
BY NsecAssumption, SMTT(30)

(* Timestamps as pairs of integers. *)
LEMMA TsFields ==
  /\ \A t \in ts_t : /\ t.tv_sec \in Int /\ t.tv_nsec \in Int
                     /\ 0 <= t.tv_nsec /\ t.tv_nsec < NSEC
  /\ \A s \in Int, n \in Int :
       /\ Ts(s, n).tv_sec = s /\ Ts(s, n).tv_nsec = n
       /\ 0 <= n /\ n < NSEC => Ts(s, n) \in ts_t
BY NsecAssumption DEF ts_t, Ts

(* Nanos is an integer, and orders timestamps first by second. *)
LEMMA NanosOrder ==
  ASSUME NEW a \in ts_t, NEW b \in ts_t
  PROVE  /\ Nanos(a) \in Int
         /\ a.tv_sec > b.tv_sec => Nanos(a) > Nanos(b)
         /\ a.tv_sec = b.tv_sec => Nanos(a) - Nanos(b) = a.tv_nsec - b.tv_nsec
         /\ a.tv_sec >= 0 => Nanos(a) >= 0
<1>1. /\ a.tv_sec \in Int /\ a.tv_nsec \in Int /\ 0 <= a.tv_nsec /\ a.tv_nsec < NSEC
      /\ b.tv_sec \in Int /\ b.tv_nsec \in Int /\ 0 <= b.tv_nsec /\ b.tv_nsec < NSEC
  BY TsFields
<1>2. /\ a.tv_sec * NSEC \in Int /\ b.tv_sec * NSEC \in Int
      /\ a.tv_sec >= b.tv_sec + 1 => a.tv_sec * NSEC >= b.tv_sec * NSEC + NSEC
  BY <1>1, Scale
<1>3. a.tv_sec >= 0 => a.tv_sec * NSEC >= 0
  BY <1>1, NsecAssumption, SMTT(30)
<1>4. QED
  BY <1>1, <1>2, <1>3, NsecAssumption DEF Nanos

(* Minus borrows correctly: for x not earlier than y the difference is a
   normalised, non-negative timestamp of Nanos(x) - Nanos(y) nanoseconds. *)
LEMMA MinusCorrect ==
  ASSUME NEW x \in ts_t, NEW y \in ts_t, ~Earlier(x, y)
  PROVE  /\ Minus(x, y) \in ts_t
         /\ Minus(x, y).tv_sec >= 0
         /\ Nanos(Minus(x, y)) = Nanos(x) - Nanos(y)
<1> DEFINE ds == x.tv_sec - y.tv_sec
           dn == x.tv_nsec - y.tv_nsec
<1>1. /\ x.tv_sec \in Int /\ x.tv_nsec \in Int /\ 0 <= x.tv_nsec /\ x.tv_nsec < NSEC
      /\ y.tv_sec \in Int /\ y.tv_nsec \in Int /\ 0 <= y.tv_nsec /\ y.tv_nsec < NSEC
      /\ NSEC \in Int /\ NSEC > 0
  BY TsFields, NsecAssumption
<1>2. /\ ds * NSEC = x.tv_sec * NSEC - y.tv_sec * NSEC
      /\ (ds - 1) * NSEC = x.tv_sec * NSEC - y.tv_sec * NSEC - NSEC
      /\ x.tv_sec * NSEC \in Int /\ y.tv_sec * NSEC \in Int
  BY <1>1, Scale
<1>3. CASE x.tv_nsec >= y.tv_nsec
  <2>1. Minus(x, y) = Ts(ds, dn)
    BY <1>3 DEF Minus
  <2>2. ds \in Int /\ dn \in Int /\ 0 <= dn /\ dn < NSEC /\ ds >= 0
    BY <1>1, <1>3 DEF Earlier
  <2>3. Ts(ds, dn) \in ts_t /\ Ts(ds, dn).tv_sec = ds /\ Ts(ds, dn).tv_nsec = dn
    BY <2>2, TsFields
  <2>4. Nanos(Ts(ds, dn)) = ds * NSEC + dn
    BY <2>3 DEF Nanos
  <2>5. ds * NSEC + dn = Nanos(x) - Nanos(y)
    BY <1>1, <1>2 DEF Nanos
  <2>6. QED
    BY <2>1, <2>2, <2>3, <2>4, <2>5
<1>4. CASE ~(x.tv_nsec >= y.tv_nsec)
  <2>1. Minus(x, y) = Ts(ds - 1, NSEC + x.tv_nsec - y.tv_nsec)
    BY <1>4 DEF Minus
  <2> DEFINE n == NSEC + x.tv_nsec - y.tv_nsec
  <2>2. ds - 1 \in Int /\ n \in Int /\ 0 <= n /\ n < NSEC /\ ds - 1 >= 0
    BY <1>1, <1>4 DEF Earlier
  <2>3. Ts(ds - 1, n) \in ts_t /\ Ts(ds - 1, n).tv_sec = ds - 1 /\ Ts(ds - 1, n).tv_nsec = n
    BY <2>2, TsFields
  <2>4. Nanos(Ts(ds - 1, n)) = (ds - 1) * NSEC + n
    BY <2>3 DEF Nanos
  <2>5. (ds - 1) * NSEC + n = Nanos(x) - Nanos(y)
    BY <1>1, <1>2 DEF Nanos
  <2>6. QED
    BY <2>1, <2>2, <2>3, <2>4, <2>5
<1>5. QED
  BY <1>3, <1>4

(* The order diff_ts and cmp_ts decide by is the order of the nanoseconds. *)
LEMMA EarlierIsLess ==
  ASSUME NEW a \in ts_t, NEW b \in ts_t
  PROVE  Earlier(a, b) <=> Nanos(a) < Nanos(b)
<1>1. /\ a.tv_sec \in Int /\ a.tv_nsec \in Int /\ b.tv_sec \in Int /\ b.tv_nsec \in Int
  BY TsFields
<1>2. /\ Nanos(a) \in Int /\ Nanos(b) \in Int
      /\ a.tv_sec > b.tv_sec => Nanos(a) > Nanos(b)
      /\ b.tv_sec > a.tv_sec => Nanos(b) > Nanos(a)
      /\ a.tv_sec = b.tv_sec => Nanos(a) - Nanos(b) = a.tv_nsec - b.tv_nsec
  BY NanosOrder
<1>3. QED
  BY <1>1, <1>2 DEF Earlier

(* diff_ts returns a normalised, non-negative timestamp of exactly |a - b|
   nanoseconds, and reports as negative exactly the case a before b. *)
THEOREM DiffTsCorrect ==
  ASSUME NEW a \in ts_t, NEW b \in ts_t
  PROVE  /\ diff_ts(a, b).r \in ts_t
         /\ diff_ts(a, b).r.tv_sec >= 0
         /\ diff_ts(a, b).neg <=> Nanos(a) < Nanos(b)
         /\ diff_ts(a, b).neg => Nanos(diff_ts(a, b).r) = Nanos(b) - Nanos(a)
         /\ ~diff_ts(a, b).neg => Nanos(diff_ts(a, b).r) = Nanos(a) - Nanos(b)
<1>1. Earlier(a, b) <=> Nanos(a) < Nanos(b)
  BY EarlierIsLess
<1>2. Earlier(a, b) => ~Earlier(b, a)
  <2>1. /\ a.tv_sec \in Int /\ a.tv_nsec \in Int /\ b.tv_sec \in Int /\ b.tv_nsec \in Int
    BY TsFields
  <2>2. QED
    BY <2>1 DEF Earlier
<1>3. CASE Earlier(a, b)
  <2>1. diff_ts(a, b).neg = TRUE /\ diff_ts(a, b).r = Minus(b, a)
    BY <1>3 DEF diff_ts
  <2>2. /\ Minus(b, a) \in ts_t /\ Minus(b, a).tv_sec >= 0
        /\ Nanos(Minus(b, a)) = Nanos(b) - Nanos(a)
    BY <1>2, <1>3, MinusCorrect
  <2>3. QED
    BY <1>1, <1>3, <2>1, <2>2
<1>4. CASE ~Earlier(a, b)
  <2>1. diff_ts(a, b).neg = FALSE /\ diff_ts(a, b).r = Minus(a, b)
    BY <1>4 DEF diff_ts
  <2>2. /\ Minus(a, b) \in ts_t /\ Minus(a, b).tv_sec >= 0
        /\ Nanos(Minus(a, b)) = Nanos(a) - Nanos(b)
    BY <1>4, MinusCorrect
  <2>3. QED
    BY <1>1, <1>4, <2>1, <2>2
<1>5. QED
  BY <1>3, <1>4
-----------------------------------------------------------------------------
(* The three differences of a probe are normalised and non-negative. *)
LEMMA QuadTypes ==
  ASSUME NEW q \in Quads
  PROVE  /\ q \in [1..4 -> ts_t]
         /\ Total(q).r \in ts_t /\ Total(q).r.tv_sec >= 0
         /\ Overhead(q).r \in ts_t /\ Overhead(q).r.tv_sec >= 0
         /\ Rtt(q).r \in ts_t /\ Rtt(q).r.tv_sec >= 0
<1>1. q \in [1..4 -> ts_t]
  BY ResultAssumption DEF Quads
<1>2. q[1] \in ts_t /\ q[2] \in ts_t /\ q[3] \in ts_t /\ q[4] \in ts_t
  BY <1>1
<1>3. Total(q).r \in ts_t /\ Total(q).r.tv_sec >= 0
  BY <1>2, DiffTsCorrect DEF Total
<1>4. Overhead(q).r \in ts_t /\ Overhead(q).r.tv_sec >= 0
  BY <1>2, DiffTsCorrect DEF Overhead
<1>5. Rtt(q).r \in ts_t /\ Rtt(q).r.tv_sec >= 0
  BY <1>3, <1>4, DiffTsCorrect DEF Rtt
<1>6. QED
  BY <1>1, <1>3, <1>4, <1>5

(* What Status calls a success has a true, non-negative round trip time. *)
LEMMA StatusSound ==
  ASSUME NEW q \in Quads, NEW e \in BOOLEAN, Status(q, e) = "SUCCESS"
  PROVE  /\ Nanos(Rtt(q).r) = (Nanos(q[4]) - Nanos(q[1])) - (Nanos(q[3]) - Nanos(q[2]))
         /\ Nanos(Rtt(q).r) >= 0
         /\ Nanos(q[1]) <= Nanos(q[4])
         /\ Nanos(q[2]) <= Nanos(q[3])
<1>1. ~Total(q).neg /\ ~Overhead(q).neg /\ ~Rtt(q).neg
  BY DEF Status
<1>2. q[1] \in ts_t /\ q[2] \in ts_t /\ q[3] \in ts_t /\ q[4] \in ts_t
  BY QuadTypes
<1>3. /\ Nanos(q[1]) \in Int /\ Nanos(q[2]) \in Int
      /\ Nanos(q[3]) \in Int /\ Nanos(q[4]) \in Int
  BY <1>2, NanosOrder
<1>4. /\ ~(Nanos(q[4]) < Nanos(q[1]))
      /\ Nanos(Total(q).r) = Nanos(q[4]) - Nanos(q[1])
  BY <1>1, <1>2, DiffTsCorrect DEF Total
<1>5. /\ ~(Nanos(q[3]) < Nanos(q[2]))
      /\ Nanos(Overhead(q).r) = Nanos(q[3]) - Nanos(q[2])
  BY <1>1, <1>2, DiffTsCorrect DEF Overhead
<1>6. Nanos(Rtt(q).r) = Nanos(Total(q).r) - Nanos(Overhead(q).r)
  BY <1>1, QuadTypes, DiffTsCorrect DEF Rtt
<1>7. Nanos(Rtt(q).r) >= 0
  BY QuadTypes, NanosOrder
<1>8. QED
  BY <1>3, <1>4, <1>5, <1>6, <1>7

(* A sample is a triple of normalised, non-negative timestamps. *)
LEMMA SampleType ==
  ASSUME NEW q \in Quads, NEW k \in Kinds
  PROVE  Sample(q)[k] \in ts_t /\ Sample(q)[k].tv_sec >= 0
BY QuadTypes DEF Sample, Kinds

(* The initial statistics are timestamps. *)
LEMMA StampConstants ==
  ZeroTs \in ts_t /\ UnsetMin \in ts_t /\ UnsetMin.tv_sec = -1 /\ ZeroTs.tv_sec = 0
BY NsecAssumption DEF ZeroTs, UnsetMin, Ts, ts_t

(* Status codes are the four of States. *)
LEMMA StatusType ==
  ASSUME NEW q, NEW e PROVE Status(q, e) \in {"SUCCESS", "TS_ERR", "DS_ERR"}
BY DEF Status

(* Every variable of the evaluation keeps its type. *)
THEOREM TypeCorrect == Spec => []TypeOK
<1>1. Init => TypeOK
  <2>1. NoResult.state = "none" /\ NoResult.rtt = ZeroTs /\ NoResult.q = [i \in 1..4 |-> ZeroTs]
    BY DEF NoResult
  <2>2. QED
    BY <2>1, StampConstants DEF Init, TypeOK, States
<1>2. TypeOK /\ [Next]_vars => TypeOK'
  <2> SUFFICES ASSUME TypeOK, [Next]_vars PROVE TypeOK'
    OBVIOUS
  <2>1. CASE UNCHANGED vars
    BY <2>1 DEF TypeOK, vars, counters
  <2>2. ASSUME NEW q \in Quads, NEW e \in BOOLEAN, Complete(q, e) PROVE TypeOK'
    <3>1. /\ last'.state \in States /\ last'.rtt \in ts_t /\ last'.q \in [1..4 -> ts_t]
      BY <2>2, QuadTypes, StatusType DEF Complete, States
    <3>2. res_ok' \in Nat /\ res_tserror' \in Nat /\ res_dserror' \in Nat
      BY <2>2 DEF Complete, TypeOK
    <3>3. mn' \in [Kinds -> ts_t] /\ mx' \in [Kinds -> ts_t]
      BY <2>2, SampleType DEF Complete, TypeOK, NewMin, NewMax
    <3>4. res_thold' \in Int /\ res_n_thold' \in Nat
      BY <2>2, ResultAssumption DEF Complete, TypeOK
    <3>5. QED
      BY <3>1, <3>2, <3>3, <3>4 DEF TypeOK
  <2>3. QED
    BY <2>1, <2>2 DEF Next
<1>3. QED
  BY <1>1, <1>2, PTL DEF Spec

(* No reported success carries a wrong or negative round trip time, whatever
   the two clocks read. *)
THEOREM SuccessCorrect == Spec => []SuccessIsRoundTrip
<1>1. Init => SuccessIsRoundTrip
  BY DEF Init, NoResult, SuccessIsRoundTrip
<1>2. SuccessIsRoundTrip /\ [Next]_vars => SuccessIsRoundTrip'
  <2> SUFFICES ASSUME SuccessIsRoundTrip, [Next]_vars PROVE SuccessIsRoundTrip'
    OBVIOUS
  <2>1. CASE UNCHANGED vars
    BY <2>1 DEF SuccessIsRoundTrip, vars, Nanos
  <2>2. ASSUME NEW q \in Quads, NEW e \in BOOLEAN, Complete(q, e)
        PROVE  SuccessIsRoundTrip'
    <3>1. last' = [q |-> q, state |-> Status(q, e), rtt |-> Rtt(q).r]
      BY <2>2 DEF Complete
    <3>2. last'.q = q /\ last'.state = Status(q, e) /\ last'.rtt = Rtt(q).r
      BY <3>1
    <3>3. QED
      BY <3>2, StatusSound DEF SuccessIsRoundTrip, Nanos
  <2>3. QED
    BY <2>1, <2>2 DEF Next
<1>3. QED
  BY <1>1, <1>2, PTL DEF Spec
-----------------------------------------------------------------------------
(* What the statistics know about the samples taken so far: each sample is
   non-negative, so the sentinel of an unset minimum is never a sample. *)
SamplesInv ==
  /\ \A x \in seen, k \in Kinds : x.s[k] \in ts_t /\ x.s[k].tv_sec >= 0
  /\ seen = {} => \A k \in Kinds : mn[k] = UnsetMin /\ mx[k] = ZeroTs

(* One kind of statistics, whose samples so far are V, after the sample t. *)
LEMMA ExtremesStep ==
  ASSUME NEW V, NEW t \in ts_t, NEW lo \in ts_t, NEW hi \in ts_t,
         \A v \in V : v \in ts_t /\ v.tv_sec >= 0,
         t.tv_sec >= 0,
         V = {} => lo = UnsetMin /\ hi = ZeroTs,
         V # {} => /\ lo \in V /\ hi \in V
                   /\ \A v \in V : Nanos(lo) <= Nanos(v) /\ Nanos(v) <= Nanos(hi)
  PROVE  LET W   == V \cup {t}
             lo2 == NewMin(lo, t)
             hi2 == NewMax(hi, t)
         IN  /\ lo2 \in W /\ hi2 \in W
             /\ \A v \in W : Nanos(lo2) <= Nanos(v) /\ Nanos(v) <= Nanos(hi2)
<1>1. /\ Nanos(t) \in Int /\ Nanos(lo) \in Int /\ Nanos(hi) \in Int
      /\ Nanos(t) >= 0
      /\ \A v \in V : Nanos(v) \in Int
  BY NanosOrder
<1>2. NewMax(hi, t) = IF Nanos(hi) < Nanos(t) THEN t ELSE hi
  BY EarlierIsLess DEF NewMax, cmp_ts
<1>3. NewMin(lo, t) = IF lo.tv_sec = -1 \/ Nanos(t) < Nanos(lo) THEN t ELSE lo
  <2>1. cmp_ts(lo, t) = 1 <=> Nanos(t) < Nanos(lo)
    BY <1>1, EarlierIsLess DEF cmp_ts
  <2>2. QED
    BY <2>1 DEF NewMin
<1>4. CASE V = {}
  <2>1. NewMin(lo, t) = t
    BY <1>3, <1>4, StampConstants
  <2>2. NewMax(hi, t) = t
    <3>1. hi = ZeroTs /\ Nanos(ZeroTs) = 0
      BY <1>4, NsecAssumption DEF Nanos, ZeroTs, Ts
    <3>2. CASE Nanos(t) > 0
      BY <3>1, <3>2, <1>2
    <3>3. CASE Nanos(t) = 0
      <4>1. t.tv_sec \in Int /\ t.tv_nsec \in Int /\ t.tv_nsec >= 0
        BY TsFields
      <4>2. t.tv_sec = 0
        <5>1. t.tv_sec > ZeroTs.tv_sec => Nanos(t) > Nanos(ZeroTs)
          BY NanosOrder, StampConstants
        <5>2. QED
          BY <5>1, <4>1, <3>1, <3>3, StampConstants
      <4>3. t.tv_nsec = 0
        BY <4>1, <4>2, <3>3, NsecAssumption DEF Nanos
      <4>4. t = ZeroTs
        BY <4>2, <4>3 DEF ts_t, ZeroTs, Ts
      <4>5. QED
        BY <4>4, <3>1, <1>2
    <3>4. QED
      BY <1>1, <3>2, <3>3
  <2>3. QED
    BY <1>1, <1>4, <2>1, <2>2
<1>5. CASE V # {}
  <2>1. lo.tv_sec # -1
    <3>1. lo.tv_sec >= 0 /\ lo.tv_sec \in Int
      BY <1>5, TsFields
    <3>2. QED
      BY <3>1
  <2>2. NewMin(lo, t) = IF Nanos(t) < Nanos(lo) THEN t ELSE lo
    BY <1>3, <2>1
  <2>3. QED
    BY <1>1, <1>2, <1>5, <2>2
<1>6. QED
  BY <1>4, <1>5

(* The printed minimum and maximum are the extremes of the successful
   results, for any number of results. *)
THEOREM ExtremesCorrect == Spec => []ExtremesAreExact
<1> DEFINE Inv == SamplesInv /\ ExtremesAreExact
<1>1. Init => Inv
  BY DEF Init, SamplesInv, ExtremesAreExact
<1>2. TypeOK /\ Inv /\ [Next]_vars => Inv'
  <2> SUFFICES ASSUME TypeOK, Inv, [Next]_vars PROVE Inv'
    OBVIOUS
  <2>1. CASE UNCHANGED vars
    BY <2>1 DEF SamplesInv, ExtremesAreExact, vars, Nanos
  <2>2. ASSUME NEW q \in Quads, NEW e \in BOOLEAN, Complete(q, e) PROVE Inv'
    <3>1. CASE Status(q, e) # "SUCCESS"
      <4>1. UNCHANGED <<mx, mn, seen>>
        BY <2>2, <3>1 DEF Complete
      <4>2. QED
        BY <4>1 DEF SamplesInv, ExtremesAreExact, Nanos
    <3>2. CASE Status(q, e) = "SUCCESS"
      <4> DEFINE new == [n |-> res_ok + 1, s |-> Sample(q)]
      <4>1. /\ seen' = seen \cup {new}
            /\ mx' = [k \in Kinds |-> NewMax(mx[k], Sample(q)[k])]
            /\ mn' = [k \in Kinds |-> NewMin(mn[k], Sample(q)[k])]
        BY <2>2, <3>2 DEF Complete
      <4>2. new.s = Sample(q)
        OBVIOUS
      <4> HIDE DEF new
      <4>3. SamplesInv'
        BY <4>1, <4>2, SampleType DEF SamplesInv
      <4>4. ASSUME NEW k \in Kinds
            PROVE  /\ \E x \in seen \cup {new} : x.s[k] = NewMin(mn[k], new.s[k])
                   /\ \E x \in seen \cup {new} : x.s[k] = NewMax(mx[k], new.s[k])
                   /\ \A x \in seen \cup {new} :
                        /\ Nanos(NewMin(mn[k], new.s[k])) <= Nanos(x.s[k])
                        /\ Nanos(x.s[k]) <= Nanos(NewMax(mx[k], new.s[k]))
        <5> DEFINE V == {x.s[k] : x \in seen}
        <5>1. mn[k] \in ts_t /\ mx[k] \in ts_t
          BY DEF TypeOK
        <5>2. new.s[k] \in ts_t /\ new.s[k].tv_sec >= 0
          BY <4>2, SampleType
        <5>3. \A v \in V : v \in ts_t /\ v.tv_sec >= 0
          BY DEF SamplesInv
        <5>4. V = {} => mn[k] = UnsetMin /\ mx[k] = ZeroTs
          BY DEF SamplesInv
        <5>5. V # {} => /\ mn[k] \in V /\ mx[k] \in V
                        /\ \A v \in V : Nanos(mn[k]) <= Nanos(v) /\ Nanos(v) <= Nanos(mx[k])
          BY DEF ExtremesAreExact
        <5>6. /\ NewMin(mn[k], new.s[k]) \in V \cup {new.s[k]}
              /\ NewMax(mx[k], new.s[k]) \in V \cup {new.s[k]}
              /\ \A v \in V \cup {new.s[k]} :
                   /\ Nanos(NewMin(mn[k], new.s[k])) <= Nanos(v)
                   /\ Nanos(v) <= Nanos(NewMax(mx[k], new.s[k]))
          <6> HIDE DEF V
          <6>1. QED
            BY <5>1, <5>2, <5>3, <5>4, <5>5, ExtremesStep
        <5>7. QED
          BY <5>6
      <4>5. \A k \in Kinds : /\ mn'[k] = NewMin(mn[k], new.s[k])
                            /\ mx'[k] = NewMax(mx[k], new.s[k])
        BY <4>1, <4>2
      <4>6. ExtremesAreExact'
        BY <4>1, <4>4, <4>5 DEF ExtremesAreExact, Nanos
      <4>7. QED
        BY <4>3, <4>6
    <3>3. QED
      BY <3>1, <3>2
  <2>3. QED
    BY <2>1, <2>2 DEF Next
<1>3. QED
  BY <1>1, <1>2, TypeCorrect, PTL DEF Spec
=============================================================================
