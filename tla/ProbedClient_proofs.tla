------------------------ MODULE ProbedClient_proofs ------------------------
(***************************************************************************)
(* The client half of probed, proved for every set of ways to run it, all  *)
(* lists of sessions and all bounds: no probe is lost or reported twice,   *)
(* what is reported is true, a DUP has a cause and an address one child.   *)
(*                                                                         *)
(* The sections go from the recursion of client_msess_forkall() and the    *)
(* lists over one session, the books of all probes and the children to     *)
(* the invariant Inv, then through the actions.                            *)
(***************************************************************************)
EXTENDS ProbedClient, FiniteSetTheorems, WellFoundedInduction, TLAPS

-----------------------------------------------------------------------------
(* client_msess_forkall(): the recursion *)

\* A set of numbers that is not empty has a least one.
LEMMA LeastExists ==
  ASSUME NEW S \in SUBSET Nat, S # {}
  PROVE  \E k \in S : \A j \in S : k <= j
<1> DEFINE R == OpToRel(<, Nat)
<1>1. IsWellFoundedOn(R, Nat)
  BY NatLessThanWellFounded
<1>2. \E k \in S : \A j \in S : ~(<<j, k>> \in R)
  <2> HIDE DEF R
  <2>1. QED
    BY <1>1, WFMin
<1>3. PICK k \in S : \A j \in S : ~(<<j, k>> \in R)
  BY <1>2
<1>4. \A j \in S : ~(j < k)
  BY <1>3 DEF OpToRel
<1>5. QED
  BY <1>4

\* the recursion is well defined
LEMMA ForksExist ==
  ASSUME NEW base, NEW n \in Nat
  PROVE  \E f : f = [k \in 0 .. n |-> IF k = 0 THEN base ELSE ForkStep(f[k - 1], k)]
<1> DEFINE Good(i) == \E f : f = [k \in 0 .. i |-> IF k = 0 THEN base ELSE ForkStep(f[k - 1], k)]
           Bad == {i \in Nat : ~Good(i)}
<1> SUFFICES ASSUME Bad # {} PROVE FALSE
  OBVIOUS
<1>1. PICK i \in Bad : \A j \in Bad : i <= j
  <2> HIDE DEF Bad
  <2>1. Bad \subseteq Nat
    BY DEF Bad
  <2>2. QED
    BY <2>1, LeastExists
<1>2. i # 0
  <2>1. Good(0)
    <3> DEFINE f == [k \in 0 .. 0 |-> base]
    <3>1. f = [k \in 0 .. 0 |-> IF k = 0 THEN base ELSE ForkStep(f[k - 1], k)]
      OBVIOUS
    <3>2. QED
      BY <3>1
  <2>2. QED
    BY <2>1
<1>3. Good(i - 1)
  <2> HIDE DEF Good
  <2>1. i - 1 \in Nat /\ ~(i <= i - 1)
    BY <1>2
  <2>2. QED
    BY <1>1, <2>1
<1>4. PICK g : g = [k \in 0 .. i - 1 |-> IF k = 0 THEN base ELSE ForkStep(g[k - 1], k)]
  BY <1>3
<1> DEFINE f == [k \in 0 .. i |-> IF k = 0 THEN base ELSE IF k < i THEN g[k] ELSE ForkStep(g[i - 1], i)]
<1>5. f = [k \in 0 .. i |-> IF k = 0 THEN base ELSE ForkStep(f[k - 1], k)]
  <2>1. \A k \in 0 .. i : f[k] = IF k = 0 THEN base ELSE ForkStep(f[k - 1], k)
    <3> SUFFICES ASSUME NEW k \in 0 .. i, k # 0 PROVE f[k] = ForkStep(f[k - 1], k)
      OBVIOUS
    <3>1. f[k - 1] = g[k - 1]
      BY <1>2, <1>4
    <3>2. CASE k < i
      <4>1. f[k] = g[k] /\ k \in 0 .. i - 1
        BY <3>2
      <4>2. g[k] = ForkStep(g[k - 1], k)
        BY <1>4, <4>1
      <4>3. QED
        BY <3>1, <4>1, <4>2
    <3>3. CASE k = i
      BY <3>1, <3>3
    <3>4. QED
      BY <3>2, <3>3
  <2>2. QED
    BY <2>1
<1>6. Good(i)
  BY <1>5
<1>7. QED
  BY <1>6

\* client_msess_forkall(): the loop, session by session.
LEMMA ForksDef ==
  ASSUME NEW m, NEW ch, NEW fail, Len(m) \in Nat
  PROVE  /\ Forks(m, ch, fail)[0] = [m |-> m, ch |-> ch, fail |-> fail]
         /\ \A k \in 1 .. Len(m) : Forks(m, ch, fail)[k] = ForkStep(Forks(m, ch, fail)[k - 1], k)
<1> DEFINE base == [m |-> m, ch |-> ch, fail |-> fail]
           n == Len(m)
<1> HIDE DEF base, n
<1>1. Forks(m, ch, fail) = CHOOSE f : f = [k \in 0 .. n |-> IF k = 0 THEN base ELSE ForkStep(f[k - 1], k)]
  BY DEF Forks, base, n
<1>2. \E f : f = [k \in 0 .. n |-> IF k = 0 THEN base ELSE ForkStep(f[k - 1], k)]
  <2>1. n \in Nat
    BY DEF n
  <2>2. QED
    BY <2>1, ForksExist
<1> DEFINE F == Forks(m, ch, fail)
<1> HIDE DEF F
<1>3. F = [k \in 0 .. n |-> IF k = 0 THEN base ELSE ForkStep(F[k - 1], k)]
  BY <1>1, <1>2 DEF F
<1>4. QED
  BY <1>3 DEF F, base, n

-----------------------------------------------------------------------------
(* Lists *)

\* Functions on 1 .. N are lists.
LEMMA IsSeq ==
  ASSUME NEW P, NEW N \in Nat, NEW f \in [1 .. N -> P]
  PROVE  f \in Seq(P) /\ Len(f) = N /\ DOMAIN f = 1 .. N
OBVIOUS

\* client_res_clear_timeouts(): what is left is the list without the old ones.
LEMMA YoungFacts ==
  ASSUME NEW P, NEW res \in Seq(P)
  PROVE  /\ Young(res) \in Seq(P) /\ Len(Young(res)) <= Len(res)
         /\ DOMAIN Young(res) = (DOMAIN res) \ Old(res) /\ Old(res) \subseteq DOMAIN res
         /\ \A k \in DOMAIN Young(res) : Young(res)[k] = res[k]
<1> DEFINE n == Len(res)
           O == Old(res)
<1>0. n \in Nat /\ DOMAIN res = 1 .. n
  OBVIOUS
<1>1. O \subseteq 1 .. n /\ \A i \in O : \A j \in i .. n : j \in O
  BY <1>0 DEF Old
<1> HIDE DEF O
<1>2. \E b \in 0 .. n : O = b + 1 .. n
  <2>1. CASE O = {}
    <3>1. O = n + 1 .. n /\ n \in 0 .. n
      BY <1>0, <2>1
    <3>2. QED
      BY <3>1
  <2>2. CASE O # {}
    <3>1. PICK k \in O : \A j \in O : k <= j
      <4>1. O \in SUBSET Nat
        BY <1>0, <1>1
      <4>2. QED
        BY <2>2, <4>1, LeastExists
    <3>2. k \in 1 .. n /\ k - 1 \in 0 .. n /\ (k - 1) + 1 = k
      BY <1>0, <1>1, <3>1
    <3>3. O = k .. n
      <4>1. \A j \in k .. n : j \in O
        BY <1>1, <3>1
      <4>2. \A j \in O : j \in k .. n
        BY <1>0, <1>1, <3>1
      <4>3. QED
        BY <4>1, <4>2
    <3>4. QED
      BY <3>2, <3>3
  <2>3. QED
    BY <2>1, <2>2
<1>3. PICK b \in 0 .. n : O = b + 1 .. n
  BY <1>2
<1>4. Cardinality(O) = n - b
  <2>1. b + 1 \in Int /\ n \in Int
    BY <1>0
  <2>2. Cardinality(b + 1 .. n) = IF b + 1 > n THEN 0 ELSE n - (b + 1) + 1
    BY <2>1, FS_Interval
  <2>3. QED
    BY <1>0, <1>3, <2>2
<1>5. Young(res) = SubSeq(res, 1, b)
  <2>1. n - (n - b) = b
    BY <1>0
  <2>2. QED
    BY <1>4, <2>1 DEF Young, O
<1>6. Young(res) = [k \in 1 .. b |-> res[k]]
  BY <1>0, <1>5
<1>7. Young(res) \in [1 .. b -> P]
  BY <1>0, <1>6
<1>8. Young(res) \in Seq(P) /\ Len(Young(res)) = b
  BY <1>0, <1>6, <1>7
<1>9. 1 .. b = (1 .. n) \ O
  BY <1>0, <1>3
<1>10. QED
  BY <1>0, <1>1, <1>6, <1>8, <1>9 DEF O

\* A list without its k-th member.
LEMMA RemoveFacts ==
  ASSUME NEW P, NEW res \in Seq(P), NEW k \in DOMAIN res
  PROVE  /\ Remove(res, k) \in Seq(P) /\ Len(Remove(res, k)) = Len(res) - 1
         /\ \A i \in DOMAIN Remove(res, k) : \E j \in (DOMAIN res) \ {k} : Remove(res, k)[i] = res[j]
         /\ \A j \in (DOMAIN res) \ {k} : \E i \in DOMAIN Remove(res, k) : Remove(res, k)[i] = res[j]
         /\ \E f \in [DOMAIN Remove(res, k) -> DOMAIN res] :
              /\ \A i \in DOMAIN Remove(res, k) : Remove(res, k)[i] = res[f[i]]
              /\ \A i, j \in DOMAIN Remove(res, k) : f[i] = f[j] => i = j
<1> DEFINE n == Len(res)
           R == Remove(res, k)
           Src(i) == IF i < k THEN i ELSE i + 1
<1>0. n \in Nat /\ DOMAIN res = 1 .. n /\ k \in 1 .. n /\ n - 1 \in Nat
  OBVIOUS
<1>1. R = [i \in 1 .. n - 1 |-> res[Src(i)]]
  <2>1. \A i \in 1 .. n - 1 : (IF i < k THEN res[i] ELSE res[i + 1]) = res[Src(i)]
    OBVIOUS
  <2>2. QED
    BY <2>1 DEF Remove
<1>2. \A i \in 1 .. n - 1 : Src(i) \in (1 .. n) \ {k}
  BY <1>0
<1>3. R \in [1 .. n - 1 -> P]
  BY <1>0, <1>1, <1>2
<1>4. R \in Seq(P) /\ Len(R) = n - 1 /\ DOMAIN R = 1 .. n - 1
  <2> HIDE DEF R, n
  <2>1. QED
    BY <1>0, <1>3, IsSeq
<1>5. \A j \in (1 .. n) \ {k} : \E i \in 1 .. n - 1 : Src(i) = j
  <2> SUFFICES ASSUME NEW j \in (1 .. n) \ {k} PROVE \E i \in 1 .. n - 1 : Src(i) = j
    OBVIOUS
  <2>1. CASE j < k
    <3>1. j \in 1 .. n - 1 /\ Src(j) = j
      BY <1>0, <2>1
    <3>2. QED
      BY <3>1
  <2>2. CASE j > k
    <3>1. j - 1 \in 1 .. n - 1 /\ Src(j - 1) = j
      BY <1>0, <2>2
    <3>2. QED
      BY <3>1
  <2>3. QED
    BY <1>0, <2>1, <2>2
<1>6. \A i1, i2 \in 1 .. n - 1 : i1 # i2 => Src(i1) # Src(i2)
  BY <1>0
<1> HIDE DEF Src, R
<1>7. \A i \in 1 .. n - 1 : \E j \in (1 .. n) \ {k} : R[i] = res[j]
  BY <1>1, <1>2
<1>8. \A j \in (1 .. n) \ {k} : \E i \in 1 .. n - 1 : R[i] = res[j]
  BY <1>1, <1>5
<1>9. \E f \in [DOMAIN R -> DOMAIN res] :
         (\A i \in DOMAIN R : R[i] = res[f[i]]) /\ \A i, j \in DOMAIN R : f[i] = f[j] => i = j
  <2> DEFINE f == [i \in DOMAIN R |-> Src(i)]
  <2>1. f \in [DOMAIN R -> DOMAIN res]
    BY <1>0, <1>2, <1>4
  <2>2. \A i \in DOMAIN R : R[i] = res[f[i]]
    BY <1>1, <1>4
  <2>3. \A i, j \in DOMAIN R : f[i] = f[j] => i = j
    BY <1>4, <1>6
  <2>4. QED
    BY <2>1, <2>2, <2>3
<1>10. /\ \A i \in DOMAIN R : \E j \in (DOMAIN res) \ {k} : R[i] = res[j]
       /\ \A j \in (DOMAIN res) \ {k} : \E i \in DOMAIN R : R[i] = res[j]
  BY <1>0, <1>4, <1>7, <1>8
<1>11. QED
  BY <1>4, <1>9, <1>10 DEF R

-----------------------------------------------------------------------------
(* Sessions *)

Stamp == [type : {"PONG", "TIME"}, ep : Nat]
ProbeT == [seq : 1 .. MaxSeq, addr : Addrs, pong : BOOLEAN, time : BOOLEAN, age : Int, ep : Nat, eps : SUBSET Stamp]
SessT == [id : Ids, addr : Addrs, ival : Nat, hello : BOOLEAN, last_seq : 0 .. MaxSeq,
          child : Pids \cup {0, -1}, res : Seq(ProbeT)]

\* The answers an outstanding probe has got, of which there is at most one.
Got(r) == {t \in {"PONG", "TIME"} : (t = "PONG" /\ r.pong) \/ (t = "TIME" /\ r.time)}

ProbeOK(r, s, e, sb) ==
  /\ r.seq <= s.last_seq /\ r.addr = s.addr /\ r.ep = e
  /\ r.age \in -(Timeout + 1) .. Timeout + 1 /\ (~sb => r.age >= 0)
  /\ {x.type : x \in r.eps} = Got(r) /\ ~(r.pong /\ r.time)

SessOK(s, e, sb) ==
  /\ s \in SessT
  /\ Len(s.res) <= s.last_seq
  /\ \A k \in DOMAIN s.res : ProbeOK(s.res[k], s, e, sb)
  /\ \A k, l \in DOMAIN s.res : s.res[k].seq = s.res[l].seq => k = l

\* The outstanding probes of a session.
Seqs(s) == {s.res[k].seq : k \in DOMAIN s.res}

\* Sequence numbers of outstanding probes have been given out.
LEMMA SeqsFacts ==
  ASSUME NEW s, NEW e, NEW sb, SessOK(s, e, sb)
  PROVE  \A q \in Seqs(s) : q \in 1 .. MaxSeq /\ q <= s.last_seq
<1>1. \A k \in DOMAIN s.res : s.res[k] \in ProbeT
  BY DEF SessOK, SessT
<1>2. QED
  BY <1>1 DEF SessOK, ProbeOK, ProbeT, Seqs

\* The probes of a session are looked at, marked or grow older.
LEMMA SameProbes ==
  ASSUME NEW s, NEW e, NEW sb, NEW sb2, NEW q, SessOK(s, e, sb),
         q \in Seq(ProbeT), Len(q) = Len(s.res),
         \A k \in DOMAIN s.res : q[k].seq = s.res[k].seq /\ ProbeOK(q[k], s, e, sb2)
  PROVE  SessOK([s EXCEPT !.res = q], e, sb2) /\ Seqs([s EXCEPT !.res = q]) = Seqs(s)
<1> DEFINE z == [s EXCEPT !.res = q]
<1>1. s \in SessT /\ s.res \in Seq(ProbeT)
  BY DEF SessOK, SessT
<1>2. z \in SessT /\ z.res = q /\ z.last_seq = s.last_seq /\ z.addr = s.addr
  BY <1>1 DEF SessT
<1>3. DOMAIN q = DOMAIN s.res
  BY <1>1
<1> HIDE DEF z
<1>4. \A k \in DOMAIN q : ProbeOK(q[k], z, e, sb2)
  BY <1>2, <1>3 DEF ProbeOK
<1>5. SessOK(z, e, sb2)
  BY <1>2, <1>3, <1>4 DEF SessOK
<1>6. Seqs(z) = Seqs(s)
  BY <1>2, <1>3 DEF Seqs
<1>7. QED
  BY <1>5, <1>6 DEF z

\* Some probes of a session leave its list.
LEMMA FewerProbes ==
  ASSUME NEW s, NEW e, NEW sb, NEW q, SessOK(s, e, sb),
         q \in Seq(ProbeT), Len(q) <= Len(s.res),
         NEW f \in [DOMAIN q -> DOMAIN s.res],
         \A k \in DOMAIN q : q[k] = s.res[f[k]], \A k, l \in DOMAIN q : f[k] = f[l] => k = l
  PROVE  SessOK([s EXCEPT !.res = q], e, sb)
<1> DEFINE z == [s EXCEPT !.res = q]
<1>1. s \in SessT /\ s.res \in Seq(ProbeT)
  BY DEF SessOK, SessT
<1>2. z \in SessT /\ z.res = q /\ z.last_seq = s.last_seq /\ z.addr = s.addr /\ s.last_seq \in Nat
  <2>1. z \in SessT
    BY <1>1 DEF SessT
  <2>2. z.res = q /\ z.last_seq = s.last_seq /\ z.addr = s.addr
    BY <1>1 DEF SessT
  <2>3. s.last_seq \in Nat
    BY <1>1 DEF SessT
  <2>4. QED
    BY <2>1, <2>2, <2>3
<1> HIDE DEF z
<1>3. \A k \in DOMAIN q : ProbeOK(q[k], z, e, sb)
  <2>1. \A r : ProbeOK(r, s, e, sb) => ProbeOK(r, z, e, sb)
    BY <1>2 DEF ProbeOK
  <2>2. QED
    BY <2>1 DEF SessOK
<1>4. \A k, l \in DOMAIN q : q[k].seq = q[l].seq => k = l
  BY DEF SessOK
<1>5. Len(q) <= z.last_seq
  BY <1>1, <1>2 DEF SessOK
<1>6. QED
  BY <1>2, <1>3, <1>4, <1>5 DEF SessOK, z

\* client_res_clear_timeouts(), one session.
LEMMA ClearSession ==
  ASSUME NEW s, NEW e, NEW sb, SessOK(s, e, sb)
  PROVE  /\ SessOK([s EXCEPT !.res = Young(@)], e, sb)
         /\ Seqs([s EXCEPT !.res = Young(@)]) = Seqs(s) \ {s.res[k].seq : k \in Old(s.res)}
<1> DEFINE q == Young(s.res)
           z == [s EXCEPT !.res = q]
<1>1. s \in SessT /\ s.res \in Seq(ProbeT)
  BY DEF SessOK, SessT
<1>2. /\ q \in Seq(ProbeT) /\ Len(q) <= Len(s.res)
      /\ DOMAIN q = (DOMAIN s.res) \ Old(s.res) /\ Old(s.res) \subseteq DOMAIN s.res
      /\ \A k \in DOMAIN q : q[k] = s.res[k]
  BY <1>1, YoungFacts
<1>3. z.res = q
  BY <1>1 DEF SessT
<1> HIDE DEF q
<1>4. SessOK(z, e, sb)
  <2> DEFINE f == [k \in DOMAIN q |-> k]
  <2>1. /\ f \in [DOMAIN q -> DOMAIN s.res] /\ \A k \in DOMAIN q : q[k] = s.res[f[k]]
        /\ \A k, l \in DOMAIN q : f[k] = f[l] => k = l
    BY <1>2
  <2> HIDE DEF f
  <2>2. QED
    BY <1>2, <2>1, FewerProbes
<1>5. Seqs(z) = {s.res[k].seq : k \in (DOMAIN s.res) \ Old(s.res)}
  BY <1>2, <1>3 DEF Seqs
<1>6. \A k, l \in DOMAIN s.res : s.res[k].seq = s.res[l].seq => k = l
  BY DEF SessOK
<1>7. Seqs(z) = Seqs(s) \ {s.res[k].seq : k \in Old(s.res)}
  BY <1>2, <1>5, <1>6 DEF Seqs
<1>8. QED
  BY <1>4, <1>7 DEF q

\* client_res_update(): a complete probe leaves the list.
LEMMA FinishSession ==
  ASSUME NEW s, NEW e, NEW sb, SessOK(s, e, sb), NEW k \in DOMAIN s.res, NEW r
  PROVE  /\ SessOK(Finish(s, k, r), e, sb)
         /\ Seqs(Finish(s, k, r)) = Seqs(s) \ {s.res[k].seq}
<1> DEFINE q == Remove(s.res, k)
           z == [s EXCEPT !.res = q]
<1>1. s \in SessT /\ s.res \in Seq(ProbeT)
  BY DEF SessOK, SessT
<1>2. /\ q \in Seq(ProbeT) /\ Len(q) = Len(s.res) - 1
      /\ \A i \in DOMAIN q : \E j \in (DOMAIN s.res) \ {k} : q[i] = s.res[j]
      /\ \A j \in (DOMAIN s.res) \ {k} : \E i \in DOMAIN q : q[i] = s.res[j]
      /\ \E f \in [DOMAIN q -> DOMAIN s.res] :
           (\A i \in DOMAIN q : q[i] = s.res[f[i]]) /\ \A i, j \in DOMAIN q : f[i] = f[j] => i = j
  BY <1>1, RemoveFacts
<1>3. z.res = q /\ z = Finish(s, k, r)
  BY <1>1 DEF SessT, Finish
<1> HIDE DEF q
<1>4. SessOK(z, e, sb)
  <2>1. Len(q) <= Len(s.res)
    BY <1>1, <1>2
  <2>2. PICK f \in [DOMAIN q -> DOMAIN s.res] :
           (\A i \in DOMAIN q : q[i] = s.res[f[i]]) /\ \A i, j \in DOMAIN q : f[i] = f[j] => i = j
    BY <1>2
  <2>3. QED
    BY <1>2, <2>1, <2>2, FewerProbes
<1> HIDE DEF z
<1>5. \A i, l \in DOMAIN s.res : s.res[i].seq = s.res[l].seq => i = l
  BY DEF SessOK
<1>6. \A x : x \in Seqs(z) => x \in Seqs(s) \ {s.res[k].seq}
  BY <1>2, <1>3, <1>5 DEF Seqs
<1>7. \A x : x \in Seqs(s) \ {s.res[k].seq} => x \in Seqs(z)
  BY <1>2, <1>3 DEF Seqs
<1>8. QED
  BY <1>3, <1>4, <1>6, <1>7

\* LIST_INSERT_HEAD()
LEMMA ConsFacts ==
  ASSUME NEW P, NEW p \in P, NEW res \in Seq(P)
  PROVE  /\ <<p>> \o res \in Seq(P) /\ Len(<<p>> \o res) = Len(res) + 1
         /\ (<<p>> \o res)[1] = p /\ \A k \in 2 .. Len(res) + 1 : (<<p>> \o res)[k] = res[k - 1]
OBVIOUS

\* client_msess_transmit(), one session.
LEMMA TransmitSession ==
  ASSUME NEW s, NEW sb, NEW r, SessOK(s, epoch, sb), epoch \in Nat
  PROVE  /\ SessOK(Transmit(s, r), epoch, sb)
         /\ Transmit(s, r).id = s.id /\ Transmit(s, r).addr = s.addr /\ Transmit(s, r).child = s.child
         /\ Transmit(s, r).last_seq = IF Due(s) THEN s.last_seq + 1 ELSE s.last_seq
         /\ Seqs(Transmit(s, r)) = IF Due(s) /\ r = "ok" THEN Seqs(s) \cup {s.last_seq + 1} ELSE Seqs(s)
<1>0. MaxSeq \in Nat /\ Timeout \in Nat
  BY ClientAssumption
<1>1. s \in SessT /\ s.res \in Seq(ProbeT) /\ s.last_seq \in 0 .. MaxSeq /\ s.addr \in Addrs
  BY DEF SessOK, SessT
<1>2. CASE ~Due(s)
  BY <1>2 DEF Transmit
<1>3. CASE Due(s)
  <2>1. s.last_seq < MaxSeq
    BY <1>3 DEF Due
  <2> DEFINE p == Probe(s)
             q == IF r = "ok" THEN <<p>> \o s.res ELSE s.res
             z == [s EXCEPT !.last_seq = s.last_seq + 1, !.res = q]
  <2>2. p \in ProbeT
    BY <1>0, <1>1, <2>1 DEF Probe, ProbeT
  <2>3. p.seq = s.last_seq + 1 /\ p.addr = s.addr /\ p.ep = epoch /\ p.age = 0 /\ ~p.pong /\ ~p.time /\ p.eps = {}
    BY DEF Probe
  <2>4. z = Transmit(s, r)
    BY <1>1, <1>3 DEF Transmit, SessT
  <2> HIDE DEF p
  <2>5. q \in Seq(ProbeT) /\ Len(q) <= Len(s.res) + 1
    BY <1>1, <2>2, ConsFacts
  <2> HIDE DEF q
  <2>6. z \in SessT
    <3>1. s.last_seq + 1 \in 0 .. MaxSeq
      BY <1>0, <1>1, <2>1
    <3>2. QED
      BY <1>1, <2>5, <3>1 DEF SessT
  <2>7. /\ z.res = q /\ z.last_seq = s.last_seq + 1 /\ z.addr = s.addr /\ z.id = s.id /\ z.child = s.child
    BY <1>1 DEF SessT
  <2> HIDE DEF z
  <2>8. ProbeOK(p, z, epoch, sb)
    <3>1. {x.type : x \in p.eps} = Got(p)
      BY <2>3 DEF Got
    <3>2. QED
      BY <1>0, <1>1, <2>3, <2>7, <3>1 DEF ProbeOK
  <2>9. \A k \in DOMAIN s.res : ProbeOK(s.res[k], z, epoch, sb) /\ s.res[k].seq \in Nat /\ s.res[k].seq <= s.last_seq
    <3> SUFFICES ASSUME NEW k \in DOMAIN s.res
                 PROVE  ProbeOK(s.res[k], z, epoch, sb) /\ s.res[k].seq \in Nat /\ s.res[k].seq <= s.last_seq
      OBVIOUS
    <3>1. s.res[k] \in ProbeT /\ ProbeOK(s.res[k], s, epoch, sb)
      BY <1>1 DEF SessOK
    <3>2. s.res[k].seq \in Nat /\ s.res[k].seq <= s.last_seq
      BY <1>0, <3>1 DEF ProbeT, ProbeOK
    <3>3. QED
      BY <1>1, <2>7, <3>1, <3>2 DEF ProbeOK
  <2>10. \A k, l \in DOMAIN s.res : s.res[k].seq = s.res[l].seq => k = l
    BY DEF SessOK
  <2>11. Len(q) <= z.last_seq
    BY <1>0, <1>1, <2>5, <2>7 DEF SessOK
  <2>12. CASE r = "ok"
    <3> DEFINE n == Len(s.res)
    <3>1. n \in Nat /\ DOMAIN s.res = 1 .. n /\ DOMAIN q = 1 .. n + 1 /\ q[1] = p /\ \A k \in 2 .. n + 1 : q[k] = s.res[k - 1]
      BY <1>1, <2>2, <2>12, ConsFacts DEF q
    <3> HIDE DEF n
    <3>2. \A k \in DOMAIN q : k = 1 \/ (k # 1 /\ k - 1 \in DOMAIN s.res /\ q[k] = s.res[k - 1])
      BY <3>1
    <3>3. \A k \in DOMAIN q : ProbeOK(q[k], z, epoch, sb)
      BY <2>8, <2>9, <3>1, <3>2
    <3>4. \A k, l \in DOMAIN q : q[k].seq = q[l].seq => k = l
      <4> SUFFICES ASSUME NEW k \in DOMAIN q, NEW l \in DOMAIN q, q[k].seq = q[l].seq PROVE k = l
        OBVIOUS
      <4>1. CASE k = 1 /\ l # 1
        BY <1>1, <2>3, <2>9, <3>1, <3>2, <4>1
      <4>2. CASE k # 1 /\ l = 1
        <5>1. q[l].seq = s.last_seq + 1 /\ q[k].seq \in Nat /\ q[k].seq <= s.last_seq
          BY <2>3, <2>9, <3>1, <3>2, <4>2
        <5>2. QED
          BY <1>1, <5>1
      <4>3. CASE k # 1 /\ l # 1
        <5>1. k - 1 = l - 1
          BY <2>10, <3>2, <4>3
        <5>2. QED
          BY <3>1, <5>1
      <4>4. QED
        BY <4>1, <4>2, <4>3
    <3>5. Seqs(z) = Seqs(s) \cup {s.last_seq + 1}
      <4>1. \A x \in Seqs(z) : x \in Seqs(s) \cup {s.last_seq + 1}
        BY <2>3, <2>7, <3>1, <3>2 DEF Seqs
      <4>2. \A x \in Seqs(s) : x \in Seqs(z)
        <5> SUFFICES ASSUME NEW k \in DOMAIN s.res PROVE s.res[k].seq \in Seqs(z)
          BY DEF Seqs
        <5>1. k + 1 \in DOMAIN q /\ q[k + 1] = s.res[k]
          BY <3>1
        <5>2. QED
          BY <2>7, <5>1 DEF Seqs
      <4>3. s.last_seq + 1 \in Seqs(z)
        BY <2>3, <2>7, <3>1 DEF Seqs
      <4>4. QED
        BY <4>1, <4>2, <4>3
    <3>6. QED
      BY <1>3, <2>4, <2>6, <2>7, <2>11, <2>12, <3>3, <3>4, <3>5 DEF SessOK
  <2>13. CASE r # "ok"
    <3>1. q = s.res
      BY <2>13 DEF q
    <3>2. Seqs(z) = Seqs(s)
      BY <2>7, <3>1 DEF Seqs
    <3>3. QED
      BY <1>3, <2>4, <2>6, <2>7, <2>9, <2>10, <2>11, <2>13, <3>1, <3>2 DEF SessOK
  <2>14. QED
    BY <2>12, <2>13
<1>4. QED
  BY <1>2, <1>3

\* client_res_update(), one probe.
LEMMA MarkedProbe ==
  ASSUME NEW r \in ProbeT, NEW s, NEW e, NEW sb, ProbeOK(r, s, e, sb),
         NEW x, x.type \in {"PONG", "TIME"}, x.ep \in Nat
  PROVE  /\ Marked(r, x) \in ProbeT /\ Marked(r, x).seq = r.seq /\ Marked(r, x).ep = r.ep
         /\ Marked(r, x).pong = (r.pong \/ x.type = "PONG") /\ Marked(r, x).time = (r.time \/ x.type = "TIME")
         /\ Marked(r, x).eps = r.eps \cup {[type |-> x.type, ep |-> x.ep]}
         /\ {t.type : t \in Marked(r, x).eps} = Got(Marked(r, x))
         /\ ~(Marked(r, x).pong /\ Marked(r, x).time) => ProbeOK(Marked(r, x), s, e, sb)
<1> DEFINE w == Marked(r, x)
           st == [type |-> x.type, ep |-> x.ep]
<1>1. st \in Stamp /\ st.type = x.type
  BY DEF Stamp
<1> HIDE DEF st
<1>2. w = [r EXCEPT !.pong = r.pong \/ x.type = "PONG", !.time = r.time \/ x.type = "TIME", !.eps = r.eps \cup {st}]
  BY DEF Marked, ProbeT, st
<1>3. w \in ProbeT
  <2> DEFINE a == r.pong \/ x.type = "PONG"
             b == r.time \/ x.type = "TIME"
             c == r.eps \cup {st}
  <2>1. a \in BOOLEAN /\ b \in BOOLEAN
    OBVIOUS
  <2>2. c \in SUBSET Stamp
    BY <1>1 DEF ProbeT
  <2> HIDE DEF a, b, c
  <2>3. [r EXCEPT !.pong = a, !.time = b, !.eps = c] \in ProbeT
    BY <2>1, <2>2 DEF ProbeT
  <2>4. QED
    BY <1>2, <2>3 DEF a, b, c
<1>4. /\ w.seq = r.seq /\ w.ep = r.ep /\ w.addr = r.addr /\ w.age = r.age
      /\ w.pong = (r.pong \/ x.type = "PONG") /\ w.time = (r.time \/ x.type = "TIME")
      /\ w.eps = r.eps \cup {st}
  BY <1>2 DEF ProbeT
<1> HIDE DEF w
<1>5. {t.type : t \in w.eps} = {t.type : t \in r.eps} \cup {x.type}
  BY <1>1, <1>4
<1>6. {t.type : t \in r.eps} = Got(r)
  BY DEF ProbeOK
<1>7. Got(w) = Got(r) \cup {x.type}
  BY <1>4 DEF Got
<1>8. {t.type : t \in w.eps} = Got(w)
  BY <1>5, <1>6, <1>7
<1>9. ~(w.pong /\ w.time) => ProbeOK(w, s, e, sb)
  BY <1>4, <1>8 DEF ProbeOK
<1>10. QED
  BY <1>3, <1>4, <1>8, <1>9 DEF w, st

-----------------------------------------------------------------------------
(* The books: which probes are outstanding, which are reported *)

MsOK(m, e, sb) ==
  /\ m \in Seq(SessT)
  /\ \A i \in DOMAIN m : SessOK(m[i], e, sb)
  /\ \A i, j \in DOMAIN m : m[i].id = m[j].id => i = j

OutT == [st : {"DONE", "PONGLOSS", "TS_ERR", "TIMEOUT"}, eps : SUBSET Stamp]

\* A probe is in a list; its number has been used.
Held(m, u) == \E i \in DOMAIN m : m[i].id = u.id /\ u.seq \in Seqs(m[i])
Begun(m, u) == \E i \in DOMAIN m : m[i].id = u.id /\ u.seq <= m[i].last_seq

Books(m, e, t, o) ==
  /\ t \subseteq Uids /\ o \in [Uids -> Seq(OutT)]
  /\ \A u \in Uids :
       /\ Len(o[u]) <= 1
       /\ o[u] # <<>> => u \in t /\ ~(u.ep = e /\ Held(m, u))
       /\ u \in t => u.ep <= e
       /\ u \in t /\ u.ep = e => (Held(m, u) \/ o[u] # <<>>) /\ Begun(m, u)
       /\ u.ep = e /\ Held(m, u) => u \in t

\* Names of probes.
LEMMA UidFacts ==
  /\ \A u \in Uids : u.ep \in 0 .. MaxReload + 1 /\ u.id \in Ids /\ u.seq \in 1 .. MaxSeq /\ u = Uid(u.ep, u.id, u.seq)
  /\ \A e, id, seq : /\ Uid(e, id, seq).ep = e /\ Uid(e, id, seq).id = id /\ Uid(e, id, seq).seq = seq
  /\ \A e \in 0 .. MaxReload + 1, id \in Ids, seq \in 1 .. MaxSeq : Uid(e, id, seq) \in Uids
BY DEF Uids, Uid

\* Held is what the model calls outstanding.
LEMMA HeldOpen ==
  ASSUME NEW m, NEW e, NEW sb, MsOK(m, e, sb), NEW u \in Uids
  PROVE  (\E i \in DOMAIN m : \E k \in DOMAIN m[i].res : u = Uid(m[i].res[k].ep, m[i].id, m[i].res[k].seq))
         <=> u.ep = e /\ Held(m, u)
<1>1. \A i \in DOMAIN m : \A k \in DOMAIN m[i].res : m[i].res[k].ep = e
  BY DEF MsOK, SessOK, ProbeOK
<1>2. ASSUME NEW i \in DOMAIN m, NEW k \in DOMAIN m[i].res, u = Uid(m[i].res[k].ep, m[i].id, m[i].res[k].seq)
      PROVE  u.ep = e /\ Held(m, u)
  BY <1>1, <1>2, UidFacts DEF Held, Seqs
<1>3. ASSUME u.ep = e, Held(m, u)
      PROVE  \E i \in DOMAIN m : \E k \in DOMAIN m[i].res : u = Uid(m[i].res[k].ep, m[i].id, m[i].res[k].seq)
  <2>1. PICK i \in DOMAIN m : m[i].id = u.id /\ u.seq \in Seqs(m[i])
    BY <1>3 DEF Held
  <2>2. PICK k \in DOMAIN m[i].res : u.seq = m[i].res[k].seq
    BY <2>1 DEF Seqs
  <2>3. QED
    BY <1>1, <1>3, <2>1, <2>2, UidFacts
<1>4. QED
  BY <1>2, <1>3

\* The books are right after a step that opens and closes nothing,
LEMMA BooksKept ==
  ASSUME NEW m, NEW m2, NEW e, NEW t, NEW o, Books(m, e, t, o),
         \A u \in Uids : (Held(m2, u) <=> Held(m, u)) /\ (Begun(m, u) => Begun(m2, u))
  PROVE  Books(m2, e, t, o)
BY DEF Books

\* ... one that opens the probes new,
LEMMA BooksAdd ==
  ASSUME NEW m, NEW m2, NEW e, NEW t, NEW o, Books(m, e, t, o), e \in Nat, NEW new \in SUBSET Uids,
         \A u \in new : u.ep = e /\ ~Begun(m, u) /\ Begun(m2, u),
         \A u \in Uids : /\ u.ep = e => (Held(m2, u) <=> Held(m, u) \/ u \in new)
                         /\ Begun(m, u) => Begun(m2, u)
  PROVE  Books(m2, e, t \cup new, o)
<1>1. t \cup new \subseteq Uids /\ o \in [Uids -> Seq(OutT)]
  BY DEF Books
<1> SUFFICES ASSUME NEW u \in Uids
             PROVE  /\ Len(o[u]) <= 1
                    /\ o[u] # <<>> => u \in t \cup new /\ ~(u.ep = e /\ Held(m2, u))
                    /\ u \in t \cup new => u.ep <= e
                    /\ u \in t \cup new /\ u.ep = e => (Held(m2, u) \/ o[u] # <<>>) /\ Begun(m2, u)
                    /\ u.ep = e /\ Held(m2, u) => u \in t \cup new
  BY <1>1 DEF Books
<1>2. QED
  BY DEF Books

\* ... one that reports probes and takes them out,
LEMMA BooksClose ==
  ASSUME NEW m, NEW m2, NEW e, NEW t, NEW o, NEW o2, Books(m, e, t, o),
         o2 \in [Uids -> Seq(OutT)],
         \A u \in Uids : /\ Begun(m, u) => Begun(m2, u)
                         /\ \/ o2[u] = o[u] /\ (u.ep = e => (Held(m2, u) <=> Held(m, u)))
                            \/ /\ u.ep = e /\ Held(m, u) /\ ~Held(m2, u)
                               /\ \E v \in OutT : o2[u] = Append(o[u], v)
  PROVE  Books(m2, e, t, o2)
<1>1. t \subseteq Uids
  BY DEF Books
<1> SUFFICES ASSUME NEW u \in Uids
             PROVE  /\ Len(o2[u]) <= 1
                    /\ o2[u] # <<>> => u \in t /\ ~(u.ep = e /\ Held(m2, u))
                    /\ u \in t => u.ep <= e
                    /\ u \in t /\ u.ep = e => (Held(m2, u) \/ o2[u] # <<>>) /\ Begun(m2, u)
                    /\ u.ep = e /\ Held(m2, u) => u \in t
  BY <1>1 DEF Books
<1>2. CASE u.ep = e /\ Held(m, u) /\ ~Held(m2, u) /\ \E v \in OutT : o2[u] = Append(o[u], v)
  <2>1. u \in t /\ o[u] = <<>> /\ u.ep = e /\ Held(m, u) /\ Begun(m, u) /\ ~Held(m2, u)
    BY <1>2 DEF Books
  <2>2. PICK v \in OutT : o2[u] = Append(o[u], v)
    BY <1>2
  <2>3. o2[u] = <<v>>
    BY <2>1, <2>2
  <2>4. Len(o2[u]) <= 1 /\ o2[u] # <<>>
    BY <2>3
  <2>5. u.ep <= e
    BY <2>1 DEF Books
  <2>6. QED
    BY <2>1, <2>4, <2>5
<1>3. CASE o2[u] = o[u] /\ (u.ep = e => (Held(m2, u) <=> Held(m, u)))
  BY <1>3 DEF Books
<1>4. QED
  BY <1>2, <1>3

\* ... and one that throws the sessions away.
LEMMA BooksNew ==
  ASSUME NEW m, NEW m2, NEW e \in Nat, NEW t, NEW o, Books(m, e, t, o),
         \A u \in Uids : ~Held(m2, u) /\ u.ep \in Nat
  PROVE  Books(m2, e + 1, t, o)
<1>1. \A u \in Uids : u \in t => u.ep <= e /\ u.ep # e + 1 /\ u.ep <= e + 1
  BY DEF Books
<1>2. QED
  BY <1>1 DEF Books

-----------------------------------------------------------------------------
(* The list of sessions *)

\* Sessions change one by one and keep their ids.
LEMMA EachSession ==
  ASSUME NEW m, NEW e, NEW sb, NEW e2, NEW sb2, MsOK(m, e, sb), NEW m2 \in [DOMAIN m -> SessT],
         \A i \in DOMAIN m : SessOK(m2[i], e2, sb2) /\ m2[i].id = m[i].id
  PROVE  MsOK(m2, e2, sb2) /\ Len(m2) = Len(m)
<1>1. m \in Seq(SessT) /\ DOMAIN m = 1 .. Len(m) /\ Len(m) \in Nat
  BY DEF MsOK
<1>3. m2 \in [1 .. Len(m) -> SessT]
  BY <1>1
<1>4. m2 \in Seq(SessT) /\ Len(m2) = Len(m)
  BY <1>1, <1>3, IsSeq
<1>5. QED
  BY <1>4 DEF MsOK

\* The books do not see what else changes in a session.
LEMMA SameBooks ==
  ASSUME NEW m, NEW m2, DOMAIN m2 = DOMAIN m,
         \A i \in DOMAIN m : m2[i].id = m[i].id /\ m2[i].last_seq = m[i].last_seq /\ Seqs(m2[i]) = Seqs(m[i])
  PROVE  \A u \in Uids : (Held(m2, u) <=> Held(m, u)) /\ (Begun(m, u) <=> Begun(m2, u))
BY DEF Held, Begun

\* What client_msess_transmit() makes of the sessions.
Transmitted(how) == [i \in DOMAIN msess |-> Transmit(msess[i], how[i])]
TransmittedOK(m1, how, sb) ==
  /\ MsOK(m1, epoch, sb) /\ Len(m1) = Len(msess) /\ DOMAIN m1 = DOMAIN msess
  /\ Inserted(how) \subseteq Uids /\ Books(m1, epoch, tracked \cup Inserted(how), out)
  /\ \A u \in Uids : Begun(msess, u) => Begun(m1, u)
  /\ \A u \in Inserted(how) : u.ep = epoch /\ ~Begun(msess, u)
  /\ \A i \in DOMAIN msess : /\ m1[i].id = msess[i].id /\ m1[i].addr = msess[i].addr /\ m1[i].child = msess[i].child
                             /\ m1[i].last_seq = IF Due(msess[i]) THEN msess[i].last_seq + 1 ELSE msess[i].last_seq

\* client_msess_transmit(): all sessions.
LEMMA TransmitAll ==
  ASSUME NEW sb, NEW how, MsOK(msess, epoch, sb), epoch \in 0 .. MaxReload + 1, Books(msess, epoch, tracked, out)
  PROVE  TransmittedOK(Transmitted(how), how, sb)
<1> SUFFICES ASSUME NEW m1, m1 = [i \in DOMAIN msess |-> Transmit(msess[i], how[i])]
             PROVE  TransmittedOK(m1, how, sb)
  BY DEF Transmitted
<1>0. epoch \in Nat /\ MaxSeq \in Nat /\ MaxReload \in Nat
  BY ClientAssumption
<1>1. \A i \in DOMAIN msess : SessOK(msess[i], epoch, sb) /\ msess[i] \in SessT
  BY DEF MsOK, SessOK
<1>2. \A i \in DOMAIN msess :
        /\ SessOK(m1[i], epoch, sb)
        /\ m1[i].id = msess[i].id /\ m1[i].addr = msess[i].addr /\ m1[i].child = msess[i].child
        /\ m1[i].last_seq = IF Due(msess[i]) THEN msess[i].last_seq + 1 ELSE msess[i].last_seq
        /\ Seqs(m1[i]) = IF Due(msess[i]) /\ how[i] = "ok" THEN Seqs(msess[i]) \cup {msess[i].last_seq + 1} ELSE Seqs(msess[i])
  <2> SUFFICES ASSUME NEW i \in DOMAIN msess
               PROVE  /\ SessOK(m1[i], epoch, sb)
                      /\ m1[i].id = msess[i].id /\ m1[i].addr = msess[i].addr /\ m1[i].child = msess[i].child
                      /\ m1[i].last_seq = IF Due(msess[i]) THEN msess[i].last_seq + 1 ELSE msess[i].last_seq
                      /\ Seqs(m1[i]) = IF Due(msess[i]) /\ how[i] = "ok" THEN Seqs(msess[i]) \cup {msess[i].last_seq + 1}
                                                                       ELSE Seqs(msess[i])
    OBVIOUS
  <2>1. m1[i] = Transmit(msess[i], how[i])
    OBVIOUS
  <2> DEFINE s == msess[i]
             h == how[i]
  <2>2. SessOK(s, epoch, sb)
    BY <1>1
  <2> HIDE DEF s, h
  <2>3. /\ SessOK(Transmit(s, h), epoch, sb)
        /\ Transmit(s, h).id = s.id /\ Transmit(s, h).addr = s.addr /\ Transmit(s, h).child = s.child
        /\ Transmit(s, h).last_seq = IF Due(s) THEN s.last_seq + 1 ELSE s.last_seq
        /\ Seqs(Transmit(s, h)) = IF Due(s) /\ h = "ok" THEN Seqs(s) \cup {s.last_seq + 1} ELSE Seqs(s)
    BY <1>0, <2>2, TransmitSession
  <2>4. QED
    BY <2>1, <2>3 DEF s, h
<1>3. DOMAIN m1 = DOMAIN msess /\ MsOK(m1, epoch, sb) /\ Len(m1) = Len(msess)
  <2>1. DOMAIN m1 = DOMAIN msess /\ m1 \in [DOMAIN msess -> SessT]
    <3>1. \A i \in DOMAIN msess : m1[i] \in SessT
      BY <1>2 DEF SessOK
    <3>2. QED
      BY <3>1
  <2>2. \A i \in DOMAIN msess : SessOK(m1[i], epoch, sb) /\ m1[i].id = msess[i].id
    BY <1>2
  <2>3. MsOK(m1, epoch, sb) /\ Len(m1) = Len(msess)
    BY <2>1, <2>2, EachSession
  <2>4. QED
    BY <2>1, <2>3
<1>4. \A i \in DOMAIN msess : msess[i].last_seq \in Nat /\ msess[i].id \in Ids /\ (Due(msess[i]) => msess[i].last_seq + 1 \in 1 .. MaxSeq)
  BY <1>0, <1>1 DEF SessT, Due
<1>5. /\ \A i, j \in DOMAIN msess : msess[i].id = msess[j].id => i = j
      /\ \A i \in DOMAIN msess : m1[i].last_seq = IF Due(msess[i]) THEN msess[i].last_seq + 1 ELSE msess[i].last_seq
      /\ \A i \in DOMAIN msess : m1[i].id = msess[i].id
  BY <1>2 DEF MsOK
<1> DEFINE new == Inserted(how)
           Sent(i) == Due(msess[i]) /\ how[i] = "ok"
<1>6. \A u : u \in new <=> \E i \in DOMAIN msess : Sent(i) /\ u = Uid(epoch, msess[i].id, msess[i].last_seq + 1)
  BY DEF Inserted
<1> HIDE DEF new
<1>7. new \subseteq Uids
  BY <1>4, <1>6, UidFacts
<1>8. \A u \in new : u.ep = epoch /\ ~Begun(msess, u) /\ Begun(m1, u)
  <2> SUFFICES ASSUME NEW u \in new PROVE u.ep = epoch /\ ~Begun(msess, u) /\ Begun(m1, u)
    OBVIOUS
  <2>1. PICK i \in DOMAIN msess : Sent(i) /\ u = Uid(epoch, msess[i].id, msess[i].last_seq + 1)
    BY <1>6
  <2>2. u.ep = epoch /\ u.id = msess[i].id /\ u.seq = msess[i].last_seq + 1
    BY <2>1, UidFacts
  <2>3. ~Begun(msess, u)
    BY <1>4, <1>5, <2>2 DEF Begun
  <2>4. m1[i].last_seq = u.seq /\ u.seq <= u.seq
    BY <1>4, <1>5, <2>1, <2>2
  <2>5. Begun(m1, u)
    BY <1>2, <1>3, <2>2, <2>4 DEF Begun
  <2>6. QED
    BY <2>2, <2>3, <2>5
<1>9. \A u \in Uids : Begun(msess, u) => Begun(m1, u)
  <2> SUFFICES ASSUME NEW u \in Uids, Begun(msess, u) PROVE Begun(m1, u)
    OBVIOUS
  <2>1. PICK i \in DOMAIN msess : msess[i].id = u.id /\ u.seq <= msess[i].last_seq
    BY DEF Begun
  <2>2. u.seq \in Nat
    BY <1>0, UidFacts
  <2>3. m1[i].id = u.id /\ u.seq <= m1[i].last_seq
    BY <1>4, <1>5, <2>1, <2>2
  <2>4. QED
    BY <1>3, <2>3 DEF Begun
<1>10. \A u \in Uids : u.ep = epoch => (Held(m1, u) <=> Held(msess, u) \/ u \in new)
  <2> SUFFICES ASSUME NEW u \in Uids, u.ep = epoch PROVE Held(m1, u) <=> Held(msess, u) \/ u \in new
    OBVIOUS
  <2>1. ASSUME NEW i \in DOMAIN msess, m1[i].id = u.id, u.seq \in Seqs(m1[i]) PROVE Held(msess, u) \/ u \in new
    <3>1. u.seq \in Seqs(msess[i]) \/ (Sent(i) /\ u.seq = msess[i].last_seq + 1)
      BY <1>2, <2>1
    <3>2. CASE u.seq \in Seqs(msess[i])
      BY <1>2, <2>1, <3>2 DEF Held
    <3>3. CASE Sent(i) /\ u.seq = msess[i].last_seq + 1
      <4>1. u = Uid(epoch, msess[i].id, msess[i].last_seq + 1)
        BY <1>5, <2>1, <3>3, UidFacts
      <4>2. QED
        BY <1>6, <3>3, <4>1
    <3>4. QED
      BY <3>1, <3>2, <3>3
  <2>2. ASSUME Held(msess, u) PROVE Held(m1, u)
    BY <1>2, <1>3, <2>2 DEF Held
  <2>3. ASSUME u \in new PROVE Held(m1, u)
    <3>1. PICK i \in DOMAIN msess : Sent(i) /\ u = Uid(epoch, msess[i].id, msess[i].last_seq + 1)
      BY <1>6, <2>3
    <3>2. u.id = msess[i].id /\ u.seq = msess[i].last_seq + 1
      BY <3>1, UidFacts
    <3>3. QED
      BY <1>2, <1>3, <3>1, <3>2 DEF Held
  <2>4. QED
    BY <1>3, <2>1, <2>2, <2>3 DEF Held
<1>11. Books(m1, epoch, tracked \cup new, out)
  BY <1>0, <1>7, <1>8, <1>9, <1>10, BooksAdd
<1>12. QED
  BY <1>2, <1>3, <1>7, <1>8, <1>9, <1>11 DEF new, TransmittedOK

\* What is reported of a probe is true.
OutTrue(v, u, nr) ==
  /\ v.st # "DONE" => {x.type : x \in v.eps} = {"PONG", "TIME"} \ Missing(v.st)
  /\ nr /\ v.st = "DONE" => v.eps = {[type |-> "PONG", ep |-> u.ep], [type |-> "TIME", ep |-> u.ep]}

AllTrue(o, nr) == \A u \in Uids : \A n \in DOMAIN o[u] : OutTrue(o[u][n], u, nr)

\* What clearing the lists takes out,
LEMMA ExpiredIs ==
  ASSUME NEW m, NEW u
  PROVE  \A r : r \in Expired(m, u) <=>
           \E i \in DOMAIN m : \E k \in Old(m[i].res) : r = m[i].res[k] /\ u = Uid(r.ep, m[i].id, r.seq)
BY DEF Expired

\* ... and what it reports.
LEMMA ReportedIs ==
  ASSUME NEW m, NEW o
  PROVE  /\ Reported(m, o) \in [Uids -> {Reported(m, o)[u] : u \in Uids}]
         /\ \A u \in Uids :
              /\ Expired(m, u) = {} => Reported(m, o)[u] = o[u]
              /\ Expired(m, u) # {} =>
                   \E r \in Expired(m, u) : Reported(m, o)[u] = Append(o[u], [st |-> TimeoutState(r), eps |-> r.eps])
<1> DEFINE Some(u) == CHOOSE x \in Expired(m, u) : TRUE
           F(u) == IF Expired(m, u) = {} THEN o[u]
                   ELSE Append(o[u], [st |-> TimeoutState(Some(u)), eps |-> Some(u).eps])
<1>1. Reported(m, o) = [u \in Uids |-> F(u)]
  BY DEF Reported
<1>2. \A u \in Uids : Expired(m, u) # {} => Some(u) \in Expired(m, u)
  OBVIOUS
<1> HIDE DEF Some
<1>3. \A u \in Uids : Reported(m, o)[u] = F(u)
  BY <1>1
<1>4. \A u \in Uids : Expired(m, u) # {} =>
        \E r \in Expired(m, u) : F(u) = Append(o[u], [st |-> TimeoutState(r), eps |-> r.eps])
  BY <1>2
<1>5. \A u \in Uids : Expired(m, u) = {} => F(u) = o[u]
  OBVIOUS
<1> HIDE DEF F
<1>6. Reported(m, o) \in [Uids -> {Reported(m, o)[u] : u \in Uids}]
  BY <1>1
<1>7. QED
  BY <1>3, <1>4, <1>5, <1>6

\* A probe that times out is reported for what it lacks.
LEMMA TimedOutTrue ==
  ASSUME NEW r \in ProbeT, NEW s, NEW e, NEW sb, ProbeOK(r, s, e, sb), NEW u, NEW nr
  PROVE  [st |-> TimeoutState(r), eps |-> r.eps] \in OutT /\ OutTrue([st |-> TimeoutState(r), eps |-> r.eps], u, nr)
<1> DEFINE v == [st |-> TimeoutState(r), eps |-> r.eps]
<1>1. v.st = TimeoutState(r) /\ v.eps = r.eps /\ TimeoutState(r) \in {"PONGLOSS", "TS_ERR", "TIMEOUT"}
  BY DEF TimeoutState
<1>2. v \in OutT
  BY <1>1 DEF OutT, ProbeT
<1>3. Got(r) = {"PONG", "TIME"} \ Missing(TimeoutState(r))
  BY DEF Got, ProbeOK, Missing, TimeoutState
<1> HIDE DEF v
<1>4. OutTrue(v, u, nr)
  BY <1>1, <1>3 DEF OutTrue, ProbeOK
<1>5. QED
  BY <1>2, <1>4 DEF v

\* What client_res_clear_timeouts() makes of the sessions m and the outcomes o.
ClearedOK(m, e, sb, t, o, nr, m2, o2) ==
  /\ MsOK(m2, e, sb) /\ Len(m2) = Len(m) /\ DOMAIN m2 = DOMAIN m
  /\ Books(m2, e, t, o2) /\ AllTrue(o2, nr)
  /\ \A u \in Uids : /\ Begun(m, u) <=> Begun(m2, u)
                     /\ \A n \in DOMAIN o2[u] : o2[u][n].st = "DONE" => o[u] = o2[u]
                     /\ o[u] # <<>> => o[u] = o2[u]
  /\ \A i \in DOMAIN m : /\ m2[i].id = m[i].id /\ m2[i].addr = m[i].addr
                         /\ m2[i].child = m[i].child /\ m2[i].last_seq = m[i].last_seq
                         /\ \A k \in DOMAIN m2[i].res : k \in DOMAIN m[i].res /\ m2[i].res[k] = m[i].res[k]

\* client_res_clear_timeouts(): all sessions.
LEMMA ClearAll ==
  ASSUME NEW m, NEW e \in 0 .. MaxReload + 1, NEW sb, NEW t, NEW o, NEW nr,
         MsOK(m, e, sb), Books(m, e, t, o), AllTrue(o, nr)
  PROVE  ClearedOK(m, e, sb, t, o, nr, Cleared(m), Reported(m, o))
<1> DEFINE m2 == Cleared(m)
           o2 == Reported(m, o)
<1>0. MaxSeq \in Nat
  BY ClientAssumption
<1>1. \A i \in DOMAIN m : SessOK(m[i], e, sb) /\ m[i] \in SessT /\ m[i].res \in Seq(ProbeT)
  BY DEF MsOK, SessOK, SessT
<1>2. DOMAIN m2 = DOMAIN m /\ \A i \in DOMAIN m : m2[i] = [m[i] EXCEPT !.res = Young(@)]
  BY DEF Cleared
<1>3. \A i \in DOMAIN m :
        /\ SessOK(m2[i], e, sb) /\ Seqs(m2[i]) = Seqs(m[i]) \ {m[i].res[k].seq : k \in Old(m[i].res)}
  <2> SUFFICES ASSUME NEW i \in DOMAIN m
               PROVE  SessOK(m2[i], e, sb) /\ Seqs(m2[i]) = Seqs(m[i]) \ {m[i].res[k].seq : k \in Old(m[i].res)}
    OBVIOUS
  <2> DEFINE s == m[i]
  <2>1. SessOK(s, e, sb)
    BY <1>1
  <2> HIDE DEF s
  <2>2. /\ SessOK([s EXCEPT !.res = Young(@)], e, sb)
        /\ Seqs([s EXCEPT !.res = Young(@)]) = Seqs(s) \ {s.res[k].seq : k \in Old(s.res)}
    BY <2>1, ClearSession
  <2>3. QED
    BY <1>2, <2>2 DEF s
<1>4. \A i \in DOMAIN m : /\ m2[i].id = m[i].id /\ m2[i].addr = m[i].addr /\ m2[i].child = m[i].child
                          /\ m2[i].last_seq = m[i].last_seq /\ m2[i].res = Young(m[i].res)
  BY <1>1, <1>2 DEF SessT
<1>5. \A i \in DOMAIN m : /\ Old(m[i].res) \subseteq DOMAIN m[i].res
                          /\ \A k \in DOMAIN m2[i].res : k \in DOMAIN m[i].res /\ m2[i].res[k] = m[i].res[k]
  <2> SUFFICES ASSUME NEW i \in DOMAIN m
               PROVE  /\ Old(m[i].res) \subseteq DOMAIN m[i].res
                      /\ \A k \in DOMAIN m2[i].res : k \in DOMAIN m[i].res /\ m2[i].res[k] = m[i].res[k]
    OBVIOUS
  <2> DEFINE q == m[i].res
  <2>1. q \in Seq(ProbeT) /\ m2[i].res = Young(q)
    BY <1>1, <1>4
  <2> HIDE DEF q, m2
  <2>2. /\ DOMAIN Young(q) = (DOMAIN q) \ Old(q) /\ Old(q) \subseteq DOMAIN q
        /\ \A k \in DOMAIN Young(q) : Young(q)[k] = q[k]
    BY <2>1, YoungFacts
  <2>3. QED
    BY <2>1, <2>2 DEF q
<1>6. \A i \in DOMAIN m : \A k \in DOMAIN m[i].res : /\ k \in 1 .. MaxSeq /\ m[i].res[k] \in ProbeT
                                                      /\ ProbeOK(m[i].res[k], m[i], e, sb) /\ m[i].res[k].ep = e
  <2> SUFFICES ASSUME NEW i \in DOMAIN m, NEW k \in DOMAIN m[i].res
               PROVE  k \in 1 .. MaxSeq /\ m[i].res[k] \in ProbeT /\ ProbeOK(m[i].res[k], m[i], e, sb) /\ m[i].res[k].ep = e
    OBVIOUS
  <2>1. Len(m[i].res) <= m[i].last_seq /\ m[i].last_seq \in 0 .. MaxSeq
    BY <1>1 DEF SessOK, SessT
  <2>2. k \in 1 .. MaxSeq
    BY <1>0, <1>1, <2>1
  <2>3. ProbeOK(m[i].res[k], m[i], e, sb)
    BY <1>1 DEF SessOK
  <2>4. m[i].res[k] \in ProbeT
    BY <1>1
  <2>5. QED
    BY <2>2, <2>3, <2>4 DEF ProbeOK
<1> HIDE DEF m2
<1>7. MsOK(m2, e, sb) /\ Len(m2) = Len(m)
  <2>1. m2 \in [DOMAIN m -> SessT]
    <3>1. \A i \in DOMAIN m : m2[i] \in SessT
      BY <1>3 DEF SessOK
    <3>2. m2 = [i \in DOMAIN m |-> m2[i]]
      BY DEF m2, Cleared
    <3>3. QED
      BY <3>1, <3>2
  <2>2. \A i \in DOMAIN m : SessOK(m2[i], e, sb) /\ m2[i].id = m[i].id
    BY <1>3, <1>4
  <2>3. QED
    BY <2>1, <2>2, EachSession
<1> DEFINE gone == {u \in Uids : Expired(m, u) # {}}
<1>8. \A u \in gone : /\ u \in Uids /\ u.ep = e /\ Held(m, u) /\ ~Held(m2, u)
                      /\ \E v \in OutT : o2[u] = Append(o[u], v) /\ v.st # "DONE" /\ OutTrue(v, u, nr)
  <2> SUFFICES ASSUME NEW u \in Uids, Expired(m, u) # {}
               PROVE  /\ u.ep = e /\ Held(m, u) /\ ~Held(m2, u)
                      /\ \E v \in OutT : o2[u] = Append(o[u], v) /\ v.st # "DONE" /\ OutTrue(v, u, nr)
    OBVIOUS
  <2>1. PICK r \in Expired(m, u) : o2[u] = Append(o[u], [st |-> TimeoutState(r), eps |-> r.eps])
    BY ReportedIs
  <2> DEFINE v == [st |-> TimeoutState(r), eps |-> r.eps]
  <2>2. PICK i \in DOMAIN m : \E k \in Old(m[i].res) : r = m[i].res[k] /\ u = Uid(r.ep, m[i].id, r.seq)
    BY <2>1, ExpiredIs
  <2>12. PICK k \in Old(m[i].res) : r = m[i].res[k] /\ u = Uid(r.ep, m[i].id, r.seq)
    BY <2>2
  <2>3. k \in DOMAIN m[i].res
    BY <1>5
  <2>4. r \in ProbeT /\ ProbeOK(r, m[i], e, sb) /\ r.ep = e
    BY <1>6, <2>3, <2>12
  <2>5. u.ep = e /\ u.id = m[i].id /\ u.seq = r.seq
    BY <2>4, <2>12, UidFacts
  <2>6. Held(m, u)
    BY <2>3, <2>5, <2>12 DEF Held, Seqs
  <2>7. ~Held(m2, u)
    <3> SUFFICES ASSUME Held(m2, u) PROVE FALSE
      OBVIOUS
    <3>1. PICK j \in DOMAIN m : m2[j].id = u.id /\ u.seq \in Seqs(m2[j])
      BY <1>2 DEF Held, m2
    <3>2. j = i
      BY <1>4, <2>5, <3>1 DEF MsOK
    <3>3. u.seq \notin {m[i].res[l].seq : l \in Old(m[i].res)}
      BY <1>3, <3>1, <3>2
    <3>4. QED
      BY <2>5, <2>12, <3>3
  <2>8. o2[u] = Append(o[u], v)
    BY <2>1
  <2>9. v \in OutT /\ OutTrue(v, u, nr)
    BY <2>4, TimedOutTrue
  <2>10. v.st # "DONE"
    BY DEF TimeoutState
  <2>11. QED
    BY <2>5, <2>6, <2>7, <2>8, <2>9, <2>10
<1>9. \A u \in Uids : u \notin gone => o2[u] = o[u]
  BY ReportedIs
<1>10. \A u \in Uids : u.ep = e => (Held(m2, u) <=> Held(m, u) /\ u \notin gone)
  <2> SUFFICES ASSUME NEW u \in Uids, u.ep = e PROVE Held(m2, u) <=> Held(m, u) /\ u \notin gone
    OBVIOUS
  <2>1. Held(m2, u) => Held(m, u)
    BY <1>2, <1>3, <1>4 DEF Held, m2
  <2>2. Held(m2, u) => u \notin gone
    BY <1>8
  <2>3. ASSUME Held(m, u), ~Held(m2, u) PROVE u \in gone
    <3>1. PICK i \in DOMAIN m : m[i].id = u.id /\ u.seq \in Seqs(m[i])
      BY <2>3 DEF Held
    <3>2. u.seq \notin Seqs(m2[i])
      BY <1>2, <1>4, <2>3, <3>1 DEF Held, m2
    <3>3. PICK k \in Old(m[i].res) : u.seq = m[i].res[k].seq
      BY <1>3, <3>1, <3>2
    <3>4. k \in DOMAIN m[i].res /\ k \in 1 .. MaxSeq /\ m[i].res[k].ep = e
      BY <1>5, <1>6, <3>3
    <3>5. u = Uid(m[i].res[k].ep, m[i].id, m[i].res[k].seq)
      BY <3>1, <3>3, <3>4, UidFacts
    <3>6. m[i].res[k] \in Expired(m, u)
      BY <3>3, <3>5, ExpiredIs
    <3>7. QED
      BY <3>6
  <2>4. QED
    BY <2>1, <2>2, <2>3
<1>11. \A u \in Uids : Begun(m, u) <=> Begun(m2, u)
  BY <1>2, <1>4 DEF Begun, m2
<1> HIDE DEF gone
<1>12. o2 \in [Uids -> Seq(OutT)]
  <2>1. \A u \in Uids : o[u] \in Seq(OutT)
    BY DEF Books
  <2>2. \A u \in Uids : o2[u] \in Seq(OutT)
    BY <1>8, <1>9, <2>1
  <2>3. o2 \in [Uids -> {o2[u] : u \in Uids}]
    BY ReportedIs
  <2>4. QED
    BY <2>2, <2>3
<1> HIDE DEF o2
<1>13. gone \in SUBSET Uids
  BY DEF gone
<1>14. Books(m2, e, t, o2)
  <2>1. \A u \in Uids : /\ Begun(m, u) => Begun(m2, u)
                        /\ \/ o2[u] = o[u] /\ (u.ep = e => (Held(m2, u) <=> Held(m, u)))
                           \/ /\ u.ep = e /\ Held(m, u) /\ ~Held(m2, u)
                              /\ \E v \in OutT : o2[u] = Append(o[u], v)
    BY <1>8, <1>9, <1>10, <1>11
  <2>2. QED
    BY <1>12, <2>1, BooksClose
<1>15. \A u \in gone : o[u] = <<>>
  BY <1>8 DEF Books
<1>16. \A u \in gone : \E v \in OutT : o2[u] = <<v>> /\ v.st # "DONE" /\ OutTrue(v, u, nr)
  BY <1>8, <1>15
<1>17. AllTrue(o2, nr)
  BY <1>9, <1>16 DEF AllTrue
<1>18. \A u \in Uids : /\ \A n \in DOMAIN o2[u] : o2[u][n].st = "DONE" => o[u] = o2[u]
                       /\ o[u] # <<>> => o[u] = o2[u]
  BY <1>9, <1>15, <1>16
<1>19. DOMAIN m2 = DOMAIN m
  BY <1>2 DEF m2
<1>20. \A i \in DOMAIN m : \A k \in DOMAIN m2[i].res : k \in DOMAIN m[i].res /\ m2[i].res[k] = m[i].res[k]
  BY <1>5 DEF m2
<1>21. \A i \in DOMAIN m : /\ m2[i].id = m[i].id /\ m2[i].addr = m[i].addr /\ m2[i].child = m[i].child
                           /\ m2[i].last_seq = m[i].last_seq
  BY <1>4 DEF m2
<1>22. ClearedOK(m, e, sb, t, o, nr, m2, o2)
  BY <1>7, <1>11, <1>14, <1>17, <1>18, <1>19, <1>20, <1>21 DEF ClearedOK
<1>23. QED
  BY <1>22 DEF m2, o2

-----------------------------------------------------------------------------
(* The children *)

KidT == [addr : Addrs, st : {"connecting", "up", "dead"}]
Runs(ch) == {p \in Pids : ch[p].st \in {"connecting", "up"}}

\* A session's child is a process that was forked for the session's address.
Known(m, ch) == \A i \in DOMAIN m : m[i].child \in Pids => ch[m[i].child] \in KidT /\ ch[m[i].child].addr = m[i].addr

\* One session of each address has a child, and every running one is known.
Only(m, ch) ==
  /\ \A p \in Runs(ch) : \E i \in DOMAIN m : m[i].child = p
  /\ \A i, j \in DOMAIN m : i # j /\ m[i].addr = m[j].addr => m[i].child = 0 \/ m[j].child = 0

\* Nothing of a session but its child has changed.
SameSess(s, z) == z.id = s.id /\ z.addr = s.addr /\ z.last_seq = s.last_seq /\ z.res = s.res

Stage(acc, m, clean, k) ==
  /\ acc.m \in [DOMAIN m -> SessT] /\ acc.ch \in [Pids -> KidT \cup {NoChild}]
  /\ \A i \in DOMAIN m : SameSess(m[i], acc.m[i])
  /\ Known(acc.m, acc.ch)
  /\ clean => Only(acc.m, acc.ch) /\ \A i \in DOMAIN m : i > k => acc.m[i].child = 0

\* client_fork()
IsAcc(acc, fail) == \E a, c : acc = [m |-> a, ch |-> c, fail |-> fail]

\* client_msess_forkall(): one round of the loop.
LEMMA ForkOne ==
  ASSUME NEW m, NEW clean, NEW k \in DOMAIN m, NEW fail, NEW acc, IsAcc(acc, fail), Stage(acc, m, clean, k - 1),
         DOMAIN m \subseteq Nat, \A i, j \in DOMAIN m : m[i].id = m[j].id => i = j
  PROVE  Stage(ForkStep(acc, k), m, clean, k) /\ IsAcc(ForkStep(acc, k), fail)
<1> DEFINE D == DOMAIN m
<1> SUFFICES ASSUME NEW a, NEW c, acc = [m |-> a, ch |-> c, fail |-> fail]
             PROVE  /\ Stage(ForkStep(acc, k), m, clean, k)
                    /\ \E a2, c2 : ForkStep(acc, k) = [m |-> a2, ch |-> c2, fail |-> fail]
  BY DEF IsAcc
<1> HIDE DEF D
<1>D. DOMAIN m = D /\ D \subseteq Nat /\ k \in D /\ \A i, j \in D : m[i].id = m[j].id => i = j
  BY DEF D
<1>E. k \in Nat /\ k > k - 1 /\ \A i \in D : i > k => i > k - 1
  <2>1. \A i \in D : i \in Nat
    BY <1>D
  <2>2. k \in Nat
    BY <1>D
  <2>3. k > k - 1 /\ \A i \in Nat : i > k => i > k - 1
    BY <2>2
  <2>4. QED
    BY <2>1, <2>2, <2>3
<1>0. acc.m = a /\ acc.ch = c /\ acc.fail = fail /\ MaxPid \in Nat
  BY ClientAssumption
<1>1. /\ a \in [D -> SessT] /\ c \in [Pids -> KidT \cup {NoChild}] /\ Known(a, c) /\ DOMAIN a = D
      /\ \A i \in D : SameSess(m[i], a[i])
      /\ clean => Only(a, c) /\ \A i \in D : i > k - 1 => a[i].child = 0
  BY <1>0, <1>D DEF Stage
<1>2. CASE Taken(a, k)
  <2>1. ForkStep(acc, k) = acc
    BY <1>0, <1>2 DEF ForkStep
  <2>2. \A i \in D : i > k => i > k - 1
    BY <1>E
  <2>3. Stage(acc, m, clean, k)
    BY <1>D, <2>2 DEF Stage
  <2>4. QED
    BY <2>1, <2>3
<1>3. CASE ~Taken(a, k)
  <2>1. a[k].child \in Pids \cup {0, -1} /\ a[k] \in SessT
    BY <1>1, <1>D DEF SessT
  \* Another session of this address has no child.
  <2>2. \A j \in D : j # k /\ a[j].addr = a[k].addr => a[j].child = 0
    BY <1>1, <1>3, <1>D DEF Taken, SameSess
  <2>3. ASSUME NEW x \in Pids \cup {-1}, NEW c2 \in [Pids -> KidT \cup {NoChild}],
               x \in Pids => c2[x] \in KidT /\ c2[x].addr = a[k].addr /\ c[x] = NoChild,
               \A p \in Pids : p # x => c2[p] = c[p]
        PROVE  Stage([m |-> [a EXCEPT ![k].child = x], ch |-> c2, fail |-> fail], m, clean, k)
    <3> DEFINE a2 == [a EXCEPT ![k].child = x]
               w == [m |-> a2, ch |-> c2, fail |-> fail]
    <3>1. a2 \in [D -> SessT] /\ DOMAIN a2 = D
      BY <1>1, <1>D, <2>1 DEF SessT
    <3>2. \A i \in D : i # k => a2[i] = a[i]
      BY <1>1, <1>D
    <3>3. a2[k].child = x /\ SameSess(a[k], a2[k])
      BY <1>1, <1>D, <2>1 DEF SessT, SameSess
    <3>4. w.m = a2 /\ w.ch = c2
      OBVIOUS
    <3> HIDE DEF a2, w
    <3>5. \A i \in D : SameSess(m[i], a2[i])
      BY <1>1, <3>2, <3>3 DEF SameSess
    <3>6. NoChild \notin KidT
      BY DEF NoChild, KidT
    <3>7. Known(a2, c2)
      <4> SUFFICES ASSUME NEW i \in D, a2[i].child \in Pids
                   PROVE  c2[a2[i].child] \in KidT /\ c2[a2[i].child].addr = a2[i].addr
        BY <3>1 DEF Known
      <4>1. CASE i = k
        BY <2>3, <3>3, <4>1 DEF SameSess
      <4>2. CASE i # k
        <5>1. a2[i] = a[i] /\ c[a[i].child] \in KidT /\ c[a[i].child].addr = a[i].addr
          BY <1>1, <3>2, <4>2 DEF Known
        <5>2. a[i].child # x
          BY <2>3, <3>6, <5>1
        <5>3. QED
          BY <2>3, <5>1, <5>2
      <4>3. QED
        BY <4>1, <4>2
    <3>8. ASSUME clean PROVE Only(a2, c2) /\ \A i \in D : i > k => a2[i].child = 0
      <4>1. \A i \in D : i > k => a2[i].child = 0
        BY <1>1, <1>E, <3>2, <3>8
      <4>2. \A p \in Runs(c2) : \E i \in D : a2[i].child = p
        <5> SUFFICES ASSUME NEW p \in Runs(c2) PROVE \E i \in D : a2[i].child = p
          OBVIOUS
        <5>1. CASE p = x
          BY <1>D, <3>3, <5>1
        <5>2. CASE p # x
          <6>1. p \in Runs(c)
            BY <2>3, <5>2 DEF Runs
          <6>2. PICK i \in D : a[i].child = p
            BY <1>1, <3>8, <6>1 DEF Only
          <6>3. a[k].child = 0 /\ p # 0
            BY <1>0, <1>1, <1>D, <1>E, <3>8 DEF Pids, Runs
          <6>4. QED
            BY <3>2, <6>2, <6>3
        <5>3. QED
          BY <5>1, <5>2
      <4>3. \A i, j \in D : i # j /\ a2[i].addr = a2[j].addr => a2[i].child = 0 \/ a2[j].child = 0
        <5> SUFFICES ASSUME NEW i \in D, NEW j \in D, i # j, a2[i].addr = a2[j].addr
                     PROVE  a2[i].child = 0 \/ a2[j].child = 0
          OBVIOUS
        <5>1. CASE i = k
          BY <2>2, <3>2, <3>3, <5>1 DEF SameSess
        <5>2. CASE j = k
          BY <2>2, <3>2, <3>3, <5>2 DEF SameSess
        <5>3. CASE i # k /\ j # k
          BY <1>1, <3>2, <3>8, <5>3 DEF Only
        <5>4. QED
          BY <5>1, <5>2, <5>3
      <4>4. QED
        BY <3>1, <4>1, <4>2, <4>3 DEF Only
    <3>9. Stage(w, m, clean, k)
      BY <1>D, <2>3, <3>1, <3>4, <3>5, <3>7, <3>8 DEF Stage
    <3>10. QED
      BY <3>9 DEF w, a2
  <2>4. CASE a[k].id \in fail \/ FreshPids(c) = {}
    <3>1. ForkStep(acc, k) = [acc EXCEPT !.m[k].child = -1]
      BY <1>0, <1>3, <2>4 DEF ForkStep
    <3>2. [acc EXCEPT !.m[k].child = -1] = [m |-> [a EXCEPT ![k].child = -1], ch |-> c, fail |-> fail]
      BY <1>1, <1>D
    <3>3. -1 \notin Pids
      BY <1>0 DEF Pids
    <3>4. Stage([m |-> [a EXCEPT ![k].child = -1], ch |-> c, fail |-> fail], m, clean, k)
      BY <1>1, <1>D, <2>3, <3>3
    <3>5. QED
      BY <3>1, <3>2, <3>4
  <2>5. CASE a[k].id \notin fail /\ FreshPids(c) # {}
    <3> DEFINE p == CHOOSE q \in FreshPids(c) : \A r \in FreshPids(c) : q <= r
               kid == [addr |-> a[k].addr, st |-> "connecting"]
    <3>1. p \in FreshPids(c)
      <4>1. FreshPids(c) \in SUBSET Nat
        BY <1>0 DEF FreshPids, Pids
      <4>2. \E q \in FreshPids(c) : \A r \in FreshPids(c) : q <= r
        BY <2>5, <4>1, LeastExists
      <4>3. QED
        BY <4>2
    <3>2. ForkStep(acc, k) = [acc EXCEPT !.m[k].child = p, !.ch[p] = kid]
      BY <1>0, <1>3, <2>5 DEF ForkStep
    <3> HIDE DEF p
    <3>3. p \in Pids /\ c[p] = NoChild
      BY <3>1 DEF FreshPids
    <3>4. kid \in KidT /\ kid.addr = a[k].addr
      BY <2>1 DEF KidT, SessT
    <3> HIDE DEF kid
    <3> DEFINE c2 == [c EXCEPT ![p] = kid]
    <3>5. [acc EXCEPT !.m[k].child = p, !.ch[p] = kid] = [m |-> [a EXCEPT ![k].child = p], ch |-> c2, fail |-> fail]
      <4> DEFINE b == [acc EXCEPT !.m[k].child = p]
      <4>1. b = [m |-> [a EXCEPT ![k].child = p], ch |-> c, fail |-> fail]
        BY <1>1, <1>D
      <4>2. [acc EXCEPT !.m[k].child = p, !.ch[p] = kid] = [b EXCEPT !.ch[p] = kid]
        OBVIOUS
      <4> HIDE DEF b
      <4>3. [b EXCEPT !.ch[p] = kid] = [m |-> [a EXCEPT ![k].child = p], ch |-> c2, fail |-> fail]
        BY <4>1
      <4>4. QED
        BY <4>2, <4>3
    <3>6. c2 \in [Pids -> KidT \cup {NoChild}] /\ c2[p] = kid /\ \A q \in Pids : q # p => c2[q] = c[q]
      BY <1>1, <3>3, <3>4
    <3> HIDE DEF c2
    <3>7. Stage([m |-> [a EXCEPT ![k].child = p], ch |-> c2, fail |-> fail], m, clean, k)
      BY <2>3, <3>3, <3>4, <3>6
    <3> DEFINE a2 == [a EXCEPT ![k].child = p]
    <3> HIDE DEF a2
    <3>8. ForkStep(acc, k) = [m |-> a2, ch |-> c2, fail |-> fail] /\ Stage([m |-> a2, ch |-> c2, fail |-> fail], m, clean, k)
      BY <3>2, <3>5, <3>7 DEF a2
    <3>9. QED
      BY <3>8
  <2>6. QED
    BY <2>4, <2>5
<1>4. QED
  BY <1>2, <1>3

\* client_msess_forkall()
LEMMA ForkFacts ==
  ASSUME NEW m \in Seq(SessT), NEW ch \in [Pids -> KidT \cup {NoChild}], Known(m, ch), NEW fail,
         \A i, j \in DOMAIN m : m[i].id = m[j].id => i = j
  PROVE  /\ ForkAll(m, ch, fail).m \in [DOMAIN m -> SessT] /\ ForkAll(m, ch, fail).ch \in [Pids -> KidT \cup {NoChild}]
         /\ \A i \in DOMAIN m : SameSess(m[i], ForkAll(m, ch, fail).m[i])
         /\ Known(ForkAll(m, ch, fail).m, ForkAll(m, ch, fail).ch)
         /\ (Runs(ch) = {} /\ \A i \in DOMAIN m : m[i].child = 0) => Only(ForkAll(m, ch, fail).m, ForkAll(m, ch, fail).ch)
<1> DEFINE n == Len(m)
           F == Forks(m, ch, fail)
           clean == Runs(ch) = {} /\ \A i \in DOMAIN m : m[i].child = 0
           Good(k) == Stage(F[k], m, clean, k) /\ IsAcc(F[k], fail)
           Bad == {k \in 0 .. n : ~Good(k)}
<1>0. n \in Nat /\ DOMAIN m = 1 .. n
  OBVIOUS
<1>1. F[0] = [m |-> m, ch |-> ch, fail |-> fail] /\ \A k \in 1 .. n : F[k] = ForkStep(F[k - 1], k)
  BY <1>0, ForksDef
<1> HIDE DEF n, F
<1>2. Good(0)
  <2>1. F[0].m = m /\ F[0].ch = ch /\ m \in [DOMAIN m -> SessT]
    BY <1>1
  <2>2. clean => Only(m, ch)
    BY DEF Only
  <2>3. \A i \in DOMAIN m : SameSess(m[i], m[i])
    BY DEF SameSess
  <2>4. clean => \A i \in DOMAIN m : i > 0 => m[i].child = 0
    OBVIOUS
  <2> HIDE DEF clean
  <2>5. Stage(F[0], m, clean, 0)
    BY <2>1, <2>2, <2>3, <2>4 DEF Stage
  <2>6. IsAcc(F[0], fail)
    BY <1>1 DEF IsAcc
  <2>7. QED
    BY <2>5, <2>6
<1>3. Good(n)
  <2> HIDE DEF Good
  <2> SUFFICES ASSUME Bad # {} PROVE FALSE
    BY <1>0
  <2>1. PICK k \in Bad : \A j \in Bad : k <= j
    <3>1. Bad \in SUBSET Nat
      BY <1>0
    <3> HIDE DEF Bad
    <3>2. QED
      BY <3>1, LeastExists
  <2>2. k \in 1 .. n
    BY <1>0, <1>2, <2>1
  <2>3. Good(k - 1)
    <3>1. k - 1 \in 0 .. n /\ ~(k <= k - 1)
      BY <1>0, <2>2
    <3>2. QED
      BY <2>1, <3>1
  <2> DEFINE acc == F[k - 1]
  <2>5. IsAcc(acc, fail) /\ Stage(acc, m, clean, k - 1)
    BY <2>3 DEF Good
  <2>6. DOMAIN m \subseteq Nat /\ k \in DOMAIN m
    BY <1>0, <2>2
  <2>7. F[k] = ForkStep(acc, k)
    BY <1>1, <2>2
  <2> HIDE DEF acc, clean
  <2>8. Stage(ForkStep(acc, k), m, clean, k) /\ IsAcc(ForkStep(acc, k), fail)
    BY <2>5, <2>6, ForkOne
  <2>9. Good(k)
    BY <2>7, <2>8 DEF Good
  <2>10. QED
    BY <2>1, <2>9
<1>4. ForkAll(m, ch, fail) = F[n]
  BY DEF ForkAll, F, n
<1>5. Stage(ForkAll(m, ch, fail), m, clean, n)
  BY <1>3, <1>4
<1>6. QED
  BY <1>5 DEF Stage

-----------------------------------------------------------------------------
(* The invariant *)

UdpT  == [type : {"PING", "PONG"}, id : Ids, seq : 1 .. MaxSeq, addr : Addrs, ep : 0 .. MaxReload + 1]
TimeT == [type : {"TIME"}, id : Ids, seq : 1 .. MaxSeq, addr : Addrs, ep : 0 .. MaxReload + 1]
HeloT == [type : {"HELO"}, addr : Addrs]
TcpT  == TimeT \cup HeloT
DupT  == [pongs : 0 .. 2, dups : 0 .. 2]

Wires ==
  /\ udp \in SUBSET UdpT
  /\ chan \in [Pids -> Seq(TcpT)]
  /\ pipe \in Seq(TcpT)

Flags ==
  /\ client \in Clients
  /\ should_reload \in BOOLEAN /\ tick \in BOOLEAN /\ setback \in BOOLEAN
  /\ sends \in 0 .. Period - 1 /\ res_ok \in Nat /\ pc \in {"run", "exit", "alone"}
  /\ epoch \in 0 .. MaxReload + 1 /\ (should_reload => epoch <= MaxReload)
  /\ StopsInTime

Lists ==
  /\ MsOK(msess, epoch, setback) /\ Books(msess, epoch, tracked, out) /\ AllTrue(out, NoReload)
  /\ dup \in [Uids -> DupT]

Kids ==
  /\ child \in [Pids -> KidT \cup {NoChild}] /\ Known(msess, child)
  /\ "badconf" \notin Faults => /\ Only(msess, child)
                                /\ should_reload /\ Op = "CLIENT" =>
                                     Runs(child) = {} /\ \A i \in DOMAIN msess : msess[i].child = 0

\* A datagram that belongs to a probe of the sessions m; answers of this epoch.
Own(x, m, e) == x.ep = e /\ \E i \in DOMAIN m : m[i].id = x.id /\ m[i].addr = x.addr /\ x.seq <= m[i].last_seq
Mail(q, e) == \A n \in DOMAIN q : q[n].type = "TIME" => q[n].ep = e

\* An outstanding probe was stamped by its own answers, which were counted.
Stamped(m, e, d) ==
  \A i \in DOMAIN m : \A k \in DOMAIN m[i].res :
    /\ \A z \in m[i].res[k].eps : z.ep = e
    /\ m[i].res[k].pong => d[Uid(e, m[i].id, m[i].res[k].seq)].pongs >= 1

\* What is known of a probe that was reported as DUP.
DupsOK(m, e, t, o, d) ==
  \A u \in Uids :
    /\ \A n \in DOMAIN o[u] : o[u][n].st = "DONE" => d[u].pongs >= 1
    /\ d[u].dups > 0 => /\ u.ep = e /\ Begun(m, u)
                        /\ d[u].pongs >= 2 \/ u \notin t \/ \E n \in DOMAIN o[u] : o[u][n].st # "DONE"

Single ==
  /\ \A x \in udp : Own(x, msess, epoch)
  /\ \A p \in Pids : Mail(chan[p], epoch)
  /\ Mail(pipe, epoch)
  /\ Stamped(msess, epoch, dup)
  /\ DupsOK(msess, epoch, tracked, out, dup)
  /\ should_reload /\ Op = "DAEMON" =>
       /\ msess = <<>> /\ udp = {} /\ pipe = <<>>
       /\ \A p \in Pids : chan[p] = <<>> /\ child[p] = NoChild
       /\ \A u \in Uids : dup[u].dups = 0

Inv == Flags /\ Wires /\ Lists /\ Kids /\ (NoReload => Single)

\* The constants.
LEMMA Consts ==
  /\ NPackets \in Nat /\ Timeout \in Nat /\ MaxSeq \in Nat /\ MaxReload \in Nat /\ MaxPid \in Nat /\ MaxChan \in Nat
  /\ Period \in Nat \ {0}
  /\ \A s \in Sessions : s.ival \in Nat /\ s.id \in Ids /\ s.addr \in Addrs
  /\ \A k \in Clients : /\ k.Configs \subseteq Seq(Sessions)
                        /\ \A c \in k.Configs : \A i, j \in DOMAIN c : c[i].id = c[j].id => i = j
                        /\ k.Op = "CLIENT" => \A c \in k.Configs : Len(c) = 1
BY ClientAssumption DEF Ids, Addrs

\* client_msess_add(), client_msess_reconf()
LEMMA FreshFacts ==
  ASSUME NEW s \in Sessions, NEW e, NEW sb
  PROVE  /\ SessOK(Fresh(s), e, sb) /\ Fresh(s) \in SessT /\ Seqs(Fresh(s)) = {}
         /\ Fresh(s).id = s.id /\ Fresh(s).child = 0 /\ Fresh(s).last_seq = 0 /\ Fresh(s).res = <<>>
<1>1. Fresh(s) \in SessT
  BY Consts DEF Fresh, SessT
<1>2. /\ Fresh(s).id = s.id /\ Fresh(s).child = 0 /\ Fresh(s).last_seq = 0 /\ Fresh(s).res = <<>>
  BY DEF Fresh
<1>3. SessOK(Fresh(s), e, sb) /\ Seqs(Fresh(s)) = {}
  BY <1>1, <1>2 DEF SessOK, Seqs
<1>4. QED
  BY <1>1, <1>2, <1>3

\* client_msess_reconf(): a new list of sessions.
LEMMA FreshList ==
  ASSUME NEW n \in Nat, NEW f \in [1 .. n -> Sessions], \A i, j \in 1 .. n : f[i].id = f[j].id => i = j,
         NEW m \in [1 .. n -> SessT], \A i \in 1 .. n : m[i] = Fresh(f[i]), NEW e, NEW sb
  PROVE  /\ MsOK(m, e, sb) /\ Len(m) = n /\ DOMAIN m = 1 .. n
         /\ \A i \in DOMAIN m : m[i].child = 0 /\ m[i].res = <<>> /\ m[i].last_seq = 0 /\ Seqs(m[i]) = {}
         /\ \A u \in Uids : ~Held(m, u) /\ ~Begun(m, u)
<1>1. \A i \in 1 .. n : /\ m[i] \in SessT /\ SessOK(m[i], e, sb) /\ m[i].id = f[i].id
                        /\ m[i].child = 0 /\ m[i].res = <<>> /\ m[i].last_seq = 0 /\ Seqs(m[i]) = {}
  <2> SUFFICES ASSUME NEW i \in 1 .. n
               PROVE  /\ m[i] \in SessT /\ SessOK(m[i], e, sb) /\ m[i].id = f[i].id
                      /\ m[i].child = 0 /\ m[i].res = <<>> /\ m[i].last_seq = 0 /\ Seqs(m[i]) = {}
    OBVIOUS
  <2> DEFINE s == f[i]
  <2>1. s \in Sessions /\ m[i] = Fresh(s)
    OBVIOUS
  <2> HIDE DEF s
  <2>2. /\ SessOK(Fresh(s), e, sb) /\ Fresh(s) \in SessT /\ Seqs(Fresh(s)) = {}
        /\ Fresh(s).id = s.id /\ Fresh(s).child = 0 /\ Fresh(s).last_seq = 0 /\ Fresh(s).res = <<>>
    BY <2>1, FreshFacts
  <2>3. QED
    BY <2>1, <2>2 DEF s
<1>2. m \in [1 .. n -> SessT]
  BY <1>1
<1>3. m \in Seq(SessT) /\ Len(m) = n /\ DOMAIN m = 1 .. n
  BY <1>2, IsSeq
<1>4. MsOK(m, e, sb)
  BY <1>1, <1>3 DEF MsOK
<1>5. \A u \in Uids : ~Held(m, u) /\ ~Begun(m, u)
  <2>1. \A u \in Uids : u.seq \in Nat /\ u.seq > 0
    BY Consts, UidFacts
  <2>2. QED
    BY <1>1, <1>3, <2>1 DEF Held, Begun
<1>6. QED
  BY <1>1, <1>3, <1>4, <1>5

\* main() up to loop_or_die()
LEMMA InitInv == Init => Inv
<1> SUFFICES ASSUME Init PROVE Inv
  OBVIOUS
<1> USE DEF Init
<1>1. client \in Clients /\ Configs \subseteq Seq(Sessions)
  BY Consts DEF Configs
<1>2. /\ MsOK(msess, epoch, setback) /\ \A i \in DOMAIN msess : msess[i].child = 0 /\ msess[i].res = <<>>
      /\ \A u \in Uids : ~Held(msess, u)
      /\ Op = "DAEMON" => msess = <<>>
      /\ \A i, j \in DOMAIN msess : i = j
  <2>1. CASE Op = "CLIENT"
    <3>1. PICK c \in Configs : msess = <<Fresh(c[1])>>
      BY <2>1
    <3>2. c \in Seq(Sessions) /\ Len(c) = 1
      BY <1>1, <2>1, <3>1, Consts DEF Op, Configs
    <3> DEFINE n == 1
               f == [i \in 1 .. n |-> c[1]]
    <3>3. f \in [1 .. n -> Sessions] /\ n \in Nat
      <4>1. c[1] \in Sessions
        BY <3>2
      <4>2. QED
        BY <4>1
    <3>4. msess \in [1 .. n -> SessT] /\ \A i \in 1 .. n : msess[i] = Fresh(f[i])
      <4>1. Fresh(c[1]) \in SessT
        <5>1. c[1] \in Sessions
          BY <3>2
        <5>2. QED
          BY <5>1, FreshFacts
      <4>2. QED
        BY <3>1, <4>1
    <3>5. \A i, j \in 1 .. n : i = j
      OBVIOUS
    <3> HIDE DEF f, n
    <3>6. /\ MsOK(msess, epoch, setback) /\ Len(msess) = n /\ DOMAIN msess = 1 .. n
          /\ \A i \in DOMAIN msess : msess[i].child = 0 /\ msess[i].res = <<>>
          /\ \A u \in Uids : ~Held(msess, u)
      BY <3>3, <3>4, <3>5, FreshList
    <3>7. QED
      BY <2>1, <3>5, <3>6
  <2>2. CASE Op # "CLIENT"
    <3>1. msess = <<>>
      BY <2>2
    <3>2. QED
      BY <3>1 DEF MsOK, Held
  <2>3. QED
    BY <2>1, <2>2
<1>3. Flags
  <2>1. sends \in 0 .. Period - 1 /\ epoch \in 0 .. MaxReload + 1 /\ epoch <= MaxReload
    BY Consts
  <2>2. StopsInTime
    BY Consts DEF StopsInTime
  <2>3. QED
    BY <1>1, <2>1, <2>2 DEF Flags
<1>4. Wires
  BY DEF Wires
<1>5. Lists
  <2>1. out \in [Uids -> Seq(OutT)] /\ tracked = {} /\ \A u \in Uids : out[u] = <<>>
    OBVIOUS
  <2>2. Books(msess, epoch, tracked, out)
    BY <1>2, <2>1 DEF Books
  <2>3. AllTrue(out, NoReload)
    BY <2>1 DEF AllTrue
  <2>4. dup \in [Uids -> DupT]
    BY DEF DupT
  <2>5. QED
    BY <1>2, <2>2, <2>3, <2>4 DEF Lists
<1>6. Kids
  <2>1. child \in [Pids -> KidT \cup {NoChild}] /\ \A p \in Pids : child[p] = NoChild
    OBVIOUS
  <2>2. Runs(child) = {}
    BY <2>1 DEF Runs, NoChild
  <2>3. 0 \notin Pids
    BY DEF Pids
  <2>4. QED
    BY <1>2, <2>1, <2>2, <2>3 DEF Kids, Known, Only
<1>7. Single
  <2>1. Stamped(msess, epoch, dup)
    BY <1>2 DEF Stamped
  <2>2. \A u \in Uids : out[u] = <<>> /\ dup[u].dups = 0
    OBVIOUS
  <2>3. DupsOK(msess, epoch, tracked, out, dup)
    BY <2>2 DEF DupsOK
  <2>4. udp = {} /\ pipe = <<>> /\ \A p \in Pids : chan[p] = <<>> /\ child[p] = NoChild
    OBVIOUS
  <2>5. QED
    BY <1>2, <2>1, <2>2, <2>3, <2>4 DEF Single, Mail
<1>8. QED
  BY <1>3, <1>4, <1>5, <1>6, <1>7 DEF Inv

-----------------------------------------------------------------------------
(* The network, the children and the user *)

\* client_send_fork()
LEMMA TickInv == Inv /\ Tick => Inv'
BY DEF Inv, Tick, Flags, Wires, Lists, Kids, Single, main, procs, env, ghost, NoReload, Faults, Op, StopsInTime

\* reload(), the handler of SIGHUP.
LEMMA HupInv == Inv /\ Hup => Inv'
<1> SUFFICES ASSUME Inv, Hup PROVE Inv'
  OBVIOUS
<1>1. ~NoReload' /\ Op = "DAEMON" /\ client' = client /\ Op' = Op /\ Faults' = Faults
  BY DEF Hup, NoReload, Faults, Op
<1>2. Flags' /\ Wires'
  BY DEF Inv, Hup, Flags, Wires, StopsInTime, procs, ghost
<1>3. Lists'
  BY <1>1 DEF Inv, Hup, Lists, ghost, NoReload
<1>4. Kids'
  BY <1>1 DEF Inv, Hup, Kids, procs, ghost
<1>5. QED
  BY <1>1, <1>2, <1>3, <1>4 DEF Inv

\* What the network does to the wires.
LEMMA NetInv ==
  ASSUME Inv, UNCHANGED <<main, child, tick, env, ghost>>, Wires',
         NoReload => \A y \in udp' : Own(y, msess, epoch),
         NoReload => (\A p \in Pids : Mail(chan[p]', epoch)) /\ Mail(pipe', epoch),
         should_reload /\ Op = "DAEMON" /\ NoReload => udp' = {} /\ pipe' = <<>> /\ \A p \in Pids : chan[p]' = <<>>
  PROVE  Inv'
<1>1. NoReload' = NoReload /\ Op' = Op /\ Faults' = Faults /\ client' = client
  BY DEF env, NoReload, Op, Faults
<1>2. Flags'
  BY DEF Inv, Flags, StopsInTime, main, env, ghost
<1>3. Lists'
  BY <1>1 DEF Inv, Lists, main, env, ghost
<1>4. Kids'
  BY <1>1 DEF Inv, Kids, main
<1>5. ASSUME NoReload PROVE Single'
  BY <1>1, <1>5 DEF Inv, Single, main, ghost
<1>6. QED
  BY <1>1, <1>2, <1>3, <1>4, <1>5 DEF Inv

\* The network loses a datagram.
LEMMA LoseInv ==
  ASSUME Inv, NEW x \in udp, Lose(x)
  PROVE  Inv'
<1>1. UNCHANGED <<main, child, tick, env, ghost>> /\ UNCHANGED <<chan, pipe>> /\ udp' \subseteq udp
  BY DEF Lose, procs
<1>2. Wires'
  BY <1>1 DEF Inv, Wires
<1>3. NoReload => /\ (\A y \in udp' : Own(y, msess, epoch)) /\ (\A p \in Pids : Mail(chan[p]', epoch)) /\ Mail(pipe', epoch)
                  /\ should_reload /\ Op = "DAEMON" => udp' = {} /\ pipe' = <<>> /\ \A p \in Pids : chan[p]' = <<>>
  BY <1>1 DEF Inv, Single
<1>4. QED
  BY <1>1, <1>2, <1>3, NetInv

\* The server answers a PING.
LEMMA ServeInv ==
  ASSUME Inv, NEW x \in udp, Serve(x)
  PROVE  Inv'
<1> DEFINE pong == [x EXCEPT !.type = "PONG"]
           time == [x EXCEPT !.type = "TIME"]
<1>1. UNCHANGED <<main, child, tick, env, ghost>> /\ UNCHANGED pipe /\ udp' \subseteq udp \cup {pong}
  BY DEF Serve
<1>2. x \in UdpT /\ pong \in UdpT /\ time \in TimeT
  BY DEF Inv, Wires, UdpT, TimeT
<1>3. /\ pong.ep = x.ep /\ pong.id = x.id /\ pong.addr = x.addr /\ pong.seq = x.seq
      /\ time.ep = x.ep /\ time.type = "TIME"
  BY <1>2 DEF UdpT
<1> HIDE DEF pong
<1>4. chan' = [p \in Pids |-> IF p \in Listening(x.addr) /\ \A q \in Listening(x.addr) : q <= p
                              THEN Append(chan[p], time) ELSE chan[p]]
  BY DEF Serve
<1> HIDE DEF time
<1>5. chan \in [Pids -> Seq(TcpT)] /\ time \in TcpT
  BY <1>2 DEF Inv, Wires, TcpT
<1>6. \A p \in Pids : chan'[p] = chan[p] \/ chan'[p] = Append(chan[p], time)
  BY <1>4
<1>7. chan' \in [Pids -> Seq(TcpT)]
  <2>1. \A p \in Pids : Append(chan[p], time) \in Seq(TcpT) /\ chan[p] \in Seq(TcpT)
    BY <1>5
  <2>2. QED
    BY <1>4, <2>1
<1>8. Wires'
  BY <1>1, <1>2, <1>7 DEF Inv, Wires
<1>9. ASSUME NoReload
      PROVE  /\ (\A y \in udp' : Own(y, msess, epoch)) /\ (\A p \in Pids : Mail(chan'[p], epoch)) /\ Mail(pipe', epoch)
             /\ ~(should_reload /\ Op = "DAEMON")
  <2>1. Single
    BY <1>9 DEF Inv
  <2>2. Own(x, msess, epoch)
    BY <2>1 DEF Single
  <2>3. Own(pong, msess, epoch)
    BY <1>3, <2>2 DEF Own
  <2>4. \A p \in Pids : Mail(chan'[p], epoch)
    <3> SUFFICES ASSUME NEW p \in Pids PROVE Mail(chan'[p], epoch)
      OBVIOUS
    <3> DEFINE q == chan[p]
    <3>1. q \in Seq(TcpT) /\ Mail(q, epoch) /\ (chan'[p] = q \/ chan'[p] = Append(q, time))
      BY <1>5, <1>6, <2>1 DEF Single
    <3> HIDE DEF q
    <3>2. time.ep = epoch
      BY <1>3, <2>2 DEF Own
    <3>3. Mail(Append(q, time), epoch)
      BY <1>5, <3>1, <3>2 DEF Mail
    <3>4. QED
      BY <3>1, <3>3
  <2>5. QED
    BY <1>1, <2>1, <2>3, <2>4 DEF Single
<1>10. QED
  BY <1>1, <1>8, <1>9, NetInv

\* The children go about their work: none starts to run, none forgets its address.
LEMMA KidsStep ==
  ASSUME NEW m, NEW c \in [Pids -> KidT \cup {NoChild}], NEW c2 \in [Pids -> KidT \cup {NoChild}],
         Runs(c2) \subseteq Runs(c), \A p \in Pids : c[p] \in KidT => c2[p] \in KidT /\ c2[p].addr = c[p].addr
  PROVE  (Known(m, c) => Known(m, c2)) /\ (Only(m, c) => Only(m, c2))
BY DEF Known, Only

\* A step of a child that changes its state, its connection and the pipe.
LEMMA ChildInv ==
  ASSUME Inv, UNCHANGED <<main, tick, udp, env, ghost>>, NEW p \in Pids, child[p] \in KidT,
         NEW st \in {"connecting", "up", "dead"}, child' = [child EXCEPT ![p].st = st],
         child[p].st \in {"connecting", "up"},
         chan' \in [Pids -> Seq(TcpT)], pipe' \in Seq(TcpT),
         NoReload => (\A q \in Pids : Mail(chan'[q], epoch)) /\ Mail(pipe', epoch)
  PROVE  Inv'
<1>1. NoReload' = NoReload /\ Op' = Op /\ Faults' = Faults /\ client' = client
  BY DEF env, NoReload, Op, Faults
<1>2. Flags'
  BY DEF Inv, Flags, StopsInTime, main, env, ghost
<1>3. Lists'
  BY <1>1 DEF Inv, Lists, main, env, ghost
<1>4. Wires'
  BY DEF Inv, Wires
<1>5. child \in [Pids -> KidT \cup {NoChild}]
  BY DEF Inv, Kids
<1>6. child[p].addr \in Addrs /\ child[p] # NoChild
  BY DEF KidT, NoChild
<1> DEFINE kid == [child[p] EXCEPT !.st = st]
<1>7. kid \in KidT /\ kid.addr = child[p].addr
  BY DEF KidT
<1>8. child' = [child EXCEPT ![p] = kid]
  BY <1>5
<1> HIDE DEF kid
<1>9. child' \in [Pids -> KidT \cup {NoChild}]
  BY <1>5, <1>7, <1>8
<1>10. Runs(child') \subseteq Runs(child)
  BY <1>5, <1>8 DEF Runs
<1>11. \A q \in Pids : child[q] \in KidT => child'[q] \in KidT /\ child'[q].addr = child[q].addr
  BY <1>5, <1>7, <1>8
<1>12. Kids'
  <2>1. (Known(msess, child) => Known(msess, child')) /\ (Only(msess, child) => Only(msess, child'))
    BY <1>5, <1>9, <1>10, <1>11, KidsStep
  <2>2. QED
    BY <1>1, <1>9, <1>10, <2>1 DEF Inv, Kids, main
<1>13. ASSUME NoReload PROVE Single'
  <2>1. Single
    BY <1>13 DEF Inv
  <2>2. ~(should_reload /\ Op = "DAEMON")
    BY <1>6, <2>1 DEF Single
  <2>3. QED
    BY <1>1, <1>13, <2>1, <2>2 DEF Single, main, ghost
<1>14. QED
  BY <1>1, <1>2, <1>3, <1>4, <1>12, <1>13 DEF Inv

\* client_fork(): connect(),
LEMMA ConnectInv ==
  ASSUME Inv, NEW p \in Pids, ChildConnect(p)
  PROVE  Inv'
<1>1. /\ UNCHANGED <<main, tick, udp, env, ghost>> /\ pipe' = pipe /\ child[p].st = "connecting"
      /\ child' = [child EXCEPT ![p].st = "up"] /\ chan' = [chan EXCEPT ![p] = <<Hello(child[p].addr)>>]
  BY DEF ChildConnect
<1>2. child[p] \in KidT
  BY <1>1 DEF Inv, Kids, NoChild
<1> DEFINE h == Hello(child[p].addr)
<1>3. h \in HeloT /\ h.type = "HELO"
  BY <1>2 DEF KidT, Hello, HeloT
<1> HIDE DEF h
<1>4. chan \in [Pids -> Seq(TcpT)] /\ pipe \in Seq(TcpT) /\ <<h>> \in Seq(TcpT) /\ chan' = [chan EXCEPT ![p] = <<h>>]
  BY <1>1, <1>3 DEF Inv, Wires, h, TcpT
<1>5. chan' \in [Pids -> Seq(TcpT)]
  BY <1>4
<1>6. ASSUME NoReload PROVE (\A q \in Pids : Mail(chan'[q], epoch)) /\ Mail(pipe', epoch)
  <2>1. (\A q \in Pids : Mail(chan[q], epoch)) /\ Mail(pipe, epoch)
    BY <1>6 DEF Inv, Single
  <2>2. Mail(<<h>>, epoch)
    BY <1>3 DEF Mail
  <2>3. QED
    BY <1>1, <1>4, <2>1, <2>2
<1>7. pipe' \in Seq(TcpT)
  BY <1>1, <1>4
<1>8. QED
  BY <1>1, <1>2, <1>5, <1>6, <1>7, ChildInv

\* ... recv() fails,
LEMMA HangupInv ==
  ASSUME Inv, NEW p \in Pids, ChildHangup(p)
  PROVE  Inv'
<1>1. /\ UNCHANGED <<main, tick, udp, env, ghost>> /\ pipe' = pipe /\ child[p].st = "up"
      /\ chan' = [chan EXCEPT ![p] = <<>>]
  BY DEF ChildHangup
<1>2. child[p] \in KidT
  BY <1>1 DEF Inv, Kids, NoChild
<1>3. chan \in [Pids -> Seq(TcpT)] /\ pipe \in Seq(TcpT)
  BY DEF Inv, Wires
<1>4. chan' \in [Pids -> Seq(TcpT)] /\ pipe' \in Seq(TcpT)
  BY <1>1, <1>3
<1>5. ASSUME NoReload PROVE (\A q \in Pids : Mail(chan'[q], epoch)) /\ Mail(pipe', epoch)
  <2>1. (\A q \in Pids : Mail(chan[q], epoch)) /\ Mail(pipe, epoch)
    BY <1>5 DEF Inv, Single
  <2>2. Mail(<<>>, epoch)
    BY DEF Mail
  <2>3. QED
    BY <1>1, <1>3, <2>1, <2>2
<1>6. PICK st \in {"connecting", "up", "dead"} : child' = [child EXCEPT ![p].st = st]
  BY DEF ChildHangup
<1>7. QED
  BY <1>1, <1>2, <1>4, <1>5, <1>6, ChildInv

\* ... write() to the pipe.
LEMMA ForwardInv ==
  ASSUME Inv, NEW p \in Pids, ChildForward(p)
  PROVE  Inv'
<1>1. /\ UNCHANGED <<main, child, tick, udp, env, ghost>> /\ child[p].st = "up" /\ chan[p] # <<>>
      /\ pipe' = Append(pipe, Head(chan[p])) /\ chan' = [chan EXCEPT ![p] = Tail(@)]
  BY DEF ChildForward
<1> DEFINE q == chan[p]
           x == Head(q)
<1>2. chan \in [Pids -> Seq(TcpT)] /\ pipe \in Seq(TcpT)
  BY DEF Inv, Wires
<1>3. q \in Seq(TcpT) /\ q # <<>> /\ pipe' = Append(pipe, Head(q)) /\ chan' = [chan EXCEPT ![p] = Tail(q)]
  BY <1>1, <1>2
<1> HIDE DEF q
<1>4. /\ x \in TcpT /\ Tail(q) \in Seq(TcpT) /\ x = q[1] /\ 1 \in DOMAIN q
      /\ \A n \in DOMAIN Tail(q) : n + 1 \in DOMAIN q /\ Tail(q)[n] = q[n + 1]
  BY <1>3
<1>5. pipe' = Append(pipe, x)
  BY <1>3
<1> HIDE DEF x
<1>6. pipe' \in Seq(TcpT) /\ chan' \in [Pids -> Seq(TcpT)]
  BY <1>2, <1>3, <1>4, <1>5
<1>7. Wires'
  BY <1>1, <1>6 DEF Inv, Wires
<1>8. ASSUME NoReload
      PROVE  /\ (\A y \in udp' : Own(y, msess, epoch)) /\ (\A r \in Pids : Mail(chan'[r], epoch)) /\ Mail(pipe', epoch)
             /\ ~(should_reload /\ Op = "DAEMON")
  <2>1. Single
    BY <1>8 DEF Inv
  <2>2. Mail(q, epoch) /\ Mail(pipe, epoch)
    BY <2>1 DEF Single, q
  <2>3. Mail(Tail(q), epoch)
    BY <1>4, <2>2 DEF Mail
  <2>4. x.type = "TIME" => x.ep = epoch
    BY <1>4, <2>2 DEF Mail
  <2>5. Mail(pipe', epoch)
    BY <1>2, <1>4, <1>5, <2>2, <2>4 DEF Mail
  <2>6. \A r \in Pids : Mail(chan'[r], epoch)
    BY <1>2, <1>3, <2>1, <2>3 DEF Single
  <2>7. QED
    BY <1>1, <2>1, <2>5, <2>6 DEF Single
<1>9. QED
  BY <1>1, <1>7, <1>8, NetInv

-----------------------------------------------------------------------------
(* client_res_update() *)

\* Sessions keep their names, numbers and children.
Frame(m, m2) ==
  /\ DOMAIN m2 = DOMAIN m
  /\ \A i \in DOMAIN m : /\ m2[i].id = m[i].id /\ m2[i].addr = m[i].addr
                         /\ m2[i].child = m[i].child /\ m2[i].last_seq = m[i].last_seq

\* What depends only on names, numbers and children stays.
LEMMA FrameKeeps ==
  ASSUME NEW m, NEW m2, Frame(m, m2)
  PROVE  /\ \A c : (Known(m, c) => Known(m2, c)) /\ (Only(m, c) => Only(m2, c))
         /\ \A x, e : Own(x, m, e) => Own(x, m2, e)
         /\ \A u : Begun(m, u) <=> Begun(m2, u)
<1>1. \A c : Known(m, c) => Known(m2, c)
  BY DEF Frame, Known
<1>2. \A c : Only(m, c) => Only(m2, c)
  BY DEF Frame, Only
<1>3. \A x, e : Own(x, m, e) => Own(x, m2, e)
  BY DEF Frame, Own
<1>4. \A u : Begun(m, u) <=> Begun(m2, u)
  BY DEF Frame, Begun
<1>5. QED
  BY <1>1, <1>2, <1>3, <1>4

\* One session changes.
LEMMA OneSession ==
  ASSUME NEW m, NEW e, NEW sb, MsOK(m, e, sb), NEW i \in DOMAIN m, NEW z, SessOK(z, e, sb),
         z.id = m[i].id, z.addr = m[i].addr, z.child = m[i].child, z.last_seq = m[i].last_seq
  PROVE  /\ MsOK([m EXCEPT ![i] = z], e, sb) /\ Frame(m, [m EXCEPT ![i] = z])
         /\ [m EXCEPT ![i] = z][i] = z /\ \A j \in DOMAIN m : j # i => [m EXCEPT ![i] = z][j] = m[j]
<1> DEFINE m2 == [m EXCEPT ![i] = z]
<1>1. \A j \in DOMAIN m : SessOK(m[j], e, sb) /\ m[j] \in SessT
  BY DEF MsOK, SessOK
<1>2. m \in Seq(SessT) /\ z \in SessT
  BY DEF MsOK, SessOK
<1>3. DOMAIN m2 = DOMAIN m /\ m2[i] = z /\ \A j \in DOMAIN m : j # i => m2[j] = m[j]
  BY <1>2
<1>4. m2 \in [DOMAIN m -> SessT]
  BY <1>1, <1>2
<1> HIDE DEF m2
<1>5. \A j \in DOMAIN m : SessOK(m2[j], e, sb) /\ m2[j].id = m[j].id
  BY <1>1, <1>3
<1>6. MsOK(m2, e, sb)
  BY <1>4, <1>5, EachSession
<1>7. Frame(m, m2)
  BY <1>3 DEF Frame
<1>8. QED
  BY <1>3, <1>6, <1>7 DEF m2

\* The counters of PONGs and DUPs.
LEMMA SeenFacts ==
  ASSUME dup \in [Uids -> DupT], NEW x, NEW w \in Uids, w = Uid(x.ep, x.id, x.seq), NEW b \in BOOLEAN
  PROVE  /\ Seen(x, b) \in [Uids -> DupT]
         /\ \A u \in Uids : /\ Seen(x, b)[u].pongs >= dup[u].pongs /\ (u # w => Seen(x, b)[u] = dup[u])
                            /\ dup[u].pongs \in Nat /\ Seen(x, b)[u].pongs \in Nat
                            /\ ~b => Seen(x, b)[u].dups = dup[u].dups
         /\ x.type = "PONG" => Seen(x, b)[w].pongs >= 1 /\ (dup[w].pongs >= 1 => Seen(x, b)[w].pongs >= 2)
<1> DEFINE d == dup[w]
           d2 == [pongs |-> IF x.type = "PONG" THEN CapTwo(d.pongs) ELSE d.pongs,
                  dups  |-> IF b THEN CapTwo(d.dups) ELSE d.dups]
<1>1. d \in DupT /\ d.pongs \in 0 .. 2 /\ d.dups \in 0 .. 2
  BY DEF DupT
<1>2. Seen(x, b) = [dup EXCEPT ![w] = d2]
  BY DEF Seen
<1>3. \A n \in 0 .. 2 : CapTwo(n) \in 0 .. 2 /\ CapTwo(n) >= n /\ CapTwo(n) >= 1 /\ (n >= 1 => CapTwo(n) >= 2)
  BY DEF CapTwo
<1> HIDE DEF d
<1>4. /\ d2.pongs \in 0 .. 2 /\ d2.dups \in 0 .. 2 /\ d2.pongs >= d.pongs /\ (~b => d2.dups = d.dups)
      /\ x.type = "PONG" => d2.pongs >= 1 /\ (d.pongs >= 1 => d2.pongs >= 2)
  BY <1>1, <1>3
<1>5. d2 \in DupT
  <2> DEFINE f == IF x.type = "PONG" THEN CapTwo(d.pongs) ELSE d.pongs
             g == IF b THEN CapTwo(d.dups) ELSE d.dups
  <2>1. f \in 0 .. 2 /\ g \in 0 .. 2
    BY <1>1, <1>3
  <2> HIDE DEF f, g
  <2>2. [pongs |-> f, dups |-> g] \in DupT
    BY <2>1 DEF DupT
  <2>3. QED
    BY <2>2 DEF f, g
<1> HIDE DEF d2
<1>6. Seen(x, b) \in [Uids -> DupT]
  BY <1>2, <1>5
<1>7. \A u \in Uids : dup[u].pongs \in 0 .. 2 /\ Seen(x, b)[u].pongs \in 0 .. 2
  BY <1>6 DEF DupT
<1>8. Seen(x, b)[w] = d2 /\ \A u \in Uids : u # w => Seen(x, b)[u] = dup[u]
  BY <1>2
<1>9. \A u \in Uids : Seen(x, b)[u].pongs >= dup[u].pongs /\ (~b => Seen(x, b)[u].dups = dup[u].dups)
  <2> SUFFICES ASSUME NEW u \in Uids
               PROVE  Seen(x, b)[u].pongs >= dup[u].pongs /\ (~b => Seen(x, b)[u].dups = dup[u].dups)
    OBVIOUS
  <2>1. CASE u = w
    BY <1>4, <1>8, <2>1 DEF d
  <2>2. CASE u # w
    BY <1>7, <1>8, <2>2
  <2>3. QED
    BY <2>1, <2>2
<1>10. x.type = "PONG" => Seen(x, b)[w].pongs >= 1 /\ (dup[w].pongs >= 1 => Seen(x, b)[w].pongs >= 2)
  BY <1>4, <1>8 DEF d
<1>11. \A u \in Uids : dup[u].pongs \in Nat /\ Seen(x, b)[u].pongs \in Nat
  BY <1>7
<1>12. QED
  BY <1>6, <1>8, <1>9, <1>10, <1>11

\* A message client_res_update() is called with.
AnswerT == {x \in UdpT \cup TimeT : x.type # "PING"}

\* What a message is about.
LEMMA AnswerFacts ==
  ASSUME NEW x \in AnswerT
  PROVE  /\ x.type \in {"PONG", "TIME"} /\ x.ep \in Nat /\ Uid(x.ep, x.id, x.seq) \in Uids
         /\ x.id \in Ids /\ x.seq \in 1 .. MaxSeq /\ x.ep \in 0 .. MaxReload + 1
<1>1. /\ x.type \in {"PONG", "TIME"} /\ x.ep \in 0 .. MaxReload + 1 /\ x.id \in Ids /\ x.seq \in 1 .. MaxSeq
  BY DEF AnswerT, UdpT, TimeT
<1>2. x.ep \in Nat
  BY <1>1, Consts
<1>3. QED
  BY <1>1, <1>2, UidFacts

\* What an update leaves behind.
Updated(m2, o2, d2) ==
  /\ MsOK(m2, epoch, setback) /\ Books(m2, epoch, tracked, o2) /\ AllTrue(o2, NoReload) /\ Frame(msess, m2)
  /\ d2 \in [Uids -> DupT]
  /\ NoReload => Stamped(m2, epoch, d2) /\ DupsOK(m2, epoch, tracked, o2, d2)

\* No probe matches.
LEMMA UpdateNone ==
  ASSUME Inv, NEW x \in AnswerT, NoReload => x.ep = epoch /\ (x.type = "PONG" => Own(x, msess, epoch)),
         NEW b \in BOOLEAN, b => IsDup(x),
         \A i \in SessionOf(x), k \in 1 .. MaxSeq : k \notin Matches(i, x)
  PROVE  Updated(msess, out, Seen(x, b))
<1> DEFINE w == Uid(x.ep, x.id, x.seq)
           d2 == Seen(x, b)
<1>1. w \in Uids /\ w.ep = x.ep /\ w.id = x.id /\ w.seq = x.seq
  BY AnswerFacts, UidFacts
<1>2. dup \in [Uids -> DupT] /\ MsOK(msess, epoch, setback) /\ Books(msess, epoch, tracked, out) /\ AllTrue(out, NoReload)
  BY DEF Inv, Lists
<1>3. /\ d2 \in [Uids -> DupT]
      /\ \A u \in Uids : /\ d2[u].pongs >= dup[u].pongs /\ (u # w => d2[u] = dup[u])
                         /\ dup[u].pongs \in Nat /\ d2[u].pongs \in Nat
                         /\ ~b => d2[u].dups = dup[u].dups
      /\ x.type = "PONG" => d2[w].pongs >= 1 /\ (dup[w].pongs >= 1 => d2[w].pongs >= 2)
  <2> HIDE DEF w
  <2>1. w = Uid(x.ep, x.id, x.seq)
    BY DEF w
  <2>2. QED
    BY <1>1, <1>2, <2>1, SeenFacts
<1> HIDE DEF d2, w
<1>4. Frame(msess, msess)
  BY DEF Frame
<1>5. ASSUME NoReload PROVE Stamped(msess, epoch, d2) /\ DupsOK(msess, epoch, tracked, out, d2)
  <2>1. Stamped(msess, epoch, dup) /\ DupsOK(msess, epoch, tracked, out, dup)
    BY <1>5 DEF Inv, Single
  <2>2. Stamped(msess, epoch, d2)
    <3>1. \A i \in DOMAIN msess : \A k \in DOMAIN msess[i].res : Uid(epoch, msess[i].id, msess[i].res[k].seq) \in Uids
      <4> SUFFICES ASSUME NEW i \in DOMAIN msess, NEW k \in DOMAIN msess[i].res
                   PROVE  Uid(epoch, msess[i].id, msess[i].res[k].seq) \in Uids
        OBVIOUS
      <4>1. msess[i] \in SessT
        BY <1>2 DEF MsOK, SessOK
      <4>2. msess[i].id \in Ids /\ msess[i].res[k] \in ProbeT
        BY <4>1 DEF SessT
      <4>3. msess[i].res[k].seq \in 1 .. MaxSeq /\ epoch \in 0 .. MaxReload + 1
        BY <4>2 DEF ProbeT, Inv, Flags
      <4>4. QED
        BY <4>2, <4>3, UidFacts
    <3>2. \A u \in Uids : dup[u].pongs >= 1 => d2[u].pongs >= 1
      BY <1>3
    <3>3. QED
      BY <2>1, <3>1, <3>2 DEF Stamped
  <2>3. \A u \in Uids : d2[u].dups > 0 => dup[u].dups > 0 \/ (b /\ u = w)
    BY <1>3
  <2>4. ASSUME b
        PROVE  /\ w.ep = epoch /\ Begun(msess, w)
               /\ d2[w].pongs >= 2 \/ w \notin tracked \/ \E n \in DOMAIN out[w] : out[w][n].st # "DONE"
    <3>1. x.type = "PONG" /\ \E i \in DOMAIN msess : msess[i].addr = x.addr /\ msess[i].id = x.id /\ msess[i].last_seq >= x.seq
      BY <2>4 DEF IsDup
    <3>2. w.ep = epoch
      BY <1>1, <1>5
    <3>3. Begun(msess, w)
      <4>1. PICK i \in DOMAIN msess : msess[i].addr = x.addr /\ msess[i].id = x.id /\ msess[i].last_seq >= x.seq
        BY <3>1
      <4>2. msess[i].last_seq \in 0 .. MaxSeq
        BY <1>2 DEF MsOK, SessOK, SessT
      <4>3. msess[i].last_seq \in Nat /\ w.seq \in Nat
        BY <1>1, <4>2, Consts, UidFacts
      <4>4. QED
        BY <1>1, <4>1, <4>3 DEF Begun
    <3>4. ASSUME w \in tracked PROVE d2[w].pongs >= 2 \/ \E n \in DOMAIN out[w] : out[w][n].st # "DONE"
      <4>1. ~Held(msess, w)
        <5> SUFFICES ASSUME Held(msess, w) PROVE FALSE
          OBVIOUS
        <5>1. PICK i \in DOMAIN msess : msess[i].id = w.id /\ w.seq \in Seqs(msess[i])
          BY DEF Held
        <5>2. PICK k \in DOMAIN msess[i].res : w.seq = msess[i].res[k].seq
          BY <5>1 DEF Seqs
        <5>3. msess[i].res[k].addr = msess[i].addr
          BY <1>2 DEF MsOK, SessOK, ProbeOK
        <5>4. msess[i].addr = x.addr
          BY <1>1, <1>2, <3>1, <5>1 DEF MsOK
        <5>5. k \in 1 .. MaxSeq
          <6>1. msess[i].res \in Seq(ProbeT) /\ Len(msess[i].res) <= msess[i].last_seq /\ msess[i].last_seq \in 0 .. MaxSeq
            BY <1>2 DEF MsOK, SessOK, SessT
          <6>2. QED
            BY <6>1, Consts
        <5>6. i \in SessionOf(x) /\ k \in Matches(i, x)
          BY <1>1, <5>1, <5>2, <5>3, <5>4 DEF SessionOf, Matches
        <5>7. QED
          BY <5>5, <5>6
      <4>2. out[w] # <<>> /\ out[w] \in Seq(OutT)
        BY <1>1, <1>2, <3>2, <3>4, <4>1 DEF Books
      <4>3. 1 \in DOMAIN out[w]
        BY <4>2
      <4>4. out[w][1].st = "DONE" => dup[w].pongs >= 1
        BY <1>1, <2>1, <4>3 DEF DupsOK
      <4>5. QED
        BY <1>3, <3>1, <4>3, <4>4
    <3>5. QED
      BY <3>2, <3>3, <3>4
  <2>5. DupsOK(msess, epoch, tracked, out, d2)
    <3> SUFFICES ASSUME NEW u \in Uids
                 PROVE  /\ \A n \in DOMAIN out[u] : out[u][n].st = "DONE" => d2[u].pongs >= 1
                        /\ d2[u].dups > 0 => /\ u.ep = epoch /\ Begun(msess, u)
                                             /\ d2[u].pongs >= 2 \/ u \notin tracked \/ \E n \in DOMAIN out[u] : out[u][n].st # "DONE"
      BY DEF DupsOK
    <3>1. d2[u].pongs >= dup[u].pongs /\ d2[u].pongs \in Nat /\ dup[u].pongs \in Nat
      BY <1>3
    <3>2. \A n \in DOMAIN out[u] : out[u][n].st = "DONE" => d2[u].pongs >= 1
      BY <2>1, <3>1 DEF DupsOK
    <3>3. CASE dup[u].dups > 0
      BY <2>1, <3>1, <3>2, <3>3 DEF DupsOK
    <3>4. CASE ~(dup[u].dups > 0)
      BY <2>3, <2>4, <3>2, <3>4
    <3>5. QED
      BY <3>3, <3>4
  <2>6. QED
    BY <2>2, <2>5
<1>6. Updated(msess, out, d2)
  BY <1>2, <1>3, <1>4, <1>5 DEF Updated
<1>7. QED
  BY <1>6 DEF d2

\* The probe a message matches.
LEMMA MatchFacts ==
  ASSUME Inv, NEW x \in AnswerT, NEW i \in SessionOf(x), NEW k \in Matches(i, x), NEW r, r = Marked(msess[i].res[k], x)
  PROVE  /\ i \in DOMAIN msess /\ msess[i].id = x.id /\ SessOK(msess[i], epoch, setback) /\ msess[i] \in SessT
         /\ k \in DOMAIN msess[i].res /\ msess[i].res \in Seq(ProbeT)
         /\ msess[i].res[k].seq = x.seq /\ msess[i].res[k].ep = epoch
         /\ r \in ProbeT /\ r.seq = x.seq /\ r.ep = epoch
         /\ r.pong = (msess[i].res[k].pong \/ x.type = "PONG")
         /\ r.eps = msess[i].res[k].eps \cup {[type |-> x.type, ep |-> x.ep]}
         /\ {t.type : t \in r.eps} = Got(r)
         /\ ~(r.pong /\ r.time) => ProbeOK(r, msess[i], epoch, setback)
         /\ Uid(epoch, x.id, x.seq) \in Uids /\ Held(msess, Uid(epoch, x.id, x.seq)) /\ out[Uid(epoch, x.id, x.seq)] = <<>>
<1> DEFINE s == msess[i]
           r0 == s.res[k]
           u == Uid(epoch, x.id, x.seq)
<1>1. i \in DOMAIN msess /\ s.id = x.id /\ k \in DOMAIN s.res /\ r0.seq = x.seq
  BY DEF SessionOf, Matches
<1>2. MsOK(msess, epoch, setback) /\ Books(msess, epoch, tracked, out) /\ epoch \in 0 .. MaxReload + 1
  BY DEF Inv, Lists, Flags
<1>3. SessOK(s, epoch, setback) /\ s \in SessT
  BY <1>1, <1>2 DEF MsOK, SessOK
<1>4. s.res \in Seq(ProbeT) /\ ProbeOK(r0, s, epoch, setback)
  BY <1>1, <1>3 DEF SessOK, SessT
<1>5. r0 \in ProbeT /\ r0.ep = epoch
  BY <1>1, <1>4 DEF ProbeOK
<1>6. x.type \in {"PONG", "TIME"} /\ x.ep \in Nat
  BY AnswerFacts
<1>7. r = Marked(r0, x)
  OBVIOUS
<1> HIDE DEF r0
<1>8. /\ r \in ProbeT /\ r.seq = r0.seq /\ r.ep = r0.ep
      /\ r.pong = (r0.pong \/ x.type = "PONG")
      /\ r.eps = r0.eps \cup {[type |-> x.type, ep |-> x.ep]}
      /\ {t.type : t \in r.eps} = Got(r)
      /\ ~(r.pong /\ r.time) => ProbeOK(r, s, epoch, setback)
  <2> HIDE DEF s
  <2>1. QED
    BY <1>4, <1>5, <1>6, <1>7, MarkedProbe
<1>9. u \in Uids /\ u.ep = epoch /\ u.id = x.id /\ u.seq = x.seq
  BY <1>2, AnswerFacts, UidFacts
<1>10. Held(msess, u)
  BY <1>1, <1>9 DEF Held, Seqs, r0
<1>11. out[u] = <<>>
  BY <1>2, <1>9, <1>10 DEF Books
<1>12. QED
  BY <1>1, <1>3, <1>4, <1>5, <1>8, <1>9, <1>10, <1>11 DEF r0

\* The duplicates after a match: the PONG, if it is one, is counted.
LEMMA MatchDups ==
  ASSUME Inv, NoReload, NEW x \in AnswerT, x.ep = epoch, NEW u \in Uids, u = Uid(epoch, x.id, x.seq),
         NEW m2, Frame(msess, m2), NEW o2,
         \A v \in Uids : v # u => o2[v] = out[v],
         \/ o2[u] = out[u]
         \/ out[u] = <<>> /\ \A n \in DOMAIN o2[u] : o2[u][n].st = "DONE" => x.type = "PONG" \/ dup[u].pongs >= 1
  PROVE  /\ DupsOK(m2, epoch, tracked, o2, Seen(x, FALSE))
         /\ \A v \in Uids : dup[v].pongs >= 1 => Seen(x, FALSE)[v].pongs >= 1
         /\ x.type = "PONG" => Seen(x, FALSE)[u].pongs >= 1
         /\ Seen(x, FALSE) \in [Uids -> DupT]
<1> DEFINE d2 == Seen(x, FALSE)
<1>1. dup \in [Uids -> DupT] /\ DupsOK(msess, epoch, tracked, out, dup)
  BY DEF Inv, Lists, Single
<1>2. /\ d2 \in [Uids -> DupT]
      /\ \A v \in Uids : /\ d2[v].pongs >= dup[v].pongs
                         /\ dup[v].pongs \in Nat /\ d2[v].pongs \in Nat /\ d2[v].dups = dup[v].dups
      /\ x.type = "PONG" => d2[u].pongs >= 1
  <2>1. u = Uid(x.ep, x.id, x.seq)
    OBVIOUS
  <2>2. QED
    BY <1>1, <2>1, SeenFacts
<1> HIDE DEF d2
<1>3. \A v \in Uids : (dup[v].pongs >= 1 => d2[v].pongs >= 1) /\ (dup[v].pongs >= 2 => d2[v].pongs >= 2)
  BY <1>2
<1>4. \A v \in Uids : Begun(msess, v) => Begun(m2, v)
  BY FrameKeeps
<1>5. DupsOK(m2, epoch, tracked, o2, d2)
  <2> SUFFICES ASSUME NEW v \in Uids
               PROVE  /\ \A n \in DOMAIN o2[v] : o2[v][n].st = "DONE" => d2[v].pongs >= 1
                      /\ d2[v].dups > 0 => /\ v.ep = epoch /\ Begun(m2, v)
                                           /\ d2[v].pongs >= 2 \/ v \notin tracked \/ \E n \in DOMAIN o2[v] : o2[v][n].st # "DONE"
    BY DEF DupsOK
  <2>1. CASE o2[v] = out[v]
    BY <1>1, <1>2, <1>3, <1>4, <2>1 DEF DupsOK
  <2>2. CASE v = u /\ out[u] = <<>> /\ \A n \in DOMAIN o2[u] : o2[u][n].st = "DONE" => x.type = "PONG" \/ dup[u].pongs >= 1
    <3>1. \A n \in DOMAIN o2[u] : o2[u][n].st = "DONE" => d2[u].pongs >= 1
      BY <1>2, <1>3, <2>2
    <3>2. d2[u].dups > 0 => /\ u.ep = epoch /\ Begun(m2, u)
                            /\ d2[u].pongs >= 2 \/ u \notin tracked
      BY <1>1, <1>2, <1>3, <1>4, <2>2 DEF DupsOK
    <3>3. QED
      BY <2>2, <3>1, <3>2
  <2>3. QED
    BY <2>1, <2>2
<1>6. QED
  BY <1>2, <1>3, <1>5 DEF d2

\* A probe is marked and still waits for the other answer.
LEMMA UpdateMark ==
  ASSUME Inv, NEW x \in AnswerT, NoReload => x.ep = epoch,
         NEW i \in SessionOf(x), NEW k \in Matches(i, x), NEW r, r = Marked(msess[i].res[k], x), ~(r.pong /\ r.time)
  PROVE  Updated([msess EXCEPT ![i].res[k] = r], out, Seen(x, FALSE))
<1> DEFINE s == msess[i]
           q == [s.res EXCEPT ![k] = r]
           z == [s EXCEPT !.res = q]
           m2 == [msess EXCEPT ![i] = z]
           u == Uid(epoch, x.id, x.seq)
<1>1. /\ i \in DOMAIN msess /\ s.id = x.id /\ SessOK(s, epoch, setback) /\ s \in SessT
      /\ k \in DOMAIN s.res /\ s.res \in Seq(ProbeT) /\ s.res[k].seq = x.seq
      /\ r \in ProbeT /\ r.seq = x.seq /\ r.ep = epoch
      /\ r.pong = (s.res[k].pong \/ x.type = "PONG")
      /\ r.eps = s.res[k].eps \cup {[type |-> x.type, ep |-> x.ep]}
      /\ ProbeOK(r, s, epoch, setback) /\ u \in Uids
  BY MatchFacts
<1>2. MsOK(msess, epoch, setback) /\ Books(msess, epoch, tracked, out) /\ AllTrue(out, NoReload) /\ dup \in [Uids -> DupT]
  BY DEF Inv, Lists
<1>3. [msess EXCEPT ![i].res[k] = r] = m2
  BY <1>1, <1>2 DEF MsOK, SessT
<1>4. q \in Seq(ProbeT) /\ Len(q) = Len(s.res) /\ DOMAIN q = DOMAIN s.res /\ q[k] = r /\ \A l \in DOMAIN s.res : l # k => q[l] = s.res[l]
  BY <1>1
<1>5. z.res = q /\ z.id = s.id /\ z.addr = s.addr /\ z.child = s.child /\ z.last_seq = s.last_seq
  BY <1>1 DEF SessT
<1>6. \A l \in DOMAIN s.res : q[l].seq = s.res[l].seq /\ ProbeOK(q[l], s, epoch, setback)
  BY <1>1, <1>4 DEF SessOK
<1>7. SessOK(z, epoch, setback) /\ Seqs(z) = Seqs(s)
  <2> HIDE DEF q, s
  <2>1. QED
    BY <1>1, <1>4, <1>6, SameProbes
<1> HIDE DEF q, z, u
<1>8. MsOK(m2, epoch, setback) /\ Frame(msess, m2) /\ m2[i] = z /\ \A j \in DOMAIN msess : j # i => m2[j] = msess[j]
  <2>1. SessOK(z, epoch, setback) /\ z.id = msess[i].id /\ z.addr = msess[i].addr /\ z.child = msess[i].child /\ z.last_seq = msess[i].last_seq
    BY <1>5, <1>7
  <2>2. QED
    BY <1>1, <1>2, <2>1, OneSession
<1> HIDE DEF m2
<1>9. Books(m2, epoch, tracked, out)
  <2>1. /\ DOMAIN m2 = DOMAIN msess
        /\ \A j \in DOMAIN msess : m2[j].id = msess[j].id /\ m2[j].last_seq = msess[j].last_seq /\ Seqs(m2[j]) = Seqs(msess[j])
    BY <1>7, <1>8 DEF Frame
  <2>2. \A v \in Uids : (Held(m2, v) <=> Held(msess, v)) /\ (Begun(msess, v) <=> Begun(m2, v))
    BY <2>1, SameBooks
  <2>3. QED
    BY <1>2, <2>2, BooksKept
<1> DEFINE d2 == Seen(x, FALSE)
<1>10. d2 \in [Uids -> DupT]
  <2> DEFINE w == Uid(x.ep, x.id, x.seq)
  <2>1. w \in Uids
    BY AnswerFacts
  <2>2. QED
    BY <1>2, <2>1, SeenFacts
<1>11. ASSUME NoReload PROVE Stamped(m2, epoch, d2) /\ DupsOK(m2, epoch, tracked, out, d2)
  <2>1. u = Uid(epoch, x.id, x.seq) /\ x.ep = epoch
    BY <1>11 DEF u
  <2>2. /\ DupsOK(m2, epoch, tracked, out, d2)
        /\ \A v \in Uids : dup[v].pongs >= 1 => d2[v].pongs >= 1
        /\ x.type = "PONG" => d2[u].pongs >= 1
    BY <1>1, <1>8, <1>11, <2>1, MatchDups
  <2> HIDE DEF d2
  <2>3. Stamped(msess, epoch, dup)
    BY <1>11 DEF Inv, Single
  <2>4. \A j \in DOMAIN msess : \A l \in DOMAIN msess[j].res : Uid(epoch, msess[j].id, msess[j].res[l].seq) \in Uids
    <3> SUFFICES ASSUME NEW j \in DOMAIN msess, NEW l \in DOMAIN msess[j].res
                 PROVE  Uid(epoch, msess[j].id, msess[j].res[l].seq) \in Uids
      OBVIOUS
    <3>1. msess[j].id \in Ids /\ msess[j].res[l] \in ProbeT
      BY <1>2 DEF MsOK, SessOK, SessT
    <3>2. msess[j].res[l].seq \in 1 .. MaxSeq /\ epoch \in 0 .. MaxReload + 1
      BY <3>1 DEF ProbeT, Inv, Flags
    <3>3. QED
      BY <3>1, <3>2, UidFacts
  <2>5. \A j \in DOMAIN msess : \A l \in DOMAIN msess[j].res :
          /\ \A y \in msess[j].res[l].eps : y.ep = epoch
          /\ msess[j].res[l].pong => d2[Uid(epoch, msess[j].id, msess[j].res[l].seq)].pongs >= 1
    BY <2>2, <2>3, <2>4 DEF Stamped
  <2>6. \A y \in r.eps : y.ep = epoch
    BY <1>1, <2>1, <2>5
  <2>7. r.pong => d2[u].pongs >= 1
    BY <1>1, <2>1, <2>2, <2>5
  <2>8. Stamped(m2, epoch, d2)
    <3> SUFFICES ASSUME NEW j \in DOMAIN m2, NEW l \in DOMAIN m2[j].res
                 PROVE  /\ \A y \in m2[j].res[l].eps : y.ep = epoch
                        /\ m2[j].res[l].pong => d2[Uid(epoch, m2[j].id, m2[j].res[l].seq)].pongs >= 1
      BY DEF Stamped
    <3>1. j \in DOMAIN msess
      BY <1>8 DEF Frame
    <3>2. CASE j # i
      BY <1>8, <2>5, <3>1, <3>2
    <3>3. CASE j = i /\ l # k
      <4>1. l \in DOMAIN s.res /\ m2[j].res[l] = s.res[l] /\ m2[j].id = s.id
        BY <1>4, <1>5, <1>8, <3>3
      <4>2. QED
        BY <1>1, <2>5, <4>1
    <3>4. CASE j = i /\ l = k
      <4>1. m2[j].res[l] = r /\ m2[j].id = s.id
        BY <1>4, <1>5, <1>8, <3>4
      <4>2. QED
        BY <1>1, <2>1, <2>6, <2>7, <4>1
    <3>5. QED
      BY <3>2, <3>3, <3>4
  <2>9. QED
    BY <2>2, <2>8
<1>12. Updated(m2, out, d2)
  BY <1>2, <1>8, <1>9, <1>10, <1>11 DEF Updated
<1>13. QED
  BY <1>3, <1>12

\* A probe has both answers.
LEMMA UpdateFinish ==
  ASSUME Inv, NEW x \in AnswerT, NoReload => x.ep = epoch,
         NEW i \in SessionOf(x), NEW k \in Matches(i, x), NEW r, r = Marked(msess[i].res[k], x), r.pong /\ r.time
  PROVE  Updated([msess EXCEPT ![i] = Finish(@, k, r)],
                 [out EXCEPT ![Uid(r.ep, msess[i].id, r.seq)] = Append(@, [st |-> "DONE", eps |-> r.eps])], Seen(x, FALSE))
<1> DEFINE s == msess[i]
           z == Finish(s, k, r)
           m2 == [msess EXCEPT ![i] = z]
           u == Uid(epoch, x.id, x.seq)
           v == [st |-> "DONE", eps |-> r.eps]
           o2 == [out EXCEPT ![u] = Append(@, v)]
           d2 == Seen(x, FALSE)
<1>1. /\ i \in DOMAIN msess /\ s.id = x.id /\ SessOK(s, epoch, setback) /\ s \in SessT
      /\ k \in DOMAIN s.res /\ s.res \in Seq(ProbeT) /\ s.res[k].seq = x.seq
      /\ r \in ProbeT /\ r.seq = x.seq /\ r.ep = epoch
      /\ r.pong = (s.res[k].pong \/ x.type = "PONG")
      /\ r.eps = s.res[k].eps \cup {[type |-> x.type, ep |-> x.ep]} /\ {t.type : t \in r.eps} = Got(r)
      /\ u \in Uids /\ Held(msess, u) /\ out[u] = <<>>
  BY MatchFacts
<1>2. MsOK(msess, epoch, setback) /\ Books(msess, epoch, tracked, out) /\ AllTrue(out, NoReload) /\ dup \in [Uids -> DupT]
  BY DEF Inv, Lists
<1>3. /\ m2 = [msess EXCEPT ![i] = Finish(@, k, r)]
      /\ o2 = [out EXCEPT ![Uid(r.ep, msess[i].id, r.seq)] = Append(@, [st |-> "DONE", eps |-> r.eps])]
  BY <1>1
<1>4. SessOK(z, epoch, setback) /\ Seqs(z) = Seqs(s) \ {s.res[k].seq}
  <2> HIDE DEF s
  <2>1. QED
    BY <1>1, FinishSession
<1>5. z.res = Remove(s.res, k) /\ z.id = s.id /\ z.addr = s.addr /\ z.child = s.child /\ z.last_seq = s.last_seq
  BY <1>1 DEF SessT, Finish
<1>6. \A l \in DOMAIN z.res : \E j \in DOMAIN s.res : z.res[l] = s.res[j]
  <2> DEFINE q == s.res
  <2>1. q \in Seq(ProbeT) /\ k \in DOMAIN q
    BY <1>1
  <2> HIDE DEF q
  <2>2. \A l \in DOMAIN Remove(q, k) : \E j \in (DOMAIN q) \ {k} : Remove(q, k)[l] = q[j]
    BY <2>1, RemoveFacts
  <2>3. QED
    BY <1>5, <2>2 DEF q
<1>7. u.ep = epoch /\ u.id = x.id /\ u.seq = x.seq /\ u = Uid(epoch, x.id, x.seq)
  BY UidFacts
<1> HIDE DEF z, u
<1>8. MsOK(m2, epoch, setback) /\ Frame(msess, m2) /\ m2[i] = z /\ \A j \in DOMAIN msess : j # i => m2[j] = msess[j]
  <2>1. SessOK(z, epoch, setback) /\ z.id = msess[i].id /\ z.addr = msess[i].addr /\ z.child = msess[i].child /\ z.last_seq = msess[i].last_seq
    BY <1>4, <1>5
  <2>2. QED
    BY <1>1, <1>2, <2>1, OneSession
<1> HIDE DEF m2
<1>9. v \in OutT /\ v.st = "DONE" /\ v.eps = r.eps
  BY <1>1 DEF OutT, ProbeT
<1>10. OutTrue(v, u, NoReload)
  <2>1. ASSUME NoReload PROVE r.eps = {[type |-> "PONG", ep |-> epoch], [type |-> "TIME", ep |-> epoch]}
    <3>1. \A y \in r.eps : y.ep = epoch
      <4>1. \A y \in s.res[k].eps : y.ep = epoch
        BY <1>1, <2>1 DEF Inv, Single, Stamped
      <4>2. QED
        BY <1>1, <2>1, <4>1
    <3>2. \A y \in r.eps : y = [type |-> y.type, ep |-> y.ep]
      BY <1>1 DEF ProbeT, Stamp
    <3>3. Got(r) = {"PONG", "TIME"}
      BY DEF Got
    <3>4. \A y \in r.eps : y.type \in {"PONG", "TIME"}
      BY <1>1, <3>3
    <3>5. PICK y1 \in r.eps : y1.type = "PONG"
      BY <1>1, <3>3
    <3>6. PICK y2 \in r.eps : y2.type = "TIME"
      BY <1>1, <3>3
    <3>7. y1 = [type |-> "PONG", ep |-> epoch] /\ y2 = [type |-> "TIME", ep |-> epoch]
      BY <3>1, <3>2, <3>5, <3>6
    <3>8. \A y \in r.eps : y = [type |-> "PONG", ep |-> epoch] \/ y = [type |-> "TIME", ep |-> epoch]
      BY <3>1, <3>2, <3>4
    <3>9. QED
      BY <3>5, <3>6, <3>7, <3>8
  <2>2. QED
    BY <1>7, <1>9, <2>1 DEF OutTrue
<1> HIDE DEF v
<1>11. out \in [Uids -> Seq(OutT)]
  BY <1>2 DEF Books
<1>12. o2[u] = <<v>> /\ o2[u] = Append(out[u], v) /\ (\A y \in Uids : y # u => o2[y] = out[y]) /\ o2 \in [Uids -> Seq(OutT)]
  <2>1. o2[u] = Append(out[u], v) /\ \A y \in Uids : y # u => o2[y] = out[y]
    BY <1>1, <1>11
  <2>2. Append(out[u], v) = <<v>> /\ Append(out[u], v) \in Seq(OutT)
    BY <1>1, <1>9
  <2>3. o2 \in [Uids -> Seq(OutT)]
    BY <1>11, <2>2
  <2>4. QED
    BY <2>1, <2>2, <2>3
<1> HIDE DEF o2
<1>13. AllTrue(o2, NoReload)
  BY <1>2, <1>10, <1>12 DEF AllTrue
<1>14. Books(m2, epoch, tracked, o2)
  <2>1. \A y \in Uids : Begun(msess, y) => Begun(m2, y)
    BY <1>8, FrameKeeps
  <2>2. ~Held(m2, u)
    BY <1>1, <1>2, <1>4, <1>5, <1>7, <1>8 DEF Held, Frame, MsOK
  <2>3. \A y \in Uids : y # u /\ y.ep = epoch => (Held(m2, y) <=> Held(msess, y))
    <3> SUFFICES ASSUME NEW y \in Uids, y # u, y.ep = epoch PROVE Held(m2, y) <=> Held(msess, y)
      OBVIOUS
    <3>1. y.id # x.id \/ y.seq # x.seq
      BY <1>7, UidFacts
    <3>2. \A j \in DOMAIN msess : m2[j].id = msess[j].id /\ (msess[j].id = y.id => (y.seq \in Seqs(m2[j]) <=> y.seq \in Seqs(msess[j])))
      BY <1>1, <1>4, <1>8, <3>1 DEF Frame
    <3>3. QED
      BY <1>8, <3>2 DEF Held, Frame
  <2>4. \A y \in Uids : /\ Begun(msess, y) => Begun(m2, y)
                        /\ \/ o2[y] = out[y] /\ (y.ep = epoch => (Held(m2, y) <=> Held(msess, y)))
                           \/ /\ y.ep = epoch /\ Held(msess, y) /\ ~Held(m2, y)
                              /\ \E p \in OutT : o2[y] = Append(out[y], p)
    BY <1>1, <1>7, <1>9, <1>12, <2>1, <2>2, <2>3
  <2>5. QED
    BY <1>2, <1>12, <2>4, BooksClose
<1>15. d2 \in [Uids -> DupT]
  <2> DEFINE w == Uid(x.ep, x.id, x.seq)
  <2>1. w \in Uids
    BY AnswerFacts
  <2>2. QED
    BY <1>2, <2>1, SeenFacts
<1>16. ASSUME NoReload PROVE Stamped(m2, epoch, d2) /\ DupsOK(m2, epoch, tracked, o2, d2)
  <2>1. Stamped(msess, epoch, dup) /\ x.ep = epoch
    BY <1>16 DEF Inv, Single
  <2>2. x.type = "PONG" \/ dup[u].pongs >= 1
    BY <1>1, <1>7, <2>1 DEF Stamped
  <2>3. /\ DupsOK(m2, epoch, tracked, o2, d2)
        /\ \A y \in Uids : dup[y].pongs >= 1 => d2[y].pongs >= 1
    BY <1>1, <1>7, <1>8, <1>12, <1>16, <2>1, <2>2, MatchDups
  <2> HIDE DEF d2
  <2>4. \A j \in DOMAIN msess : \A l \in DOMAIN msess[j].res : Uid(epoch, msess[j].id, msess[j].res[l].seq) \in Uids
    <3> SUFFICES ASSUME NEW j \in DOMAIN msess, NEW l \in DOMAIN msess[j].res
                 PROVE  Uid(epoch, msess[j].id, msess[j].res[l].seq) \in Uids
      OBVIOUS
    <3>1. msess[j].id \in Ids /\ msess[j].res[l] \in ProbeT
      BY <1>2 DEF MsOK, SessOK, SessT
    <3>2. msess[j].res[l].seq \in 1 .. MaxSeq /\ epoch \in 0 .. MaxReload + 1
      BY <3>1 DEF ProbeT, Inv, Flags
    <3>3. QED
      BY <3>1, <3>2, UidFacts
  <2>5. \A j \in DOMAIN msess : \A l \in DOMAIN msess[j].res :
          /\ \A y \in msess[j].res[l].eps : y.ep = epoch
          /\ msess[j].res[l].pong => d2[Uid(epoch, msess[j].id, msess[j].res[l].seq)].pongs >= 1
    BY <2>1, <2>3, <2>4 DEF Stamped
  <2>6. \A j \in DOMAIN msess : /\ m2[j].id = msess[j].id
                                /\ \A l \in DOMAIN m2[j].res : \E n \in DOMAIN msess[j].res : m2[j].res[l] = msess[j].res[n]
    BY <1>6, <1>8 DEF Frame
  <2>7. Stamped(m2, epoch, d2)
    BY <1>8, <2>5, <2>6 DEF Stamped, Frame
  <2>8. QED
    BY <2>3, <2>7
<1>17. Updated(m2, o2, d2)
  BY <1>8, <1>13, <1>14, <1>15, <1>16 DEF Updated
<1>18. QED
  BY <1>3, <1>17

\* The lists change, the sessions' names, numbers and children do not.
LEMMA ListsInv ==
  ASSUME Inv, UNCHANGED <<should_reload, child, client, epoch, tracked>>, sends' = sends, tick' = tick,
         setback' \in BOOLEAN, MsOK(msess', epoch, setback'), Books(msess', epoch, tracked, out'), AllTrue(out', NoReload),
         Frame(msess, msess'), dup' \in [Uids -> DupT],
         NoReload => Stamped(msess', epoch, dup') /\ DupsOK(msess', epoch, tracked, out', dup'),
         res_ok' \in Nat, pc' \in {"run", "exit", "alone"}, StopsInTime',
         Wires', udp' \subseteq udp, chan' = chan, NoReload => Mail(pipe', epoch),
         NoReload => ~(should_reload /\ Op = "DAEMON")
  PROVE  Inv'
<1>1. NoReload' = NoReload /\ Op' = Op /\ Faults' = Faults
  BY DEF NoReload, Op, Faults
<1>2. Flags'
  BY DEF Inv, Flags
<1>3. Lists'
  BY <1>1 DEF Lists
<1>4. Kids'
  <2>1. (Known(msess, child) => Known(msess', child)) /\ (Only(msess, child) => Only(msess', child))
    BY FrameKeeps
  <2>2. (\A i \in DOMAIN msess : msess[i].child = 0) => \A i \in DOMAIN msess' : msess'[i].child = 0
    BY DEF Frame
  <2>3. QED
    BY <1>1, <2>1, <2>2 DEF Inv, Kids
<1>5. ASSUME NoReload PROVE Single'
  <2>1. \A x \in udp' : Own(x, msess', epoch)
    BY <1>5, FrameKeeps DEF Inv, Single
  <2>2. QED
    BY <1>1, <1>5, <2>1 DEF Inv, Single
<1>6. QED
  BY <1>1, <1>2, <1>3, <1>4, <1>5 DEF Inv

\* client_res_update()
LEMMA UpdateInv ==
  ASSUME Inv, pc = "run", NEW x \in AnswerT, NoReload => x.ep = epoch /\ (x.type = "PONG" => Own(x, msess, epoch)),
         Update(x), UNCHANGED <<should_reload, child, client, epoch, tracked>>, sends' = sends, tick' = tick, setback' = setback,
         Wires', udp' \subseteq udp, chan' = chan, NoReload => Mail(pipe', epoch),
         NoReload => ~(should_reload /\ Op = "DAEMON")
  PROVE  Inv'
<1> DEFINE hit == {h \in SessionOf(x) \X (1 .. MaxSeq) : h[2] \in Matches(h[1], x)}
<1>0. NPackets \in Nat /\ res_ok \in Nat /\ StopsInTime /\ setback \in BOOLEAN
  BY Consts DEF Inv, Flags
<1>1. /\ Updated(msess', out', dup') /\ res_ok' \in Nat /\ pc' \in {"run", "exit", "alone"}
      /\ StopsInTime'
  <2>1. CASE hit # {}
    <3>1. PICK h \in hit : UpdateMatch(h[1], h[2], x)
      BY <2>1 DEF Update
    <3> DEFINE i == h[1]
               k == h[2]
               r == Marked(msess[i].res[k], x)
    <3>2. i \in SessionOf(x) /\ k \in Matches(i, x) /\ dup' = Seen(x, FALSE)
      BY <2>1 DEF Update
    <3>3. CASE r.pong /\ r.time
      <4>1. /\ msess' = [msess EXCEPT ![i] = Finish(@, k, r)]
            /\ out' = [out EXCEPT ![Uid(r.ep, msess[i].id, r.seq)] = Append(@, [st |-> "DONE", eps |-> r.eps])]
            /\ res_ok' \in {res_ok, res_ok + 1} /\ pc' = IF Enough(res_ok') THEN "exit" ELSE pc
        BY <3>1, <3>3 DEF UpdateMatch
      <4> HIDE DEF i, k
      <4>2. Updated(msess', out', dup')
        BY <3>2, <3>3, <4>1, UpdateFinish
      <4>3. res_ok' \in Nat /\ pc' \in {"run", "exit", "alone"}
        BY <1>0, <4>1
      <4>4. StopsInTime'
        BY <1>0, <4>1 DEF StopsInTime, Enough
      <4>5. QED
        BY <4>2, <4>3, <4>4
    <3>4. CASE ~(r.pong /\ r.time)
      <4>1. /\ msess' = [msess EXCEPT ![i].res[k] = r] /\ out' = out /\ res_ok' = res_ok
            /\ pc' = IF Enough(res_ok) THEN "exit" ELSE pc
        BY <3>1, <3>4 DEF UpdateMatch
      <4> HIDE DEF i, k
      <4>2. Updated(msess', out', dup')
        BY <3>2, <3>4, <4>1, UpdateMark
      <4>3. res_ok' \in Nat /\ pc' \in {"run", "exit", "alone"}
        BY <1>0, <4>1
      <4>4. StopsInTime'
        BY <1>0, <4>1 DEF StopsInTime, Enough
      <4>5. QED
        BY <4>2, <4>3, <4>4
    <3>5. QED
      BY <3>3, <3>4
  <2>2. CASE hit = {}
    <3> DEFINE b == SessionOf(x) # {} /\ IsDup(x)
    <3>1. UNCHANGED <<msess, out, res_ok, pc>> /\ dup' = Seen(x, b)
      BY <2>2 DEF Update
    <3>2. \A i \in SessionOf(x), k \in 1 .. MaxSeq : k \notin Matches(i, x)
      <4> SUFFICES ASSUME NEW i \in SessionOf(x), NEW k \in 1 .. MaxSeq, k \in Matches(i, x) PROVE FALSE
        OBVIOUS
      <4>1. <<i, k>> \in hit
        OBVIOUS
      <4>2. QED
        BY <2>2, <4>1
    <3>3. b \in BOOLEAN /\ (b => IsDup(x))
      OBVIOUS
    <3> HIDE DEF b
    <3>4. Updated(msess, out, dup')
      BY <3>1, <3>2, <3>3, UpdateNone
    <3>5. StopsInTime'
      BY <1>0, <3>1 DEF StopsInTime
    <3>6. QED
      BY <1>0, <3>1, <3>4, <3>5
  <2>3. QED
    BY <2>1, <2>2
<1>2. QED
  BY <1>0, <1>1, ListsInv DEF Updated

\* The PONG section of loop_or_die().
LEMMA PongInv ==
  ASSUME Inv, NEW x \in udp, RecvPong(x)
  PROVE  Inv'
<1>1. /\ pc = "run" /\ x.type = "PONG" /\ Update(x) /\ udp' \subseteq udp
      /\ UNCHANGED <<should_reload, child, client, epoch, tracked>> /\ sends' = sends /\ tick' = tick /\ setback' = setback
      /\ chan' = chan /\ pipe' = pipe
  BY DEF RecvPong, procs, env
<1>2. x \in AnswerT
  BY <1>1 DEF Inv, Wires, AnswerT
<1>3. Wires'
  BY <1>1 DEF Inv, Wires
<1>4. NoReload => x.ep = epoch /\ Own(x, msess, epoch) /\ Mail(pipe', epoch) /\ ~(should_reload /\ Op = "DAEMON")
  BY <1>1 DEF Inv, Single, Own
<1>5. QED
  BY <1>1, <1>2, <1>3, <1>4, UpdateInv

\* A session whose list is the same is as good.
LEMMA SameSessOK ==
  ASSUME NEW s, NEW z \in SessT, SameSess(s, z), NEW e, NEW sb, SessOK(s, e, sb)
  PROVE  SessOK(z, e, sb) /\ Seqs(z) = Seqs(s)
<1>1. \A k \in DOMAIN z.res : ProbeOK(z.res[k], z, e, sb)
  BY DEF SessOK, SameSess, ProbeOK
<1>2. QED
  BY <1>1 DEF SessOK, SameSess, Seqs

\* client_msess_gothello()
LEMMA HelloLists ==
  ASSUME NEW a, MsOK(msess, epoch, setback)
  PROVE  /\ MsOK(GotHello(a), epoch, setback) /\ Frame(msess, GotHello(a))
         /\ \A i \in DOMAIN msess : GotHello(a)[i].res = msess[i].res
<1> DEFINE m2 == GotHello(a)
<1>1. \A i \in DOMAIN msess : SessOK(msess[i], epoch, setback) /\ msess[i] \in SessT
  BY DEF MsOK, SessOK
<1>2. DOMAIN m2 = DOMAIN msess /\ \A i \in DOMAIN msess : m2[i] = msess[i] \/ m2[i] = [msess[i] EXCEPT !.hello = TRUE]
  BY DEF GotHello
<1>3. \A s \in SessT : /\ [s EXCEPT !.hello = TRUE] \in SessT /\ SameSess(s, [s EXCEPT !.hello = TRUE])
                       /\ [s EXCEPT !.hello = TRUE].child = s.child
  BY DEF SessT, SameSess
<1>4. \A i \in DOMAIN msess : m2[i] \in SessT /\ SameSess(msess[i], m2[i]) /\ m2[i].child = msess[i].child
  BY <1>1, <1>2, <1>3 DEF SameSess
<1>5. m2 \in [DOMAIN msess -> SessT]
  <2>1. m2 = [i \in DOMAIN msess |-> IF msess[i].addr = a THEN [msess[i] EXCEPT !.hello = TRUE] ELSE msess[i]]
    BY DEF GotHello
  <2> HIDE DEF m2
  <2>2. QED
    BY <1>4, <2>1
<1> HIDE DEF m2
<1>6. \A i \in DOMAIN msess : SessOK(m2[i], epoch, setback)
  BY <1>1, <1>4, SameSessOK
<1>7. MsOK(m2, epoch, setback)
  BY <1>4, <1>5, <1>6, EachSession DEF SameSess
<1>8. Frame(msess, m2)
  BY <1>2, <1>4 DEF Frame, SameSess
<1>9. QED
  BY <1>4, <1>7, <1>8 DEF m2, SameSess

\* The pipe section of loop_or_die().
LEMMA PipeInv == Inv /\ RecvPipe => Inv'
<1> SUFFICES ASSUME Inv, RecvPipe PROVE Inv'
  OBVIOUS
<1> DEFINE x == Head(pipe)
<1>1. /\ pc = "run" /\ pipe # <<>> /\ pipe' = Tail(pipe) /\ udp' \subseteq udp
      /\ UNCHANGED <<should_reload, child, client, epoch, tracked>> /\ sends' = sends /\ tick' = tick /\ setback' = setback
      /\ chan' = chan /\ udp' = udp
  BY DEF RecvPipe, env
<1>2. /\ pipe \in Seq(TcpT) /\ Tail(pipe) \in Seq(TcpT) /\ x \in TcpT /\ 1 \in DOMAIN pipe /\ x = pipe[1]
      /\ \A n \in DOMAIN Tail(pipe) : n + 1 \in DOMAIN pipe /\ Tail(pipe)[n] = pipe[n + 1]
  <2>1. pipe \in Seq(TcpT)
    BY DEF Inv, Wires
  <2>2. QED
    BY <1>1, <2>1
<1>3. Wires'
  BY <1>1, <1>2 DEF Inv, Wires
<1>4. NoReload => /\ Mail(pipe', epoch) /\ ~(should_reload /\ Op = "DAEMON") /\ (x.type = "TIME" => x.ep = epoch)
  <2> SUFFICES ASSUME NoReload
               PROVE  Mail(pipe', epoch) /\ ~(should_reload /\ Op = "DAEMON") /\ (x.type = "TIME" => x.ep = epoch)
    OBVIOUS
  <2>1. Single
    BY DEF Inv
  <2>2. Mail(pipe, epoch) /\ ~(should_reload /\ Op = "DAEMON")
    BY <1>1, <2>1 DEF Single
  <2>3. QED
    BY <1>1, <1>2, <2>2 DEF Mail
<1>5. CASE x.type # "HELO"
  <2>1. x \in TimeT /\ x.type = "TIME"
    BY <1>2, <1>5 DEF TcpT, TimeT, HeloT
  <2>2. x \in AnswerT
    BY <2>1 DEF AnswerT
  <2>3. Update(x)
    BY <1>5 DEF RecvPipe
  <2>4. NoReload => x.ep = epoch /\ (x.type = "PONG" => Own(x, msess, epoch))
    BY <1>4, <2>1
  <2> HIDE DEF x
  <2>5. QED
    BY <1>1, <1>3, <1>4, <2>2, <2>3, <2>4, UpdateInv
<1>6. CASE x.type = "HELO"
  <2> DEFINE a == x.addr
             m2 == GotHello(a)
  <2>1. msess' = m2 /\ UNCHANGED <<out, dup, res_ok, pc>>
    BY <1>6 DEF RecvPipe
  <2>2. MsOK(msess, epoch, setback) /\ Books(msess, epoch, tracked, out) /\ AllTrue(out, NoReload) /\ dup \in [Uids -> DupT]
    BY DEF Inv, Lists
  <2>3. /\ MsOK(m2, epoch, setback) /\ Frame(msess, m2) /\ \A i \in DOMAIN msess : m2[i].res = msess[i].res
    BY <2>2, HelloLists
  <2> HIDE DEF m2
  <2>4. Books(m2, epoch, tracked, out)
    <3>1. /\ DOMAIN m2 = DOMAIN msess
          /\ \A j \in DOMAIN msess : m2[j].id = msess[j].id /\ m2[j].last_seq = msess[j].last_seq /\ Seqs(m2[j]) = Seqs(msess[j])
      BY <2>3 DEF Frame, Seqs
    <3>2. \A v \in Uids : (Held(m2, v) <=> Held(msess, v)) /\ (Begun(msess, v) <=> Begun(m2, v))
      BY <3>1, SameBooks
    <3>3. QED
      BY <2>2, <3>2, BooksKept
  <2>5. NoReload => Stamped(m2, epoch, dup) /\ DupsOK(m2, epoch, tracked, out, dup)
    <3> SUFFICES ASSUME NoReload PROVE Stamped(m2, epoch, dup) /\ DupsOK(m2, epoch, tracked, out, dup)
      OBVIOUS
    <3>1. Stamped(msess, epoch, dup) /\ DupsOK(msess, epoch, tracked, out, dup)
      BY DEF Inv, Single
    <3>2. Stamped(m2, epoch, dup)
      BY <2>3, <3>1 DEF Stamped, Frame
    <3>3. \A u \in Uids : Begun(msess, u) <=> Begun(m2, u)
      BY <2>3, FrameKeeps
    <3>4. QED
      BY <3>1, <3>2, <3>3 DEF DupsOK
  <2>6. res_ok' \in Nat /\ pc' \in {"run", "exit", "alone"} /\ StopsInTime' /\ setback' \in BOOLEAN
    BY <1>1, <2>1 DEF Inv, Flags, StopsInTime
  <2>7. /\ MsOK(msess', epoch, setback') /\ Books(msess', epoch, tracked, out') /\ AllTrue(out', NoReload)
        /\ Frame(msess, msess') /\ dup' \in [Uids -> DupT]
        /\ NoReload => Stamped(msess', epoch, dup') /\ DupsOK(msess', epoch, tracked, out', dup')
    BY <1>1, <2>1, <2>2, <2>3, <2>4, <2>5
  <2>8. QED
    BY <1>1, <1>3, <1>4, <2>6, <2>7, ListsInv
<1>7. QED
  BY <1>5, <1>6

\* Only the age of a probe changes.
Aged(r, r2) == /\ r2 \in ProbeT /\ r2.seq = r.seq /\ r2.addr = r.addr /\ r2.ep = r.ep
               /\ r2.pong = r.pong /\ r2.time = r.time /\ r2.eps = r.eps

\* A probe whose age changes,
LEMMA AgedProbe ==
  ASSUME NEW r, NEW r2, Aged(r, r2), NEW s, NEW e, NEW sb, NEW sb2, ProbeOK(r, s, e, sb),
         r2.age \in -(Timeout + 1) .. Timeout + 1 /\ (~sb2 => r2.age >= 0)
  PROVE  ProbeOK(r2, s, e, sb2) /\ r2.seq = r.seq
<1>1. Got(r2) = Got(r)
  BY DEF Aged, Got
<1>2. QED
  BY <1>1 DEF Aged, ProbeOK

\* ... a session whose probes do,
LEMMA AgedSession ==
  ASSUME NEW s, NEW e, NEW sb, NEW sb2, SessOK(s, e, sb), NEW z \in SessT, Len(z.res) = Len(s.res),
         z.addr = s.addr, z.last_seq = s.last_seq,
         \A k \in DOMAIN s.res : /\ Aged(s.res[k], z.res[k])
                                 /\ z.res[k].age \in -(Timeout + 1) .. Timeout + 1 /\ (~sb2 => z.res[k].age >= 0)
  PROVE  SessOK(z, e, sb2) /\ Seqs(z) = Seqs(s)
<1>1. \A k \in DOMAIN s.res : ProbeOK(s.res[k], s, e, sb)
  BY DEF SessOK
<1>2. \A k \in DOMAIN s.res : ProbeOK(z.res[k], s, e, sb2) /\ z.res[k].seq = s.res[k].seq
  <2> SUFFICES ASSUME NEW k \in DOMAIN s.res PROVE ProbeOK(z.res[k], s, e, sb2) /\ z.res[k].seq = s.res[k].seq
    OBVIOUS
  <2> DEFINE r == s.res[k]
             r2 == z.res[k]
  <2>1. Aged(r, r2) /\ ProbeOK(r, s, e, sb)
    BY <1>1
  <2>2. r2.age \in -(Timeout + 1) .. Timeout + 1 /\ (~sb2 => r2.age >= 0)
    OBVIOUS
  <2> HIDE DEF r, r2
  <2>3. ProbeOK(r2, s, e, sb2) /\ r2.seq = r.seq
    BY <2>1, <2>2, AgedProbe
  <2>4. QED
    BY <2>3 DEF r, r2
<1>3. DOMAIN z.res = DOMAIN s.res
  BY DEF SessOK, SessT
<1>4. \A k \in DOMAIN z.res : ProbeOK(z.res[k], z, e, sb2)
  BY <1>2, <1>3 DEF ProbeOK
<1>5. SessOK(z, e, sb2)
  BY <1>2, <1>3, <1>4 DEF SessOK
<1>6. Seqs(z) = Seqs(s)
  BY <1>2, <1>3 DEF Seqs
<1>7. QED
  BY <1>5, <1>6

\* ... and a step in which only time passes.
LEMMA AgeInv ==
  ASSUME Inv, UNCHANGED <<should_reload, sends, res_ok, pc, procs, tick, udp, client, ghost>>, setback' \in BOOLEAN,
         NEW q \in [DOMAIN msess -> Seq(ProbeT)],
         \A i \in DOMAIN msess : Len(q[i]) = Len(msess[i].res),
         \A i \in DOMAIN msess : \A k \in DOMAIN msess[i].res :
           /\ Aged(msess[i].res[k], q[i][k])
           /\ q[i][k].age \in -(Timeout + 1) .. Timeout + 1 /\ (~setback' => q[i][k].age >= 0),
         msess' \in [DOMAIN msess -> SessT], \A i \in DOMAIN msess : msess'[i] = [msess[i] EXCEPT !.res = q[i]],
         \E i \in DOMAIN msess : msess[i].res # <<>>
  PROVE  Inv'
<1> DEFINE m2 == msess'
<1>1. MsOK(msess, epoch, setback) /\ Books(msess, epoch, tracked, out) /\ AllTrue(out, NoReload) /\ dup \in [Uids -> DupT]
  BY DEF Inv, Lists
<1>2. \A i \in DOMAIN msess : SessOK(msess[i], epoch, setback) /\ msess[i] \in SessT /\ msess[i].res \in Seq(ProbeT)
  BY <1>1 DEF MsOK, SessOK, SessT
<1>3. DOMAIN m2 = DOMAIN msess /\ \A i \in DOMAIN msess : m2[i] = [msess[i] EXCEPT !.res = q[i]]
  OBVIOUS
<1>4. \A i \in DOMAIN msess : /\ SessOK(m2[i], epoch, setback') /\ Seqs(m2[i]) = Seqs(msess[i])
                              /\ m2[i].id = msess[i].id /\ m2[i].addr = msess[i].addr /\ m2[i].child = msess[i].child
                              /\ m2[i].last_seq = msess[i].last_seq /\ m2[i].res = q[i]
  <2> SUFFICES ASSUME NEW i \in DOMAIN msess
               PROVE  /\ SessOK(m2[i], epoch, setback') /\ Seqs(m2[i]) = Seqs(msess[i])
                      /\ m2[i].id = msess[i].id /\ m2[i].addr = msess[i].addr /\ m2[i].child = msess[i].child
                      /\ m2[i].last_seq = msess[i].last_seq /\ m2[i].res = q[i]
    OBVIOUS
  <2> DEFINE s == msess[i]
             p == q[i]
             z == m2[i]
             sb2 == setback'
  <2>1. SessOK(s, epoch, setback) /\ s \in SessT /\ p \in Seq(ProbeT) /\ Len(p) = Len(s.res) /\ z = [s EXCEPT !.res = p] /\ z \in SessT
    BY <1>2, <1>3
  <2>2. \A k \in DOMAIN s.res : /\ Aged(s.res[k], p[k])
                                /\ p[k].age \in -(Timeout + 1) .. Timeout + 1 /\ (~sb2 => p[k].age >= 0)
    OBVIOUS
  <2> HIDE DEF s, p, z, sb2
  <2>3. z.child = s.child /\ z.id = s.id /\ z.addr = s.addr /\ z.last_seq = s.last_seq /\ z.res = p
    BY <2>1 DEF SessT
  <2>4. SessOK(z, epoch, sb2) /\ Seqs(z) = Seqs(s)
    <3>1. \A k \in DOMAIN s.res : /\ Aged(s.res[k], z.res[k])
                                  /\ z.res[k].age \in -(Timeout + 1) .. Timeout + 1 /\ (~sb2 => z.res[k].age >= 0)
      BY <2>2, <2>3
    <3>2. Len(z.res) = Len(s.res) /\ z \in SessT /\ SessOK(s, epoch, setback)
      BY <2>1, <2>3
    <3>3. z.addr = s.addr /\ z.last_seq = s.last_seq
      BY <2>3
    <3>4. QED
      BY ONLY <3>1, <3>2, <3>3, AgedSession
  <2>5. QED
    BY <2>3, <2>4 DEF s, p, sb2, z
<1>5. \A i \in DOMAIN msess : /\ m2[i].id = msess[i].id /\ m2[i].addr = msess[i].addr /\ m2[i].child = msess[i].child
                              /\ m2[i].last_seq = msess[i].last_seq /\ m2[i].res = q[i]
  BY <1>4
<1>6. m2 \in [DOMAIN msess -> SessT]
  OBVIOUS
<1> HIDE DEF m2
<1>7. MsOK(m2, epoch, setback')
  BY <1>1, <1>4, <1>5, <1>6, EachSession
<1>8. Frame(msess, m2)
  BY <1>3, <1>5 DEF Frame
<1>9. Books(m2, epoch, tracked, out)
  <2>1. \A v \in Uids : (Held(m2, v) <=> Held(msess, v)) /\ (Begun(msess, v) <=> Begun(m2, v))
    BY <1>3, <1>4, <1>5, SameBooks
  <2>2. QED
    BY <1>1, <2>1, BooksKept
<1>10. NoReload => Stamped(m2, epoch, dup) /\ DupsOK(m2, epoch, tracked, out, dup) /\ Mail(pipe, epoch) /\ ~(should_reload /\ Op = "DAEMON")
  <2> SUFFICES ASSUME NoReload
               PROVE  Stamped(m2, epoch, dup) /\ DupsOK(m2, epoch, tracked, out, dup) /\ Mail(pipe, epoch) /\ ~(should_reload /\ Op = "DAEMON")
    OBVIOUS
  <2>1. Stamped(msess, epoch, dup) /\ DupsOK(msess, epoch, tracked, out, dup) /\ Mail(pipe, epoch) /\ ~(should_reload /\ Op = "DAEMON")
    BY DEF Inv, Single
  <2>2. \A i \in DOMAIN msess : DOMAIN q[i] = DOMAIN msess[i].res
    BY <1>2
  <2>3. Stamped(m2, epoch, dup)
    <3> SUFFICES ASSUME NEW i \in DOMAIN m2, NEW k \in DOMAIN m2[i].res
                 PROVE  /\ \A z \in m2[i].res[k].eps : z.ep = epoch
                        /\ m2[i].res[k].pong => dup[Uid(epoch, m2[i].id, m2[i].res[k].seq)].pongs >= 1
      BY DEF Stamped
    <3>1. i \in DOMAIN msess /\ k \in DOMAIN msess[i].res /\ m2[i].id = msess[i].id /\ m2[i].res[k] = q[i][k]
      BY <1>5, <1>8, <2>2 DEF Frame
    <3>2. m2[i].res[k].eps = msess[i].res[k].eps /\ m2[i].res[k].pong = msess[i].res[k].pong /\ m2[i].res[k].seq = msess[i].res[k].seq
      BY <3>1 DEF Aged
    <3>3. QED
      BY <2>1, <3>1, <3>2 DEF Stamped
  <2>4. \A u \in Uids : Begun(msess, u) <=> Begun(m2, u)
    BY <1>8, FrameKeeps
  <2>5. QED
    BY <2>1, <2>3, <2>4 DEF DupsOK
<1>11. /\ res_ok' \in Nat /\ pc' \in {"run", "exit", "alone"} /\ StopsInTime' /\ Wires' /\ udp' \subseteq udp /\ chan' = chan
       /\ NoReload => Mail(pipe', epoch)
  BY <1>10 DEF Inv, Flags, StopsInTime, Wires, procs
<1>12. UNCHANGED <<should_reload, child, client, epoch, tracked>> /\ sends' = sends /\ tick' = tick /\ UNCHANGED <<out, dup>>
  BY DEF procs, ghost
<1>13. /\ MsOK(msess', epoch, setback') /\ Books(msess', epoch, tracked, out') /\ AllTrue(out', NoReload)
       /\ Frame(msess, msess') /\ dup' \in [Uids -> DupT]
       /\ NoReload => Stamped(msess', epoch, dup') /\ DupsOK(msess', epoch, tracked, out', dup')
  BY <1>1, <1>7, <1>8, <1>9, <1>10, <1>12 DEF m2
<1>14. QED
  BY <1>10, <1>11, <1>12, <1>13, ListsInv

\* A second passes.
LEMMA SecondInv == Inv /\ Second => Inv'
<1> SUFFICES ASSUME Inv, Second PROVE Inv'
  OBVIOUS
<1> DEFINE q == [i \in DOMAIN msess |-> [k \in DOMAIN msess[i].res |-> Older(msess[i].res[k])]]
<1>0. Timeout \in Nat
  BY Consts
<1>1. /\ UNCHANGED <<should_reload, sends, res_ok, pc, procs, tick, udp, client, ghost>> /\ setback' = setback
      /\ \E i \in DOMAIN msess : \E k \in DOMAIN msess[i].res : msess[i].res[k].age <= Timeout
      /\ msess' = [i \in DOMAIN msess |-> [msess[i] EXCEPT !.res = [k \in DOMAIN @ |-> Older(@[k])]]]
  BY DEF Second, env
<1>2. \A i \in DOMAIN msess : SessOK(msess[i], epoch, setback) /\ msess[i] \in SessT /\ msess[i].res \in Seq(ProbeT)
  BY DEF Inv, Lists, MsOK, SessOK, SessT
<1>3. \A r \in ProbeT : Older(r) \in ProbeT /\ Aged(r, Older(r)) /\ Older(r).age = IF r.age > Timeout THEN r.age ELSE r.age + 1
  <2> SUFFICES ASSUME NEW r \in ProbeT
               PROVE  Older(r) \in ProbeT /\ Aged(r, Older(r)) /\ Older(r).age = IF r.age > Timeout THEN r.age ELSE r.age + 1
    OBVIOUS
  <2> DEFINE a == IF r.age > Timeout THEN r.age ELSE r.age + 1
  <2>1. r.age \in Int /\ a \in Int
    BY DEF ProbeT
  <2>2. Older(r) = [r EXCEPT !.age = a]
    BY DEF Older
  <2> HIDE DEF a
  <2>3. Older(r) \in ProbeT
    BY <2>1, <2>2 DEF ProbeT
  <2>4. Aged(r, Older(r))
    BY <2>2, <2>3 DEF Aged, ProbeT
  <2>5. Older(r).age = a
    BY <2>2 DEF ProbeT
  <2>6. QED
    BY <2>3, <2>4, <2>5 DEF a
<1>4. \A i \in DOMAIN msess : q[i] \in Seq(ProbeT) /\ Len(q[i]) = Len(msess[i].res)
  <2> SUFFICES ASSUME NEW i \in DOMAIN msess PROVE q[i] \in Seq(ProbeT) /\ Len(q[i]) = Len(msess[i].res)
    OBVIOUS
  <2> DEFINE p == msess[i].res
  <2>1. p \in Seq(ProbeT) /\ q[i] = [k \in DOMAIN p |-> Older(p[k])]
    BY <1>2
  <2> HIDE DEF p, q
  <2>2. DOMAIN p = 1 .. Len(p) /\ Len(p) \in Nat /\ \A k \in DOMAIN p : Older(p[k]) \in ProbeT
    BY <1>3, <2>1
  <2>3. q[i] \in [1 .. Len(p) -> ProbeT]
    BY <2>1, <2>2
  <2>4. QED
    BY <2>2, <2>3, IsSeq DEF p
<1>5. q \in [DOMAIN msess -> Seq(ProbeT)]
  BY <1>4
<1>6. \A i \in DOMAIN msess : \A k \in DOMAIN msess[i].res :
        /\ Aged(msess[i].res[k], q[i][k])
        /\ q[i][k].age \in -(Timeout + 1) .. Timeout + 1 /\ (~setback' => q[i][k].age >= 0)
  <2> SUFFICES ASSUME NEW i \in DOMAIN msess, NEW k \in DOMAIN msess[i].res
               PROVE  /\ Aged(msess[i].res[k], q[i][k])
                      /\ q[i][k].age \in -(Timeout + 1) .. Timeout + 1 /\ (~setback' => q[i][k].age >= 0)
    OBVIOUS
  <2> DEFINE r == msess[i].res[k]
  <2>1. q[i][k] = Older(r)
    OBVIOUS
  <2>2. r \in ProbeT /\ ProbeOK(r, msess[i], epoch, setback)
    BY <1>2 DEF SessOK
  <2> HIDE DEF r, q
  <2>3. Aged(r, Older(r)) /\ Older(r).age = IF r.age > Timeout THEN r.age ELSE r.age + 1
    BY <1>3, <2>2
  <2>4. r.age \in -(Timeout + 1) .. Timeout + 1 /\ (~setback => r.age >= 0)
    BY <2>2 DEF ProbeOK
  <2>5. Older(r).age \in -(Timeout + 1) .. Timeout + 1 /\ (~setback => Older(r).age >= 0)
    BY <1>0, <2>3, <2>4
  <2>6. QED
    BY <1>1, <2>1, <2>3, <2>5 DEF r
<1>7. \A i \in DOMAIN msess : msess'[i] = [msess[i] EXCEPT !.res = q[i]]
  BY <1>1, <1>2 DEF SessT
<1> HIDE DEF q
<1>8. msess' \in [DOMAIN msess -> SessT]
  <2>1. \A i \in DOMAIN msess : [msess[i] EXCEPT !.res = q[i]] \in SessT
    BY <1>2, <1>4 DEF SessT
  <2>2. \A i \in DOMAIN msess : msess'[i] \in SessT
    BY <1>7, <2>1
  <2>3. QED
    BY <1>1, <2>2
<1>9. \E i \in DOMAIN msess : msess[i].res # <<>>
  BY <1>1
<1>10. setback' \in BOOLEAN
  BY <1>1 DEF Inv, Flags
<1>11. QED
  BY <1>1, <1>4, <1>5, <1>6, <1>7, <1>8, <1>9, <1>10, AgeInv

\* The clock is set back.
LEMMA SetBackInv == Inv /\ SetBack => Inv'
<1> SUFFICES ASSUME Inv, SetBack PROVE Inv'
  OBVIOUS
<1> DEFINE q == [i \in DOMAIN msess |-> [k \in DOMAIN msess[i].res |-> Younger(msess[i].res[k])]]
<1>0. Timeout \in Nat
  BY Consts
<1>1. /\ UNCHANGED <<should_reload, sends, res_ok, pc, procs, tick, udp, client, ghost>> /\ setback' = TRUE /\ ~setback
      /\ \E i \in DOMAIN msess : msess[i].res # <<>>
      /\ msess' = [i \in DOMAIN msess |-> [msess[i] EXCEPT !.res = [k \in DOMAIN @ |-> Younger(@[k])]]]
  BY DEF SetBack
<1>2. \A i \in DOMAIN msess : SessOK(msess[i], epoch, setback) /\ msess[i] \in SessT /\ msess[i].res \in Seq(ProbeT)
  BY DEF Inv, Lists, MsOK, SessOK, SessT
<1>3. \A r \in ProbeT : Younger(r) \in ProbeT /\ Aged(r, Younger(r)) /\ Younger(r).age = r.age - (Timeout + 1)
  <2> SUFFICES ASSUME NEW r \in ProbeT
               PROVE  Younger(r) \in ProbeT /\ Aged(r, Younger(r)) /\ Younger(r).age = r.age - (Timeout + 1)
    OBVIOUS
  <2> DEFINE a == r.age - (Timeout + 1)
  <2>1. r.age \in Int /\ a \in Int
    BY <1>0 DEF ProbeT
  <2>2. Younger(r) = [r EXCEPT !.age = a]
    BY DEF Younger
  <2> HIDE DEF a
  <2>3. Younger(r) \in ProbeT
    BY <2>1, <2>2 DEF ProbeT
  <2>4. Aged(r, Younger(r))
    BY <2>2, <2>3 DEF Aged, ProbeT
  <2>5. Younger(r).age = a
    BY <2>2 DEF ProbeT
  <2>6. QED
    BY <2>3, <2>4, <2>5 DEF a
<1>4. \A i \in DOMAIN msess : q[i] \in Seq(ProbeT) /\ Len(q[i]) = Len(msess[i].res)
  <2> SUFFICES ASSUME NEW i \in DOMAIN msess PROVE q[i] \in Seq(ProbeT) /\ Len(q[i]) = Len(msess[i].res)
    OBVIOUS
  <2> DEFINE p == msess[i].res
  <2>1. p \in Seq(ProbeT) /\ q[i] = [k \in DOMAIN p |-> Younger(p[k])]
    BY <1>2
  <2> HIDE DEF p, q
  <2>2. DOMAIN p = 1 .. Len(p) /\ Len(p) \in Nat /\ \A k \in DOMAIN p : Younger(p[k]) \in ProbeT
    BY <1>3, <2>1
  <2>3. q[i] \in [1 .. Len(p) -> ProbeT]
    BY <2>1, <2>2
  <2>4. QED
    BY <2>2, <2>3, IsSeq DEF p
<1>5. q \in [DOMAIN msess -> Seq(ProbeT)]
  BY <1>4
<1>6. \A i \in DOMAIN msess : \A k \in DOMAIN msess[i].res :
        /\ Aged(msess[i].res[k], q[i][k])
        /\ q[i][k].age \in -(Timeout + 1) .. Timeout + 1 /\ (~setback' => q[i][k].age >= 0)
  <2> SUFFICES ASSUME NEW i \in DOMAIN msess, NEW k \in DOMAIN msess[i].res
               PROVE  /\ Aged(msess[i].res[k], q[i][k])
                      /\ q[i][k].age \in -(Timeout + 1) .. Timeout + 1
    BY <1>1
  <2> DEFINE r == msess[i].res[k]
  <2>1. q[i][k] = Younger(r)
    OBVIOUS
  <2>2. r \in ProbeT /\ ProbeOK(r, msess[i], epoch, setback)
    BY <1>2 DEF SessOK
  <2> HIDE DEF r, q
  <2>3. Aged(r, Younger(r)) /\ Younger(r).age = r.age - (Timeout + 1)
    BY <1>3, <2>2
  <2>4. r.age \in -(Timeout + 1) .. Timeout + 1 /\ r.age >= 0
    BY <1>1, <2>2 DEF ProbeOK
  <2>5. Younger(r).age \in -(Timeout + 1) .. Timeout + 1
    BY <1>0, <2>3, <2>4
  <2>6. QED
    BY <2>1, <2>3, <2>5 DEF r
<1>7. \A i \in DOMAIN msess : msess'[i] = [msess[i] EXCEPT !.res = q[i]]
  BY <1>1, <1>2 DEF SessT
<1> HIDE DEF q
<1>8. msess' \in [DOMAIN msess -> SessT]
  <2>1. \A i \in DOMAIN msess : [msess[i] EXCEPT !.res = q[i]] \in SessT
    BY <1>2, <1>4 DEF SessT
  <2>2. \A i \in DOMAIN msess : msess'[i] \in SessT
    BY <1>7, <2>1
  <2>3. QED
    BY <1>1, <2>2
<1>9. setback' \in BOOLEAN
  BY <1>1
<1>10. QED
  BY <1>1, <1>4, <1>5, <1>6, <1>7, <1>8, <1>9, AgeInv

-----------------------------------------------------------------------------
(* The send section *)

\* The state between the steps of the send section: sessions m, children ch,
\* epoch e, probes t, outcomes o and datagrams w.
Mid(m, ch, e, t, o, w) ==
  /\ e \in 0 .. MaxReload + 1
  /\ MsOK(m, e, setback) /\ Books(m, e, t, o) /\ AllTrue(o, NoReload)
  /\ ch \in [Pids -> KidT \cup {NoChild}] /\ Known(m, ch)
  /\ w \in SUBSET UdpT
  /\ NoReload => /\ \A x \in w : Own(x, m, e)
                 /\ \A p \in Pids : Mail(chan[p], e)
                 /\ Mail(pipe, e)
                 /\ Stamped(m, e, dup) /\ DupsOK(m, e, t, o, dup)

\* A list after client_msess_transmit() holds one new probe at most.
LEMMA TransmitEntries ==
  ASSUME NEW s \in SessT, NEW r, NEW k \in DOMAIN Transmit(s, r).res
  PROVE  \/ Transmit(s, r).res[k].eps = {} /\ ~Transmit(s, r).res[k].pong
         \/ \E l \in DOMAIN s.res : Transmit(s, r).res[k] = s.res[l]
<1>1. s.res \in Seq(ProbeT)
  BY DEF SessT
<1>2. CASE Due(s) /\ r = "ok"
  <2> DEFINE p == Probe(s)
             q == s.res
  <2>1. Transmit(s, r).res = <<p>> \o q /\ q \in Seq(ProbeT)
    BY <1>1, <1>2 DEF Transmit, SessT
  <2>2. p.eps = {} /\ ~p.pong
    BY DEF Probe
  <2> HIDE DEF p, q
  <2>3. (<<p>> \o q)[1] = p /\ \A l \in DOMAIN (<<p>> \o q) : l # 1 => l - 1 \in DOMAIN q /\ (<<p>> \o q)[l] = q[l - 1]
    BY <2>1
  <2>4. QED
    BY <2>1, <2>2, <2>3 DEF q
<1>3. CASE ~(Due(s) /\ r = "ok")
  <2>1. Transmit(s, r).res = s.res
    BY <1>3 DEF Transmit, SessT
  <2>2. QED
    BY <2>1
<1>4. QED
  BY <1>2, <1>3

\* The send section: client_msess_transmit(),
LEMMA TransmitMid ==
  ASSUME Inv, NEW how, NEW m1, m1 = Transmitted(how)
  PROVE  /\ Mid(m1, child, epoch, tracked \cup Inserted(how), out, udp \cup Pings(how))
         /\ DOMAIN m1 = DOMAIN msess /\ \A i \in DOMAIN msess : m1[i].child = msess[i].child /\ m1[i].addr = msess[i].addr
<1> DEFINE new == Inserted(how)
           w == udp \cup Pings(how)
<1>1. /\ MsOK(msess, epoch, setback) /\ Books(msess, epoch, tracked, out) /\ AllTrue(out, NoReload)
      /\ epoch \in 0 .. MaxReload + 1
  BY DEF Inv, Lists, Flags
<1>2. /\ MsOK(m1, epoch, setback) /\ DOMAIN m1 = DOMAIN msess
      /\ Books(m1, epoch, tracked \cup new, out)
      /\ \A u \in Uids : Begun(msess, u) => Begun(m1, u)
      /\ \A u \in new : u.ep = epoch /\ ~Begun(msess, u)
      /\ \A i \in DOMAIN msess : /\ m1[i].id = msess[i].id /\ m1[i].addr = msess[i].addr /\ m1[i].child = msess[i].child
                                 /\ m1[i].last_seq = IF Due(msess[i]) THEN msess[i].last_seq + 1 ELSE msess[i].last_seq
  <2> DEFINE sb == setback
  <2>1. MsOK(msess, epoch, sb)
    BY <1>1
  <2> HIDE DEF sb
  <2>2. TransmittedOK(m1, how, sb)
    BY <1>1, <2>1, TransmitAll
  <2>3. QED
    BY <2>2 DEF TransmittedOK, sb
<1> HIDE DEF new
<1>3. child \in [Pids -> KidT \cup {NoChild}] /\ Known(m1, child)
  <2>1. child \in [Pids -> KidT \cup {NoChild}] /\ Known(msess, child)
    BY DEF Inv, Kids
  <2>2. QED
    BY <1>2, <2>1 DEF Known
<1>4. \A i \in DOMAIN msess : /\ msess[i] \in SessT /\ msess[i].last_seq \in 0 .. MaxSeq /\ msess[i].id \in Ids /\ msess[i].addr \in Addrs
                              /\ msess[i].last_seq \in Nat
  <2>1. \A i \in DOMAIN msess : msess[i] \in SessT
    BY <1>1 DEF MsOK, SessOK
  <2>2. \A s \in SessT : s.last_seq \in 0 .. MaxSeq /\ s.id \in Ids /\ s.addr \in Addrs /\ s.last_seq \in Nat
    BY Consts DEF SessT
  <2>3. QED
    BY <2>1, <2>2
<1>5. \A x \in Pings(how) : x \in UdpT /\ Own(x, m1, epoch)
  <2> SUFFICES ASSUME NEW i \in DOMAIN msess, Due(msess[i]), NEW x,
                      x = [type |-> "PING", id |-> msess[i].id, seq |-> msess[i].last_seq + 1, addr |-> msess[i].addr, ep |-> epoch]
               PROVE  x \in UdpT /\ Own(x, m1, epoch)
    BY DEF Pings
  <2>1. msess[i].last_seq + 1 \in 1 .. MaxSeq
    BY <1>4, Consts DEF Due
  <2>2. x \in UdpT
    BY <1>1, <1>4, <2>1 DEF UdpT
  <2>3. x.id = m1[i].id /\ x.addr = m1[i].addr /\ x.seq = m1[i].last_seq /\ x.ep = epoch /\ x.seq <= x.seq
    BY <1>2, <1>4
  <2>4. QED
    BY <1>2, <2>2, <2>3 DEF Own
<1>6. w \in SUBSET UdpT
  BY <1>5 DEF Inv, Wires
<1>7. ASSUME NoReload
      PROVE  /\ \A x \in w : Own(x, m1, epoch)
             /\ \A p \in Pids : Mail(chan[p], epoch)
             /\ Mail(pipe, epoch)
             /\ Stamped(m1, epoch, dup) /\ DupsOK(m1, epoch, tracked \cup new, out, dup)
  <2>1. /\ \A x \in udp : Own(x, msess, epoch) /\ x \in UdpT
        /\ \A p \in Pids : Mail(chan[p], epoch)
        /\ Mail(pipe, epoch)
        /\ Stamped(msess, epoch, dup) /\ DupsOK(msess, epoch, tracked, out, dup)
    BY <1>7 DEF Inv, Single, Wires
  <2>2. \A x \in udp : Own(x, m1, epoch)
    <3> SUFFICES ASSUME NEW x \in udp PROVE Own(x, m1, epoch)
      OBVIOUS
    <3>1. PICK i \in DOMAIN msess : msess[i].id = x.id /\ msess[i].addr = x.addr /\ x.seq <= msess[i].last_seq
      BY <2>1 DEF Own
    <3>2. x.seq \in Nat
      BY <2>1, Consts DEF UdpT
    <3>3. x.seq <= m1[i].last_seq
      BY <1>2, <1>4, <3>1, <3>2
    <3>4. QED
      BY <1>2, <2>1, <3>1, <3>3 DEF Own
  <2>3. Stamped(m1, epoch, dup)
    <3> SUFFICES ASSUME NEW i \in DOMAIN m1, NEW k \in DOMAIN m1[i].res
                 PROVE  /\ \A z \in m1[i].res[k].eps : z.ep = epoch
                        /\ m1[i].res[k].pong => dup[Uid(epoch, m1[i].id, m1[i].res[k].seq)].pongs >= 1
      BY DEF Stamped
    <3>1. i \in DOMAIN msess /\ m1[i] = Transmit(msess[i], how[i]) /\ m1[i].id = msess[i].id
      BY <1>2 DEF Transmitted
    <3>2. \/ m1[i].res[k].eps = {} /\ ~m1[i].res[k].pong
          \/ \E l \in DOMAIN msess[i].res : m1[i].res[k] = msess[i].res[l]
      BY <1>4, <3>1, TransmitEntries
    <3>3. QED
      BY <2>1, <3>1, <3>2 DEF Stamped
  <2>4. DupsOK(m1, epoch, tracked \cup new, out, dup)
    BY <1>2, <2>1 DEF DupsOK
  <2>5. QED
    BY <1>5, <2>1, <2>2, <2>3, <2>4
<1>8. Mid(m1, child, epoch, tracked \cup new, out, w)
  BY <1>1, <1>2, <1>3, <1>6, <1>7 DEF Mid
<1>9. QED
  BY <1>2, <1>8 DEF new

\* ... client_res_clear_timeouts().
LEMMA ClearMid ==
  ASSUME NEW m, NEW ch, NEW e, NEW t, NEW o, NEW w, Mid(m, ch, e, t, o, w)
  PROVE  Mid(Cleared(m), ch, e, t, Reported(m, o), w) /\ Frame(m, Cleared(m))
<1> DEFINE m2 == Cleared(m)
           o2 == Reported(m, o)
           nr == NoReload
           sb == setback
<1>1. /\ e \in 0 .. MaxReload + 1 /\ MsOK(m, e, sb) /\ Books(m, e, t, o) /\ AllTrue(o, nr)
  BY DEF Mid
<1> HIDE DEF nr, sb
<1>2. /\ MsOK(m2, e, sb) /\ DOMAIN m2 = DOMAIN m /\ Books(m2, e, t, o2) /\ AllTrue(o2, nr)
      /\ \A u \in Uids : /\ Begun(m, u) <=> Begun(m2, u)
                         /\ \A n \in DOMAIN o2[u] : o2[u][n].st = "DONE" => o[u] = o2[u]
                         /\ o[u] # <<>> => o[u] = o2[u]
      /\ \A i \in DOMAIN m : /\ m2[i].id = m[i].id /\ m2[i].addr = m[i].addr
                             /\ m2[i].child = m[i].child /\ m2[i].last_seq = m[i].last_seq
                             /\ \A k \in DOMAIN m2[i].res : k \in DOMAIN m[i].res /\ m2[i].res[k] = m[i].res[k]
  <2>1. ClearedOK(m, e, sb, t, o, nr, m2, o2)
    BY <1>1, ClearAll
  <2>2. QED
    BY <2>1 DEF ClearedOK
<1> HIDE DEF m2, o2
<1>3. Frame(m, m2)
  BY <1>2 DEF Frame
<1>4. ch \in [Pids -> KidT \cup {NoChild}] /\ Known(m2, ch) /\ w \in SUBSET UdpT
  BY <1>3, FrameKeeps DEF Mid
<1>5. ASSUME NoReload
      PROVE  /\ \A x \in w : Own(x, m2, e)
             /\ \A p \in Pids : Mail(chan[p], e)
             /\ Mail(pipe, e)
             /\ Stamped(m2, e, dup) /\ DupsOK(m2, e, t, o2, dup)
  <2>1. /\ \A x \in w : Own(x, m, e)
        /\ \A p \in Pids : Mail(chan[p], e)
        /\ Mail(pipe, e)
        /\ Stamped(m, e, dup) /\ DupsOK(m, e, t, o, dup)
    BY <1>5 DEF Mid
  <2>2. \A x \in w : Own(x, m2, e)
    BY <1>3, <2>1, FrameKeeps
  <2>3. Stamped(m2, e, dup)
    BY <1>2, <2>1 DEF Stamped
  <2>4. DupsOK(m2, e, t, o2, dup)
    <3> SUFFICES ASSUME NEW u \in Uids
                 PROVE  /\ \A n \in DOMAIN o2[u] : o2[u][n].st = "DONE" => dup[u].pongs >= 1
                        /\ dup[u].dups > 0 => /\ u.ep = e /\ Begun(m2, u)
                                              /\ dup[u].pongs >= 2 \/ u \notin t \/ \E n \in DOMAIN o2[u] : o2[u][n].st # "DONE"
      BY DEF DupsOK
    <3>1. \A n \in DOMAIN o2[u] : o2[u][n].st = "DONE" => dup[u].pongs >= 1
      BY <1>2, <2>1 DEF DupsOK
    <3>2. (\E n \in DOMAIN o[u] : o[u][n].st # "DONE") => \E n \in DOMAIN o2[u] : o2[u][n].st # "DONE"
      <4>1. (\E n \in DOMAIN o[u] : o[u][n].st # "DONE") => o[u] # <<>>
        OBVIOUS
      <4>2. QED
        BY <1>2, <4>1
    <3>3. QED
      BY <1>2, <2>1, <3>1, <3>2 DEF DupsOK
  <2>5. QED
    BY <2>1, <2>2, <2>3, <2>4
<1>6. Mid(m2, ch, e, t, o2, w)
  BY <1>1, <1>2, <1>4, <1>5 DEF Mid, nr, sb
<1>7. QED
  BY <1>3, <1>6 DEF m2, o2

\* client_msess_reconf(): no child is left.
LEMMA KilledFacts ==
  ASSUME NEW m, NEW ch \in [Pids -> KidT \cup {NoChild}], Known(m, ch)
  PROVE  /\ Killed(ch, m) \in [Pids -> KidT \cup {NoChild}]
         /\ Only(m, ch) => Runs(Killed(ch, m)) = {}
<1> DEFINE K == Killed(ch, m)
<1>1. K = [p \in Pids |-> IF \E i \in DOMAIN m : m[i].child = p THEN [ch[p] EXCEPT !.st = "dead"] ELSE ch[p]]
  BY DEF Killed
<1>2. \A p \in Pids : (\E i \in DOMAIN m : m[i].child = p) => ch[p] \in KidT
  BY DEF Known
<1>3. \A k \in KidT : [k EXCEPT !.st = "dead"] \in KidT /\ [k EXCEPT !.st = "dead"].st = "dead"
  BY DEF KidT
<1>4. \A p \in Pids : /\ K[p] \in KidT \cup {NoChild}
                      /\ (\E i \in DOMAIN m : m[i].child = p) => K[p].st = "dead"
                      /\ ~(\E i \in DOMAIN m : m[i].child = p) => K[p] = ch[p]
  <2> SUFFICES ASSUME NEW p \in Pids
               PROVE  /\ K[p] \in KidT \cup {NoChild}
                      /\ (\E i \in DOMAIN m : m[i].child = p) => K[p].st = "dead"
                      /\ ~(\E i \in DOMAIN m : m[i].child = p) => K[p] = ch[p]
    OBVIOUS
  <2>1. CASE \E i \in DOMAIN m : m[i].child = p
    <3> DEFINE k == ch[p]
    <3>1. k \in KidT /\ K[p] = [k EXCEPT !.st = "dead"]
      BY <1>1, <1>2, <2>1
    <3> HIDE DEF k
    <3>2. QED
      BY <1>3, <2>1, <3>1
  <2>2. CASE ~(\E i \in DOMAIN m : m[i].child = p)
    BY <1>1, <2>2
  <2>3. QED
    BY <2>1, <2>2
<1>5. K \in [Pids -> KidT \cup {NoChild}]
  BY <1>1, <1>4
<1> HIDE DEF K
<1>6. Only(m, ch) => Runs(K) = {}
  BY <1>4 DEF Only, Runs
<1>7. QED
  BY <1>5, <1>6 DEF K

\* What client_msess_forkall() makes of sessions m and children ch.
LEMMA ForkMid ==
  ASSUME NEW m, NEW ch, NEW e, NEW t, NEW o, NEW w, Mid(m, ch, e, t, o, w), NEW fail
  PROVE  /\ Mid(ForkAll(m, ch, fail).m, ForkAll(m, ch, fail).ch, e, t, o, w)
         /\ (Runs(ch) = {} /\ \A i \in DOMAIN m : m[i].child = 0) => Only(ForkAll(m, ch, fail).m, ForkAll(m, ch, fail).ch)
<1> DEFINE F == ForkAll(m, ch, fail)
           m2 == F.m
           c2 == F.ch
           sb == setback
<1>1. MsOK(m, e, sb) /\ m \in Seq(SessT) /\ \A i, j \in DOMAIN m : m[i].id = m[j].id => i = j
  BY DEF Mid, MsOK
<1>2. ch \in [Pids -> KidT \cup {NoChild}] /\ Known(m, ch)
  BY DEF Mid
<1>3. /\ m2 \in [DOMAIN m -> SessT] /\ c2 \in [Pids -> KidT \cup {NoChild}]
      /\ \A i \in DOMAIN m : SameSess(m[i], m2[i])
      /\ Known(m2, c2)
      /\ (Runs(ch) = {} /\ \A i \in DOMAIN m : m[i].child = 0) => Only(m2, c2)
  BY <1>1, <1>2, ForkFacts
<1> HIDE DEF F, m2, c2, sb
<1>4. \A i \in DOMAIN m : SessOK(m[i], e, sb)
  BY <1>1 DEF MsOK
<1>5. \A i \in DOMAIN m : SessOK(m2[i], e, sb) /\ Seqs(m2[i]) = Seqs(m[i])
  <2> SUFFICES ASSUME NEW i \in DOMAIN m PROVE SessOK(m2[i], e, sb) /\ Seqs(m2[i]) = Seqs(m[i])
    OBVIOUS
  <2> DEFINE s == m[i]
             z == m2[i]
  <2>1. z \in SessT /\ SameSess(s, z) /\ SessOK(s, e, sb)
    BY <1>3, <1>4
  <2> HIDE DEF s, z
  <2>2. SessOK(z, e, sb) /\ Seqs(z) = Seqs(s)
    BY <2>1, SameSessOK
  <2>3. QED
    BY <2>2 DEF s, z
<1>6. DOMAIN m2 = DOMAIN m /\ \A i \in DOMAIN m : /\ m2[i].id = m[i].id /\ m2[i].addr = m[i].addr
                                                  /\ m2[i].last_seq = m[i].last_seq /\ m2[i].res = m[i].res
  BY <1>3 DEF SameSess
<1>7. MsOK(m2, e, sb)
  BY <1>1, <1>3, <1>5, <1>6, EachSession
<1>8. \A u \in Uids : (Held(m2, u) <=> Held(m, u)) /\ (Begun(m, u) <=> Begun(m2, u))
  BY <1>5, <1>6, SameBooks
<1>9. Books(m2, e, t, o)
  BY <1>8, BooksKept DEF Mid
<1>10. ASSUME NoReload
       PROVE  (\A x \in w : Own(x, m2, e)) /\ Stamped(m2, e, dup) /\ DupsOK(m2, e, t, o, dup)
  <2>1. (\A x \in w : Own(x, m, e)) /\ Stamped(m, e, dup) /\ DupsOK(m, e, t, o, dup)
    BY <1>10 DEF Mid
  <2>2. \A x \in w : Own(x, m2, e)
    BY <1>6, <2>1 DEF Own
  <2>3. Stamped(m2, e, dup)
    BY <1>6, <2>1 DEF Stamped
  <2>4. DupsOK(m2, e, t, o, dup)
    BY <1>8, <2>1 DEF DupsOK
  <2>5. QED
    BY <2>2, <2>3, <2>4
<1>11. Mid(m2, c2, e, t, o, w)
  BY <1>3, <1>7, <1>9, <1>10 DEF Mid, sb
<1>12. QED
  BY <1>3, <1>11 DEF F, m2, c2

\* client_msess_reconf() with a configuration.
LEMMA FreshMid ==
  ASSUME NEW m, NEW ch, NEW e, NEW t, NEW o, NEW w, Mid(m, ch, e, t, o, w), e + 1 \in 0 .. MaxReload + 1,
         NEW c \in Seq(Sessions), \A i, j \in DOMAIN c : c[i].id = c[j].id => i = j,
         NEW c2 \in [Pids -> KidT \cup {NoChild}],
         NEW m2, m2 = [i \in 1 .. Len(c) |-> Fresh(c[Len(c) + 1 - i])],
         NoReload => w = {} /\ pipe = <<>> /\ (\A p \in Pids : chan[p] = <<>>) /\ \A u \in Uids : dup[u].dups = 0
  PROVE  /\ Mid(m2, c2, e + 1, t, o, w)
         /\ \A i \in DOMAIN m2 : m2[i].child = 0
<1> DEFINE n == Len(c)
           f == [i \in 1 .. n |-> c[n + 1 - i]]
           sb == setback
           e2 == e + 1
<1>1. n \in Nat /\ DOMAIN c = 1 .. n /\ \A i \in 1 .. n : n + 1 - i \in 1 .. n /\ c[n + 1 - i] \in Sessions
  OBVIOUS
<1>2. f \in [1 .. n -> Sessions]
  BY <1>1
<1>3. \A i, j \in 1 .. n : f[i].id = f[j].id => i = j
  <2> SUFFICES ASSUME NEW i \in 1 .. n, NEW j \in 1 .. n, f[i].id = f[j].id PROVE i = j
    OBVIOUS
  <2>1. n + 1 - i = n + 1 - j
    BY <1>1
  <2>2. QED
    BY <1>1, <2>1
<1>4. \A i \in 1 .. n : m2[i] = Fresh(f[i])
  BY <1>1
<1>5. m2 \in [1 .. n -> SessT]
  <2>1. \A i \in 1 .. n : Fresh(c[n + 1 - i]) \in SessT
    BY <1>1, FreshFacts
  <2>2. QED
    BY <2>1
<1> HIDE DEF n, f, sb, e2
<1>6. /\ MsOK(m2, e2, sb) /\ DOMAIN m2 = 1 .. n
      /\ \A i \in DOMAIN m2 : m2[i].child = 0 /\ m2[i].res = <<>>
      /\ \A u \in Uids : ~Held(m2, u)
  <2>1. n \in Nat
    BY <1>1
  <2>2. QED
    BY ONLY <1>2, <1>3, <1>4, <1>5, <2>1, FreshList
<1>7. Books(m2, e + 1, t, o)
  <2>1. \A u \in Uids : ~Held(m2, u) /\ u.ep \in Nat
    BY <1>6, UidFacts, Consts
  <2>2. e \in Nat /\ Books(m, e, t, o)
    BY Consts DEF Mid
  <2>3. QED
    BY <2>1, <2>2, BooksNew
<1>8. Known(m2, c2)
  <2>1. 0 \notin Pids
    BY DEF Pids
  <2>2. QED
    BY <1>6, <2>1 DEF Known
<1>9. ASSUME NoReload
      PROVE  /\ \A x \in w : Own(x, m2, e + 1)
             /\ \A p \in Pids : Mail(chan[p], e + 1)
             /\ Mail(pipe, e + 1)
             /\ Stamped(m2, e + 1, dup) /\ DupsOK(m2, e + 1, t, o, dup)
  <2>1. DupsOK(m, e, t, o, dup)
    BY <1>9 DEF Mid
  <2>2. DupsOK(m2, e + 1, t, o, dup)
    BY <1>9, <2>1 DEF DupsOK
  <2>3. Stamped(m2, e + 1, dup)
    BY <1>6 DEF Stamped
  <2>4. QED
    BY <1>9, <2>2, <2>3 DEF Mail
<1>10. Mid(m2, c2, e + 1, t, o, w)
  BY <1>6, <1>7, <1>8, <1>9 DEF Mid, sb, e2
<1>11. QED
  BY <1>6, <1>10

\* The send section of loop_or_die() as a whole.
LEMMA SendInv == Inv /\ SendStep => Inv'
<1> SUFFICES ASSUME Inv,
                    NEW how, NEW c \in IF should_reload THEN Readable ELSE {NoConf}, NEW fail, SendSection(how, c, fail)
             PROVE  Inv'
  BY DEF SendStep
<1> DEFINE m1 == Transmitted(how)
           rl == Reload(m1, c, fail)
           m3 == IF should_reload THEN rl.f.m ELSE m1
           t == tracked \cup Inserted(how)
           w == udp \cup Pings(how)
<1>1. /\ pc = "run" /\ tick' = FALSE /\ udp' = w /\ tracked' = t /\ should_reload' = FALSE
      /\ child' = IF should_reload THEN rl.f.ch ELSE child
      /\ pc' = IF should_reload /\ rl.massacre THEN "alone" ELSE "run"
      /\ epoch' = IF should_reload /\ rl.good THEN epoch + 1 ELSE epoch
      /\ \/ msess' = Cleared(m3) /\ out' = Reported(m3, out)
         \/ msess' = m3 /\ out' = out
      /\ sends' = (sends + 1) % Period
      /\ chan' = [p \in Pids |-> IF child'[p].st = "dead" THEN <<>> ELSE chan[p]]
      /\ res_ok' = res_ok /\ pipe' = pipe /\ client' = client /\ setback' = setback /\ dup' = dup
  BY DEF SendSection, Transmitted, env
<1>2. NoReload' = NoReload /\ Faults' = Faults /\ Op' = Op
  BY <1>1 DEF NoReload, Faults, Op
<1>3. /\ Mid(m1, child, epoch, t, out, w)
      /\ DOMAIN m1 = DOMAIN msess /\ \A i \in DOMAIN msess : m1[i].child = msess[i].child /\ m1[i].addr = msess[i].addr
  BY TransmitMid
<1>4. Only(msess, child) => Only(m1, child)
  <2> HIDE DEF m1
  <2>1. QED
    BY <1>3 DEF Only
<1>5. \A k : client = k => k \in Clients
  BY DEF Inv, Flags
<1> HIDE DEF m1, t, w
<1>6. Mid(m3, child', epoch', t, out, w) /\ ("badconf" \notin Faults => Only(m3, child'))
  <2>1. CASE ~should_reload
    <3>1. m3 = m1 /\ child' = child /\ epoch' = epoch
      BY <1>1, <2>1
    <3>2. "badconf" \notin Faults => Only(msess, child)
      BY DEF Inv, Kids
    <3>3. QED
      BY <1>3, <1>4, <3>1, <3>2
  <2>2. CASE should_reload /\ Op = "DAEMON" /\ c.ok
    <3> DEFINE n == Len(c.sess)
               mf == [i \in 1 .. n |-> Fresh(c.sess[n + 1 - i])]
               kc == Killed(child, m1)
               cs == c.sess
    <3>1. rl.f = ForkAll(mf, kc, fail) /\ rl.good = TRUE
      BY <2>2 DEF Reload
    <3>2. m3 = ForkAll(mf, kc, fail).m /\ child' = ForkAll(mf, kc, fail).ch /\ epoch' = epoch + 1
      BY <1>1, <2>2, <3>1
    <3>3. cs \in Configs
      BY <2>2 DEF Readable, NoConf
    <3>4. cs \in Seq(Sessions) /\ \A i, j \in DOMAIN cs : cs[i].id = cs[j].id => i = j
      BY <3>3, Consts DEF Configs, Inv, Flags
    <3>5. child \in [Pids -> KidT \cup {NoChild}] /\ Known(m1, child)
      BY <1>3 DEF Mid
    <3>6. kc \in [Pids -> KidT \cup {NoChild}] /\ (Only(m1, child) => Runs(kc) = {})
      BY <3>5, KilledFacts
    <3>7. epoch + 1 \in 0 .. MaxReload + 1
      BY <2>2, Consts DEF Inv, Flags
    <3>8. NoReload => w = {} /\ pipe = <<>> /\ (\A p \in Pids : chan[p] = <<>>) /\ \A u \in Uids : dup[u].dups = 0
      <4> SUFFICES ASSUME NoReload
                   PROVE  w = {} /\ pipe = <<>> /\ (\A p \in Pids : chan[p] = <<>>) /\ \A u \in Uids : dup[u].dups = 0
        OBVIOUS
      <4>1. msess = <<>> /\ udp = {} /\ pipe = <<>> /\ (\A p \in Pids : chan[p] = <<>>) /\ \A u \in Uids : dup[u].dups = 0
        BY <2>2 DEF Inv, Single
      <4>2. Pings(how) = {}
        BY <4>1 DEF Pings
      <4>3. QED
        BY <4>1, <4>2 DEF w
    <3>9. mf = [i \in 1 .. Len(cs) |-> Fresh(cs[Len(cs) + 1 - i])]
      OBVIOUS
    <3> HIDE DEF mf, kc, cs
    <3>10. Mid(mf, kc, epoch + 1, t, out, w) /\ \A i \in DOMAIN mf : mf[i].child = 0
      BY <1>3, <3>4, <3>6, <3>7, <3>8, <3>9, FreshMid
    <3>11. /\ Mid(ForkAll(mf, kc, fail).m, ForkAll(mf, kc, fail).ch, epoch + 1, t, out, w)
           /\ Runs(kc) = {} => Only(ForkAll(mf, kc, fail).m, ForkAll(mf, kc, fail).ch)
      BY <3>10, ForkMid
    <3>12. "badconf" \notin Faults => Only(msess, child)
      BY DEF Inv, Kids
    <3>13. QED
      BY <1>4, <3>2, <3>6, <3>11, <3>12
  <2>3. CASE should_reload /\ ~(Op = "DAEMON" /\ c.ok)
    <3>1. rl.f = ForkAll(m1, child, fail) /\ rl.good = FALSE
      BY <2>3 DEF Reload
    <3>2. m3 = ForkAll(m1, child, fail).m /\ child' = ForkAll(m1, child, fail).ch /\ epoch' = epoch
      BY <1>1, <2>3, <3>1
    <3>3. /\ Mid(ForkAll(m1, child, fail).m, ForkAll(m1, child, fail).ch, epoch, t, out, w)
          /\ (Runs(child) = {} /\ \A i \in DOMAIN m1 : m1[i].child = 0) => Only(ForkAll(m1, child, fail).m, ForkAll(m1, child, fail).ch)
      BY <1>3, ForkMid
    <3>4. ASSUME "badconf" \notin Faults PROVE Runs(child) = {} /\ \A i \in DOMAIN m1 : m1[i].child = 0
      <4>1. c.ok
        BY <2>3, <3>4 DEF Readable
      <4>2. Op \in {"CLIENT", "DAEMON"}
        BY ClientAssumption DEF Op, Inv, Flags
      <4>3. Op = "CLIENT"
        BY <2>3, <4>1, <4>2
      <4>4. Runs(child) = {} /\ \A i \in DOMAIN msess : msess[i].child = 0
        BY <2>3, <3>4, <4>3 DEF Inv, Kids
      <4>5. QED
        BY <1>3, <4>4
    <3>5. QED
      BY <3>2, <3>3, <3>4
  <2>4. QED
    BY <2>1, <2>2, <2>3
<1> HIDE DEF rl, m3
<1>7. Mid(msess', child', epoch', t, out', w) /\ ("badconf" \notin Faults => Only(msess', child'))
  <2>1. CASE msess' = m3 /\ out' = out
    BY <1>6, <2>1
  <2>2. CASE msess' = Cleared(m3) /\ out' = Reported(m3, out)
    <3>1. Mid(Cleared(m3), child', epoch', t, Reported(m3, out), w) /\ Frame(m3, Cleared(m3))
      BY <1>6, ClearMid
    <3>2. Only(m3, child') => Only(Cleared(m3), child')
      BY <3>1, FrameKeeps
    <3>3. QED
      BY <1>6, <2>2, <3>1, <3>2
  <2>3. QED
    BY <1>1, <2>1, <2>2
<1>8. Flags'
  <2>1. sends' \in 0 .. Period - 1
    BY <1>1, Consts DEF Inv, Flags
  <2>2. StopsInTime'
    BY <1>1 DEF Inv, Flags, StopsInTime
  <2>3. epoch' \in 0 .. MaxReload + 1
    BY <1>7 DEF Mid
  <2>4. QED
    BY <1>1, <2>1, <2>2, <2>3 DEF Inv, Flags
<1>9. \A p \in Pids : chan'[p] = <<>> \/ chan'[p] = chan[p]
  BY <1>1
<1>10. chan' \in [Pids -> Seq(TcpT)]
  <2>1. \A p \in Pids : chan[p] \in Seq(TcpT) /\ <<>> \in Seq(TcpT)
    BY DEF Inv, Wires
  <2>2. QED
    BY <1>1, <2>1
<1>11. Wires'
  <2>1. udp' \in SUBSET UdpT
    BY <1>1, <1>7 DEF Mid
  <2>2. QED
    BY <1>1, <1>10, <2>1 DEF Inv, Wires
<1>12. Lists'
  <2>1. MsOK(msess', epoch', setback) /\ Books(msess', epoch', t, out') /\ AllTrue(out', NoReload)
    BY <1>7 DEF Mid
  <2>2. dup \in [Uids -> DupT]
    BY DEF Inv, Lists
  <2>3. QED
    BY <1>1, <1>2, <2>1, <2>2 DEF Lists
<1>13. Kids'
  BY <1>1, <1>2, <1>7 DEF Kids, Mid
<1>14. ASSUME NoReload PROVE Single'
  <2>1. /\ \A x \in w : Own(x, msess', epoch')
        /\ \A p \in Pids : Mail(chan[p], epoch')
        /\ Mail(pipe, epoch')
        /\ Stamped(msess', epoch', dup) /\ DupsOK(msess', epoch', t, out', dup)
    BY <1>7, <1>14 DEF Mid
  <2>2. \A p \in Pids : Mail(chan'[p], epoch')
    BY <1>9, <2>1 DEF Mail
  <2>3. QED
    BY <1>1, <2>1, <2>2 DEF Single
<1>15. QED
  BY <1>2, <1>8, <1>11, <1>12, <1>13, <1>14 DEF Inv

\* Every step of the client keeps the invariant.
LEMMA NextInv == Inv /\ [Next]_vars => Inv'
<1> SUFFICES ASSUME Inv, [Next]_vars PROVE Inv'
  OBVIOUS
<1>1. CASE SendStep
  BY <1>1, SendInv
<1>2. CASE Pongs
  BY <1>2, PongInv DEF Pongs
<1>3. CASE RecvPipe
  BY <1>3, PipeInv
<1>4. ASSUME NEW p \in Pids, ChildConnect(p) \/ ChildForward(p) \/ ChildHangup(p) PROVE Inv'
  BY <1>4, ConnectInv, ForwardInv, HangupInv
<1>5. CASE Tick
  BY <1>5, TickInv
<1>6. CASE Hup
  BY <1>6, HupInv
<1>7. CASE Second
  BY <1>7, SecondInv
<1>8. CASE SetBack
  BY <1>8, SetBackInv
<1>9. CASE Served
  BY <1>9, ServeInv DEF Served
<1>10. ASSUME NEW x \in udp, Lose(x) PROVE Inv'
  BY <1>10, LoseInv
<1>11. CASE UNCHANGED vars
  BY <1>11 DEF Inv, vars, Flags, Wires, Lists, Kids, Single, main, procs, env, ghost, NoReload, Faults, Op, StopsInTime
<1>12. QED
  BY <1>1, <1>2, <1>3, <1>4, <1>5, <1>6, <1>7, <1>8, <1>9, <1>10, <1>11 DEF Next

\* loop_or_die() with client_msess_*(), client_res_*() and client_fork(): the
\* invariant holds for every way to run the client, every list of sessions and
\* every combination of faults.
THEOREM ClientInvariant == Spec => []Inv
<1>1. QED
  BY InitInv, NextInv, PTL DEF Spec

\* client_res_update(), client_res_clear_timeouts(): no probe is lost, none has
\* two outcomes, and -n stops the client in time.
THEOREM ConservedProbes == Spec => []ProbesConserved
<1>1. Inv => ProbesConserved
  <2> SUFFICES ASSUME Inv PROVE ProbesConserved
    OBVIOUS
  <2>1. MsOK(msess, epoch, setback) /\ Books(msess, epoch, tracked, out)
    BY DEF Inv, Lists
  <2>2. \A u \in Uids : Outstanding(u) <=> u.ep = epoch /\ Held(msess, u)
    <3> DEFINE sb == setback
    <3>1. MsOK(msess, epoch, sb)
      BY <2>1
    <3> HIDE DEF sb
    <3>2. QED
      BY <3>1, HeldOpen DEF Outstanding
  <2>3. Conservation
    BY <2>1, <2>2 DEF Conservation, Books
  <2>4. TypeOK
    <3>1. \A i \in DOMAIN msess :
            /\ msess[i].id \in Ids /\ msess[i].addr \in Addrs
            /\ msess[i].hello \in BOOLEAN /\ msess[i].last_seq \in 0 .. MaxSeq
            /\ msess[i].child \in Pids \cup {0, -1}
            /\ Len(msess[i].res) <= msess[i].last_seq
            /\ \A k \in DOMAIN msess[i].res : msess[i].res[k].age \in -(Timeout + 1) .. Timeout + 1
      <4> SUFFICES ASSUME NEW i \in DOMAIN msess
                   PROVE  /\ msess[i].id \in Ids /\ msess[i].addr \in Addrs
                          /\ msess[i].hello \in BOOLEAN /\ msess[i].last_seq \in 0 .. MaxSeq
                          /\ msess[i].child \in Pids \cup {0, -1}
                          /\ Len(msess[i].res) <= msess[i].last_seq
                          /\ \A k \in DOMAIN msess[i].res : msess[i].res[k].age \in -(Timeout + 1) .. Timeout + 1
        OBVIOUS
      <4>1. SessOK(msess[i], epoch, setback) /\ msess[i] \in SessT
        BY <2>1 DEF MsOK, SessOK
      <4>2. QED
        BY <4>1 DEF SessOK, SessT, ProbeOK
    <3>2. QED
      BY <2>1, <3>1 DEF TypeOK, Inv, Flags, Kids, KidT, Books
  <2>5. QED
    BY <2>3, <2>4 DEF ProbesConserved, Inv, Flags
<1>2. QED
  BY <1>1, ClientInvariant, PTL

\* client_res_update(), client_res_clear_timeouts(): the outcome of a probe says
\* what was really missing; without a reload, a complete one has its own stamps.
THEOREM TrueReports == Spec => []ReportsTrue
<1>1. Inv => ReportsTrue
  BY DEF Inv, Lists, AllTrue, OutTrue, ReportsTrue, TimeoutsAreTrue, StampsBelong
<1>2. QED
  BY <1>1, ClientInvariant, PTL

\* client_res_update(): without a reload, a DUP is reported for a reason.
THEOREM ExplainedDups == Spec => []DupsExplained
<1>1. Inv => DupsExplained
  BY DEF Inv, Single, DupsOK, DupsExplained, DupExplained
<1>2. QED
  BY <1>1, ClientInvariant, PTL

\* client_msess_forkall(), client_msess_reconf(): one child for each address, and
\* none that no session knows of, as long as the configuration can be read.
THEOREM SingleChild == Spec => []OneChild
<1>1. Inv => OneChild
  <2> SUFFICES ASSUME Inv, "badconf" \notin Faults PROVE OneChildPerAddress
    BY DEF OneChild
  <2>1. Only(msess, child) /\ Known(msess, child)
    BY DEF Inv, Kids
  <2>2. Live = Runs(child)
    BY DEF Live, Runs
  <2>3. \A p \in Live : \E i \in DOMAIN msess : msess[i].child = p
    BY <2>1, <2>2 DEF Only
  <2>4. ASSUME NEW p \in Live, NEW q \in Live, child[p].addr = child[q].addr PROVE p = q
    <3>1. p \in Pids /\ q \in Pids /\ p # 0 /\ q # 0
      BY Consts DEF Live, Pids
    <3>2. PICK i \in DOMAIN msess : msess[i].child = p
      BY <2>3
    <3>3. PICK j \in DOMAIN msess : msess[j].child = q
      BY <2>3
    <3>4. msess[i].addr = msess[j].addr
      BY <2>1, <2>4, <3>1, <3>2, <3>3 DEF Known
    <3>5. i = j
      BY <2>1, <3>1, <3>2, <3>3, <3>4 DEF Only
    <3>6. QED
      BY <3>2, <3>3, <3>5
  <2>5. QED
    BY <2>3, <2>4 DEF OneChildPerAddress
<1>2. QED
  BY <1>1, ClientInvariant, PTL
=============================================================================
