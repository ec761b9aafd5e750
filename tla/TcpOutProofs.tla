---------------------------- MODULE TcpOutProofs ----------------------------
(***************************************************************************)
(* Proofs about TcpOut.  The pcb is one record and a step is a composition *)
(* of operators from pcb to pcb, so the invariants are predicates on a pcb *)
(* (PcbOk, StreamOk) with one lemma for each operator.                     *)
(***************************************************************************)
EXTENDS TcpOut, TLAPS, FiniteSetTheorems, WellFoundedInduction

-----------------------------------------------------------------------------
(* Numbers and sequences.                                                  *)

\* Induction over the natural numbers, for a set instead of a predicate.
LEMMA SetInduction ==
    ASSUME NEW S, 0 \in S, \A n \in Nat : n \in S => n + 1 \in S
    PROVE  \A n \in Nat : n \in S
  <1> SUFFICES ASSUME NEW k \in Nat, k \notin S PROVE FALSE
    OBVIOUS
  <1> DEFINE T == {n \in Nat : n \notin S}
  <1>1. PICK x \in T : \A y \in T : <<y, x>> \notin OpToRel(<, Nat)
    <2>1. T \subseteq Nat /\ T # {}  OBVIOUS
    <2> HIDE DEF T
    <2> QED BY <2>1, WFMin, NatLessThanWellFounded
  <1>2. x \in Nat /\ x # 0  OBVIOUS
  <1>3. x - 1 \in T  BY <1>2
  <1>4. <<x - 1, x>> \in OpToRel(<, Nat)
    BY <1>2, <1>3 DEF OpToRel
  <1> QED BY <1>1, <1>3, <1>4

\* The smaller of two numbers.
LEMMA MinOfTwo ==
    ASSUME NEW a \in Int, NEW b \in Int
    PROVE  /\ Min({a, b}) \in Int /\ Min({a, b}) <= a /\ Min({a, b}) <= b
           /\ Min({a, b}) = a \/ Min({a, b}) = b
  <1>1. \E x \in {a, b} : \A y \in {a, b} : x =< y
    <2>1. CASE a <= b  BY <2>1
    <2>2. CASE b <= a  BY <2>2
    <2> QED BY <2>1, <2>2
  <1>2. Min({a, b}) \in {a, b} /\ \A y \in {a, b} : Min({a, b}) =< y
    BY <1>1 DEF Min
  <1> QED BY <1>2

\* The larger of two numbers.
LEMMA MaxOfTwo ==
    ASSUME NEW a \in Int, NEW b \in Int
    PROVE  /\ Max({a, b}) \in Int /\ Max({a, b}) >= a /\ Max({a, b}) >= b
           /\ Max({a, b}) = a \/ Max({a, b}) = b
  <1>1. \E x \in {a, b} : \A y \in {a, b} : x >= y
    <2>1. CASE a <= b  BY <2>1
    <2>2. CASE b <= a  BY <2>2
    <2> QED BY <2>1, <2>2
  <1>2. Max({a, b}) \in {a, b} /\ \A y \in {a, b} : Max({a, b}) >= y
    BY <1>1 DEF Max
  <1> QED BY <1>2

\* A set of natural numbers that is not empty has a least element.
LEMMA LeastNumber ==
    ASSUME NEW T \in SUBSET Nat, T # {}
    PROVE  Min(T) \in T /\ \A y \in T : Min(T) <= y
  <1>1. PICK x \in T : \A y \in T : <<y, x>> \notin OpToRel(<, Nat)
    BY WFMin, NatLessThanWellFounded
  <1>2. ASSUME NEW y \in T PROVE x =< y
    <2>1. x \in Nat /\ y \in Nat  OBVIOUS
    <2>2. ~(y < x)  BY <1>1, <2>1 DEF OpToRel
    <2> QED BY <2>1, <2>2
  <1>3. \E z \in T : \A y \in T : z =< y
    BY <1>2
  <1> QED BY <1>3 DEF Min

\* n units in portions of m: the number of portions.
LEMMA Portions ==
    ASSUME NEW n \in Nat, NEW m \in Nat \ {0}
    PROVE  LET k == (n + m - 1) \div m
           IN  /\ k \in Nat /\ n <= k * m
               /\ \A i \in Nat : i < k => i * m < n
  <1> DEFINE k == (n + m - 1) \div m
             r == (n + m - 1) % m
  <1>1. n + m - 1 \in Nat  OBVIOUS
  <1>2. k \in Int /\ r \in Int /\ n + m - 1 = m * k + r /\ 0 <= r /\ r < m
    BY <1>1
  <1> HIDE DEF k, r
  <1>3. k \in Nat
    <2>1. CASE k < 0
      <3>1. k <= -1  BY <1>2, <2>1
      <3>2. m * k <= m * (-1)  BY <1>2, <3>1
      <3> QED BY <1>1, <1>2, <3>2
    <2> QED BY <1>2, <2>1
  <1>4. n <= m * k  BY <1>2
  <1>5. ASSUME NEW i \in Nat, i < k PROVE i * m < n
    <2>1. i <= k - 1  BY <1>3, <1>5
    <2>2. m * i <= m * (k - 1)  BY <1>3, <2>1
    <2>3. m * (k - 1) = m * k - m  BY <1>3
    <2>4. m * k <= n + m - 1  BY <1>2
    <2>5. m * i \in Int /\ m * k \in Int /\ m * i <= n - 1
      BY <1>3, <2>2, <2>3, <2>4
    <2>6. i * m = m * i  OBVIOUS
    <2> QED BY <2>5, <2>6
  <1>6. k * m = m * k  BY <1>3
  <1> QED BY <1>3, <1>4, <1>5, <1>6 DEF k

-----------------------------------------------------------------------------
(* Segments, and the pbufs of a queue.                                     *)

SegType == [seq : Nat, data : Seq(Nat), ctl : SUBSET {"SYN", "FIN"}, bufs : Nat]

\* The segments of a queue, and their fields, are well typed.
LEMMA SegAt ==
    ASSUME NEW q \in Seq(SegType), NEW i \in 1..Len(q)
    PROVE  /\ q[i] \in SegType /\ q[i].seq \in Nat /\ q[i].data \in Seq(Nat)
           /\ q[i].ctl \in SUBSET {"SYN", "FIN"} /\ q[i].bufs \in Nat
  <1>1. q[i] \in SegType  OBVIOUS
  <1> HIDE DEF SegType
  <1>2. \A s \in SegType : /\ s.seq \in Nat /\ s.data \in Seq(Nat)
                           /\ s.ctl \in SUBSET {"SYN", "FIN"} /\ s.bufs \in Nat
    BY DEF SegType
  <1> QED BY <1>1, <1>2

\* Two queues in a row.
LEMMA Joined ==
    ASSUME NEW q \in Seq(SegType), NEW r \in Seq(SegType)
    PROVE  /\ q \o r \in Seq(SegType) /\ Len(q \o r) = Len(q) + Len(r)
           /\ Len(q) \in Nat /\ Len(r) \in Nat
           /\ \A i \in 1..Len(q) : (q \o r)[i] = q[i]
           /\ \A i \in 1..Len(r) : (q \o r)[Len(q) + i] = r[i]
  OBVIOUS

\* A queue of one segment.
LEMMA Single ==
    ASSUME NEW s \in SegType
    PROVE  <<s>> \in Seq(SegType) /\ Len(<<s>>) = 1 /\ <<s>>[1] = s
  OBVIOUS

\* c[i] is the number of pbufs of the first i segments, for i up to k.
CountsTo(q, k, c) ==
    /\ c \in [0..k -> Nat]
    /\ c[0] = 0
    /\ \A i \in 1..k : c[i] = c[i - 1] + q[i].bufs

Countable(q, k) == \E c : CountsTo(q, k, c)

\* There is such a function.
LEMMA CountExists ==
    ASSUME NEW q \in Seq(SegType)
    PROVE  Countable(q, Len(q))
  <1> DEFINE S == {k \in Nat : k <= Len(q) => Countable(q, k)}
  <1>1. 0 \in S
    <2> DEFINE c == [i \in 0..0 |-> 0]
    <2>1. CountsTo(q, 0, c)  BY DEF CountsTo
    <2> HIDE DEF c
    <2>2. Countable(q, 0)  BY <2>1 DEF Countable
    <2> QED BY <2>2
  <1>2. ASSUME NEW k \in Nat, k \in S, k + 1 <= Len(q) PROVE Countable(q, k + 1)
    <2>1. PICK c : CountsTo(q, k, c)
      BY <1>2 DEF Countable
    <2>2. q[k + 1].bufs \in Nat
      <3>1. k + 1 \in 1..Len(q)  BY <1>2
      <3> QED BY <3>1, SegAt
    <2> DEFINE d == [i \in 0..k + 1 |-> IF i <= k THEN c[i] ELSE c[k] + q[k + 1].bufs]
    <2>3. d \in [0..k + 1 -> Nat]
      BY <2>1, <2>2 DEF CountsTo
    <2>4. d[0] = 0
      BY <2>1 DEF CountsTo
    <2>5. ASSUME NEW i \in 1..k + 1 PROVE d[i] = d[i - 1] + q[i].bufs
      <3>1. CASE i <= k
        <4>1. i \in 1..k /\ i - 1 \in 0..k  BY <3>1
        <4>2. d[i] = c[i] /\ d[i - 1] = c[i - 1]  BY <4>1
        <4> QED BY <2>1, <4>1, <4>2 DEF CountsTo
      <3>2. CASE i = k + 1
        <4>1. d[i] = c[k] + q[k + 1].bufs /\ d[i - 1] = c[k]  BY <3>2
        <4> QED BY <3>2, <4>1
      <3> QED BY <3>1, <3>2
    <2> HIDE DEF d
    <2>6. CountsTo(q, k + 1, d)
      BY <2>3, <2>4, <2>5 DEF CountsTo
    <2> QED BY <2>6 DEF Countable
  <1>3. \A n \in Nat : n \in S => n + 1 \in S
    BY <1>2
  <1>4. \A n \in Nat : n \in S
    <2> HIDE DEF S
    <2> QED BY <1>1, <1>3, SetInduction
  <1> QED BY <1>4

\* PbufCount is the last value of any such function.
LEMMA CountIs ==
    ASSUME NEW q \in Seq(SegType), NEW c, CountsTo(q, Len(q), c)
    PROVE  PbufCount(q) = c[Len(q)] /\ PbufCount(q) \in Nat
  <1> DEFINE g == CHOOSE f : f = [i \in 0..Len(q) |-> IF i = 0 THEN 0 ELSE f[i - 1] + q[i].bufs]
  <1>1. PbufCount(q) = g[Len(q)]
    BY DEF PbufCount
  <1>2. c = [i \in 0..Len(q) |-> IF i = 0 THEN 0 ELSE c[i - 1] + q[i].bufs]
    <2>1. c = [i \in 0..Len(q) |-> c[i]]  BY DEF CountsTo
    <2>2. \A i \in 0..Len(q) : c[i] = IF i = 0 THEN 0 ELSE c[i - 1] + q[i].bufs
      BY DEF CountsTo
    <2> QED BY <2>1, <2>2
  <1>3. g = [i \in 0..Len(q) |-> IF i = 0 THEN 0 ELSE g[i - 1] + q[i].bufs]
    BY <1>2
  <1> HIDE DEF g
  <1> DEFINE S == {k \in Nat : k <= Len(q) => g[k] = c[k]}
  <1>4. 0 \in S
    BY <1>3 DEF CountsTo
  <1>5. ASSUME NEW k \in Nat, k \in S PROVE k + 1 \in S
    <2> SUFFICES ASSUME k + 1 <= Len(q) PROVE g[k + 1] = c[k + 1]
      OBVIOUS
    <2>1. g[k] = c[k]  BY <1>5
    <2>2. k + 1 \in 1..Len(q)  OBVIOUS
    <2>3. g[k + 1] = g[k] + q[k + 1].bufs  BY <1>3, <2>2
    <2>4. c[k + 1] = c[k] + q[k + 1].bufs  BY <2>2 DEF CountsTo
    <2> QED BY <2>1, <2>3, <2>4
  <1>6. \A n \in Nat : n \in S
    <2> HIDE DEF S
    <2> QED BY <1>4, <1>5, SetInduction
  <1>7. g[Len(q)] = c[Len(q)] /\ c[Len(q)] \in Nat
    BY <1>6 DEF CountsTo
  <1> QED BY <1>1, <1>7

\* The pbufs of a queue of n segments that q starts with.
LEMMA CountType ==
    ASSUME NEW q \in Seq(SegType)
    PROVE  PbufCount(q) \in Nat
  BY CountExists, CountIs DEF Countable

\* An empty queue has no pbufs, a queue of one segment the segment's.
LEMMA CountOne ==
    /\ PbufCount(<<>>) = 0
    /\ \A s \in SegType : PbufCount(<<s>>) = s.bufs
  <1>1. PbufCount(<<>>) = 0
    <2>0. <<>> \in Seq(SegType) /\ Len(<<>>) = 0  OBVIOUS
    <2>1. Countable(<<>>, Len(<<>>))
      BY <2>0, CountExists
    <2>2. PICK c : CountsTo(<<>>, Len(<<>>), c)
      BY <2>1 DEF Countable
    <2>3. c[0] = 0  BY <2>2 DEF CountsTo
    <2>4. PbufCount(<<>>) = c[Len(<<>>)]  BY <2>0, <2>2, CountIs
    <2> QED BY <2>0, <2>3, <2>4
  <1>2. ASSUME NEW s \in SegType PROVE PbufCount(<<s>>) = s.bufs
    <2>0. <<s>> \in Seq(SegType) /\ Len(<<s>>) = 1  OBVIOUS
    <2>1. PICK c : CountsTo(<<s>>, Len(<<s>>), c)
      BY <2>0, CountExists DEF Countable
    <2>2. c[1] = s.bufs
      BY <2>0, <2>1 DEF CountsTo, SegType
    <2> QED BY <2>0, <2>1, <2>2, CountIs
  <1> QED BY <1>1, <1>2

\* Two queues in a row have the pbufs of both.
LEMMA CountBoth ==
    ASSUME NEW q \in Seq(SegType), NEW r \in Seq(SegType)
    PROVE  PbufCount(q \o r) = PbufCount(q) + PbufCount(r)
  <1> DEFINE m == Len(q)
             n == Len(r)
             t == q \o r
  <1>1. m \in Nat /\ n \in Nat /\ t \in Seq(SegType) /\ Len(t) = m + n
        /\ (\A i \in 1..m : t[i] = q[i]) /\ (\A i \in 1..n : t[m + i] = r[i])
    OBVIOUS
  <1>2. PICK c : CountsTo(q, m, c)  BY CountExists DEF Countable
  <1>3. PICK d : CountsTo(r, n, d)  BY CountExists DEF Countable
  <1>4. PbufCount(q) = c[m] /\ PbufCount(r) = d[n]  BY <1>2, <1>3, CountIs
  <1> HIDE DEF m, n, t
  <1> DEFINE h == [i \in 0..m + n |-> IF i <= m THEN c[i] ELSE c[m] + d[i - m]]
  <1>5. h \in [0..m + n -> Nat]
    <2>1. ASSUME NEW i \in 0..m + n, i <= m PROVE c[i] \in Nat
      <3>1. i \in 0..m  BY <1>1, <2>1
      <3> QED BY <1>2, <3>1 DEF CountsTo
    <2>2. ASSUME NEW i \in 0..m + n, ~(i <= m) PROVE c[m] + d[i - m] \in Nat
      <3>1. i - m \in 0..n /\ m \in 0..m  BY <1>1, <2>2
      <3>2. c[m] \in Nat  BY <1>2, <3>1 DEF CountsTo
      <3>3. d[i - m] \in Nat  BY <1>3, <3>1 DEF CountsTo
      <3> QED BY <3>2, <3>3
    <2> QED BY <2>1, <2>2, SMTT(20)
  <1>6. h[0] = 0
    BY <1>1, <1>2 DEF CountsTo
  <1>7. ASSUME NEW i \in 1..m + n PROVE h[i] = h[i - 1] + t[i].bufs
    <2>1. CASE i <= m
      <3>1. i \in 1..m /\ i - 1 \in 0..m  BY <1>1, <2>1
      <3>2. h[i] = c[i] /\ h[i - 1] = c[i - 1]  BY <1>1, <3>1
      <3> QED BY <1>1, <1>2, <3>1, <3>2 DEF CountsTo
    <2>2. CASE i > m
      <3>1. i - m \in 1..n /\ i = m + (i - m)  BY <1>1, <2>2
      <3>2. t[i] = r[i - m]  BY <1>1, <3>1
      <3>3. h[i] = c[m] + d[i - m]  BY <1>1, <2>2
      <3>4. h[i - 1] = c[m] + d[i - m - 1]
        <4>1. CASE i = m + 1
          <5>1. h[i - 1] = c[m] /\ d[i - m - 1] = 0  BY <1>1, <1>3, <4>1 DEF CountsTo
          <5>2. c[m] \in Nat  BY <1>1, <1>2 DEF CountsTo
          <5> QED BY <5>1, <5>2
        <4>2. CASE i > m + 1
          <5>1. i - 1 > m /\ (i - 1) - m = i - m - 1  BY <1>1, <4>2
          <5> QED BY <1>1, <5>1
        <4> QED BY <1>1, <2>2, <4>1, <4>2
      <3>5. d[i - m] = d[i - m - 1] + r[i - m].bufs
        BY <1>3, <3>1 DEF CountsTo
      <3>6. c[m] \in Nat /\ d[i - m - 1] \in Nat /\ r[i - m].bufs \in Nat
        <4>1. i - m - 1 \in 0..n  BY <1>1, <3>1
        <4>2. r[i - m] \in SegType  BY <3>1 DEF n
        <4>3. c[m] \in Nat
          <5>1. m \in 0..m  BY <1>1
          <5> QED BY <1>2, <5>1 DEF CountsTo
        <4>4. d[i - m - 1] \in Nat  BY <1>3, <4>1 DEF CountsTo
        <4>5. r[i - m].bufs \in Nat  BY <4>2 DEF SegType
        <4> QED BY <4>3, <4>4, <4>5
      <3> QED BY <3>2, <3>3, <3>4, <3>5, <3>6
    <2> QED BY <1>1, <2>1, <2>2
  <1>8. CountsTo(t, Len(t), h)
    BY <1>1, <1>5, <1>6, <1>7, Zenon DEF CountsTo
  <1>9. PbufCount(t) = h[m + n]
    BY <1>1, <1>8, CountIs
  <1>10. h[m + n] = c[m] + d[n]
    <2>1. CASE n = 0
      <3>1. d[n] = 0 /\ c[m] \in Nat
        BY <1>1, <1>2, <1>3, <2>1 DEF CountsTo
      <3>2. m + n = m /\ m \in 0..m + n  BY <1>1, <2>1
      <3>3. h[m + n] = c[m]  BY <1>1, <3>2
      <3> QED BY <3>1, <3>3
    <2>2. CASE n > 0
      <3>1. ~(m + n <= m) /\ (m + n) - m = n /\ m + n \in 0..m + n  BY <1>1, <2>2
      <3>2. h[m + n] = c[m] + d[(m + n) - m]  BY <3>1
      <3> QED BY <3>1, <3>2
    <2> QED BY <1>1, <2>1, <2>2
  <1> QED BY <1>4, <1>9, <1>10 DEF t

\* Segments of two pbufs each.
LEMMA CountPairs ==
    ASSUME NEW q \in Seq(SegType), \A i \in 1..Len(q) : q[i].bufs = 2
    PROVE  PbufCount(q) = 2 * Len(q)
  <1> DEFINE c == [i \in 0..Len(q) |-> 2 * i]
  <1>1. c \in [0..Len(q) -> Nat] /\ c[0] = 0
    OBVIOUS
  <1>2. ASSUME NEW i \in 1..Len(q) PROVE c[i] = c[i - 1] + q[i].bufs
    <2>1. i \in 0..Len(q) /\ i - 1 \in 0..Len(q)  OBVIOUS
    <2> QED BY <2>1
  <1>3. c[Len(q)] = 2 * Len(q)
    OBVIOUS
  <1> HIDE DEF c
  <1>4. CountsTo(q, Len(q), c)
    BY <1>1, <1>2 DEF CountsTo
  <1> QED BY <1>3, <1>4, CountIs

\* One pbuf more in one segment is one pbuf more in the queue.
LEMMA CountOneMore ==
    ASSUME NEW q \in Seq(SegType), NEW r \in Seq(SegType),
           Len(q) > 0, Len(r) = Len(q), r[Len(q)].bufs = q[Len(q)].bufs + 1,
           \A i \in 1..Len(q) - 1 : r[i].bufs = q[i].bufs
    PROVE  PbufCount(r) = PbufCount(q) + 1
  <1> DEFINE n == Len(q)
  <1>1. n \in Nat /\ n > 0 /\ n \in 1..n /\ Len(r) = n
    OBVIOUS
  <1>2. PICK c : CountsTo(q, n, c)  BY CountExists DEF Countable
  <1> DEFINE d == [c EXCEPT ![n] = @ + 1]
  <1>3. c \in [0..n -> Nat]  BY <1>2 DEF CountsTo
  <1>4. d \in [0..n -> Nat] /\ d[n] = c[n] + 1 /\ \A i \in 0..n - 1 : d[i] = c[i]
    BY <1>1, <1>3
  <1>5. q[n].bufs \in Nat
    BY <1>1, SegAt
  <1>6. c[n] = c[n - 1] + q[n].bufs /\ n - 1 \in 0..n - 1 /\ c[n - 1] \in Nat
    <2> HIDE DEF n
    <2> QED BY <1>1, <1>2, <1>3 DEF CountsTo
  <1>7. r[n].bufs = q[n].bufs + 1 /\ \A i \in 1..n - 1 : r[i].bufs = q[i].bufs
    OBVIOUS
  <1>11. PbufCount(q) = c[n]
    BY <1>2, CountIs
  <1> HIDE DEF n, d
  <1>8. d[0] = 0
    BY <1>1, <1>2, <1>4 DEF CountsTo
  <1>9. ASSUME NEW i \in 1..n PROVE d[i] = d[i - 1] + r[i].bufs
    <2>1. CASE i = n
      <3>1. d[n - 1] = c[n - 1]  BY <1>4, <1>6
      <3> QED BY <1>4, <1>5, <1>6, <1>7, <2>1, <3>1
    <2>2. CASE i # n
      <3>1. i \in 1..n - 1 /\ i \in 0..n - 1 /\ i - 1 \in 0..n - 1  BY <1>1, <2>2
      <3> QED BY <1>2, <1>4, <1>7, <3>1 DEF CountsTo
    <2> QED BY <2>1, <2>2
  <1>10. CountsTo(r, Len(r), d)
    BY <1>1, <1>4, <1>8, <1>9, Zenon DEF CountsTo
  <1> QED BY <1>1, <1>4, <1>10, <1>11, CountIs

-----------------------------------------------------------------------------
(* The queue operators.                                                    *)

\* The end of a segment is a number behind its data.
LEMMA EndType ==
    ASSUME NEW s \in SegType
    PROVE  /\ TCP_TCPLEN(s) \in Nat /\ End(s) \in Nat
           /\ Len(s.data) \in Nat /\ s.seq \in Nat
           /\ End(s) = s.seq + TCP_TCPLEN(s)
           /\ Len(s.data) <= TCP_TCPLEN(s) /\ TCP_TCPLEN(s) <= Len(s.data) + 1
  <1>1. s.seq \in Nat /\ s.data \in Seq(Nat)  BY DEF SegType
  <1>2. Len(s.data) \in Nat  BY <1>1
  <1>3. TCP_TCPLEN(s) = Len(s.data) \/ TCP_TCPLEN(s) = Len(s.data) + 1
    <2>1. CASE s.ctl = {}  BY <1>2, <2>1 DEF TCP_TCPLEN
    <2>2. CASE s.ctl # {}  BY <1>2, <2>2 DEF TCP_TCPLEN
    <2> QED BY <2>1, <2>2
  <1>4. End(s) = s.seq + TCP_TCPLEN(s)
    BY DEF End
  <1> HIDE DEF SegType
  <1> QED BY <1>1, <1>2, <1>3, <1>4

\* A queue is what comes before a place in it and what comes from there on.
LEMMA SplitAt ==
    ASSUME NEW q \in Seq(SegType), NEW i \in 1..Len(q) + 1
    PROVE  LET g == SubSeq(q, 1, i - 1)
               l == SubSeq(q, i, Len(q))
           IN  /\ g \in Seq(SegType) /\ l \in Seq(SegType)
               /\ Len(g) = i - 1 /\ Len(l) = Len(q) - i + 1
               /\ \A j \in 1..i - 1 : g[j] = q[j]
               /\ \A j \in 1..Len(q) - i + 1 : l[j] = q[i - 1 + j]
               /\ q = g \o l
  <1> DEFINE g == SubSeq(q, 1, i - 1)
             l == SubSeq(q, i, Len(q))
             n == Len(q)
             r == g \o l
  <1>1. n \in Nat /\ i \in Int /\ i >= 1 /\ i <= n + 1 /\ i - 1 \in 0..n
    OBVIOUS
  <1>2. g \in Seq(SegType) /\ Len(g) = i - 1 /\ \A j \in 1..i - 1 : g[j] = q[j]
    <2>1. \A j \in 1..i - 1 : j \in 1..n  BY <1>1
    <2>2. Len(g) = i - 1  BY <1>1
    <2>3. \A j \in 1..i - 1 : g[j] = q[j]  BY <1>1, <2>1
    <2>4. \A j \in 1..i - 1 : q[j] \in SegType  BY <2>1
    <2>5. g \in Seq(SegType)  BY <1>1
    <2> QED BY <2>2, <2>3, <2>5
  <1>3. l \in Seq(SegType) /\ Len(l) = n - i + 1 /\ \A j \in 1..n - i + 1 : l[j] = q[i - 1 + j]
    <2>2. Len(l) = n - i + 1  BY <1>1
    <2>3. \A j \in 1..n - i + 1 : l[j] = q[i - 1 + j]  BY <1>1
    <2>5. l \in Seq(SegType)  BY <1>1
    <2> QED BY <2>2, <2>3, <2>5
  <1> HIDE DEF g, l, SegType
  <1>4. r \in Seq(SegType)
    BY <1>2, <1>3
  <1>5. Len(r) = n
    BY <1>1, <1>2, <1>3
  <1>6. ASSUME NEW j \in 1..n PROVE r[j] = q[j]
    <2>1. CASE j <= i - 1
      <3>1. j \in 1..i - 1 /\ j \in 1..Len(g)  BY <1>1, <1>2, <2>1
      <3>2. r[j] = g[j]  BY <1>2, <1>3, <3>1
      <3> QED BY <1>2, <3>1, <3>2
    <2>2. CASE j > i - 1
      <3>1. j - (i - 1) \in 1..n - i + 1 /\ i - 1 + (j - (i - 1)) = j  BY <1>1, <2>2
      <3>0. \A k \in 1..Len(l) : r[Len(g) + k] = l[k]
        BY ZenonT(40), <1>2, <1>3, Joined DEF r
      <3>2. r[Len(g) + (j - (i - 1))] = l[j - (i - 1)]  BY <1>3, <3>0, <3>1
      <3>3. Len(g) + (j - (i - 1)) = j  BY <1>1, <1>2
      <3>4. r[j] = l[j - (i - 1)]  BY <3>2, <3>3
      <3>5. l[j - (i - 1)] = q[i - 1 + (j - (i - 1))]  BY <1>3, <3>1
      <3>6. q[i - 1 + (j - (i - 1))] = q[j]  BY <3>1
      <3> QED BY <3>4, <3>5, <3>6
    <2>3. j <= i - 1 \/ j > i - 1  BY <1>1
    <2> QED BY <2>1, <2>2, <2>3, Zenon
  <1>7. q = r
    <2> HIDE DEF r
    <2> QED BY <1>4, <1>5, <1>6
  <1> QED BY <1>2, <1>3, <1>7 DEF g, l

\* The acknowledged segments are the first ones of a queue.
LEMMA LeftSplits ==
    ASSUME NEW q \in Seq(SegType), NEW a \in Nat
    PROVE  LET i == FirstLeft(q, a)
           IN  /\ i \in 1..Len(q) + 1
               /\ \A j \in 1..i - 1 : End(q[j]) <= a
               /\ i <= Len(q) => End(q[i]) > a
               /\ Left(q, a) \in Seq(SegType) /\ Gone(q, a) \in Seq(SegType)
               /\ Len(Left(q, a)) = Len(q) - i + 1
               /\ \A j \in 1..Len(q) - i + 1 : Left(q, a)[j] = q[i - 1 + j]
               /\ PbufCount(q) = PbufCount(Gone(q, a)) + PbufCount(Left(q, a))
  <1> DEFINE n == Len(q)
             T == {i \in 1..n + 1 : i > n \/ End(q[i]) > a}
             i == FirstLeft(q, a)
  <1>1. n \in Nat  OBVIOUS
  <1>2. T \in SUBSET Nat /\ n + 1 \in T  BY <1>1
  <1>3. i = Min(T)  BY DEF FirstLeft
  <1>4. Min(T) \in T /\ \A y \in T : Min(T) <= y
    <2> HIDE DEF T
    <2> QED BY <1>2, LeastNumber
  <1>5. i \in 1..n + 1 /\ (i <= n => End(q[i]) > a)
    BY <1>1, <1>3, <1>4
  <1>6. ASSUME NEW j \in 1..i - 1 PROVE End(q[j]) <= a
    <2>1. j \in 1..n + 1 /\ j <= n /\ j < i  BY <1>1, <1>5
    <2>2. j \notin T  BY <1>3, <1>4, <1>5, <2>1
    <2>3. ~(End(q[j]) > a)  BY <2>1, <2>2
    <2>4. q[j] \in SegType  BY <2>1
    <2> QED BY <2>3, <2>4, EndType
  <1> HIDE DEF T, i
  <1>7. Left(q, a) = SubSeq(q, i, n) /\ Gone(q, a) = SubSeq(q, 1, i - 1)
    BY DEF Left, Gone, i
  <1>8. /\ Left(q, a) \in Seq(SegType) /\ Gone(q, a) \in Seq(SegType)
        /\ Len(Left(q, a)) = n - i + 1
        /\ \A j \in 1..n - i + 1 : Left(q, a)[j] = q[i - 1 + j]
        /\ q = Gone(q, a) \o Left(q, a)
    <2> DEFINE l == SubSeq(q, i, n)
               g == SubSeq(q, 1, i - 1)
    <2>1. /\ l \in Seq(SegType) /\ g \in Seq(SegType) /\ Len(l) = n - i + 1
          /\ \A j \in 1..n - i + 1 : l[j] = q[i - 1 + j]
          /\ q = g \o l
      <3> HIDE DEF SegType
      <3> QED BY <1>5, SplitAt, ZenonT(60)
    <2>2. Left(q, a) = l /\ Gone(q, a) = g  BY <1>7
    <2> HIDE DEF l, g, SegType
    <2> QED BY <2>1, <2>2, ZenonT(60)
  <1>10. PbufCount(q) = PbufCount(Gone(q, a)) + PbufCount(Left(q, a))
    BY <1>8, CountBoth
  <1> QED BY <1>5, <1>6, <1>8, <1>10 DEF i

\* Inserting a segment splits the queue at its place.
LEMMA InsertSplits ==
    ASSUME NEW q \in Seq(SegType), NEW s \in SegType
    PROVE  \E i \in 1..Len(q) + 1 :
              /\ Insert(q, s) = SubSeq(q, 1, i - 1) \o <<s>> \o SubSeq(q, i, Len(q))
              /\ \A j \in 1..i - 1 : q[j].seq < s.seq
              /\ i <= Len(q) => q[i].seq >= s.seq
              /\ SubSeq(q, 1, i - 1) \in Seq(SegType) /\ SubSeq(q, i, Len(q)) \in Seq(SegType)
              /\ q = SubSeq(q, 1, i - 1) \o SubSeq(q, i, Len(q))
  <1> DEFINE n == Len(q)
             T == {i \in 1..n + 1 : i > n \/ q[i].seq >= s.seq}
             i == Min(T)
  <1>1. n \in Nat  OBVIOUS
  <1>2. T \in SUBSET Nat /\ n + 1 \in T  BY <1>1
  <1>3. i \in T /\ \A y \in T : i <= y
    <2> HIDE DEF T
    <2> QED BY <1>2, LeastNumber
  <1>4. i \in 1..n + 1 /\ (i <= n => q[i].seq >= s.seq)
    BY <1>1, <1>3
  <1>5. ASSUME NEW j \in 1..i - 1 PROVE q[j].seq < s.seq
    <2>1. j \in 1..n + 1 /\ j <= n /\ j < i  BY <1>1, <1>4
    <2>2. j \notin T  BY <1>3, <1>4, <2>1
    <2>3. ~(q[j].seq >= s.seq)  BY <2>1, <2>2
    <2>4. q[j].seq \in Nat  BY <2>1, SegAt
    <2>5. s.seq \in Nat  BY DEF SegType
    <2> QED BY <2>3, <2>4, <2>5
  <1>6. Insert(q, s) = SubSeq(q, 1, i - 1) \o <<s>> \o SubSeq(q, i, n)
    BY DEF Insert, InsertAt
  <1> HIDE DEF T, i
  <1>7. /\ SubSeq(q, 1, i - 1) \in Seq(SegType) /\ SubSeq(q, i, n) \in Seq(SegType)
        /\ q = SubSeq(q, 1, i - 1) \o SubSeq(q, i, n)
    BY <1>4, SplitAt
  <1> QED BY <1>4, <1>5, <1>6, <1>7

\* The queue has one segment more, and its pbufs.
LEMMA InsertAdds ==
    ASSUME NEW q \in Seq(SegType), NEW s \in SegType
    PROVE  /\ Insert(q, s) \in Seq(SegType)
           /\ PbufCount(Insert(q, s)) = PbufCount(q) + s.bufs
  <1>1. PICK i \in 1..Len(q) + 1 :
              /\ Insert(q, s) = SubSeq(q, 1, i - 1) \o <<s>> \o SubSeq(q, i, Len(q))
              /\ SubSeq(q, 1, i - 1) \in Seq(SegType) /\ SubSeq(q, i, Len(q)) \in Seq(SegType)
              /\ q = SubSeq(q, 1, i - 1) \o SubSeq(q, i, Len(q))
    BY InsertSplits, Zenon
  <1> DEFINE g == SubSeq(q, 1, i - 1)
             l == SubSeq(q, i, Len(q))
  <1>2. g \in Seq(SegType) /\ l \in Seq(SegType) /\ <<s>> \in Seq(SegType)
    <2>1. <<s>> \in Seq(SegType)  OBVIOUS
    <2> QED BY <1>1, <2>1
  <1>3. q = g \o l /\ Insert(q, s) = (g \o <<s>>) \o l
    BY <1>1
  <1> HIDE DEF g, l
  <1>4. g \o <<s>> \in Seq(SegType) /\ (g \o <<s>>) \o l \in Seq(SegType)
    BY <1>2
  <1>5. PbufCount(g \o <<s>>) = PbufCount(g) + s.bufs
    BY <1>2, CountBoth, CountOne
  <1>6. PbufCount((g \o <<s>>) \o l) = PbufCount(g) + s.bufs + PbufCount(l)
    BY <1>2, <1>4, <1>5, CountBoth
  <1>7. PbufCount(q) = PbufCount(g) + PbufCount(l)
    BY <1>2, <1>3, CountBoth
  <1>8. PbufCount(g) \in Nat /\ PbufCount(l) \in Nat /\ s.bufs \in Nat
    BY <1>2, CountType DEF SegType
  <1>9. PbufCount(Insert(q, s)) = PbufCount(q) + s.bufs
    BY <1>3, <1>6, <1>7, <1>8
  <1> QED BY <1>3, <1>4, <1>9

\* A segment behind all others goes to the end.
LEMMA InsertLast ==
    ASSUME NEW q \in Seq(SegType), NEW s \in SegType,
           \A j \in 1..Len(q) : q[j].seq < s.seq
    PROVE  Insert(q, s) = q \o <<s>>
  <1>1. PICK i \in 1..Len(q) + 1 :
              /\ Insert(q, s) = SubSeq(q, 1, i - 1) \o <<s>> \o SubSeq(q, i, Len(q))
              /\ i <= Len(q) => q[i].seq >= s.seq
    BY InsertSplits, Zenon
  <1>2. i = Len(q) + 1
    <2> SUFFICES ASSUME i <= Len(q) PROVE FALSE
      OBVIOUS
    <2>1. i \in 1..Len(q)  OBVIOUS
    <2>2. q[i].seq \in Nat /\ s.seq \in Nat  BY <2>1, SegAt DEF SegType
    <2> QED BY <1>1, <2>1, <2>2
  <1>3. SubSeq(q, 1, i - 1) = q
    BY <1>2
  <1>4. SubSeq(q, i, Len(q)) = <<>>
    BY <1>2
  <1>5. (q \o <<s>>) \o <<>> = q \o <<s>>
    <2>1. q \o <<s>> \in Seq(SegType)  OBVIOUS
    <2> QED BY <2>1
  <1> QED BY <1>1, <1>3, <1>4, <1>5

\* A segment before all others goes to the front.
LEMMA InsertFirst ==
    ASSUME NEW q \in Seq(SegType), NEW s \in SegType,
           \A j \in 1..Len(q) : q[j].seq >= s.seq
    PROVE  Insert(q, s) = <<s>> \o q
  <1>1. PICK i \in 1..Len(q) + 1 :
              /\ Insert(q, s) = SubSeq(q, 1, i - 1) \o <<s>> \o SubSeq(q, i, Len(q))
              /\ \A j \in 1..i - 1 : q[j].seq < s.seq
    BY InsertSplits, Zenon
  <1>2. i = 1
    <2> SUFFICES ASSUME i > 1 PROVE FALSE
      OBVIOUS
    <2>1. 1 \in 1..Len(q) /\ 1 \in 1..i - 1  OBVIOUS
    <2>2. q[1].seq \in Nat /\ s.seq \in Nat  BY <2>1, SegAt DEF SegType
    <2> QED BY <1>1, <2>1, <2>2
  <1>3. SubSeq(q, i, Len(q)) = q
    BY <1>2
  <1>4. SubSeq(q, 1, i - 1) = <<>>
    BY <1>2
  <1>5. (<<>> \o <<s>>) \o q = <<s>> \o q
    OBVIOUS
  <1> QED BY <1>1, <1>3, <1>4, <1>5

-----------------------------------------------------------------------------
(* The pcb and the operators that leave the stream alone.                  *)

States == {"CLOSED", "SYN_SENT", "ESTABLISHED", "FIN_WAIT_1", "FIN_WAIT_2",
           "CLOSE_WAIT", "CLOSING", "LAST_ACK", "TIME_WAIT", "FREE"}
FlagNames == {"NODELAY", "ACK_NOW", "NAGLEMEMERR", "INFR", "FIN", "RXCLOSED"}
Queue == Seq(SegType)

PcbType ==
    [state : States, unsent : Queue, unacked : Queue, flags : SUBSET FlagNames,
     snd_lbb : Nat, snd_nxt : Nat, lastack : Nat, snd_buf : Int, snd_queuelen : Int,
     snd_wnd : Nat, snd_wnd_max : Nat, cwnd : Nat, ssthresh : Nat, nrtx : Nat,
     delack : BOOLEAN, rexmit : BOOLEAN, persist : BOOLEAN, acks : Nat, hrt : BOOLEAN,
     rcv_nxt : Nat, rcv_wnd : Int, rcv_ann_wnd : Int, right_edge : Int]

\* q has the state, the queues, the numbers and the limits of p.
SameStream(p, q) ==
    /\ q.state = p.state /\ q.unsent = p.unsent /\ q.unacked = p.unacked
    /\ q.snd_lbb = p.snd_lbb /\ q.snd_nxt = p.snd_nxt /\ q.lastack = p.lastack
    /\ q.snd_buf = p.snd_buf /\ q.snd_queuelen = p.snd_queuelen
    /\ q.snd_wnd = p.snd_wnd /\ q.snd_wnd_max = p.snd_wnd_max

\* q has the receive window of p, and has announced at most what p may announce.
SameWindow(p, q) ==
    /\ q.rcv_nxt = p.rcv_nxt /\ q.rcv_wnd = p.rcv_wnd /\ q.rcv_ann_wnd = p.rcv_ann_wnd
    /\ q.right_edge = p.right_edge \/ q.right_edge = p.rcv_nxt + p.rcv_ann_wnd

\* What every step from pcb to pcb that leaves the stream alone keeps.
Calm(p, q) ==
    /\ q \in PcbType /\ SameStream(p, q) /\ SameWindow(p, q)
    /\ "NODELAY" \in p.flags => "NODELAY" \in q.flags

\* An acknowledgement is going to be sent.
Marked(p) == "ACK_NOW" \in p.flags \/ p.delack

\* Steps that are calm follow each other.
LEMMA CalmTwice ==
    ASSUME NEW p, NEW q, NEW r, Calm(p, q), Calm(q, r)
    PROVE  Calm(p, r)
  BY DEF Calm, SameStream, SameWindow

\* Changes of the flags and the timers.
LEMMA CalmChange ==
    ASSUME NEW p \in PcbType, NEW f \in SUBSET FlagNames, "NODELAY" \in p.flags => "NODELAY" \in f,
           NEW d \in BOOLEAN, NEW x \in BOOLEAN, NEW h \in BOOLEAN
    PROVE  LET q == [p EXCEPT !.flags = f, !.delack = d, !.rexmit = x, !.hrt = h]
           IN  Calm(p, q) /\ q.flags = f /\ q.delack = d /\ q.rexmit = x /\ q.hrt = h
               /\ q.cwnd = p.cwnd /\ q.nrtx = p.nrtx
  BY ZenonT(40) DEF Calm, SameStream, SameWindow, PcbType

\* The fields of a pcb are well typed.
LEMMA PcbFields ==
    ASSUME NEW p \in PcbType
    PROVE  /\ p.state \in States /\ p.unsent \in Queue /\ p.unacked \in Queue
           /\ p.flags \in SUBSET FlagNames /\ p.snd_lbb \in Nat /\ p.snd_nxt \in Nat
           /\ p.lastack \in Nat /\ p.snd_buf \in Int /\ p.snd_queuelen \in Int
           /\ p.snd_wnd \in Nat /\ p.snd_wnd_max \in Nat /\ p.cwnd \in Nat
           /\ p.ssthresh \in Nat /\ p.nrtx \in Nat /\ p.delack \in BOOLEAN
           /\ p.rexmit \in BOOLEAN /\ p.persist \in BOOLEAN /\ p.acks \in Nat
           /\ p.hrt \in BOOLEAN /\ p.rcv_nxt \in Nat /\ p.rcv_wnd \in Int
           /\ p.rcv_ann_wnd \in Int /\ p.right_edge \in Int
  BY DEF PcbType

\* tcp_recompute_timers changes the hrtimer only.
LEMMA TimersCalm ==
    ASSUME NEW p \in PcbType
    PROVE  LET q == tcp_recompute_timers(p)
           IN  Calm(p, q) /\ q.flags = p.flags /\ q.delack = p.delack /\ q.cwnd = p.cwnd
  BY DEF tcp_recompute_timers, AnyTimer, Calm, SameStream, SameWindow, PcbType

\* A header announces the window.
LEMMA HeaderCalm ==
    ASSUME NEW p \in PcbType
    PROVE  LET q == tcp_output_alloc_header(p)
           IN  Calm(p, q) /\ q.flags = p.flags /\ q.delack = p.delack /\ q.cwnd = p.cwnd
  BY DEF tcp_output_alloc_header, Calm, SameStream, SameWindow, PcbType

\* What an acknowledgement clears.
LEMMA AckSentCalm ==
    ASSUME NEW p \in PcbType
    PROVE  LET q == AckSent(p)
           IN  Calm(p, q) /\ q.cwnd = p.cwnd /\ q.flags = p.flags \ {"ACK_NOW"}
  <1> DEFINE r == [p EXCEPT !.flags = @ \ {"ACK_NOW"}, !.delack = FALSE]
  <1>1. Calm(p, r) /\ r \in PcbType /\ r.cwnd = p.cwnd /\ r.flags = p.flags \ {"ACK_NOW"}
    BY DEF Calm, SameStream, SameWindow, PcbType
  <1> HIDE DEF r
  <1>2. LET q == tcp_recompute_timers(r) IN Calm(r, q) /\ q.flags = r.flags /\ q.cwnd = r.cwnd
    BY <1>1, TimersCalm
  <1>3. LET q == tcp_recompute_timers(r) IN Calm(p, q)
    BY <1>1, <1>2, CalmTwice
  <1> QED BY <1>1, <1>2, <1>3 DEF AckSent, r

\* An empty acknowledgement, with memory or without.
LEMMA EmptyAckCalm ==
    ASSUME NEW p \in PcbType, NEW mem \in BOOLEAN
    PROVE  /\ Calm(p, tcp_send_empty_ack(p, mem))
           /\ ~mem => tcp_send_empty_ack(p, mem) = p
  <1>1. CASE mem
    <2>1. LET h == tcp_output_alloc_header(p) IN Calm(p, h) /\ h \in PcbType
      BY HeaderCalm DEF Calm
    <2>2. LET h == tcp_output_alloc_header(p) IN Calm(h, AckSent(h))
      BY <2>1, AckSentCalm
    <2> QED BY <1>1, <2>1, <2>2, CalmTwice DEF tcp_send_empty_ack
  <1>2. CASE ~mem
    BY <1>2 DEF tcp_send_empty_ack, Calm, SameStream, SameWindow
  <1> QED BY <1>1, <1>2

\* Sending a segment's header starts the retransmission timer.
LEMMA SegmentCalm ==
    ASSUME NEW p \in PcbType
    PROVE  LET q == tcp_output_segment(p)
           IN  Calm(p, q) /\ q.cwnd = p.cwnd /\ q.flags = p.flags
  <1> DEFINE h == tcp_output_alloc_header(p)
             r == [h EXCEPT !.rexmit = TRUE]
  <1>1. Calm(p, h) /\ h \in PcbType /\ h.cwnd = p.cwnd /\ h.flags = p.flags
    BY HeaderCalm DEF Calm
  <1> HIDE DEF h
  <1>2. Calm(h, r) /\ r \in PcbType /\ r.cwnd = h.cwnd /\ r.flags = h.flags
    BY <1>1 DEF Calm, SameStream, SameWindow, PcbType
  <1> HIDE DEF r
  <1>3. LET q == tcp_recompute_timers(r) IN Calm(r, q) /\ q.cwnd = r.cwnd /\ q.flags = r.flags
    BY <1>2, TimersCalm
  <1>4. Calm(p, tcp_recompute_timers(r))
    BY <1>1, <1>2, <1>3, CalmTwice
  <1> QED BY <1>1, <1>2, <1>3, <1>4 DEF tcp_output_segment, r, h

\* The flags of a failed allocation, an acknowledgement to send and a receiver
\* that is shut.
LEMMA FlagsCalm ==
    ASSUME NEW p \in PcbType
    PROVE  /\ Calm(p, NagleMemErr(p)) /\ (Marked(p) => Marked(NagleMemErr(p)))
           /\ NagleMemErr(p).flags = p.flags \cup {"NAGLEMEMERR"}
           /\ Calm(p, tcp_ack_now(p)) /\ "ACK_NOW" \in tcp_ack_now(p).flags
           /\ tcp_ack_now(p).cwnd = p.cwnd
           /\ Calm(p, RxClosed(p)) /\ (Marked(p) => Marked(RxClosed(p)))
  <1>1. /\ Calm(p, NagleMemErr(p)) /\ NagleMemErr(p).delack = p.delack
        /\ NagleMemErr(p).flags = p.flags \cup {"NAGLEMEMERR"}
    BY DEF NagleMemErr, Calm, SameStream, SameWindow, PcbType, FlagNames
  <1>2. /\ Calm(p, tcp_ack_now(p)) /\ tcp_ack_now(p).flags = p.flags \cup {"ACK_NOW"}
        /\ tcp_ack_now(p).cwnd = p.cwnd
    BY DEF tcp_ack_now, Calm, SameStream, SameWindow, PcbType, FlagNames
  <1>3. /\ Calm(p, RxClosed(p)) /\ RxClosed(p).delack = p.delack
        /\ RxClosed(p).flags = p.flags \cup {"RXCLOSED"}
    BY DEF RxClosed, Calm, SameStream, SameWindow, PcbType, FlagNames
  <1> QED BY <1>1, <1>2, <1>3 DEF Marked

\* tcp_ack marks the pcb.
LEMMA AckCalm ==
    ASSUME NEW p \in PcbType
    PROVE  Calm(p, tcp_ack(p)) /\ Marked(tcp_ack(p))
  <1>0. p.acks \in Nat /\ p.delack \in BOOLEAN /\ p.flags \in SUBSET FlagNames
    BY PcbFields
  <1>1. CASE ~p.delack
    <2> DEFINE r == [p EXCEPT !.acks = 1, !.delack = TRUE]
    <2>1. Calm(p, r) /\ r \in PcbType /\ r.delack
      BY DEF Calm, SameStream, SameWindow, PcbType
    <2> HIDE DEF r
    <2>2. Calm(r, tcp_recompute_timers(r)) /\ tcp_recompute_timers(r).delack = r.delack
      BY <2>1, TimersCalm
    <2>3. tcp_ack(p) = tcp_recompute_timers(r)
      BY <1>1 DEF tcp_ack, r
    <2> QED BY <2>1, <2>2, <2>3, CalmTwice DEF Marked
  <1>2. CASE p.delack /\ p.acks + 1 >= 2
    <2> DEFINE r == [p EXCEPT !.acks = @ + 1, !.delack = FALSE, !.flags = @ \cup {"ACK_NOW"}]
    <2>0. p.flags \cup {"ACK_NOW"} \in SUBSET FlagNames /\ p.acks + 1 \in Nat
      BY <1>0 DEF FlagNames
    <2>1. Calm(p, r) /\ r \in PcbType /\ r.flags = p.flags \cup {"ACK_NOW"}
      <3>1. r \in PcbType  BY <2>0 DEF PcbType
      <3>2. SameStream(p, r) /\ SameWindow(p, r) /\ r.flags = p.flags \cup {"ACK_NOW"}
        BY DEF SameStream, SameWindow, PcbType
      <3> QED BY <3>1, <3>2 DEF Calm
    <2> HIDE DEF r
    <2>2. Calm(r, tcp_recompute_timers(r)) /\ tcp_recompute_timers(r).flags = r.flags
      BY <2>1, TimersCalm
    <2>3. tcp_ack(p) = tcp_recompute_timers(r)
      BY <1>2 DEF tcp_ack, r
    <2> QED BY <2>1, <2>2, <2>3, CalmTwice DEF Marked
  <1>3. CASE p.delack /\ ~(p.acks + 1 >= 2)
    <2>1. tcp_ack(p) = [p EXCEPT !.acks = @ + 1]
      BY <1>3 DEF tcp_ack
    <2>2. Calm(p, [p EXCEPT !.acks = @ + 1]) /\ [p EXCEPT !.acks = @ + 1].delack = p.delack
      BY <1>0 DEF Calm, SameStream, SameWindow, PcbType
    <2> QED BY <1>3, <2>1, <2>2 DEF Marked
  <1> QED BY <1>0, <1>1, <1>2, <1>3

\* The probe of a closed window.
LEMMA ProbeCalm ==
    ASSUME NEW p \in PcbType, NEW mem \in BOOLEAN
    PROVE  LET q == tcp_zero_window_probe(p, mem)
           IN  Calm(p, q) /\ q.flags = p.flags /\ q.delack = p.delack
  <1>1. CASE p.unacked \o p.unsent # <<>> /\ mem
    BY <1>1, HeaderCalm DEF tcp_zero_window_probe
  <1>2. CASE ~(p.unacked \o p.unsent # <<>> /\ mem)
    BY <1>2 DEF tcp_zero_window_probe, Calm, SameStream, SameWindow
  <1> QED BY <1>1, <1>2

-----------------------------------------------------------------------------
(* tcp_output.                                                             *)

\* What tcp_output leaves alone, whatever it sends.
SameLimits(p, q) ==
    /\ q.state = p.state /\ q.snd_lbb = p.snd_lbb /\ q.lastack = p.lastack
    /\ q.snd_buf = p.snd_buf /\ q.snd_queuelen = p.snd_queuelen
    /\ q.snd_wnd = p.snd_wnd /\ q.snd_wnd_max = p.snd_wnd_max

\* The head of the unsent queue and the rest.
LEMMA HeadAndTail ==
    ASSUME NEW q \in Queue, q # <<>>
    PROVE  /\ Head(q) \in SegType /\ Tail(q) \in Queue /\ Head(q) = q[1]
           /\ Len(q) > 0 /\ Len(Tail(q)) = Len(q) - 1
           /\ \A i \in 1..Len(q) - 1 : Tail(q)[i] = q[i + 1]
           /\ q = <<Head(q)>> \o Tail(q)
           /\ PbufCount(q) = Head(q).bufs + PbufCount(Tail(q))
  <1> USE DEF Queue
  <1> HIDE DEF SegType
  <1>1. /\ Head(q) \in SegType /\ Tail(q) \in Queue /\ Head(q) = q[1]
        /\ Len(q) > 0 /\ Len(Tail(q)) = Len(q) - 1
        /\ \A i \in 1..Len(q) - 1 : Tail(q)[i] = q[i + 1]
    OBVIOUS
  <1>2. q = <<Head(q)>> \o Tail(q)
    OBVIOUS
  <1>3. <<Head(q)>> \in Queue /\ PbufCount(<<Head(q)>>) = Head(q).bufs
    BY <1>1, CountOne
  <1>4. PbufCount(<<Head(q)>> \o Tail(q)) = Head(q).bufs + PbufCount(Tail(q))
    BY <1>1, <1>3, CountBoth
  <1>5. PbufCount(q) = Head(q).bufs + PbufCount(Tail(q))
    BY <1>2, <1>4
  <1> QED BY <1>1, <1>2, <1>5

\* One round sends the head of the queue.
LEMMA SendHeadIs ==
    ASSUME NEW p \in PcbType, p.unsent # <<>>
    PROVE  LET s == Head(p.unsent)
               r == SendHead(p)
           IN  /\ r \in PcbType /\ SameLimits(p, r) /\ SameWindow(p, r) /\ r.cwnd = p.cwnd
               /\ "NODELAY" \in p.flags => "NODELAY" \in r.flags
               /\ r.unsent = Tail(p.unsent)
               /\ r.unacked = (IF TCP_TCPLEN(s) > 0 THEN Insert(p.unacked, s) ELSE p.unacked)
               /\ r.snd_nxt = p.snd_nxt \/ r.snd_nxt = End(s)
  <1> DEFINE s == Head(p.unsent)
             q == [p EXCEPT !.unsent = Tail(@)]
             t == IF p.state = "SYN_SENT" THEN q ELSE AckSent(q)
             r == tcp_output_segment(t)
             u == IF TCP_TCPLEN(s) > 0 THEN Insert(p.unacked, s) ELSE p.unacked
  <1>0. p.unsent \in Queue /\ p.unacked \in Queue /\ p.snd_nxt \in Nat
    BY PcbFields
  <1>1. s \in SegType /\ Tail(p.unsent) \in Queue
    BY <1>0, HeadAndTail
  <1>2. u \in Queue /\ End(s) \in Nat
    <2> HIDE DEF s
    <2> QED BY <1>0, <1>1, InsertAdds, EndType DEF Queue
  <1> HIDE DEF s, u
  <1>3. q \in PcbType /\ SameLimits(p, q) /\ SameWindow(p, q) /\ q.cwnd = p.cwnd
        /\ q.flags = p.flags /\ q.unsent = Tail(p.unsent) /\ q.unacked = p.unacked
        /\ q.snd_nxt = p.snd_nxt
    BY <1>1 DEF PcbType, SameLimits, SameWindow
  <1> HIDE DEF q
  <1>4. Calm(q, t) /\ t.cwnd = q.cwnd /\ t \in PcbType
    <2>1. CASE p.state = "SYN_SENT"
      BY <1>3, <2>1 DEF Calm, SameStream, SameWindow
    <2>2. CASE p.state # "SYN_SENT"
      <3>1. Calm(q, AckSent(q)) /\ AckSent(q).cwnd = q.cwnd
        BY <1>3, AckSentCalm
      <3> QED BY <2>2, <3>1 DEF Calm
    <2> QED BY <2>1, <2>2
  <1> HIDE DEF t
  <1>5. Calm(t, r) /\ r.cwnd = t.cwnd
    BY <1>4, SegmentCalm
  <1> HIDE DEF r
  <1>6. Calm(q, r) /\ r.cwnd = q.cwnd /\ r \in PcbType
    BY <1>4, <1>5, CalmTwice DEF Calm
  <1> DEFINE n == Max({r.snd_nxt, End(s)})
             z == [r EXCEPT !.snd_nxt = n, !.unacked = u]
  <1>7. r.snd_nxt = p.snd_nxt /\ r.unacked = p.unacked
    BY <1>3, <1>6 DEF Calm, SameStream
  <1>8. n \in Nat /\ (n = p.snd_nxt \/ n = End(s))
    <2>1. r.snd_nxt \in Nat /\ End(s) \in Nat  BY <1>0, <1>2, <1>7
    <2>2. r.snd_nxt \in Int /\ End(s) \in Int  BY <2>1
    <2>3. n = r.snd_nxt \/ n = End(s)  BY <2>2, MaxOfTwo
    <2> HIDE DEF n
    <2> QED BY <1>7, <2>1, <2>3
  <1> HIDE DEF n
  <1>9. z \in PcbType /\ SameLimits(r, z) /\ SameWindow(r, z) /\ z.cwnd = r.cwnd
        /\ z.flags = r.flags /\ z.unsent = r.unsent /\ z.unacked = u /\ z.snd_nxt = n
    BY <1>2, <1>6, <1>8 DEF PcbType, SameLimits, SameWindow
  <1>10. SendHead(p) = z
    BY <1>7 DEF SendHead, z, u, n, r, t, q, s
  <1> HIDE DEF z
  <1>11. SameLimits(p, z)
    BY <1>3, <1>6, <1>9 DEF SameLimits, Calm, SameStream
  <1>12. SameWindow(p, z)
    BY <1>3, <1>6, <1>9 DEF SameWindow, Calm
  <1>13. z.cwnd = p.cwnd /\ z.unsent = Tail(p.unsent) /\ ("NODELAY" \in p.flags => "NODELAY" \in z.flags)
    BY <1>3, <1>6, <1>9 DEF Calm, SameStream
  <1> QED BY <1>8, <1>9, <1>10, <1>11, <1>12, <1>13 DEF u, s

\* g[i] is the pcb after i rounds of the loop in tcp_output.
Round(r) == IF CanSend(r) THEN SendHead(r) ELSE r
RoundsFrom(p, k, g) == g = [n \in 0..k |-> IF n = 0 THEN p ELSE Round(g[n - 1])]
Rounds(p, k) == \E g : RoundsFrom(p, k, g)

\* The loop has a run of every length.
LEMMA RoundsExist ==
    ASSUME NEW p
    PROVE  \A k \in Nat : Rounds(p, k)
  <1>1. Rounds(p, 0)
    <2> DEFINE g0 == [i \in 0..0 |-> p]
    <2>1. RoundsFrom(p, 0, g0)
      BY DEF RoundsFrom
    <2> QED BY <2>1 DEF Rounds
  <1>2. ASSUME NEW k \in Nat, Rounds(p, k) PROVE Rounds(p, k + 1)
    <2>1. PICK g : RoundsFrom(p, k, g)
      BY <1>2 DEF Rounds
    <2> DEFINE h == [i \in 0..(k + 1) |-> IF i <= k THEN g[i] ELSE Round(g[k])]
    <2>2. /\ \A i \in 0..k : h[i] = g[i]
          /\ h[k + 1] = Round(g[k])
          /\ h = [i \in 0..(k + 1) |-> h[i]]
      OBVIOUS
    <2>3. \A i \in 0..k : g[i] = IF i = 0 THEN p ELSE Round(g[i - 1])
      BY <2>1 DEF RoundsFrom
    <2> HIDE DEF h
    <2>4. ASSUME NEW i \in 0..(k + 1) PROVE h[i] = IF i = 0 THEN p ELSE Round(h[i - 1])
      <3>1. CASE i = 0
        <4>1. 0 \in 0..k  OBVIOUS
        <4> QED BY <4>1, <3>1, <2>2, <2>3
      <3>2. CASE i \in 1..k
        <4>0. i \in 0..k /\ i - 1 \in 0..k /\ i # 0  BY <3>2
        <4>1. h[i] = g[i] /\ h[i - 1] = g[i - 1]  BY <4>0, <2>2
        <4> QED BY <4>0, <4>1, <2>3
      <3>3. CASE i = k + 1
        <4>1. i - 1 = k /\ i # 0 /\ k \in 0..k  BY <3>3
        <4>2. h[i - 1] = g[k]  BY <4>1, <2>2
        <4> QED BY <4>1, <4>2, <3>3, <2>2
      <3> QED BY <3>1, <3>2, <3>3
    <2>5. RoundsFrom(p, k + 1, h)
      BY <2>4, <2>2, Zenon DEF RoundsFrom
    <2> QED BY <2>5 DEF Rounds
  <1> DEFINE S == {k \in Nat : Rounds(p, k)}
  <1>3. 0 \in S /\ \A n \in Nat : n \in S => n + 1 \in S
    BY <1>1, <1>2
  <1>4. \A n \in Nat : n \in S
    <2> HIDE DEF S
    <2> QED BY <1>3, SetInduction
  <1> QED BY <1>4

\* A set of pcbs that a round does not leave, and that holds the pcb at the
\* start or after the first round, holds it after the last.
LEMMA OutputStays ==
    ASSUME NEW S, NEW p \in PcbType, NEW mem, ~WantsEmptyAck(p),
           p \in S \/ (CanSend(p) /\ SendHead(p) \in S),
           \A r \in S : CanSend(r) => SendHead(r) \in S
    PROVE  \E r \in S : tcp_output(p, mem) = [r EXCEPT !.flags = @ \ {"NAGLEMEMERR"}]
  <1> DEFINE N == Len(p.unsent)
             round == CHOOSE g : g = [n \in 0..N |->
                          IF n = 0 THEN p
                          ELSE IF CanSend(g[n - 1]) THEN SendHead(g[n - 1]) ELSE g[n - 1]]
  <1>0. p.unsent \in Queue
    BY PcbFields
  <1>1. N \in Nat /\ (p.unsent # <<>> => N > 0)
    BY <1>0 DEF Queue
  <1>2. tcp_output(p, mem) = [round[N] EXCEPT !.flags = @ \ {"NAGLEMEMERR"}]
    BY DEF tcp_output
  <1>3. round = [n \in 0..N |->
                    IF n = 0 THEN p
                    ELSE IF CanSend(round[n - 1]) THEN SendHead(round[n - 1]) ELSE round[n - 1]]
    <2>1. PICK g : RoundsFrom(p, N, g)
      BY <1>1, RoundsExist DEF Rounds
    <2>2. g = [n \in 0..N |->
                  IF n = 0 THEN p
                  ELSE IF CanSend(g[n - 1]) THEN SendHead(g[n - 1]) ELSE g[n - 1]]
      BY <2>1, Zenon DEF RoundsFrom, Round
    <2> QED BY <2>2
  <1> HIDE DEF N, round
  <1>4. round[0] = p
    BY <1>1, <1>3
  <1>5. ASSUME NEW n \in Nat, n + 1 <= N PROVE round[n + 1] = Round(round[n])
    <2>1. n + 1 \in 0..N /\ n + 1 # 0 /\ (n + 1) - 1 = n
      BY <1>1, <1>5
    <2> QED BY <1>3, <2>1 DEF Round
  <1> DEFINE T == {n \in Nat : n <= N => round[n] \in S}
             k == IF p \in S THEN 0 ELSE 1
  <1>6. ASSUME NEW n \in Nat, n \in T PROVE n + 1 \in T
    BY <1>1, <1>5, <1>6 DEF Round
  <1>7. round[N] \in S
    <2>1. CASE p \in S
      <3>1. 0 \in T  BY <1>4, <2>1
      <3>2. \A n \in Nat : n \in T
        <4> HIDE DEF T
        <4> QED BY <1>6, <3>1, SetInduction
      <3> QED BY <1>1, <3>2
    <2>2. CASE CanSend(p) /\ SendHead(p) \in S
      <3>0. N > 0  BY <1>1, <2>2 DEF CanSend
      <3>1. round[1] \in S
        <4>1. round[0 + 1] = Round(round[0])  BY <1>1, <1>5, <3>0
        <4> QED BY <1>4, <2>2, <4>1 DEF Round
      <3> DEFINE R == {n \in Nat : n + 1 \in T}
      <3>2. 0 \in R  BY <3>1
      <3>3. \A n \in Nat : n \in R => n + 1 \in R  BY <1>6
      <3>4. \A n \in Nat : n \in R
        <4> HIDE DEF R
        <4> QED BY <3>2, <3>3, SetInduction
      <3>5. N - 1 \in Nat /\ (N - 1) + 1 = N  BY <1>1, <3>0
      <3>6. N \in T  BY <3>4, <3>5
      <3> QED BY <1>1, <3>6
    <2> QED BY <2>1, <2>2
  <1> QED BY <1>2, <1>7

-----------------------------------------------------------------------------
(* The invariant of a pcb, but for the order of the stream.                *)

\* What has been announced is there, and so is what will be announced.
Promise(p) ==
    /\ 0 <= p.rcv_wnd /\ p.rcv_ann_wnd <= p.rcv_wnd
    /\ p.right_edge <= p.rcv_nxt + p.rcv_wnd

\* No segment is empty or longer than the peer allows.
SegsOk(q, wnd_max) ==
    \A i \in 1..Len(q) : /\ TCP_TCPLEN(q[i]) > 0
                         /\ Len(q[i].data) <= MSS /\ 2 * Len(q[i].data) <= wnd_max

\* The counters count what the queues hold.
Accounts(p) ==
    /\ p.snd_buf + p.snd_lbb - p.lastack = SndBuf
    /\ p.snd_queuelen = PbufCount(p.unacked) + PbufCount(p.unsent)
    /\ p.snd_queuelen <= SndQueueLen
    /\ SegsOk(p.unacked, p.snd_wnd_max) /\ SegsOk(p.unsent, p.snd_wnd_max)

\* The pcb is on its way to be freed, or free.
Ended(p) == p.state \in {"FREE", "TIME_WAIT"}

PcbOk(p) ==
    /\ p \in PcbType
    /\ "NODELAY" \in p.flags
    /\ Promise(p)
    /\ ~Ended(p) => Accounts(p)

\* A calm step keeps it.
LEMMA CalmOk ==
    ASSUME NEW p, PcbOk(p), NEW q, Calm(p, q)
    PROVE  PcbOk(q)
  <1>1. p \in PcbType /\ q \in PcbType /\ "NODELAY" \in q.flags
    BY DEF PcbOk, Calm
  <1>2. SameStream(p, q) /\ SameWindow(p, q)
    BY DEF Calm
  <1>3. /\ p.rcv_nxt \in Nat /\ p.rcv_wnd \in Int /\ p.rcv_ann_wnd \in Int /\ p.right_edge \in Int
    BY <1>1, PcbFields
  <1>4. Promise(q)
    BY <1>2, <1>3 DEF PcbOk, Promise, SameWindow
  <1>5. ~Ended(q) => Accounts(q)
    BY <1>2 DEF PcbOk, Ended, Accounts, SameStream
  <1> QED BY <1>1, <1>4, <1>5 DEF PcbOk

\* Segments that are in order in two queues are in order in what Insert makes.
LEMMA SegsInsert ==
    ASSUME NEW q \in Queue, NEW s \in SegType, NEW w, SegsOk(q, w),
           TCP_TCPLEN(s) > 0, Len(s.data) <= MSS, 2 * Len(s.data) <= w
    PROVE  SegsOk(Insert(q, s), w)
  <1>1. PICK i \in 1..Len(q) + 1 :
              Insert(q, s) = SubSeq(q, 1, i - 1) \o <<s>> \o SubSeq(q, i, Len(q))
    BY InsertSplits, Zenon DEF Queue
  <1> DEFINE g == SubSeq(q, 1, i - 1)
             l == SubSeq(q, i, Len(q))
             h == g \o <<s>>
             r == h \o l
             n == Len(q)
  <1>2. /\ g \in Seq(SegType) /\ l \in Seq(SegType) /\ <<s>> \in Seq(SegType)
        /\ Len(g) = i - 1 /\ Len(l) = n - i + 1
        /\ \A j \in 1..i - 1 : g[j] = q[j]
        /\ \A j \in 1..n - i + 1 : l[j] = q[i - 1 + j]
    BY SplitAt DEF Queue
  <1>3. n \in Nat /\ i \in 1..n + 1  BY DEF Queue
  <1> HIDE DEF g, l, n, SegType
  <1>h. h \in Seq(SegType) /\ Len(h) = i /\ h[i] = s /\ \A j \in 1..i - 1 : h[j] = g[j]
    <2> HIDE DEF h
    <2>1. <<s>> \in Seq(SegType) /\ Len(<<s>>) = 1 /\ <<s>>[1] = s
      BY Single
    <2>2. /\ h \in Seq(SegType) /\ Len(h) = Len(g) + Len(<<s>>)
          /\ \A j \in 1..Len(g) : h[j] = g[j]
          /\ \A j \in 1..Len(<<s>>) : h[Len(g) + j] = <<s>>[j]
      BY <1>2, <2>1, Joined DEF h
    <2>3. Len(h) = i /\ h[Len(g) + 1] = s
      <3>1. 1 \in 1..Len(<<s>>)  BY <2>1
      <3>2. h[Len(g) + 1] = <<s>>[1]  BY <2>2, <3>1
      <3>3. Len(g) + 1 = i /\ Len(g) + Len(<<s>>) = i  BY <1>2, <1>3, <2>1
      <3> QED BY <2>1, <2>2, <3>2, <3>3
    <2>4. Len(g) + 1 = i /\ Len(g) = i - 1  BY <1>2, <1>3
    <2> QED BY <2>2, <2>3, <2>4
  <1> HIDE DEF h
  <1>n. Len(r) = n + 1
    <2>1. Len(r) = Len(h) + Len(l)  BY ZenonT(40), <1>2, <1>h, Joined
    <2> QED BY <1>2, <1>3, <1>h, <2>1
  <1>4. ASSUME NEW j \in 1..Len(r)
        PROVE  r[j] = s \/ \E k \in 1..n : r[j] = q[k]
    <2>1. CASE j <= i - 1
      <3>1. j \in 1..i - 1 /\ j \in 1..n  BY <1>3, <2>1, <1>n
      <3>2. r[j] = g[j]  BY <1>2, <1>h, <3>1
      <3> QED BY <1>2, <3>1, <3>2
    <2>2. CASE j = i
      <3>1. r[j] = s  BY <1>2, <1>3, <1>h, <2>2
      <3> QED BY <3>1
    <2>3. CASE j > i
      <3>1. j - i \in 1..n - i + 1 /\ j - 1 \in 1..n /\ i - 1 + (j - i) = j - 1
        BY <1>3, <1>n, <2>3
      <3>2. r[j] = l[j - i]  BY SMTT(20), <1>2, <1>3, <1>h, <1>n, <2>3
      <3>3. l[j - i] = q[i - 1 + (j - i)]  BY <1>2, <3>1
      <3> QED BY <3>1, <3>2, <3>3
    <2>4. j <= i - 1 \/ j = i \/ j > i  BY <1>3
    <2> QED BY <2>1, <2>2, <2>3, <2>4, Zenon
  <1>5. Insert(q, s) = r
    BY <1>1 DEF g, l, h, n
  <1> HIDE DEF r
  <1>6. ASSUME NEW j \in 1..Len(r)
        PROVE  TCP_TCPLEN(r[j]) > 0 /\ Len(r[j].data) <= MSS /\ 2 * Len(r[j].data) <= w
    BY <1>4 DEF SegsOk, n
  <1> QED BY <1>5, <1>6 DEF SegsOk

\* Sending the head of the unsent queue keeps it.
LEMMA SendHeadOk ==
    ASSUME NEW p, PcbOk(p), CanSend(p)
    PROVE  LET r == SendHead(p)
           IN  /\ PcbOk(r) /\ SameLimits(p, r) /\ SameWindow(p, r) /\ r.cwnd = p.cwnd
               /\ r.unsent = Tail(p.unsent)
               /\ ~Ended(p) => r.unacked = Insert(p.unacked, Head(p.unsent))
               /\ r.snd_nxt = p.snd_nxt \/ r.snd_nxt = End(Head(p.unsent))
  <1> DEFINE s == Head(p.unsent)
             r == SendHead(p)
             U == p.unacked
             V == p.unsent
  <1>1. p \in PcbType /\ V # <<>> /\ "NODELAY" \in p.flags
    BY DEF PcbOk, CanSend
  <1>2. U \in Queue /\ V \in Queue /\ p.snd_nxt \in Nat
        /\ p.rcv_nxt \in Nat /\ p.rcv_wnd \in Int /\ p.rcv_ann_wnd \in Int /\ p.right_edge \in Int
    BY <1>1, PcbFields
  <1>3. /\ r \in PcbType /\ SameLimits(p, r) /\ SameWindow(p, r) /\ r.cwnd = p.cwnd
        /\ "NODELAY" \in r.flags /\ r.unsent = Tail(V)
        /\ r.unacked = (IF TCP_TCPLEN(s) > 0 THEN Insert(U, s) ELSE U)
        /\ r.snd_nxt = p.snd_nxt \/ r.snd_nxt = End(s)
    BY <1>1, SendHeadIs
  <1>4. /\ s \in SegType /\ Tail(V) \in Queue /\ s = V[1] /\ Len(V) > 0
        /\ Len(Tail(V)) = Len(V) - 1 /\ \A i \in 1..Len(V) - 1 : Tail(V)[i] = V[i + 1]
        /\ PbufCount(V) = s.bufs + PbufCount(Tail(V))
    BY <1>1, <1>2, HeadAndTail
  <1>5. Promise(r)
    BY <1>2, <1>3 DEF PcbOk, Promise, SameWindow
  <1> HIDE DEF s, r, U, V, SegType
  <1>6. ASSUME ~Ended(p) PROVE Accounts(r) /\ r.unacked = Insert(U, s)
    <2>1. Accounts(p)  BY <1>6 DEF PcbOk
    <2>2. SegsOk(U, p.snd_wnd_max) /\ SegsOk(V, p.snd_wnd_max)
      BY <2>1 DEF Accounts, U, V
    <2>3. TCP_TCPLEN(s) > 0 /\ Len(s.data) <= MSS /\ 2 * Len(s.data) <= p.snd_wnd_max
      <3>1. 1 \in 1..Len(V)  BY <1>2, <1>4 DEF Queue
      <3> QED BY <1>4, <2>2, <3>1 DEF SegsOk
    <2>4. r.unacked = Insert(U, s)  BY <1>3, <2>3
    <2>5. SegsOk(r.unacked, p.snd_wnd_max)
      BY <1>2, <1>4, <2>2, <2>3, <2>4, SegsInsert
    <2>6. SegsOk(r.unsent, p.snd_wnd_max)
      <3>1. ASSUME NEW i \in 1..Len(Tail(V)) PROVE Tail(V)[i] = V[i + 1] /\ i + 1 \in 1..Len(V)
        <4>1. Len(V) \in Nat  BY <1>2 DEF Queue
        <4> QED BY <1>4, <4>1
      <3> QED BY <1>3, <2>2, <3>1 DEF SegsOk
    <2>7. PbufCount(r.unacked) = PbufCount(U) + s.bufs
      BY <1>2, <1>4, <2>4, InsertAdds DEF Queue
    <2>8. PbufCount(U) \in Nat /\ PbufCount(Tail(V)) \in Nat /\ s.bufs \in Nat
      <3>1. s.bufs \in Nat  BY <1>4 DEF SegType
      <3> QED BY <1>2, <1>4, <3>1, CountType DEF Queue
    <2>9. PbufCount(r.unacked) + PbufCount(r.unsent) = PbufCount(U) + PbufCount(V)
      BY <1>3, <1>4, <2>7, <2>8
    <2>10. Accounts(r)
      BY <1>3, <2>1, <2>5, <2>6, <2>9 DEF Accounts, SameLimits, U, V
    <2> QED BY <2>4, <2>10
  <1>7. ~Ended(r) => Accounts(r)
    BY <1>3, <1>6 DEF Ended, SameLimits
  <1> QED BY <1>3, <1>5, <1>6, <1>7 DEF PcbOk, s, r, U, V

\* What is announced follows from what was.
LEMMA WindowTwice ==
    ASSUME NEW p, NEW q, NEW r, SameWindow(p, q), SameWindow(q, r)
    PROVE  SameWindow(p, r)
  BY DEF SameWindow

\* tcp_output keeps it.  If it sends nothing, an acknowledgement that was to be
\* sent still is.
LEMMA OutputOk ==
    ASSUME NEW p, PcbOk(p), NEW mem \in BOOLEAN
    PROVE  LET q == tcp_output(p, mem)
           IN  /\ PcbOk(q) /\ SameLimits(p, q) /\ SameWindow(p, q)
               /\ Marked(p) /\ ~Sends(p, mem) => Marked(q)
  <1> DEFINE q == tcp_output(p, mem)
  <1>0. p \in PcbType  BY DEF PcbOk
  <1>1. CASE WantsEmptyAck(p)
    <2>1. q = tcp_send_empty_ack(p, mem)
      BY <1>1 DEF tcp_output
    <2>2. Calm(p, q) /\ (~mem => q = p)
      BY <1>0, <2>1, EmptyAckCalm
    <2> HIDE DEF q
    <2>3. PcbOk(q) /\ SameLimits(p, q) /\ SameWindow(p, q)
      BY <2>2, CalmOk DEF Calm, SameStream, SameLimits
    <2>4. Marked(p) /\ ~Sends(p, mem) => Marked(q)
      BY <1>1, <2>2 DEF Sends
    <2> QED BY <2>3, <2>4 DEF q
  <1>2. CASE ~WantsEmptyAck(p)
    <2> DEFINE S == {r \in PcbType : PcbOk(r) /\ SameLimits(p, r) /\ SameWindow(p, r)}
    <2>1. p \in S
      BY <1>0 DEF SameLimits, SameWindow
    <2>2. ASSUME NEW r \in S, CanSend(r) PROVE SendHead(r) \in S
      <3>1. PcbOk(SendHead(r)) /\ SameLimits(r, SendHead(r)) /\ SameWindow(r, SendHead(r))
        BY <2>2, SendHeadOk
      <3>2. SendHead(r) \in PcbType  BY <3>1 DEF PcbOk
      <3>3. SameLimits(p, SendHead(r))
        BY <2>2, <3>1 DEF SameLimits
      <3>4. SameWindow(p, SendHead(r))
        BY <2>2, <3>1, WindowTwice
      <3> QED BY <3>1, <3>2, <3>3, <3>4
    <2>3. PICK r \in S : q = [r EXCEPT !.flags = @ \ {"NAGLEMEMERR"}]
      <3> HIDE DEF S
      <3> QED BY <1>0, <1>2, <2>1, <2>2, OutputStays
    <2>4. PcbOk(r) /\ SameLimits(p, r) /\ SameWindow(p, r) /\ r \in PcbType /\ "NODELAY" \in r.flags
      BY <2>3 DEF PcbOk
    <2>5. Calm(r, q)
      <3> HIDE DEF q, S
      <3> QED BY <2>3, <2>4 DEF Calm, SameStream, SameWindow, PcbType
    <2>6. PcbOk(q) /\ SameLimits(p, q) /\ SameWindow(p, q)
      <3> HIDE DEF q, S
      <3>1. PcbOk(q)  BY <2>4, <2>5, CalmOk
      <3>2. SameLimits(p, q)  BY <2>4, <2>5 DEF Calm, SameStream, SameLimits
      <3>3. SameWindow(p, q)  BY <2>4, <2>5, WindowTwice DEF Calm
      <3> QED BY <3>1, <3>2, <3>3
    <2>7. ASSUME Marked(p), ~Sends(p, mem) PROVE Marked(q)
      <3>1. ~CanSend(p)  BY <1>2, <2>7 DEF Sends
      <3> DEFINE T == {p}
      <3>a. p \in T /\ \A t \in T : CanSend(t) => SendHead(t) \in T  BY <3>1
      <3>b. \A t \in T : t = p  OBVIOUS
      <3> HIDE DEF T
      <3>2. \E t \in T : q = [t EXCEPT !.flags = @ \ {"NAGLEMEMERR"}]
        BY <1>0, <1>2, <3>a, OutputStays
      <3> HIDE DEF q
      <3>3. q = [p EXCEPT !.flags = @ \ {"NAGLEMEMERR"}]
        BY <3>2, <3>b
      <3>4. q.flags = p.flags \ {"NAGLEMEMERR"} /\ q.delack = p.delack
        BY <1>0, <3>3 DEF PcbType
      <3> QED BY <2>7, <3>4 DEF Marked
    <2> QED BY <2>6, <2>7
  <1> QED BY <1>1, <1>2

\* An immediate acknowledgement goes out unless memory runs out: no segment is
\* held back for Nagle's sake.
LEMMA AckGoesOut ==
    ASSUME NEW p, "NODELAY" \in p.flags, "ACK_NOW" \in p.flags, NEW mem \in BOOLEAN
    PROVE  Sends(p, mem) \/ (WantsEmptyAck(p) /\ ~mem)
  <1>1. p.flags \cap {"NODELAY", "INFR"} # {}
    OBVIOUS
  <1>2. tcp_do_output_nagle(p)
    BY <1>1 DEF tcp_do_output_nagle
  <1>3. ~WantsEmptyAck(p) => CanSend(p)
    BY <1>2 DEF WantsEmptyAck, CanSend
  <1> QED BY <1>3 DEF Sends

-----------------------------------------------------------------------------
(* What a queue holds of the stream.                                       *)

\* The segments of q follow each other from b to e.
Tiles(q, b, e) ==
    /\ \A i \in 1..Len(q) : q[i].data = Bytes(q[i].seq, q[i].seq + Len(q[i].data))
    /\ \A i \in 1..Len(q) - 1 : q[i + 1].seq = End(q[i])
    /\ Len(q) = 0 => b = e
    /\ Len(q) > 0 => q[1].seq = b /\ End(q[Len(q)]) = e

\* The bytes from a to b.
LEMMA BytesAre ==
    ASSUME NEW a \in Nat, NEW b \in Nat, a <= b
    PROVE  /\ Bytes(a, b) \in Seq(Nat) /\ Len(Bytes(a, b)) = b - a
           /\ \A i \in 1..b - a : Bytes(a, b)[i] = a + i - 1
  <1>1. b - a \in Nat  OBVIOUS
  <1> DEFINE n == b - a
  <1>2. n \in Nat  OBVIOUS
  <1>3. Bytes(a, b) = [i \in 1..n |-> a + i - 1]  BY DEF Bytes
  <1> HIDE DEF n
  <1>4. \A i \in 1..n : a + i - 1 \in Nat  BY <1>2
  <1>5. [i \in 1..n |-> a + i - 1] \in Seq(Nat)  BY <1>2, <1>4
  <1>6. Len([i \in 1..n |-> a + i - 1]) = n  BY <1>2
  <1> QED BY <1>3, <1>5, <1>6 DEF n

\* Two runs of bytes in a row.
LEMMA BytesInRow ==
    ASSUME NEW q \in Seq(Nat), NEW r \in Seq(Nat)
    PROVE  /\ q \o r \in Seq(Nat) /\ Len(q \o r) = Len(q) + Len(r)
           /\ \A i \in 1..Len(q) : (q \o r)[i] = q[i]
           /\ \A i \in 1..Len(r) : (q \o r)[Len(q) + i] = r[i]
  OBVIOUS

\* The bytes from a to b and from b to c.
LEMMA BytesJoin ==
    ASSUME NEW a \in Nat, NEW b \in Nat, NEW c \in Nat, a <= b, b <= c
    PROVE  Bytes(a, b) \o Bytes(b, c) = Bytes(a, c)
  <1> DEFINE x == Bytes(a, b)
             y == Bytes(b, c)
             z == Bytes(a, c)
             r == x \o y
  <1>a. x \in Seq(Nat) /\ Len(x) = b - a /\ \A i \in 1..b - a : x[i] = a + i - 1
    BY BytesAre
  <1>b. y \in Seq(Nat) /\ Len(y) = c - b /\ \A i \in 1..c - b : y[i] = b + i - 1
    BY BytesAre
  <1>c. z \in Seq(Nat) /\ Len(z) = c - a /\ \A i \in 1..c - a : z[i] = a + i - 1
    <2>1. a <= c  OBVIOUS
    <2> QED BY <2>1, BytesAre
  <1> HIDE DEF x, y, z
  <1>1. /\ r \in Seq(Nat) /\ Len(r) = Len(x) + Len(y)
        /\ \A i \in 1..Len(x) : r[i] = x[i]
        /\ \A i \in 1..Len(y) : r[Len(x) + i] = y[i]
    BY <1>a, <1>b, BytesInRow
  <1> HIDE DEF r
  <1>2. r \in Seq(Nat) /\ Len(r) = c - a
    BY <1>a, <1>b, <1>1
  <1>3. ASSUME NEW i \in 1..c - a PROVE r[i] = z[i]
    <2>1. CASE i <= b - a
      <3>1. i \in 1..b - a /\ i \in 1..Len(x)  BY <1>a, <2>1
      <3>2. r[i] = x[i]  BY <1>1, <3>1
      <3> QED BY <1>a, <1>c, <3>1, <3>2
    <2>2. CASE i > b - a
      <3> DEFINE k == i - (b - a)
      <3>1. k \in 1..c - b /\ k \in 1..Len(y) /\ Len(x) + k = i /\ b + k - 1 = a + i - 1
        BY <1>a, <1>b, <2>2
      <3> HIDE DEF k
      <3>2. r[Len(x) + k] = y[k]  BY <1>1, <3>1
      <3>3. r[i] = y[k]  BY <3>1, <3>2
      <3>4. y[k] = b + k - 1  BY <1>b, <3>1
      <3>5. z[i] = a + i - 1  BY <1>c
      <3> QED BY <3>1, <3>3, <3>4, <3>5
    <2>3. i <= b - a \/ i > b - a  OBVIOUS
    <2> QED BY <2>1, <2>2, <2>3, Zenon
  <1>4. r = z
    <2> QED BY <1>c, <1>2, <1>3
  <1> QED BY <1>4 DEF x, y, z, r

\* The new segments of a write: from a to e, none empty or longer than m.
NewSegs(q, a, e, m) ==
    /\ q \in Queue
    /\ Tiles(q, a, e)
    /\ \A i \in 1..Len(q) : /\ q[i].ctl = {} /\ q[i].bufs = 2
                            /\ TCP_TCPLEN(q[i]) > 0 /\ Len(q[i].data) <= m

\* The last segment of v is extended by the bytes from a on, c of them.
Extended(v, old, a, c) ==
    /\ old \in Queue /\ Len(old) = Len(v) /\ Len(v) > 0
    /\ \A i \in 1..Len(v) - 1 : old[i] = v[i]
    /\ v[Len(v)].data # <<>>
    /\ old[Len(v)] = [v[Len(v)] EXCEPT !.data = @ \o Bytes(a, a + c), !.bufs = @ + 1]

\* s is one new segment, from a to b.
NewSeg(s, a, b) ==
    /\ s \in SegType /\ s.seq = a /\ End(s) = b /\ s.ctl = {} /\ s.bufs = 2
    /\ TCP_TCPLEN(s) > 0 /\ Len(s.data) = b - a
    /\ s.data = Bytes(s.seq, s.seq + Len(s.data))

\* A segment tcp_write makes of the bytes a .. b-1 is one.
LEMMA NewSegIs ==
    ASSUME NEW a \in Nat, NEW b \in Nat, a < b
    PROVE  NewSeg(Seg(a, Bytes(a, b), {}, 2), a, b)
  <1> DEFINE s == Seg(a, Bytes(a, b), {}, 2)
  <1>1. Bytes(a, b) \in Seq(Nat) /\ Len(Bytes(a, b)) = b - a
    BY BytesAre
  <1>2. s.seq = a /\ s.data = Bytes(a, b) /\ s.ctl = {} /\ s.bufs = 2
    BY DEF Seg
  <1>3. s \in SegType
    BY <1>1 DEF Seg, SegType
  <1> HIDE DEF s, SegType
  <1>4. TCP_TCPLEN(s) = b - a
    BY <1>1, <1>2 DEF TCP_TCPLEN
  <1>5. End(s) = b
    BY <1>2, <1>4 DEF End
  <1>6. a + (b - a) = b  OBVIOUS
  <1>7. NewSeg(s, a, b)
    BY <1>1, <1>2, <1>3, <1>4, <1>5, <1>6 DEF NewSeg
  <1> QED BY <1>7 DEF s

\* k portions of at most m bytes each.
LEMMA NewSegsAre ==
    ASSUME NEW a \in Nat, NEW n \in Nat, NEW c \in 0..n, NEW m \in Nat \ {0}
    PROVE  LET segs == (n - c + m - 1) \div m
               at(k) == a + Min({n, c + k * m})
               new == [k \in 1..segs |-> Seg(at(k - 1), Bytes(at(k - 1), at(k)), {}, 2)]
           IN  segs \in Nat /\ Len(new) = segs /\ NewSegs(new, a + c, a + n, m)
  <1> DEFINE segs == (n - c + m - 1) \div m
             at(k) == a + Min({n, c + k * m})
             new == [k \in 1..segs |-> Seg(at(k - 1), Bytes(at(k - 1), at(k)), {}, 2)]
             x == n - c
  <1>1. x \in Nat /\ n = x + c /\ c \in Nat  OBVIOUS
  <1>2. segs \in Nat /\ x <= segs * m /\ \A i \in Nat : i < segs => i * m < x
    BY <1>1, Portions
  <1> HIDE DEF segs, x
  <1>3. ASSUME NEW k \in Nat
        PROVE  /\ at(k) \in Nat /\ at(k) <= a + n /\ at(k) <= a + c + k * m
               /\ at(k) = a + n \/ at(k) = a + c + k * m
    <2>1. k * m \in Nat /\ c + k * m \in Int /\ n \in Int  BY <1>1
    <2>2. LET z == Min({n, c + k * m}) IN z \in Int /\ z <= n /\ z <= c + k * m /\ (z = n \/ z = c + k * m)
      BY <2>1, MinOfTwo
    <2> QED BY <1>1, <2>1, <2>2
  <1>4. at(0) = a + c
    <2>1. 0 * m = 0  OBVIOUS
    <2>2. at(0) <= a + n /\ at(0) <= a + c + 0 * m /\ (at(0) = a + n \/ at(0) = a + c + 0 * m)
      BY <1>3
    <2> HIDE DEF at
    <2> QED BY <1>1, <2>1, <2>2
  <1>5. at(segs) = a + n
    <2>1. at(segs) <= a + n /\ (at(segs) = a + n \/ at(segs) = a + c + segs * m)
      BY <1>2, <1>3
    <2>2. segs * m \in Nat  BY <1>2
    <2> HIDE DEF at
    <2> QED BY <1>1, <1>2, <2>1, <2>2
  <1>6. ASSUME NEW k \in 1..segs
        PROVE  /\ at(k - 1) \in Nat /\ at(k) \in Nat
               /\ at(k - 1) < at(k) /\ at(k) <= at(k - 1) + m
    <2>1. k - 1 \in Nat /\ k \in Nat /\ k - 1 < segs  BY <1>2
    <2>2. /\ at(k) \in Nat /\ at(k) <= a + c + k * m /\ (at(k) = a + n \/ at(k) = a + c + k * m)
          /\ at(k - 1) \in Nat /\ at(k - 1) <= a + n
          /\ at(k - 1) <= a + c + (k - 1) * m
          /\ (at(k - 1) = a + n \/ at(k - 1) = a + c + (k - 1) * m)
      BY <1>3, <2>1
    <2>3. (k - 1) * m < x  BY <1>2, <2>1
    <2>4. k * m = (k - 1) * m + m /\ (k - 1) * m \in Nat  BY <2>1
    <2> HIDE DEF at
    <2>5. at(k - 1) = a + c + (k - 1) * m
      BY <1>1, <2>2, <2>3, <2>4
    <2> QED BY <1>1, <2>2, <2>3, <2>4, <2>5
  <1> HIDE DEF at
  <1>7. ASSUME NEW k \in 1..segs
        PROVE  LET s == new[k]
               IN  /\ s \in SegType /\ s.seq = at(k - 1) /\ End(s) = at(k) /\ s.ctl = {} /\ s.bufs = 2
                   /\ TCP_TCPLEN(s) > 0 /\ Len(s.data) <= m
                   /\ s.data = Bytes(s.seq, s.seq + Len(s.data))
    <2> DEFINE u == at(k - 1)
               v == at(k)
               s == Seg(u, Bytes(u, v), {}, 2)
    <2>1. new[k] = s  OBVIOUS
    <2>2. u \in Nat /\ v \in Nat /\ u < v /\ v <= u + m  BY <1>6
    <2>3. NewSeg(s, u, v)
      <3> HIDE DEF new, u, v
      <3> QED BY <2>2, NewSegIs
    <2>4. /\ s \in SegType /\ s.seq = at(k - 1) /\ End(s) = at(k) /\ s.ctl = {} /\ s.bufs = 2
          /\ TCP_TCPLEN(s) > 0 /\ Len(s.data) <= m
          /\ s.data = Bytes(s.seq, s.seq + Len(s.data))
      <3>1. u = at(k - 1) /\ v = at(k)  OBVIOUS
      <3> HIDE DEF s, u, v, SegType, new
      <3> QED BY <2>2, <2>3, <3>1 DEF NewSeg
    <2> HIDE DEF s, u, v, SegType, new
    <2> QED BY <2>1, <2>4
  <1>8. new = [k \in 1..segs |-> new[k]]
    OBVIOUS
  <1> HIDE DEF new
  <1>9. new \in Queue /\ Len(new) = segs
    <2>1. \A k \in 1..segs : new[k] \in SegType  BY <1>7
    <2> QED BY <1>2, <1>8, <2>1 DEF Queue
  <1>10. Tiles(new, a + c, a + n)
    <2>1. ASSUME NEW i \in 1..Len(new) - 1 PROVE new[i + 1].seq = End(new[i])
      <3>1. i \in 1..segs /\ i + 1 \in 1..segs /\ (i + 1) - 1 = i  BY <1>2, <1>9
      <3> QED BY <1>7, <3>1
    <2>2. ASSUME NEW i \in 1..Len(new) PROVE new[i].data = Bytes(new[i].seq, new[i].seq + Len(new[i].data))
      BY <1>7, <1>9
    <2>3. Len(new) = 0 => a + c = a + n
      BY <1>4, <1>5, <1>9
    <2>4. Len(new) > 0 => new[1].seq = a + c /\ End(new[Len(new)]) = a + n
      <3> SUFFICES ASSUME segs > 0 PROVE new[1].seq = a + c /\ End(new[segs]) = a + n
        BY <1>9
      <3>1. 1 \in 1..segs /\ segs \in 1..segs /\ 1 - 1 = 0  BY <1>2
      <3> QED BY <1>4, <1>5, <1>7, <3>1
    <2> QED BY <2>1, <2>2, <2>3, <2>4 DEF Tiles
  <1>11. NewSegs(new, a + c, a + n, m)
    BY <1>7, <1>9, <1>10 DEF NewSegs
  <1> QED BY <1>2, <1>9, <1>11 DEF segs, at, new


\* q is p after a write of n bytes, cat of them into the last segment.
Wrote(p, n, cat, m, old, new, q) ==
    LET len == p.snd_queuelen + (IF cat > 0 THEN 1 ELSE 0) + 2 * Len(new)
    IN  /\ p.state \in WriteStates
        /\ m \in Nat \ {0} /\ m <= MSS /\ 2 * m <= p.snd_wnd_max
        /\ cat \in 0..n
        /\ cat = 0 => old = p.unsent
        /\ cat > 0 => /\ Extended(p.unsent, old, p.snd_lbb, cat)
                      /\ Len(p.unsent[Len(p.unsent)].data) + cat <= m
        /\ NewSegs(new, p.snd_lbb + cat, p.snd_lbb + n, m)
        /\ len <= SndQueueLen
        /\ q = [p EXCEPT !.unsent = old \o new, !.snd_lbb = @ + n, !.snd_buf = @ - n,
                         !.snd_queuelen = len]

\* Half of a number of bytes.
LEMMA Half ==
    ASSUME NEW w \in Nat
    PROVE  w \div 2 \in Nat /\ 2 * (w \div 2) <= w /\ \A l \in Nat : 2 * l <= w => l <= w \div 2
  <1> DEFINE h == w \div 2
             r == w % 2
  <1>1. h \in Int /\ r \in Int /\ w = 2 * h + r /\ 0 <= r /\ r < 2
    OBVIOUS
  <1> HIDE DEF h, r
  <1>2. h \in Nat /\ 2 * h <= w  BY <1>1
  <1>3. \A l \in Nat : 2 * l <= w => l <= h  BY <1>1
  <1> QED BY <1>2, <1>3 DEF h

\* The last segment of a queue.
LEMMA LastIs ==
    ASSUME NEW q \in Queue, q # <<>>
    PROVE  /\ Len(q) \in Nat /\ Len(q) > 0 /\ Len(q) \in 1..Len(q)
           /\ Last(q) = q[Len(q)] /\ q[Len(q)] \in SegType
  <1> HIDE DEF SegType
  <1> QED BY DEF Queue, Last

\* Data added to the last segment of a queue.
LEMMA ExtendedIs ==
    ASSUME NEW q \in Queue, q # <<>>, q[Len(q)].data # <<>>, NEW a \in Nat, NEW c \in Nat
    PROVE  Extended(q, [q EXCEPT ![Len(q)].data = @ \o Bytes(a, a + c), ![Len(q)].bufs = @ + 1], a, c)
  <1> DEFINE m == Len(q)
             s == q[m]
             t == [s EXCEPT !.data = @ \o Bytes(a, a + c), !.bufs = @ + 1]
             old == [q EXCEPT ![m] = t]
  <1>1. m \in Nat /\ m > 0 /\ m \in 1..m /\ s \in SegType
    BY LastIs
  <1>2. Bytes(a, a + c) \in Seq(Nat)
    <2>1. a + c \in Nat /\ a <= a + c  OBVIOUS
    <2> QED BY <2>1, BytesAre
  <1> DEFINE d == s.data \o Bytes(a, a + c)
  <1>3. d \in Seq(Nat)
    <2>1. s.data \in Seq(Nat)  BY <1>1 DEF SegType
    <2> HIDE DEF s
    <2> QED BY <1>2, <2>1, BytesInRow
  <1>4. t \in SegType
    <2>1. t = [s EXCEPT !.data = d, !.bufs = @ + 1]  OBVIOUS
    <2>2. s \in SegType  BY <1>1
    <2> HIDE DEF s, d, t
    <2>3. /\ s = [seq |-> s.seq, data |-> s.data, ctl |-> s.ctl, bufs |-> s.bufs]
          /\ s.seq \in Nat /\ s.ctl \in SUBSET {"SYN", "FIN"} /\ s.bufs \in Nat
      BY <2>2 DEF SegType
    <2>4. t = [seq |-> s.seq, data |-> d, ctl |-> s.ctl, bufs |-> s.bufs + 1]
      BY <2>1, <2>3
    <2>5. s.bufs + 1 \in Nat  BY <2>3
    <2> QED BY <1>3, <2>3, <2>4, <2>5 DEF SegType
  <1>5. [q EXCEPT ![Len(q)].data = @ \o Bytes(a, a + c), ![Len(q)].bufs = @ + 1] = old
    BY <1>1 DEF Queue, SegType
  <1> HIDE DEF SegType, t
  <1>6. old \in Queue /\ Len(old) = m /\ old[m] = t /\ \A i \in 1..m - 1 : old[i] = q[i]
    BY <1>1, <1>4 DEF Queue
  <1> HIDE DEF old
  <1>7. Extended(q, old, a, c)
    BY <1>1, <1>6 DEF Extended, t
  <1> QED BY <1>5, <1>7

\* tcp_write either leaves the queues alone or queues all of it.
LEMMA WriteIs ==
    ASSUME NEW p \in PcbType, Accounts(p), NEW n \in Nat \ {0}, NEW mem \in BOOLEAN
    PROVE  LET w == tcp_write(p, n, mem)
           IN  \/ ~w.ok /\ (w.pcb = p \/ w.pcb = NagleMemErr(p))
               \/ w.ok /\ \E cat \in 0..n, m \in Nat \ {0} : \E old, new \in Queue :
                             Wrote(p, n, cat, m, old, new, w.pcb)
  <1> DEFINE U == p.unsent
             k == Len(U)
             m == Min({MSS, p.snd_wnd_max \div 2})
             cat == concat_len(p, m, n)
             segs == IF m = 0 THEN 0 ELSE (n - cat + m - 1) \div m
             len == write_queuelen(p, cat, segs)
             at(i) == p.snd_lbb + Min({n, cat + i * m})
             new == [i \in 1..segs |-> Seg(at(i - 1), Bytes(at(i - 1), at(i)), {}, 2)]
             ext == [U EXCEPT ![k].data = @ \o Bytes(p.snd_lbb, p.snd_lbb + cat), ![k].bufs = @ + 1]
             old == IF cat = 0 THEN U ELSE ext
             q == [p EXCEPT !.unsent = old \o new, !.snd_lbb = @ + n,
                            !.snd_buf = @ - n, !.snd_queuelen = len]
             bad == \/ ~tcp_write_checks(p) \/ ~mem
                    \/ (cat < n /\ (m = 0 \/ len > SndQueueLen))
             w == tcp_write(p, n, mem)
  <1>0. w = IF p.state \notin WriteStates THEN WriteResult(p, FALSE)
            ELSE IF bad THEN WriteResult(NagleMemErr(p), FALSE) ELSE WriteResult(q, TRUE)
    BY DEF tcp_write
  <1> HIDE DEF w
  <1>1. CASE p.state \notin WriteStates \/ bad
    <2>1. w = WriteResult(p, FALSE) \/ w = WriteResult(NagleMemErr(p), FALSE)
      <3> HIDE DEF bad, q
      <3> QED BY <1>0, <1>1
    <2>2. ~w.ok /\ (w.pcb = p \/ w.pcb = NagleMemErr(p))
      BY <2>1 DEF WriteResult
    <2> QED BY <2>2 DEF w
  <1>2. CASE p.state \in WriteStates /\ ~bad
    <2>1. w = WriteResult(q, TRUE)
      <3> HIDE DEF bad, q
      <3> QED BY <1>0, <1>2
    <2>2. w.ok /\ w.pcb = q
      <3> HIDE DEF q
      <3> QED BY <2>1 DEF WriteResult
    <2>3. /\ p.snd_queuelen < SndQueueLen
          /\ cat < n => m # 0 /\ ~(len > SndQueueLen)
      <3> HIDE DEF m, cat, len
      <3> QED BY <1>2 DEF bad, tcp_write_checks
    <2> HIDE DEF q, bad
    <2>4. /\ U \in Queue /\ p.snd_wnd_max \in Nat /\ p.snd_lbb \in Nat /\ p.snd_queuelen \in Int
          /\ MSS \in Nat \ {0} /\ SndQueueLen \in Nat
      BY PcbFields, SizeAssumption
    <2>5. m \in Nat /\ m <= MSS /\ 2 * m <= p.snd_wnd_max
          /\ \A l \in Nat : l <= MSS /\ 2 * l <= p.snd_wnd_max => l <= m
      <3> DEFINE h == p.snd_wnd_max \div 2
      <3>1. h \in Nat /\ 2 * h <= p.snd_wnd_max /\ \A l \in Nat : 2 * l <= p.snd_wnd_max => l <= h
        BY <2>4, Half
      <3> HIDE DEF h
      <3>2. LET z == Min({MSS, h}) IN z <= MSS /\ z <= h /\ (z = MSS \/ z = h)
        <4>1. MSS \in Int /\ h \in Int  BY <2>4, <3>1
        <4> QED BY <4>1, MinOfTwo
      <3>3. m = Min({MSS, h})  BY DEF h
      <3> HIDE DEF m
      <3> QED BY <2>4, <3>1, <3>2, <3>3
    <2> HIDE DEF m
    <2> DEFINE L == Len(U[k].data)
    <2>6. U # <<>> => /\ k \in Nat /\ k > 0 /\ Last(U) = U[k] /\ L \in Nat /\ L <= m
                      /\ (L = 0 <=> Last(U).data = <<>>)
      <3> SUFFICES ASSUME U # <<>>
                   PROVE  /\ k \in Nat /\ k > 0 /\ Last(U) = U[k] /\ L \in Nat /\ L <= m
                          /\ (L = 0 <=> Last(U).data = <<>>)
        OBVIOUS
      <3>1. k \in Nat /\ k > 0 /\ k \in 1..k /\ Last(U) = U[k] /\ U[k] \in SegType
        BY <2>4, LastIs
      <3>2. SegsOk(U, p.snd_wnd_max)
        BY DEF Accounts
      <3>3. L <= MSS /\ 2 * L <= p.snd_wnd_max
        BY <3>1, <3>2 DEF SegsOk
      <3>4. U[k].data \in Seq(Nat)  BY <3>1 DEF SegType
      <3>5. L \in Nat /\ (L = 0 <=> U[k].data = <<>>)
        <4> HIDE DEF k, U
        <4> QED BY <3>4
      <3> QED BY <2>5, <3>1, <3>3, <3>5
    <2>7. \/ cat = 0 /\ (cat < n)
          \/ cat = Min({m - L, n}) /\ U # <<>> /\ L > 0 /\ Last(U).data # <<>>
      <3>0. concat_len(p, m, n) = IF U = <<>> \/ Last(U).data = <<>> THEN 0 ELSE Min({m - L, n})
        <4>1. CASE U = <<>> \/ Last(U).data = <<>>
          BY <4>1 DEF concat_len
        <4>2. CASE ~(U = <<>> \/ Last(U).data = <<>>)
          <5>1. Last(U) = U[k]  BY <2>6, <4>2
          <5> QED BY <4>2, <5>1 DEF concat_len
        <4> QED BY <4>1, <4>2
      <3>1. CASE U = <<>> \/ Last(U).data = <<>>
        BY <3>0, <3>1
      <3>2. CASE ~(U = <<>> \/ Last(U).data = <<>>)
        <4>1. L > 0
          <5> HIDE DEF U, L, k
          <5> QED BY <2>6, <3>2
        <4> QED BY <3>0, <3>2, <4>1
      <3> QED BY <3>1, <3>2
    <2> HIDE DEF L, cat
    <2>8. cat \in 0..n /\ m # 0
      <3>1. CASE cat = 0 /\ cat < n
        BY <2>3, <3>1
      <3>2. CASE cat = Min({m - L, n}) /\ U # <<>> /\ L > 0
        <4>1. m - L \in Nat /\ m > 0
          BY <2>5, <2>6, <3>2
        <4>2. LET z == Min({m - L, n}) IN z <= m - L /\ z <= n /\ (z = m - L \/ z = n)
          <5>1. m - L \in Int /\ n \in Int  BY <4>1
          <5> HIDE DEF m
          <5> QED BY <5>1, MinOfTwo
        <4> HIDE DEF L, m
        <4> QED BY <3>2, <4>1, <4>2
      <3> QED BY <2>7, <3>1, <3>2
    <2>9. /\ segs \in Nat /\ Len(new) = segs
          /\ NewSegs(new, p.snd_lbb + cat, p.snd_lbb + n, m)
      <3>1. m \in Nat \ {0} /\ n \in Nat  BY <2>5, <2>8
      <3>2. segs = (n - cat + m - 1) \div m  BY <2>8
      <3> DEFINE g == (n - cat + m - 1) \div m
                 made == [i \in 1..g |-> Seg(at(i - 1), Bytes(at(i - 1), at(i)), {}, 2)]
      <3>3. g \in Nat /\ Len(made) = g /\ NewSegs(made, p.snd_lbb + cat, p.snd_lbb + n, m)
        <4>1. p.snd_lbb \in Nat /\ cat \in 0..n  BY <2>4, <2>8
        <4> QED BY <3>1, <4>1, NewSegsAre, Zenon
      <3>4. segs = g /\ new = made
        BY <3>2
      <3> HIDE DEF segs, new, g, made
      <3> QED BY <3>3, <3>4
    <2>10. cat > 0 => Extended(U, ext, p.snd_lbb, cat) /\ L + cat <= m
      <3> SUFFICES ASSUME cat > 0 PROVE Extended(U, ext, p.snd_lbb, cat) /\ L + cat <= m
        OBVIOUS
      <3>1. cat = Min({m - L, n}) /\ U # <<>> /\ L > 0 /\ Last(U).data # <<>> /\ Last(U) = U[k]
        BY <2>6, <2>7
      <3>2. cat \in Nat /\ m - L \in Int  BY <2>5, <2>6, <2>8, <3>1
      <3>3. cat <= m - L
        <4>1. m - L \in Int /\ n \in Int  BY <3>2
        <4>2. Min({m - L, n}) <= m - L  BY <4>1, MinOfTwo
        <4> QED BY <3>1, <4>2
      <3>4. Extended(U, ext, p.snd_lbb, cat)
        BY <2>4, <3>1, <3>2, ExtendedIs
      <3>5. L + cat <= m  BY <2>5, <2>6, <3>1, <3>2, <3>3
      <3> QED BY <3>4, <3>5
    <2>11. /\ cat = 0 => old = U
           /\ cat > 0 => Extended(U, old, p.snd_lbb, cat)
           /\ old \in Queue
      <3> HIDE DEF ext, U
      <3>1. CASE cat = 0  BY <2>4, <3>1
      <3>2. CASE cat > 0
        <4>1. old = ext /\ Extended(U, ext, p.snd_lbb, cat)  BY <2>10, <3>2
        <4> QED BY <3>2, <4>1 DEF Extended
      <3> QED BY <2>8, <3>1, <3>2
    <2>12. /\ len = p.snd_queuelen + (IF cat > 0 THEN 1 ELSE 0) + 2 * Len(new)
           /\ len <= SndQueueLen
      <3>1. len = p.snd_queuelen + (IF cat > 0 THEN 1 ELSE 0) + 2 * segs
        BY DEF write_queuelen
      <3>2. len = p.snd_queuelen + (IF cat > 0 THEN 1 ELSE 0) + 2 * Len(new)
        BY <2>9, <3>1
      <3>3. CASE cat < n
        <4> HIDE DEF segs, new, len
        <4>1. len \in Int  BY <2>4, <2>9, <3>1
        <4> QED BY <2>3, <2>4, <3>2, <3>3, <4>1
      <3>4. CASE cat = n
        <4>1. segs = 0
          <5>1. (m - 1) \div m = 0 /\ n - cat + m - 1 = m - 1
            <6>1. m \in Nat \ {0}  BY <2>5, <2>8
            <6>2. n - cat + m - 1 = m - 1  BY <3>4, <6>1
            <6>3. (m - 1) \div m = 0
              <7>1. LET d == (m - 1) \div m IN /\ d \in Nat /\ \A i \in Nat : i < d => i * m < 0
                BY <6>1, Portions
              <7>2. 0 * m = 0  BY <6>1
              <7> QED BY <7>1, <7>2
            <6> QED BY <6>2, <6>3
          <5> QED BY <2>8, <5>1
        <4>2. len = p.snd_queuelen + 1
          <5>1. cat > 0  BY <3>4
          <5> QED BY <2>4, <3>1, <4>1, <5>1
        <4> HIDE DEF len, new, segs
        <4> QED BY <2>3, <2>4, <3>2, <4>2
      <3>5. cat < n \/ cat = n  BY <2>8
      <3> HIDE DEF len, new, segs
      <3> QED BY <3>3, <3>4, <3>5, Zenon
    <2>13. new \in Queue
      BY <2>9 DEF NewSegs
    <2> HIDE DEF new, old, len, segs, ext
    <2>14. Wrote(p, n, cat, m, old, new, q)
      BY <1>2, <2>5, <2>8, <2>9, <2>10, <2>11, <2>12 DEF Wrote, q, U, k, L
    <2>15. cat \in 0..n /\ m \in Nat \ {0}  BY <2>5, <2>8
    <2>16. \E c \in 0..n, x \in Nat \ {0} : \E o, s \in Queue : Wrote(p, n, c, x, o, s, w.pcb)
      BY <2>2, <2>11, <2>13, <2>14, <2>15
    <2> QED BY <2>2, <2>16 DEF w
  <1> QED BY <1>1, <1>2

-----------------------------------------------------------------------------
(* What each operator keeps of the invariant.                              *)

\* A step that leaves what is announced alone.
LEMMA StepOk ==
    ASSUME NEW p, PcbOk(p), NEW q \in PcbType, SameWindow(p, q),
           "NODELAY" \in q.flags, ~Ended(q) => Accounts(q)
    PROVE  PcbOk(q)
  <1>1. p.rcv_nxt \in Nat /\ p.rcv_wnd \in Int /\ p.rcv_ann_wnd \in Int /\ p.right_edge \in Int
    BY PcbFields DEF PcbOk
  <1>2. Promise(q)
    BY <1>1 DEF PcbOk, Promise, SameWindow
  <1> QED BY <1>2 DEF PcbOk

\* A queue made of two.
LEMMA SegsJoin ==
    ASSUME NEW q \in Queue, NEW r \in Queue, NEW w, SegsOk(q, w), SegsOk(r, w)
    PROVE  SegsOk(q \o r, w)
  <1> DEFINE t == q \o r
  <1>1. /\ t \in Queue /\ Len(t) = Len(q) + Len(r) /\ Len(q) \in Nat /\ Len(r) \in Nat
        /\ \A i \in 1..Len(q) : t[i] = q[i]
        /\ \A i \in 1..Len(r) : t[Len(q) + i] = r[i]
    BY Joined DEF Queue
  <1> HIDE DEF t
  <1>2. ASSUME NEW i \in 1..Len(t)
        PROVE  (\E j \in 1..Len(q) : t[i] = q[j]) \/ (\E j \in 1..Len(r) : t[i] = r[j])
    <2>1. CASE i <= Len(q)
      <3>1. i \in 1..Len(q)  BY <1>1, <2>1
      <3> QED BY <1>1, <3>1
    <2>2. CASE i > Len(q)
      <3> DEFINE j == i - Len(q)
      <3>1. j \in 1..Len(r) /\ Len(q) + j = i  BY <1>1, <2>2
      <3> HIDE DEF j
      <3>2. t[Len(q) + j] = r[j]  BY <1>1, <3>1
      <3>3. t[i] = r[j]  BY <3>1, <3>2
      <3> QED BY <3>1, <3>3
    <2>3. i <= Len(q) \/ i > Len(q)  BY <1>1
    <2> QED BY <2>1, <2>2, <2>3, Zenon
  <1>3. ASSUME NEW i \in 1..Len(t)
        PROVE  TCP_TCPLEN(t[i]) > 0 /\ Len(t[i].data) <= MSS /\ 2 * Len(t[i].data) <= w
    BY <1>2 DEF SegsOk
  <1>4. SegsOk(t, w)  BY <1>3 DEF SegsOk
  <1> QED BY <1>4 DEF t

\* A segment that carries more data.
LEMMA ExtendedOk ==
    ASSUME NEW v \in Queue, NEW old, NEW a \in Nat, NEW c \in Nat \ {0}, NEW w \in Nat,
           NEW m \in Nat, m <= MSS, 2 * m <= w,
           Extended(v, old, a, c), Len(v[Len(v)].data) + c <= m, SegsOk(v, w)
    PROVE  SegsOk(old, w) /\ PbufCount(old) = PbufCount(v) + 1
  <1> DEFINE k == Len(v)
             s == v[k]
             d == s.data \o Bytes(a, a + c)
  <1>1. /\ old \in Queue /\ Len(old) = k /\ k > 0 /\ k \in Nat /\ \A i \in 1..k - 1 : old[i] = v[i]
        /\ old[k] = [s EXCEPT !.data = d, !.bufs = @ + 1]
    BY DEF Extended, Queue
  <1>2. k \in 1..k /\ s \in SegType /\ s.data \in Seq(Nat) /\ Len(s.data) \in Nat
    <2>1. k \in 1..k  BY <1>1
    <2>2. s \in SegType /\ s.data \in Seq(Nat)
      <3> HIDE DEF SegType
      <3> QED BY <2>1, SegAt DEF Queue
    <2> HIDE DEF s
    <2> QED BY <2>1, <2>2
  <1>3. Bytes(a, a + c) \in Seq(Nat) /\ Len(Bytes(a, a + c)) = c
    <2>1. a + c \in Nat /\ a <= a + c /\ (a + c) - a = c  OBVIOUS
    <2> QED BY <2>1, BytesAre
  <1>4. Len(d) = Len(s.data) + c
    <2> DEFINE x == s.data
               y == Bytes(a, a + c)
    <2>1. x \in Seq(Nat) /\ y \in Seq(Nat) /\ Len(y) = c  BY <1>2, <1>3
    <2> HIDE DEF x, y
    <2>2. Len(x \o y) = Len(x) + Len(y)  BY <2>1, BytesInRow
    <2>3. Len(x \o y) = Len(x) + c  BY <2>1, <2>2
    <2> QED BY <2>3 DEF x, y
  <1> HIDE DEF d
  <1>5. old[k].data = d /\ old[k].bufs = s.bufs + 1 /\ old[k].ctl = s.ctl
    BY <1>1, <1>2 DEF SegType
  <1>6. SegsOk(old, w)
    <2>1. ASSUME NEW i \in 1..k - 1
          PROVE  TCP_TCPLEN(old[i]) > 0 /\ Len(old[i].data) <= MSS /\ 2 * Len(old[i].data) <= w
      <3>1. i \in 1..Len(v)  BY <1>1
      <3> QED BY <1>1, <3>1 DEF SegsOk
    <2>2. TCP_TCPLEN(old[k]) > 0 /\ Len(old[k].data) <= MSS /\ 2 * Len(old[k].data) <= w
      <3>1. Len(old[k].data) <= m /\ Len(old[k].data) > 0 /\ Len(old[k].data) \in Nat
        <4> HIDE DEF s
        <4> QED BY <1>2, <1>4, <1>5 DEF s
      <3>2. TCP_TCPLEN(old[k]) > 0
        <4> DEFINE z == old[k]
        <4>1. Len(z.data) > 0 /\ Len(z.data) \in Nat  BY <3>1
        <4>2. z \in SegType
          <5> HIDE DEF SegType, s
          <5> QED BY <1>1, <1>2 DEF Queue
        <4> HIDE DEF z, SegType
        <4>3. Len(z.data) <= TCP_TCPLEN(z) /\ TCP_TCPLEN(z) \in Nat  BY <4>2, EndType
        <4>4. TCP_TCPLEN(z) > 0  BY <4>1, <4>3
        <4> QED BY <4>4 DEF z
      <3>3. MSS \in Nat  BY SizeAssumption
      <3> HIDE DEF k
      <3> QED BY <3>1, <3>2, <3>3
    <2>3. \A i \in 1..k : i \in 1..k - 1 \/ i = k  BY <1>1
    <2> QED BY <1>1, <2>1, <2>2, <2>3 DEF SegsOk
  <1>7. PbufCount(old) = PbufCount(v) + 1
    <2>1. \A i \in 1..k - 1 : old[i].bufs = v[i].bufs  BY <1>1
    <2> HIDE DEF SegType
    <2> QED BY <1>1, <1>5, <2>1, CountOneMore DEF Queue
  <1> QED BY <1>6, <1>7

\* New segments are in order and counted.
LEMMA NewSegsOk ==
    ASSUME NEW q, NEW a, NEW e, NEW m \in Nat, NEW w \in Nat, m <= MSS, 2 * m <= w, NewSegs(q, a, e, m)
    PROVE  q \in Queue /\ SegsOk(q, w) /\ PbufCount(q) = 2 * Len(q)
  <1>1. q \in Queue /\ \A i \in 1..Len(q) : /\ q[i].bufs = 2 /\ TCP_TCPLEN(q[i]) > 0
                                            /\ Len(q[i].data) <= m
    BY DEF NewSegs
  <1>2. ASSUME NEW i \in 1..Len(q)
        PROVE  TCP_TCPLEN(q[i]) > 0 /\ Len(q[i].data) <= MSS /\ 2 * Len(q[i].data) <= w
    <2>1. q[i] \in SegType  BY <1>1 DEF Queue
    <2> DEFINE l == Len(q[i].data)
    <2>2. l \in Nat
      <3> HIDE DEF SegType
      <3> QED BY <2>1, EndType
    <2>3. l <= m  BY <1>1
    <2>4. MSS \in Nat  BY SizeAssumption
    <2> HIDE DEF l
    <2>5. l <= MSS /\ 2 * l <= w  BY <2>2, <2>3, <2>4
    <2> QED BY <1>1, <2>5 DEF l
  <1>3. PbufCount(q) = 2 * Len(q)
    <2> HIDE DEF SegType
    <2> QED BY <1>1, CountPairs DEF Queue
  <1> QED BY <1>1, <1>2, <1>3 DEF SegsOk

\* What a call of the application that queues something leaves alone.
SameMarks(p, q) ==
    /\ p.flags \subseteq q.flags /\ q.delack = p.delack /\ q.state = p.state

\* The mark for an acknowledgement stays.
LEMMA MarkStays ==
    ASSUME NEW p, NEW q, SameMarks(p, q), Marked(p)
    PROVE  Marked(q)
  BY DEF SameMarks, Marked

\* A failed allocation.
LEMMA NagleOk ==
    ASSUME NEW p, PcbOk(p)
    PROVE  PcbOk(NagleMemErr(p)) /\ SameMarks(p, NagleMemErr(p))
  <1>1. Calm(p, NagleMemErr(p)) /\ PcbOk(NagleMemErr(p))
    BY FlagsCalm, CalmOk DEF PcbOk
  <1>2. SameMarks(p, NagleMemErr(p))
    BY DEF SameMarks, NagleMemErr, PcbOk, PcbType
  <1> QED BY <1>1, <1>2

\* tcp_write.
LEMMA WriteOk ==
    ASSUME NEW p, PcbOk(p), NEW n \in Nat \ {0}, NEW mem \in BOOLEAN
    PROVE  LET w == tcp_write(p, n, mem)
           IN  PcbOk(w.pcb) /\ SameMarks(p, w.pcb) /\ SameWindow(p, w.pcb)
  <1> DEFINE w == tcp_write(p, n, mem)
  <1>0. p \in PcbType /\ SameMarks(p, p) /\ SameWindow(p, p)
    BY DEF PcbOk, SameMarks, SameWindow
  <1>1. CASE Ended(p)
    <2>1. p.state \notin WriteStates
      BY <1>1 DEF Ended, WriteStates
    <2>2. w.pcb = p
      BY <2>1 DEF tcp_write, WriteResult
    <2> QED BY <1>0, <2>2
  <1>2. CASE ~Ended(p)
    <2>1. Accounts(p)
      BY <1>2 DEF PcbOk
    <2>2. \/ ~w.ok /\ (w.pcb = p \/ w.pcb = NagleMemErr(p))
          \/ w.ok /\ \E cat \in 0..n, m \in Nat \ {0} : \E old, new \in Queue :
                        Wrote(p, n, cat, m, old, new, w.pcb)
      BY <1>0, <2>1, WriteIs
    <2> DEFINE q == w.pcb
    <2>3. CASE q = p
      <3> HIDE DEF q
      <3>1. PcbOk(q) /\ SameMarks(p, q) /\ SameWindow(p, q)  BY <1>0, <2>3
      <3> QED BY <3>1 DEF q
    <2>4. CASE q = NagleMemErr(p)
      <3> HIDE DEF q
      <3>1. PcbOk(q) /\ SameMarks(p, q)  BY <2>4, NagleOk
      <3>2. SameWindow(p, q)  BY <1>0, <2>4, FlagsCalm DEF Calm
      <3> QED BY <3>1, <3>2 DEF q
    <2>5. CASE \E cat \in 0..n, m \in Nat \ {0} : \E old, new \in Queue :
                  Wrote(p, n, cat, m, old, new, q)
      <3> HIDE DEF q, w
      <3>1. PICK cat \in 0..n, m \in Nat \ {0} : \E old, new \in Queue :
                  Wrote(p, n, cat, m, old, new, q)
        BY <2>5
      <3>2. PICK old \in Queue, new \in Queue : Wrote(p, n, cat, m, old, new, q)
        BY <3>1
      <3> DEFINE one == IF cat > 0 THEN 1 ELSE 0
                 len == p.snd_queuelen + one + 2 * Len(new)
                 U == p.unsent
                 W == p.snd_wnd_max
      <3>3. /\ m <= MSS /\ 2 * m <= W
            /\ cat = 0 => old = U
            /\ cat > 0 => /\ Extended(U, old, p.snd_lbb, cat)
                          /\ Len(U[Len(U)].data) + cat <= m
            /\ NewSegs(new, p.snd_lbb + cat, p.snd_lbb + n, m)
            /\ len <= SndQueueLen
            /\ q = [p EXCEPT !.unsent = old \o new, !.snd_lbb = @ + n, !.snd_buf = @ - n,
                             !.snd_queuelen = len]
        BY <3>2 DEF Wrote
      <3>4. /\ p.snd_lbb \in Nat /\ p.snd_buf \in Int /\ p.snd_queuelen \in Int /\ W \in Nat
            /\ U \in Queue /\ p.unacked \in Queue /\ p.lastack \in Nat /\ one \in Nat
        BY <1>0, PcbFields
      <3> HIDE DEF one, U, W
      <3>5. new \in Queue /\ SegsOk(new, W) /\ PbufCount(new) = 2 * Len(new) /\ Len(new) \in Nat
        <4>1. m \in Nat  OBVIOUS
        <4>2. new \in Queue /\ SegsOk(new, W) /\ PbufCount(new) = 2 * Len(new)
          BY <3>3, <3>4, <4>1, NewSegsOk
        <4>3. Len(new) \in Nat  BY <4>2 DEF Queue
        <4> QED BY <4>2, <4>3
      <3>6. SegsOk(old, W) /\ PbufCount(old) = PbufCount(U) + one
        <4>1. SegsOk(U, W)  BY <2>1 DEF Accounts, U, W
        <4>2. CASE cat = 0
          <5>1. PbufCount(U) \in Nat
            <6> HIDE DEF SegType
            <6> QED BY <3>4, CountType DEF Queue
          <5>2. PbufCount(U) + 0 = PbufCount(U)  BY <5>1
          <5>3. one = 0  BY <4>2 DEF one
          <5> QED BY <3>3, <4>1, <4>2, <5>2, <5>3
        <4>3. CASE cat > 0
          <5>1. cat \in Nat \ {0} /\ m \in Nat /\ one = 1  BY <4>3 DEF one
          <5>2. SegsOk(old, W) /\ PbufCount(old) = PbufCount(U) + 1
            BY <3>3, <3>4, <4>1, <4>3, <5>1, ExtendedOk
          <5> QED BY <5>1, <5>2
        <4> QED BY <4>2, <4>3
      <3>7. old \o new \in Queue /\ SegsOk(old \o new, W)
            /\ PbufCount(old \o new) = PbufCount(old) + PbufCount(new)
        <4> HIDE DEF SegType
        <4> QED BY <3>5, <3>6, Joined, SegsJoin, CountBoth DEF Queue
      <3>8. q \in PcbType /\ SameWindow(p, q) /\ SameMarks(p, q) /\ q.flags = p.flags
            /\ q.unacked = p.unacked /\ q.unsent = old \o new /\ q.lastack = p.lastack
            /\ q.snd_lbb = p.snd_lbb + n /\ q.snd_buf = p.snd_buf - n /\ q.snd_queuelen = len
            /\ q.snd_wnd_max = W
        <4>1. p.snd_lbb + n \in Nat /\ p.snd_buf - n \in Int /\ len \in Int
          BY SMTT(20), <3>4, <3>5
        <4> DEFINE u == old \o new
                   b == p.snd_lbb + n
                   c == p.snd_buf - n
        <4>2. u \in Queue /\ b \in Nat /\ c \in Int  BY <3>7, <4>1
        <4>3. q = [p EXCEPT !.unsent = u, !.snd_lbb = b, !.snd_buf = c, !.snd_queuelen = len]
          BY <3>3
        <4> HIDE DEF u, b, c, len
        <4>4. q \in PcbType /\ SameWindow(p, q) /\ SameMarks(p, q) /\ q.flags = p.flags
              /\ q.unacked = p.unacked /\ q.unsent = u /\ q.lastack = p.lastack
              /\ q.snd_lbb = b /\ q.snd_buf = c /\ q.snd_queuelen = len
              /\ q.snd_wnd_max = p.snd_wnd_max
          BY <1>0, <4>1, <4>2, <4>3 DEF PcbType, SameWindow, SameMarks
        <4> QED BY <4>4 DEF u, b, c, W
      <3>9. Accounts(q)
        <4>1. /\ p.snd_buf + p.snd_lbb - p.lastack = SndBuf
              /\ p.snd_queuelen = PbufCount(p.unacked) + PbufCount(U)
              /\ SegsOk(p.unacked, W)
          BY <2>1 DEF Accounts, U, W
        <4>2. PbufCount(p.unacked) \in Nat /\ PbufCount(U) \in Nat
          <5> HIDE DEF SegType
          <5> QED BY <3>4, CountType DEF Queue
        <4>3. len = PbufCount(p.unacked) + PbufCount(old \o new)
          <5> DEFINE a == PbufCount(p.unacked)
                     b == PbufCount(U)
                     c == PbufCount(old \o new)
                     d == Len(new)
          <5>1. c = b + one + 2 * d  BY <3>5, <3>6, <3>7
          <5>2. len = a + b + one + 2 * d  BY <4>1
          <5>3. a \in Nat /\ b \in Nat /\ d \in Nat /\ one \in Nat  BY <3>4, <3>5, <4>2
          <5> HIDE DEF a, b, c, d, len
          <5>4. len = a + c  BY <5>1, <5>2, <5>3
          <5> QED BY <5>4 DEF a, c
        <4>4. (p.snd_buf - n) + (p.snd_lbb + n) - p.lastack = SndBuf
          BY <3>4, <4>1
        <4> QED BY <3>3, <3>7, <3>8, <4>1, <4>3, <4>4 DEF Accounts
      <3>10. PcbOk(q)
        <4>1. "NODELAY" \in q.flags  BY <3>8 DEF PcbOk
        <4> QED BY <3>8, <3>9, <4>1, StepOk
      <3> QED BY <3>8, <3>10 DEF q, w
    <2> QED BY <2>2, <2>3, <2>4, <2>5
  <1> QED BY <1>1, <1>2

\* Queues whose segments have the same pbufs have the same number of them.
LEMMA CountSame ==
    ASSUME NEW q \in Seq(SegType), NEW r \in Seq(SegType), Len(q) = Len(r),
           \A i \in 1..Len(q) : r[i].bufs = q[i].bufs
    PROVE  PbufCount(r) = PbufCount(q)
  <1>1. PICK c : CountsTo(q, Len(q), c)
    BY CountExists DEF Countable
  <1>2. CountsTo(r, Len(r), c)
    BY <1>1 DEF CountsTo
  <1> HIDE DEF SegType
  <1> QED BY <1>1, <1>2, CountIs

\* One more change to the queues: what the pcb must be afterwards.
LEMMA QueueOk ==
    ASSUME NEW p, PcbOk(p), ~Ended(p), NEW u \in Queue, NEW b \in Nat, NEW c \in Int, NEW l \in Int,
           NEW f \in SUBSET FlagNames, p.flags \subseteq f, l <= SndQueueLen,
           b + c = p.snd_lbb + p.snd_buf, SegsOk(u, p.snd_wnd_max),
           l = PbufCount(p.unacked) + PbufCount(u)
    PROVE  LET q == [p EXCEPT !.unsent = u, !.snd_lbb = b, !.snd_buf = c, !.snd_queuelen = l, !.flags = f]
           IN  PcbOk(q) /\ SameMarks(p, q) /\ SameWindow(p, q)
  <1> DEFINE q == [p EXCEPT !.unsent = u, !.snd_lbb = b, !.snd_buf = c, !.snd_queuelen = l, !.flags = f]
  <1>1. p \in PcbType /\ Accounts(p) /\ "NODELAY" \in f
    BY DEF PcbOk
  <1>2. q \in PcbType /\ SameWindow(p, q) /\ SameMarks(p, q) /\ q.flags = f
        /\ q.unacked = p.unacked /\ q.unsent = u /\ q.lastack = p.lastack
        /\ q.snd_lbb = b /\ q.snd_buf = c /\ q.snd_queuelen = l /\ q.snd_wnd_max = p.snd_wnd_max
    BY <1>1 DEF PcbType, SameWindow, SameMarks
  <1>3. p.snd_lbb \in Nat /\ p.snd_buf \in Int /\ p.lastack \in Nat
    BY <1>1, PcbFields
  <1> HIDE DEF q
  <1>4. c + b - p.lastack = SndBuf
    <2>1. p.snd_buf + p.snd_lbb - p.lastack = SndBuf  BY <1>1 DEF Accounts
    <2> QED BY <1>3, <2>1
  <1>5. Accounts(q)
    BY <1>1, <1>2, <1>4 DEF Accounts
  <1>6. PcbOk(q)
    BY <1>1, <1>2, <1>5, StepOk
  <1> QED BY <1>2, <1>6 DEF q

\* A segment appended to a queue.
LEMMA Appended ==
    ASSUME NEW q \in Seq(SegType), NEW s \in SegType
    PROVE  Append(q, s) = q \o <<s>>
  <1> HIDE DEF SegType
  <1> DEFINE a == Append(q, s)
             b == q \o <<s>>
             n == Len(q) + 1
  <1>1. a \in Seq(SegType) /\ Len(a) = n /\ n \in Nat /\ a[n] = s /\ \A i \in 1..Len(q) : a[i] = q[i]
    OBVIOUS
  <1>2. b \in Seq(SegType) /\ Len(b) = n /\ b[n] = s /\ \A i \in 1..Len(q) : b[i] = q[i]
    <2>1. <<s>> \in Seq(SegType) /\ Len(<<s>>) = 1 /\ <<s>>[1] = s  BY Single
    <2>2. /\ b \in Seq(SegType) /\ Len(b) = Len(q) + Len(<<s>>)
          /\ \A i \in 1..Len(q) : b[i] = q[i]
          /\ \A i \in 1..Len(<<s>>) : b[Len(q) + i] = <<s>>[i]
      BY <2>1, Joined
    <2> HIDE DEF b
    <2>3. 1 \in 1..Len(<<s>>)  BY <2>1
    <2>4. b[Len(q) + 1] = <<s>>[1]  BY <2>2, <2>3
    <2> QED BY <2>1, <2>2, <2>4
  <1>3. \A i \in 1..n : i \in 1..Len(q) \/ i = n
    OBVIOUS
  <1> HIDE DEF a, b, n
  <1>4. \A i \in 1..n : a[i] = b[i]
    BY <1>1, <1>2, <1>3
  <1>5. a = b
    BY <1>1, <1>2, <1>4
  <1> QED BY <1>5 DEF a, b

\* tcp_enqueue_flags.
LEMMA EnqueueOk ==
    ASSUME NEW p, PcbOk(p), ~Ended(p), NEW ctl \in {{"SYN"}, {"FIN"}}, NEW mem \in BOOLEAN
    PROVE  LET w == tcp_enqueue_flags(p, ctl, mem)
           IN  PcbOk(w.pcb) /\ SameMarks(p, w.pcb) /\ SameWindow(p, w.pcb)
  <1> DEFINE w == tcp_enqueue_flags(p, ctl, mem)
             s == Seg(p.snd_lbb, <<>>, ctl, 1)
             q == [p EXCEPT !.unsent = Append(@, s),
                            !.snd_lbb = @ + 1, !.snd_buf = @ - 1, !.snd_queuelen = @ + 1,
                            !.flags = @ \cup (ctl \cap {"FIN"})]
             full == p.snd_queuelen >= SndQueueLen \/ (p.snd_buf > 0 /\ ~mem)
  <1>0. w = IF full THEN WriteResult(NagleMemErr(p), FALSE)
            ELSE IF p.snd_buf = 0 THEN WriteResult(p, FALSE) ELSE WriteResult(q, TRUE)
    BY DEF tcp_enqueue_flags
  <1>a. p \in PcbType /\ SameMarks(p, p) /\ SameWindow(p, p) /\ Accounts(p)
    BY DEF PcbOk, SameMarks, SameWindow
  <1>b. /\ p.snd_lbb \in Nat /\ p.snd_buf \in Int /\ p.snd_queuelen \in Int /\ p.snd_wnd_max \in Nat
        /\ p.unsent \in Queue /\ p.unacked \in Queue /\ p.flags \in SUBSET FlagNames
    BY <1>a, PcbFields
  <1> HIDE DEF w
  <1>1. CASE full
    <2>1. w.pcb = NagleMemErr(p)
      <3> HIDE DEF full
      <3> QED BY <1>0, <1>1 DEF WriteResult
    <2>2. PcbOk(w.pcb) /\ SameMarks(p, w.pcb)  BY <2>1, NagleOk
    <2>3. SameWindow(p, w.pcb)  BY <1>a, <2>1, FlagsCalm DEF Calm
    <2> QED BY <2>2, <2>3 DEF w
  <1>2. CASE ~full /\ p.snd_buf = 0
    <2>1. w.pcb = p
      <3> HIDE DEF full
      <3> QED BY <1>0, <1>2 DEF WriteResult
    <2>2. PcbOk(w.pcb) /\ SameMarks(p, w.pcb) /\ SameWindow(p, w.pcb)  BY <1>a, <2>1
    <2> QED BY <2>2 DEF w
  <1>3. CASE ~full /\ p.snd_buf # 0
    <2>1. w.pcb = q
      <3> HIDE DEF full, q
      <3> QED BY <1>0, <1>3 DEF WriteResult
    <2>2. ~(p.snd_queuelen >= SndQueueLen) /\ SndQueueLen \in Nat
      BY <1>3, SizeAssumption DEF full
    <2>3. s \in SegType /\ s.bufs = 1 /\ s.data = <<>> /\ s.ctl # {}
      BY <1>b DEF Seg, SegType
    <2>4. TCP_TCPLEN(s) = 1 /\ Len(s.data) = 0
      <3> HIDE DEF s, SegType
      <3> QED BY <2>3 DEF TCP_TCPLEN
    <2> DEFINE u == p.unsent \o <<s>>
               b == p.snd_lbb + 1
               c == p.snd_buf - 1
               l == p.snd_queuelen + 1
               f == p.flags \cup (ctl \cap {"FIN"})
    <2>5. q = [p EXCEPT !.unsent = u, !.snd_lbb = b, !.snd_buf = c, !.snd_queuelen = l, !.flags = f]
      <3>1. Append(p.unsent, s) = p.unsent \o <<s>>
        <4> HIDE DEF s, SegType
        <4> QED BY <1>b, <2>3, Appended DEF Queue
      <3> HIDE DEF s
      <3> QED BY <3>1
    <2> HIDE DEF s, q, SegType
    <2>6. <<s>> \in Queue /\ SegsOk(<<s>>, p.snd_wnd_max) /\ PbufCount(<<s>>) = 1
      <3>1. <<s>> \in Queue /\ Len(<<s>>) = 1 /\ <<s>>[1] = s  BY <2>3, Single DEF Queue
      <3>2. PbufCount(<<s>>) = s.bufs  BY <2>3, CountOne
      <3>3. MSS \in Nat  BY SizeAssumption
      <3> QED BY <1>b, <2>3, <2>4, <3>1, <3>2, <3>3 DEF SegsOk
    <2>7. u \in Queue /\ SegsOk(u, p.snd_wnd_max) /\ PbufCount(u) = PbufCount(p.unsent) + 1
      <3>1. SegsOk(p.unsent, p.snd_wnd_max)  BY <1>a DEF Accounts
      <3>2. u \in Queue  BY <1>b, <2>6, Joined DEF Queue
      <3>3. SegsOk(u, p.snd_wnd_max)  BY <1>b, <2>6, <3>1, SegsJoin
      <3>4. PbufCount(u) = PbufCount(p.unsent) + PbufCount(<<s>>)  BY <1>b, <2>6, CountBoth DEF Queue
      <3> HIDE DEF u
      <3> QED BY <2>6, <3>2, <3>3, <3>4
    <2> HIDE DEF u
    <2>8. b \in Nat /\ c \in Int /\ l \in Int /\ l <= SndQueueLen /\ b + c = p.snd_lbb + p.snd_buf
      BY <1>b, <2>2
    <2>9. f \in SUBSET FlagNames /\ p.flags \subseteq f
      BY <1>b DEF FlagNames
    <2>10. l = PbufCount(p.unacked) + PbufCount(u)
      <3>1. p.snd_queuelen = PbufCount(p.unacked) + PbufCount(p.unsent)  BY <1>a DEF Accounts
      <3>2. PbufCount(p.unacked) \in Nat /\ PbufCount(p.unsent) \in Nat
        BY <1>b, CountType DEF Queue
      <3> QED BY <2>7, <3>1, <3>2
    <2> HIDE DEF b, c, l, f
    <2>11. PcbOk(q) /\ SameMarks(p, q) /\ SameWindow(p, q)
      BY <2>5, <2>7, <2>8, <2>9, <2>10, QueueOk
    <2> QED BY <2>1, <2>11 DEF w
  <1> QED BY <1>1, <1>2, <1>3

\* tcp_send_fin.
LEMMA FinOk ==
    ASSUME NEW p, PcbOk(p), ~Ended(p), NEW mem \in BOOLEAN
    PROVE  LET w == tcp_send_fin(p, mem)
           IN  PcbOk(w.pcb) /\ SameMarks(p, w.pcb) /\ SameWindow(p, w.pcb)
  <1> DEFINE w == tcp_send_fin(p, mem)
             U == p.unsent
             k == Len(U)
  <1>1. CASE ~(U # <<>> /\ Last(U).ctl = {})
    <2>1. w = tcp_enqueue_flags(p, {"FIN"}, mem)
      BY <1>1 DEF tcp_send_fin
    <2> HIDE DEF w
    <2>2. PcbOk(w.pcb) /\ SameMarks(p, w.pcb) /\ SameWindow(p, w.pcb)
      BY <2>1, EnqueueOk
    <2> QED BY <2>2 DEF w
  <1>2. CASE U # <<>> /\ Last(U).ctl = {}
    <2> DEFINE t == [U[k] EXCEPT !.ctl = {"FIN"}]
               u == [U EXCEPT ![k] = t]
               f == p.flags \cup {"FIN"}
               q == [p EXCEPT !.unsent[Len(p.unsent)].ctl = {"FIN"}, !.flags = @ \cup {"FIN"}]
    <2>1. w.pcb = q
      <3>1. w = WriteResult(q, TRUE)  BY <1>2 DEF tcp_send_fin
      <3> HIDE DEF w, q
      <3> QED BY <3>1 DEF WriteResult
    <2>a. p \in PcbType /\ Accounts(p)
      BY DEF PcbOk
    <2>b. /\ p.snd_lbb \in Nat /\ p.snd_buf \in Int /\ p.snd_queuelen \in Int /\ p.snd_wnd_max \in Nat
          /\ U \in Queue /\ p.unacked \in Queue /\ p.flags \in SUBSET FlagNames
      BY <2>a, PcbFields
    <2>2. k \in Nat /\ k > 0 /\ k \in 1..k /\ U[k] \in SegType
      BY <1>2, <2>b, LastIs
    <2>3. q = [p EXCEPT !.unsent = u, !.snd_lbb = p.snd_lbb, !.snd_buf = p.snd_buf,
                        !.snd_queuelen = p.snd_queuelen, !.flags = f]
      <3> HIDE DEF SegType
      <3> QED BY <2>a, <2>b, <2>2 DEF PcbType
    <2> HIDE DEF w, q
    <2>4. t \in SegType /\ t.data = U[k].data /\ t.bufs = U[k].bufs /\ t.ctl = {"FIN"}
      BY <2>2 DEF SegType
    <2> HIDE DEF t, SegType
    <2>5. u \in Queue /\ Len(u) = k /\ u[k] = t /\ \A i \in 1..k - 1 : u[i] = U[i]
      BY <2>b, <2>2, <2>4 DEF Queue
    <2> HIDE DEF u
    <2>6. \A i \in 1..k : i \in 1..k - 1 \/ i = k
      BY <2>2
    <2>7. SegsOk(U, p.snd_wnd_max)
      BY <2>a DEF Accounts
    <2>8. SegsOk(u, p.snd_wnd_max)
      <3>1. ASSUME NEW i \in 1..k - 1
            PROVE  /\ TCP_TCPLEN(u[i]) > 0 /\ Len(u[i].data) <= MSS
                   /\ 2 * Len(u[i].data) <= p.snd_wnd_max
        <4>1. i \in 1..Len(U)  BY <2>2
        <4> QED BY <2>5, <2>7, <4>1 DEF SegsOk
      <3>2. /\ TCP_TCPLEN(u[k]) > 0 /\ Len(u[k].data) <= MSS
            /\ 2 * Len(u[k].data) <= p.snd_wnd_max
        <4>1. Len(t.data) <= MSS /\ 2 * Len(t.data) <= p.snd_wnd_max
          BY <2>2, <2>4, <2>7 DEF SegsOk
        <4>2. TCP_TCPLEN(t) = Len(t.data) + 1  BY <2>4 DEF TCP_TCPLEN
        <4>3. Len(t.data) \in Nat  BY <2>4, EndType
        <4>4. TCP_TCPLEN(t) > 0  BY <4>2, <4>3
        <4> QED BY <2>5, <4>1, <4>4
      <3> HIDE DEF k
      <3> QED BY <2>5, <2>6, <3>1, <3>2 DEF SegsOk
    <2>9. PbufCount(u) = PbufCount(U)
      <3>1. \A i \in 1..Len(U) : u[i].bufs = U[i].bufs
        BY <2>4, <2>5, <2>6
      <3> QED BY <2>b, <2>5, <3>1, CountSame DEF Queue
    <2>10. f \in SUBSET FlagNames /\ p.flags \subseteq f
      BY <2>b DEF FlagNames
    <2>11. p.snd_queuelen <= SndQueueLen /\ p.snd_queuelen = PbufCount(p.unacked) + PbufCount(u)
      BY <2>9, <2>a DEF Accounts
    <2> HIDE DEF f
    <2>12. PcbOk(q) /\ SameMarks(p, q) /\ SameWindow(p, q)
      BY <2>3, <2>5, <2>8, <2>10, <2>11, <2>b, QueueOk
    <2> QED BY <2>1, <2>12 DEF w
  <1> QED BY <1>1, <1>2

\* Segments moved from one queue to the other.
LEMMA MoveOk ==
    ASSUME NEW p, PcbOk(p), NEW q \in PcbType, SameLimits(p, q), SameWindow(p, q),
           "NODELAY" \in q.flags,
           Accounts(p) =>
               /\ PbufCount(q.unacked) + PbufCount(q.unsent) = PbufCount(p.unacked) + PbufCount(p.unsent)
               /\ SegsOk(q.unacked, p.snd_wnd_max) /\ SegsOk(q.unsent, p.snd_wnd_max)
    PROVE  PcbOk(q)
  <1>1. ~Ended(q) => Accounts(p)
    BY DEF PcbOk, Ended, SameLimits
  <1>2. Accounts(p) => Accounts(q)
    BY DEF Accounts, SameLimits
  <1> QED BY <1>1, <1>2, StepOk

\* All of the queue again.
LEMMA RequeueOk ==
    ASSUME NEW p, PcbOk(p)
    PROVE  LET q == requeue_unacked(p)
           IN  PcbOk(q) /\ SameMarks(p, q) /\ SameLimits(p, q) /\ SameWindow(p, q)
  <1> DEFINE q == requeue_unacked(p)
             u == p.unacked \o p.unsent
  <1>1. p \in PcbType /\ p.unacked \in Queue /\ p.unsent \in Queue /\ p.nrtx \in Nat
    BY PcbFields DEF PcbOk
  <1>2. u \in Queue /\ PbufCount(u) = PbufCount(p.unacked) + PbufCount(p.unsent) /\ <<>> \in Queue
        /\ PbufCount(u) \in Nat
    <2> HIDE DEF SegType
    <2> QED BY <1>1, Joined, CountBoth, CountType DEF Queue
  <1>3. q = [p EXCEPT !.unsent = u, !.unacked = <<>>, !.nrtx = @ + 1]
    BY DEF requeue_unacked
  <1>4. Accounts(p) => SegsOk(u, p.snd_wnd_max) /\ SegsOk(<<>>, p.snd_wnd_max)
    <2>1. Accounts(p) => SegsOk(u, p.snd_wnd_max)
      BY <1>1, SegsJoin DEF Accounts
    <2>2. SegsOk(<<>>, p.snd_wnd_max)
      BY DEF SegsOk
    <2> QED BY <2>1, <2>2
  <1> HIDE DEF q, u
  <1>5. q \in PcbType /\ SameMarks(p, q) /\ SameLimits(p, q) /\ SameWindow(p, q)
        /\ q.flags = p.flags /\ q.unsent = u /\ q.unacked = <<>>
    <2> DEFINE k == p.nrtx + 1
               e == <<>>
    <2>1. q = [p EXCEPT !.unsent = u, !.unacked = e, !.nrtx = k] /\ k \in Nat /\ e \in Queue
      BY <1>1, <1>2, <1>3
    <2> HIDE DEF k, e
    <2>2. q \in PcbType /\ SameMarks(p, q) /\ SameLimits(p, q) /\ SameWindow(p, q)
          /\ q.flags = p.flags /\ q.unsent = u /\ q.unacked = e
      BY <1>1, <1>2, <2>1 DEF PcbType, SameMarks, SameLimits, SameWindow
    <2> QED BY <2>2 DEF e
  <1>6. PbufCount(q.unacked) + PbufCount(q.unsent) = PbufCount(p.unacked) + PbufCount(p.unsent)
    <2>1. PbufCount(<<>>) = 0  BY CountOne
    <2> QED BY <1>2, <1>5, <2>1
  <1>7. PcbOk(q)
    <2>1. "NODELAY" \in q.flags  BY <1>5 DEF PcbOk
    <2> QED BY <1>4, <1>5, <1>6, <2>1, MoveOk
  <1> QED BY <1>5, <1>7 DEF q

\* tcp_rexmit_rto: if it sends nothing, the mark for an acknowledgement stays.
LEMMA RexmitRtoOk ==
    ASSUME NEW p, PcbOk(p), NEW mem \in BOOLEAN
    PROVE  LET q == tcp_rexmit_rto(p, mem)
           IN  /\ PcbOk(q) /\ q.state = p.state
               /\ p.unacked # <<>> /\ Marked(p) /\ ~Sends(requeue_unacked(p), mem) => Marked(q)
  <1> DEFINE r == requeue_unacked(p)
             q == tcp_rexmit_rto(p, mem)
  <1>1. CASE p.unacked = <<>>
    <2>1. q = p  BY <1>1 DEF tcp_rexmit_rto
    <2> HIDE DEF q
    <2>2. PcbOk(q) /\ q.state = p.state  BY <2>1
    <2> QED BY <1>1, <2>2 DEF q
  <1>2. CASE p.unacked # <<>>
    <2>1. q = tcp_output(r, mem)  BY <1>2 DEF tcp_rexmit_rto
    <2>2. PcbOk(r) /\ SameMarks(p, r) /\ r.state = p.state
      BY RequeueOk DEF SameMarks
    <2> HIDE DEF q, r
    <2>3. PcbOk(q) /\ q.state = r.state /\ (Marked(r) /\ ~Sends(r, mem) => Marked(q))
      BY <2>1, <2>2, OutputOk DEF SameLimits
    <2>4. Marked(p) => Marked(r)
      BY <2>2, MarkStays
    <2>5. PcbOk(q) /\ q.state = p.state /\ (Marked(p) /\ ~Sends(r, mem) => Marked(q))
      BY <2>2, <2>3, <2>4
    <2> QED BY <2>5 DEF q, r
  <1> QED BY <1>1, <1>2

\* Half the window, and two segments.
LEMMA SsthreshType ==
    ASSUME NEW p \in PcbType
    PROVE  Ssthresh(p) \in Nat /\ Min({Ssthresh(p) + 3 * MSS, MaxCwnd}) \in Nat
           /\ (MaxCwnd >= MSS => Min({Ssthresh(p) + 3 * MSS, MaxCwnd}) >= MSS)
  <1>1. p.cwnd \in Nat /\ p.snd_wnd \in Nat /\ MSS \in Nat /\ MaxCwnd \in Nat
    BY PcbFields, SizeAssumption
  <1> DEFINE a == Min({p.cwnd, p.snd_wnd})
             h == a \div 2
             t == Max({h, 2 * MSS})
  <1>2. a \in Nat
    <2>1. p.cwnd \in Int /\ p.snd_wnd \in Int  BY <1>1
    <2>2. a = p.cwnd \/ a = p.snd_wnd  BY <2>1, MinOfTwo
    <2> HIDE DEF a
    <2> QED BY <1>1, <2>2
  <1> HIDE DEF a
  <1>3. h \in Nat
    BY <1>2, Half
  <1> HIDE DEF h
  <1>4. t \in Nat
    <2>1. h \in Int /\ 2 * MSS \in Int /\ 2 * MSS \in Nat  BY <1>1, <1>3
    <2>2. t = h \/ t = 2 * MSS  BY <2>1, MaxOfTwo
    <2> HIDE DEF t
    <2> QED BY <1>3, <2>1, <2>2
  <1>5. Ssthresh(p) = t
    BY DEF Ssthresh, t, h, a
  <1> HIDE DEF t
  <1> DEFINE b == t + 3 * MSS
             z == Min({b, MaxCwnd})
  <1>6. b \in Nat /\ b \in Int /\ MaxCwnd \in Int /\ b >= MSS
    BY <1>1, <1>4
  <1> HIDE DEF b
  <1>7. z = b \/ z = MaxCwnd
    BY <1>6, MinOfTwo
  <1>8. z \in Nat /\ (MaxCwnd >= MSS => z >= MSS)
    <2> HIDE DEF z
    <2> QED BY <1>1, <1>6, <1>7
  <1> QED BY <1>4, <1>5, <1>8 DEF z, b

\* tcp_rexmit puts the first segment back into the unsent queue.
LEMMA RexmitOk ==
    ASSUME NEW p, PcbOk(p), p.unacked # <<>>
    PROVE  LET q == tcp_rexmit(p)
           IN  /\ PcbOk(q) /\ SameMarks(p, q) /\ SameLimits(p, q) /\ SameWindow(p, q)
               /\ q.unacked = Tail(p.unacked) /\ q.unsent = Insert(p.unsent, Head(p.unacked))
               /\ q.snd_nxt = p.snd_nxt /\ q.flags = p.flags
  <1> DEFINE q == tcp_rexmit(p)
             s == Head(p.unacked)
             t == Tail(p.unacked)
             u == Insert(p.unsent, s)
  <1>1. p \in PcbType /\ p.unacked \in Queue /\ p.unsent \in Queue /\ p.nrtx \in Nat
    BY PcbFields DEF PcbOk
  <1>2. /\ s \in SegType /\ t \in Queue /\ s = p.unacked[1] /\ Len(p.unacked) > 0
        /\ Len(t) = Len(p.unacked) - 1 /\ \A i \in 1..Len(p.unacked) - 1 : t[i] = p.unacked[i + 1]
        /\ PbufCount(p.unacked) = s.bufs + PbufCount(t)
    BY <1>1, HeadAndTail
  <1>3. q = [p EXCEPT !.unacked = t, !.unsent = u, !.nrtx = @ + 1]
    BY DEF tcp_rexmit
  <1> HIDE DEF q, s, t, SegType
  <1>4. u \in Queue /\ PbufCount(u) = PbufCount(p.unsent) + s.bufs
    BY <1>1, <1>2, InsertAdds DEF Queue
  <1>5. Accounts(p) => SegsOk(u, p.snd_wnd_max) /\ SegsOk(t, p.snd_wnd_max)
    <2> SUFFICES ASSUME Accounts(p) PROVE SegsOk(u, p.snd_wnd_max) /\ SegsOk(t, p.snd_wnd_max)
      OBVIOUS
    <2>0. Len(p.unacked) \in Nat  BY <1>1 DEF Queue
    <2>1. SegsOk(p.unacked, p.snd_wnd_max) /\ SegsOk(p.unsent, p.snd_wnd_max)
      BY DEF Accounts
    <2>2. TCP_TCPLEN(s) > 0 /\ Len(s.data) <= MSS /\ 2 * Len(s.data) <= p.snd_wnd_max
      <3>1. 1 \in 1..Len(p.unacked)  BY <1>2, <2>0
      <3> QED BY <1>2, <2>1, <3>1 DEF SegsOk
    <2>3. SegsOk(u, p.snd_wnd_max)
      BY <1>1, <1>2, <2>1, <2>2, SegsInsert
    <2>4. SegsOk(t, p.snd_wnd_max)
      <3>1. ASSUME NEW i \in 1..Len(t) PROVE t[i] = p.unacked[i + 1] /\ i + 1 \in 1..Len(p.unacked)
        BY <1>2, <2>0
      <3> QED BY <2>1, <3>1 DEF SegsOk
    <2> QED BY <2>3, <2>4
  <1> HIDE DEF u
  <1>6. q \in PcbType /\ SameMarks(p, q) /\ SameLimits(p, q) /\ SameWindow(p, q)
        /\ q.flags = p.flags /\ q.unsent = u /\ q.unacked = t /\ q.snd_nxt = p.snd_nxt
    <2> DEFINE k == p.nrtx + 1
    <2>1. q = [p EXCEPT !.unacked = t, !.unsent = u, !.nrtx = k] /\ k \in Nat
      BY <1>1, <1>3
    <2> HIDE DEF k
    <2> QED BY <1>1, <1>2, <1>4, <2>1 DEF PcbType, SameMarks, SameLimits, SameWindow
  <1>7. PbufCount(q.unacked) + PbufCount(q.unsent) = PbufCount(p.unacked) + PbufCount(p.unsent)
    <2>1. PbufCount(t) \in Nat /\ PbufCount(p.unsent) \in Nat /\ s.bufs \in Nat
      <3>1. s.bufs \in Nat  BY <1>2 DEF SegType
      <3> QED BY <1>1, <1>2, <3>1, CountType DEF Queue
    <2> QED BY <1>2, <1>4, <1>6, <2>1
  <1>8. PcbOk(q)
    <2>1. "NODELAY" \in q.flags  BY <1>6 DEF PcbOk
    <2> QED BY <1>5, <1>6, <1>7, <2>1, MoveOk
  <1> QED BY <1>6, <1>8 DEF q, s, t, u

\* tcp_rexmit_fast.
LEMMA RexmitFastOk ==
    ASSUME NEW p, PcbOk(p)
    PROVE  PcbOk(tcp_rexmit_fast(p)) /\ SameMarks(p, tcp_rexmit_fast(p))
  <1> DEFINE q == tcp_rexmit_fast(p)
             r == tcp_rexmit(p)
             x == Ssthresh(p)
             c == Min({x + 3 * MSS, MaxCwnd})
  <1>1. CASE p.unacked = <<>> \/ "INFR" \in p.flags
    BY <1>1 DEF tcp_rexmit_fast, SameMarks
  <1>2. CASE ~(p.unacked = <<>> \/ "INFR" \in p.flags)
    <2>1. q = [r EXCEPT !.ssthresh = x, !.cwnd = c, !.flags = @ \cup {"INFR"}]
      BY <1>2 DEF tcp_rexmit_fast
    <2>2. PcbOk(r) /\ SameMarks(p, r) /\ r \in PcbType /\ "NODELAY" \in r.flags
      BY <1>2, RexmitOk DEF PcbOk
    <2>3. x \in Nat /\ c \in Nat
      BY SsthreshType DEF PcbOk
    <2>4. r.flags \cup {"INFR"} \in SUBSET FlagNames
      BY <2>2, PcbFields DEF FlagNames
    <2> HIDE DEF q, r, x, c
    <2>5. q \in PcbType /\ SameMarks(r, q) /\ SameLimits(r, q) /\ SameWindow(r, q)
          /\ "NODELAY" \in q.flags /\ q.unacked = r.unacked /\ q.unsent = r.unsent
      <3> DEFINE f == r.flags \cup {"INFR"}
      <3>1. q = [r EXCEPT !.ssthresh = x, !.cwnd = c, !.flags = f]  BY <2>1
      <3>2. r.flags \subseteq f /\ f \in SUBSET FlagNames  BY <2>4
      <3> HIDE DEF f
      <3> QED BY <2>2, <2>3, <3>1, <3>2 DEF PcbType, SameMarks, SameLimits, SameWindow
    <2>6. PcbOk(q)
      BY <2>2, <2>5, MoveOk DEF Accounts
    <2>7. SameMarks(p, q)
      BY <2>2, <2>5 DEF SameMarks
    <2> QED BY <2>6, <2>7 DEF q
  <1> QED BY <1>1, <1>2

\* A pcb that is freed or waits out its time.
LEMMA EndOk ==
    ASSUME NEW p, PcbOk(p)
    PROVE  /\ PcbOk(Freed(p)) /\ Freed(p).state = "FREE"
           /\ PcbOk(TimeWait(p)) /\ TimeWait(p).state = "TIME_WAIT"
  <1>1. p \in PcbType  BY DEF PcbOk
  <1>2. ASSUME NEW s \in {"FREE", "TIME_WAIT"}
        PROVE  LET q == [tcp_pcb_purge(p) EXCEPT !.state = s]
               IN  PcbOk(q) /\ q.state = s
    <2> DEFINE e == <<>>
               q == [p EXCEPT !.unsent = e, !.unacked = e, !.hrt = FALSE, !.state = s]
    <2>1. [tcp_pcb_purge(p) EXCEPT !.state = s] = q
      BY DEF tcp_pcb_purge
    <2>2. e \in Queue /\ s \in States
      BY DEF Queue, States
    <2> HIDE DEF e
    <2>3. q \in PcbType /\ SameWindow(p, q) /\ q.state = s /\ q.flags = p.flags
      BY <1>1, <2>2 DEF PcbType, SameWindow
    <2> HIDE DEF q
    <2>4. Ended(q)  BY <2>3 DEF Ended
    <2>5. "NODELAY" \in q.flags  BY <2>3 DEF PcbOk
    <2>6. PcbOk(q)  BY <2>3, <2>4, <2>5, StepOk
    <2> QED BY <2>1, <2>3, <2>6
  <1>3. Freed(p) = [tcp_pcb_purge(p) EXCEPT !.state = "FREE"]
    BY DEF Freed
  <1>4. TimeWait(p) = [tcp_pcb_purge(p) EXCEPT !.state = "TIME_WAIT"]
    BY DEF TimeWait
  <1>5. PcbOk(Freed(p)) /\ Freed(p).state = "FREE"
    BY <1>2, <1>3
  <1>6. PcbOk(TimeWait(p)) /\ TimeWait(p).state = "TIME_WAIT"
    BY <1>2, <1>4
  <1> QED BY <1>5, <1>6

\* A change of state.
LEMMA StateOk ==
    ASSUME NEW p, PcbOk(p), ~Ended(p), NEW s \in States
    PROVE  LET q == [p EXCEPT !.state = s]
           IN  PcbOk(q) /\ q.state = s /\ q.flags = p.flags /\ q.delack = p.delack
  <1> DEFINE q == [p EXCEPT !.state = s]
  <1>1. p \in PcbType  BY DEF PcbOk
  <1>2. q \in PcbType /\ SameWindow(p, q) /\ q.state = s /\ q.flags = p.flags /\ q.delack = p.delack
        /\ (Accounts(p) => Accounts(q))
    BY <1>1 DEF PcbType, SameWindow, Accounts
  <1> HIDE DEF q
  <1>3. PcbOk(q)
    BY <1>2, StepOk DEF PcbOk
  <1> QED BY <1>2, <1>3 DEF q

\* Segments within a window are within a larger one.
LEMMA SegsLarger ==
    ASSUME NEW q \in Queue, NEW v \in Nat, NEW w \in Nat, v <= w, SegsOk(q, v)
    PROVE  SegsOk(q, w)
  <1>1. ASSUME NEW i \in 1..Len(q) PROVE 2 * Len(q[i].data) <= w
    <2> DEFINE l == Len(q[i].data)
    <2>1. l \in Nat
      <3>1. q[i] \in SegType  BY DEF Queue
      <3> HIDE DEF SegType
      <3> QED BY <3>1, EndType
    <2>2. 2 * l <= v  BY DEF SegsOk
    <2> HIDE DEF l
    <2>3. 2 * l <= w  BY <2>1, <2>2
    <2> QED BY <2>3 DEF l
  <1> QED BY <1>1 DEF SegsOk

\* The peer's window.
LEMMA WindowOk ==
    ASSUME NEW p, PcbOk(p), NEW w \in Nat
    PROVE  LET q == Window(p, w)
           IN  /\ PcbOk(q) /\ SameMarks(p, q) /\ q.flags = p.flags
               /\ q.unsent = p.unsent /\ q.unacked = p.unacked /\ q.snd_nxt = p.snd_nxt
               /\ q.snd_lbb = p.snd_lbb /\ q.lastack = p.lastack /\ q.snd_wnd = w
               /\ q.cwnd = p.cwnd
               /\ q.snd_wnd_max \in Nat /\ q.snd_wnd_max >= p.snd_wnd_max
  <1> DEFINE q == Window(p, w)
             m == Max({p.snd_wnd_max, w})
             z == (w = 0)
  <1>1. p \in PcbType /\ p.snd_wnd_max \in Nat /\ p.unsent \in Queue /\ p.unacked \in Queue
    BY PcbFields DEF PcbOk
  <1>2. m \in Nat /\ m >= p.snd_wnd_max
    <2>1. p.snd_wnd_max \in Int /\ w \in Int  BY <1>1
    <2>2. m >= p.snd_wnd_max /\ (m = p.snd_wnd_max \/ m = w)  BY <2>1, MaxOfTwo
    <2> HIDE DEF m
    <2> QED BY <1>1, <2>2
  <1>3. q = [p EXCEPT !.snd_wnd = w, !.snd_wnd_max = m, !.persist = z] /\ z \in BOOLEAN
    BY DEF Window
  <1> HIDE DEF q, m, z
  <1>4. q \in PcbType /\ SameMarks(p, q) /\ SameWindow(p, q) /\ q.flags = p.flags
        /\ q.unsent = p.unsent /\ q.unacked = p.unacked /\ q.snd_nxt = p.snd_nxt
        /\ q.snd_lbb = p.snd_lbb /\ q.lastack = p.lastack /\ q.snd_wnd = w
        /\ q.snd_buf = p.snd_buf /\ q.snd_queuelen = p.snd_queuelen /\ q.snd_wnd_max = m
        /\ q.cwnd = p.cwnd
    BY <1>1, <1>2, <1>3 DEF PcbType, SameMarks, SameWindow
  <1>5. Accounts(p) => Accounts(q)
    <2> SUFFICES ASSUME Accounts(p) PROVE Accounts(q)
      OBVIOUS
    <2>1. SegsOk(q.unacked, m) /\ SegsOk(q.unsent, m)
      BY <1>1, <1>2, <1>4, SegsLarger DEF Accounts
    <2> QED BY <1>4, <2>1 DEF Accounts
  <1>6. PcbOk(q)
    <2>1. "NODELAY" \in q.flags  BY <1>4 DEF PcbOk
    <2>2. ~Ended(q) => Accounts(p)  BY <1>4 DEF PcbOk, Ended, SameMarks
    <2> QED BY <1>4, <1>5, <2>1, <2>2, StepOk
  <1> QED BY <1>2, <1>4, <1>6 DEF q

\* What is left of a queue after an acknowledgement.
LEMMA LeftOk ==
    ASSUME NEW q \in Queue, NEW a \in Nat, NEW w, SegsOk(q, w)
    PROVE  SegsOk(Left(q, a), w)
  <1> DEFINE i == FirstLeft(q, a)
             l == Left(q, a)
  <1>1. i \in 1..Len(q) + 1 /\ Len(l) = Len(q) - i + 1
        /\ \A j \in 1..Len(q) - i + 1 : l[j] = q[i - 1 + j]
    <2> HIDE DEF SegType
    <2> QED BY LeftSplits DEF Queue
  <1>2. Len(q) \in Nat  BY DEF Queue
  <1> HIDE DEF i, l
  <1>3. ASSUME NEW j \in 1..Len(l) PROVE i - 1 + j \in 1..Len(q) /\ l[j] = q[i - 1 + j]
    BY <1>1, <1>2
  <1>4. SegsOk(l, w)
    BY <1>3 DEF SegsOk
  <1> QED BY <1>4 DEF l

\* An acknowledgement of the peer.
LEMMA AckedOk ==
    ASSUME NEW p, PcbOk(p), ~Ended(p), NEW a \in Nat
    PROVE  LET q == Acked(p, a)
           IN  /\ PcbOk(q) /\ q.state = p.state /\ q.delack = p.delack
               /\ Marked(p) => Marked(q)
               /\ q.unacked = Left(p.unacked, a) /\ q.unsent = Left(p.unsent, a)
               /\ q.lastack = a /\ q.snd_nxt = p.snd_nxt /\ q.snd_lbb = p.snd_lbb
               /\ q.snd_wnd = p.snd_wnd /\ q.snd_wnd_max = p.snd_wnd_max
               /\ q.flags = p.flags \ {"INFR"}
  <1> DEFINE q == Acked(p, a)
             u == Left(p.unacked, a)
             v == Left(p.unsent, a)
             gu == PbufCount(Gone(p.unacked, a))
             gv == PbufCount(Gone(p.unsent, a))
             b == p.snd_buf + a - p.lastack
             l == p.snd_queuelen - gu - gv
             x == (u # <<>>)
             f == p.flags \ {"INFR"}
             c == Min({MaxCwnd, IF "INFR" \in p.flags THEN p.ssthresh ELSE p.cwnd + MSS})
  <1>1. p \in PcbType /\ Accounts(p) /\ "NODELAY" \in f
    BY DEF PcbOk
  <1>2. /\ p.unacked \in Queue /\ p.unsent \in Queue /\ p.snd_buf \in Int /\ p.lastack \in Nat
        /\ p.snd_queuelen \in Int /\ p.snd_lbb \in Nat /\ p.ssthresh \in Nat /\ p.cwnd \in Nat
        /\ p.flags \in SUBSET FlagNames /\ MSS \in Nat /\ MaxCwnd \in Nat /\ SndQueueLen \in Nat
    BY <1>1, PcbFields, SizeAssumption
  <1>3. /\ u \in Queue /\ v \in Queue /\ gu \in Nat /\ gv \in Nat
        /\ PbufCount(p.unacked) = gu + PbufCount(u) /\ PbufCount(p.unsent) = gv + PbufCount(v)
        /\ PbufCount(u) \in Nat /\ PbufCount(v) \in Nat
    <2> HIDE DEF SegType
    <2> QED BY <1>2, LeftSplits, CountType DEF Queue
  <1>4. c \in Nat
    <2> DEFINE y == IF "INFR" \in p.flags THEN p.ssthresh ELSE p.cwnd + MSS
    <2>1. y \in Nat  BY <1>2
    <2> HIDE DEF y
    <2>2. MaxCwnd \in Int /\ y \in Int  BY <1>2, <2>1
    <2>3. c = MaxCwnd \/ c = y  BY <2>2, MinOfTwo DEF y
    <2> HIDE DEF c
    <2> QED BY <1>2, <2>1, <2>3
  <1>5. b \in Int /\ l \in Int /\ f \in SUBSET FlagNames /\ x \in BOOLEAN
    BY <1>2, <1>3
  <1>6. q = [p EXCEPT !.unacked = u, !.unsent = v, !.lastack = a, !.snd_buf = b, !.nrtx = 0,
                      !.flags = f, !.snd_queuelen = l, !.rexmit = x, !.cwnd = c]
    <2> HIDE DEF c
    <2> QED BY DEF Acked, c
  <1>7. b + p.snd_lbb - a = SndBuf
    <2>1. p.snd_buf + p.snd_lbb - p.lastack = SndBuf  BY <1>1 DEF Accounts
    <2> QED BY <1>2, <2>1
  <1>8. l = PbufCount(u) + PbufCount(v) /\ l <= SndQueueLen
    <2>1. p.snd_queuelen = PbufCount(p.unacked) + PbufCount(p.unsent) /\ p.snd_queuelen <= SndQueueLen
      BY <1>1 DEF Accounts
    <2> HIDE DEF gu, gv, u, v
    <2> QED BY <1>2, <1>3, <2>1
  <1>9. SegsOk(u, p.snd_wnd_max) /\ SegsOk(v, p.snd_wnd_max)
    BY <1>1, <1>2, LeftOk DEF Accounts
  <1> HIDE DEF q, u, v, b, l, x, f, c
  <1>10. q \in PcbType /\ SameWindow(p, q) /\ q.state = p.state /\ q.delack = p.delack
         /\ q.unacked = u /\ q.unsent = v /\ q.lastack = a /\ q.snd_nxt = p.snd_nxt
         /\ q.snd_lbb = p.snd_lbb /\ q.snd_buf = b /\ q.snd_queuelen = l
         /\ q.snd_wnd = p.snd_wnd /\ q.snd_wnd_max = p.snd_wnd_max /\ q.flags = f
    <2>1. q \in PcbType
      BY <1>1, <1>3, <1>4, <1>5, <1>6, ZenonT(60) DEF PcbType
    <2>2. q.unacked = u /\ q.unsent = v /\ q.lastack = a /\ q.snd_buf = b
          /\ q.snd_queuelen = l /\ q.flags = f
      BY <1>1, <1>6, SMTT(30) DEF PcbType
    <2>3. /\ q.state = p.state /\ q.delack = p.delack /\ q.snd_nxt = p.snd_nxt
          /\ q.snd_lbb = p.snd_lbb /\ q.snd_wnd = p.snd_wnd /\ q.snd_wnd_max = p.snd_wnd_max
      BY <1>1, <1>6, SMTT(30) DEF PcbType
    <2>4. SameWindow(p, q)
      BY <1>1, <1>6, SMTT(30) DEF PcbType, SameWindow
    <2> QED BY <2>1, <2>2, <2>3, <2>4
  <1>11. Accounts(q)
    BY <1>7, <1>8, <1>9, <1>10 DEF Accounts
  <1>12. PcbOk(q)
    BY <1>1, <1>10, <1>11, StepOk
  <1>13. Marked(p) => Marked(q)
    BY <1>10 DEF Marked, f
  <1> QED BY <1>10, <1>12, <1>13 DEF q, u, v, f

\* tcp_update_rcv_ann_wnd after a change of the receive window.
LEMMA ReceiveOk ==
    ASSUME NEW p, PcbOk(p), NEW n \in Nat, NEW w \in Int, 0 <= w, p.right_edge <= n + w
    PROVE  LET q == tcp_update_rcv_ann_wnd([p EXCEPT !.rcv_nxt = n, !.rcv_wnd = w])
           IN  PcbOk(q) /\ SameMarks(p, q) /\ SameStream(p, q)
  <1> DEFINE r == [p EXCEPT !.rcv_nxt = n, !.rcv_wnd = w]
             q == tcp_update_rcv_ann_wnd(r)
             m == Max({0, r.right_edge - r.rcv_nxt})
  <1>1. p \in PcbType /\ p.right_edge \in Int /\ "NODELAY" \in p.flags
    BY PcbFields DEF PcbOk
  <1>2. r \in PcbType /\ r.rcv_nxt = n /\ r.rcv_wnd = w /\ r.right_edge = p.right_edge
        /\ SameMarks(p, r) /\ SameStream(p, r) /\ r.flags = p.flags /\ (Accounts(p) => Accounts(r))
    BY <1>1 DEF PcbType, SameMarks, SameStream, Accounts
  <1> HIDE DEF r
  <1>3. m \in Int /\ m <= w
    <2>1. 0 \in Int /\ r.right_edge - r.rcv_nxt \in Int  BY <1>1, <1>2
    <2>2. m = 0 \/ m = r.right_edge - r.rcv_nxt  BY <2>1, MaxOfTwo
    <2>3. r.right_edge - r.rcv_nxt <= w  BY <1>1, <1>2
    <2> HIDE DEF m
    <2> QED BY <2>1, <2>2, <2>3
  <1> HIDE DEF m
  <1>4. \E x \in Int : x <= w /\ q = [r EXCEPT !.rcv_ann_wnd = x]
    <2> DEFINE wide == r.rcv_nxt + r.rcv_wnd >= r.right_edge + Min({TcpWnd \div 2, MSS})
    <2>0. q = IF wide THEN [r EXCEPT !.rcv_ann_wnd = r.rcv_wnd] ELSE [r EXCEPT !.rcv_ann_wnd = m]
      BY DEF tcp_update_rcv_ann_wnd, m
    <2> HIDE DEF wide, q
    <2>1. CASE wide
      <3>1. q = [r EXCEPT !.rcv_ann_wnd = w]  BY <1>2, <2>0, <2>1
      <3> QED BY <3>1
    <2>2. CASE ~wide
      <3>1. q = [r EXCEPT !.rcv_ann_wnd = m]  BY <2>0, <2>2
      <3> QED BY <1>3, <3>1
    <2> QED BY <2>1, <2>2
  <1>5. PICK x \in Int : x <= w /\ q = [r EXCEPT !.rcv_ann_wnd = x]
    BY <1>4
  <1> HIDE DEF q
  <1>6. q \in PcbType /\ q.rcv_nxt = n /\ q.rcv_wnd = w /\ q.right_edge = p.right_edge
        /\ q.rcv_ann_wnd = x /\ SameMarks(r, q) /\ SameStream(r, q) /\ q.flags = r.flags
        /\ (Accounts(r) => Accounts(q))
    BY <1>2, <1>5 DEF PcbType, SameMarks, SameStream, Accounts
  <1>7. Promise(q)
    BY <1>5, <1>6 DEF Promise
  <1>8. SameMarks(p, q) /\ SameStream(p, q)
    BY <1>2, <1>6 DEF SameMarks, SameStream
  <1>9. ~Ended(q) => Accounts(q)
    BY <1>2, <1>6, <1>8 DEF PcbOk, Ended, SameMarks
  <1>10. PcbOk(q)
    BY <1>1, <1>2, <1>6, <1>7, <1>9 DEF PcbOk
  <1> QED BY <1>8, <1>10 DEF q, r

\* An immediate acknowledgement.
LEMMA AckNowOk ==
    ASSUME NEW p, PcbOk(p)
    PROVE  LET q == tcp_ack_now(p)
           IN  PcbOk(q) /\ q.state = p.state /\ Marked(q)
               /\ "ACK_NOW" \in q.flags /\ "NODELAY" \in q.flags
  <1>1. Calm(p, tcp_ack_now(p)) /\ "ACK_NOW" \in tcp_ack_now(p).flags
    BY FlagsCalm DEF PcbOk
  <1>2. PcbOk(tcp_ack_now(p))
    BY <1>1, CalmOk
  <1> QED BY <1>1, <1>2 DEF Calm, SameStream, Marked, PcbOk

\* tcp_recompute_timers.
LEMMA TimersOk ==
    ASSUME NEW p, PcbOk(p)
    PROVE  LET q == tcp_recompute_timers(p)
           IN  PcbOk(q) /\ SameStream(p, q) /\ (Marked(p) => Marked(q)) /\ q.flags = p.flags /\ q.cwnd = p.cwnd
  <1>1. LET q == tcp_recompute_timers(p)
        IN  Calm(p, q) /\ q.flags = p.flags /\ q.delack = p.delack /\ q.cwnd = p.cwnd
    BY TimersCalm DEF PcbOk
  <1> QED BY <1>1, CalmOk DEF Calm, Marked

\* A change of the timers and the congestion window.
LEMMA ClockOk ==
    ASSUME NEW p, PcbOk(p), NEW f \in SUBSET FlagNames, "NODELAY" \in f,
           NEW d \in BOOLEAN, NEW x \in BOOLEAN, NEW h \in BOOLEAN, NEW t \in Nat, NEW c \in Nat
    PROVE  LET q == [p EXCEPT !.flags = f, !.delack = d, !.rexmit = x, !.hrt = h,
                              !.ssthresh = t, !.cwnd = c]
           IN  PcbOk(q) /\ SameStream(p, q) /\ q.flags = f /\ q.delack = d
  <1> DEFINE q == [p EXCEPT !.flags = f, !.delack = d, !.rexmit = x, !.hrt = h,
                            !.ssthresh = t, !.cwnd = c]
  <1>1. p \in PcbType  BY DEF PcbOk
  <1>2. Calm(p, q) /\ SameStream(p, q) /\ q.flags = f /\ q.delack = d
    <2>1. q \in PcbType
      BY <1>1, ZenonT(60) DEF PcbType
    <2>2. SameStream(p, q)
      BY <1>1, SMTT(30) DEF PcbType, SameStream
    <2>3. SameWindow(p, q) /\ q.flags = f /\ q.delack = d
      BY <1>1, SMTT(30) DEF PcbType, SameWindow
    <2> HIDE DEF q
    <2> QED BY <2>1, <2>2, <2>3 DEF Calm
  <1> HIDE DEF q
  <1> QED BY <1>2, CalmOk DEF q

-----------------------------------------------------------------------------
(* The invariant and its steps.                                            *)

\* The state of the connection, and what is known of received data that
\* nothing has acknowledged.
Conn(p, o, s) ==
    /\ PcbOk(p) /\ o \in BOOLEAN /\ s \in BOOLEAN
    /\ o => p.state \notin {"CLOSED", "SYN_SENT"}
    /\ ~Ended(p) /\ o /\ ~s => Marked(p)

Inv == Conn(pcb, owed, starved) /\ hung \in BOOLEAN

\* The invariant holds at first.
LEMMA InitInv == Init => Inv
  <1> SUFFICES ASSUME Init PROVE Inv
    OBVIOUS
  <1>1. pcb = tcp_alloc /\ hung = FALSE /\ owed = FALSE /\ starved = FALSE
    BY DEF Init
  <1>2. MSS \in Nat /\ SndBuf \in Nat /\ TcpWnd \in Nat /\ SndQueueLen \in Nat /\ 10 * MSS \in Nat
    BY SizeAssumption
  <1>3. tcp_alloc \in PcbType
    <2>1. <<>> \in Queue  BY DEF Queue
    <2>2. {"NODELAY"} \in SUBSET FlagNames /\ "CLOSED" \in States
      BY DEF FlagNames, States
    <2> HIDE DEF Queue
    <2> QED BY <1>2, <2>1, <2>2 DEF tcp_alloc, PcbType
  <1>4. Promise(tcp_alloc)
    BY <1>2 DEF Promise, tcp_alloc
  <1>5. Accounts(tcp_alloc)
    <2>1. PbufCount(<<>>) = 0  BY CountOne
    <2>2. SegsOk(<<>>, 0)  BY DEF SegsOk
    <2> QED BY <1>2, <2>1, <2>2 DEF Accounts, tcp_alloc
  <1>6. "NODELAY" \in tcp_alloc.flags
    BY DEF tcp_alloc
  <1> QED BY <1>1, <1>3, <1>4, <1>5, <1>6 DEF Inv, Conn, PcbOk

\* A step that ends in tcp_output.
LEMMA OutputInv ==
    ASSUME Inv, NEW p, NEW mem \in BOOLEAN, Conn(p, owed, starved), Output(p, mem)
    PROVE  Conn(pcb', owed', starved')
  <1>1. /\ pcb' = tcp_output(p, mem)
        /\ owed' = (owed /\ ~(Sends(p, mem) /\ p.state # "SYN_SENT"))
        /\ starved' = (starved \/ (WantsEmptyAck(p) /\ ~mem))
    BY DEF Output
  <1>2. PcbOk(p) /\ owed \in BOOLEAN /\ starved \in BOOLEAN
    BY DEF Conn
  <1>3. PcbOk(pcb') /\ pcb'.state = p.state /\ (Marked(p) /\ ~Sends(p, mem) => Marked(pcb'))
    BY <1>1, <1>2, OutputOk DEF SameLimits
  <1>4. owed' \in BOOLEAN /\ starved' \in BOOLEAN
    BY <1>1
  <1>5. owed' => pcb'.state \notin {"CLOSED", "SYN_SENT"}
    BY <1>1, <1>3 DEF Conn
  <1>6. ASSUME ~Ended(pcb'), owed', ~starved' PROVE Marked(pcb')
    <2>1. owed /\ ~starved /\ ~(Sends(p, mem) /\ p.state # "SYN_SENT")
      BY <1>1, <1>6
    <2>2. p.state # "SYN_SENT" /\ ~Sends(p, mem)
      BY <2>1 DEF Conn
    <2>3. Marked(p)
      BY <1>3, <1>6, <2>1 DEF Conn, Ended
    <2> QED BY <1>3, <2>2, <2>3
  <1> QED BY <1>3, <1>4, <1>5, <1>6 DEF Conn

\* A step that keeps the state and the marks, and sends nothing.
LEMMA MarksConn ==
    ASSUME NEW p, NEW q, NEW o, NEW s, Conn(p, o, s), PcbOk(q), q.state = p.state,
           Marked(p) => Marked(q)
    PROVE  Conn(q, o, s)
  BY DEF Conn, Ended

\* A pcb that has ended owes nothing.
LEMMA EndConn ==
    ASSUME NEW p, PcbOk(p), Ended(p), NEW o \in BOOLEAN, NEW s \in BOOLEAN
    PROVE  Conn(p, o, s)
  BY DEF Conn, Ended

\* tcp_connect.
LEMMA ConnectInv ==
    ASSUME Inv, NEW mem \in BOOLEAN, tcp_connect(mem)
    PROVE  Inv'
  <1> DEFINE w == tcp_enqueue_flags(pcb, {"SYN"}, mem)
             p == [w.pcb EXCEPT !.state = "SYN_SENT"]
  <1>1. /\ pcb.state = "CLOSED" /\ hung' = hung
        /\ IF w.ok THEN Output(p, mem) ELSE pcb' = w.pcb /\ Quiet
    BY DEF tcp_connect
  <1>2. PcbOk(pcb) /\ Conn(pcb, owed, starved) /\ hung \in BOOLEAN
    BY DEF Inv, Conn
  <1>3. ~Ended(pcb) /\ owed = FALSE /\ starved \in BOOLEAN
    BY <1>1, <1>2 DEF Ended, Conn
  <1>4. PcbOk(w.pcb) /\ SameMarks(pcb, w.pcb)
    BY <1>2, <1>3, EnqueueOk
  <1> HIDE DEF w
  <1>5. CASE w.ok
    <2>1. PcbOk(p)
      <3>1. ~Ended(w.pcb)  BY <1>3, <1>4 DEF SameMarks, Ended
      <3>2. "SYN_SENT" \in States  BY DEF States
      <3> QED BY <1>4, <3>1, <3>2, StateOk
    <2> HIDE DEF p
    <2>2. Conn(p, owed, starved)
      BY <1>3, <2>1 DEF Conn
    <2>3. Output(p, mem)  BY <1>1, <1>5
    <2> QED BY <1>1, <1>2, <2>2, <2>3, OutputInv DEF Inv
  <1>6. CASE ~w.ok
    <2>1. pcb' = w.pcb /\ owed' = owed /\ starved' = starved
      BY <1>1, <1>6 DEF Quiet
    <2>2. Conn(w.pcb, owed, starved)
      BY <1>2, <1>4, MarkStays, MarksConn DEF SameMarks
    <2> QED BY <1>1, <1>2, <2>1, <2>2 DEF Inv
  <1> QED BY <1>5, <1>6

\* bsys_tcp_sendv.
LEMMA SendvInv ==
    ASSUME Inv, NEW n \in Nat, NEW mem \in BOOLEAN, bsys_tcp_sendv(n, mem)
    PROVE  Inv'
  <1> DEFINE len == Min({n, pcb.snd_buf})
             w == tcp_write(pcb, len, mem)
  <1>1. /\ len > 0 /\ hung' = hung
        /\ IF w.ok THEN Output(w.pcb, mem) ELSE pcb' = w.pcb /\ Quiet
    BY DEF bsys_tcp_sendv
  <1>2. PcbOk(pcb) /\ Conn(pcb, owed, starved) /\ hung \in BOOLEAN
    BY DEF Inv, Conn
  <1>3. len \in Nat \ {0}
    <2>1. n \in Int /\ pcb.snd_buf \in Int  BY <1>2, PcbFields DEF PcbOk
    <2>2. len \in Int  BY <2>1, MinOfTwo
    <2> HIDE DEF len
    <2> QED BY <1>1, <2>2
  <1> HIDE DEF len
  <1>4. PcbOk(w.pcb) /\ SameMarks(pcb, w.pcb)
    BY <1>2, <1>3, WriteOk
  <1> HIDE DEF w
  <1>5. Conn(w.pcb, owed, starved)
    BY <1>2, <1>4, MarkStays, MarksConn DEF SameMarks
  <1>6. CASE w.ok
    <2>1. Output(w.pcb, mem)  BY <1>1, <1>6
    <2> QED BY <1>1, <1>2, <1>5, <2>1, OutputInv DEF Inv
  <1>7. CASE ~w.ok
    <2>1. pcb' = w.pcb /\ owed' = owed /\ starved' = starved
      BY <1>1, <1>7 DEF Quiet
    <2> QED BY <1>1, <1>2, <1>5, <2>1 DEF Inv
  <1> QED BY <1>6, <1>7

\* tcp_recved.
LEMMA RecvedInv ==
    ASSUME Inv, NEW len \in Nat, NEW mem \in BOOLEAN, tcp_recved(len, mem)
    PROVE  Inv'
  <1> DEFINE p == [pcb EXCEPT !.rcv_wnd = @ + len]
             q == tcp_update_rcv_ann_wnd(p)
             wide == Inflation(p) >= TcpWnd \div 4
  <1>1. /\ hung' = hung
        /\ IF wide THEN Output(tcp_ack_now(q), mem) ELSE pcb' = q /\ Quiet
    BY DEF tcp_recved
  <1>2. PcbOk(pcb) /\ Conn(pcb, owed, starved) /\ hung \in BOOLEAN /\ pcb \in PcbType
    BY DEF Inv, Conn, PcbOk
  <1>3. /\ pcb.rcv_nxt \in Nat /\ pcb.rcv_wnd \in Int /\ pcb.right_edge \in Int
        /\ 0 <= pcb.rcv_wnd /\ pcb.right_edge <= pcb.rcv_nxt + pcb.rcv_wnd
    BY <1>2, PcbFields DEF PcbOk, Promise
  <1> DEFINE x == pcb.rcv_wnd + len
  <1>4. x \in Int /\ 0 <= x /\ pcb.right_edge <= pcb.rcv_nxt + x
    BY <1>3
  <1>5. p = [pcb EXCEPT !.rcv_nxt = pcb.rcv_nxt, !.rcv_wnd = x]
    BY <1>2 DEF PcbType
  <1> HIDE DEF x, p
  <1>6. PcbOk(q) /\ SameMarks(pcb, q)
    BY <1>2, <1>3, <1>4, <1>5, ReceiveOk
  <1> HIDE DEF q, wide
  <1>7. Conn(q, owed, starved)
    BY <1>2, <1>6, MarkStays, MarksConn DEF SameMarks
  <1>8. CASE wide
    <2>1. Conn(tcp_ack_now(q), owed, starved)
      <3>1. PcbOk(tcp_ack_now(q)) /\ tcp_ack_now(q).state = q.state /\ Marked(tcp_ack_now(q))
        BY <1>6, AckNowOk
      <3> QED BY <1>7, <3>1, MarksConn
    <2>2. Output(tcp_ack_now(q), mem)  BY <1>1, <1>8
    <2> QED BY <1>1, <1>2, <2>1, <2>2, OutputInv DEF Inv
  <1>9. CASE ~wide
    <2>1. pcb' = q /\ owed' = owed /\ starved' = starved
      BY <1>1, <1>9 DEF Quiet
    <2> QED BY <1>1, <1>2, <1>7, <2>1 DEF Inv
  <1> QED BY <1>8, <1>9

\* tcp_close_shutdown.
LEMMA CloseShutdownInv ==
    ASSUME Inv, NEW p, Conn(p, owed, starved), p.state = pcb.state,
           NEW rst \in BOOLEAN, NEW mem \in BOOLEAN, tcp_close_shutdown(p, rst, mem)
    PROVE  Conn(pcb', owed', starved')
  <1>1. PcbOk(p) /\ owed \in BOOLEAN /\ starved \in BOOLEAN
    BY DEF Conn
  <1>2. /\ PcbOk(Freed(p)) /\ Ended(Freed(p)) /\ PcbOk(TimeWait(p)) /\ Ended(TimeWait(p))
    BY <1>1, EndOk DEF Ended
  <1>3. CASE pcb' \in {Freed(p), TimeWait(p)} /\ Quiet
    <2>1. owed' = owed /\ starved' = starved /\ PcbOk(pcb') /\ Ended(pcb')
      BY <1>2, <1>3 DEF Quiet
    <2> QED BY <1>1, <2>1, EndConn
  <1>4. CASE pcb' = p /\ Quiet
    BY <1>4 DEF Quiet
  <1>5. CASE p.state \in DOMAIN AfterFin /\
             (LET w == tcp_send_fin(p, mem)
              IN  IF w.ok THEN Output([w.pcb EXCEPT !.state = AfterFin[p.state]], mem)
                  ELSE pcb' = w.pcb /\ Quiet)
    <2> DEFINE w == tcp_send_fin(p, mem)
               s == AfterFin[p.state]
               r == [w.pcb EXCEPT !.state = s]
    <2>1. s \in States \ {"CLOSED", "SYN_SENT"} /\ ~Ended(p)
      BY <1>5 DEF AfterFin, States, Ended
    <2> HIDE DEF s
    <2>2. IF w.ok THEN Output(r, mem) ELSE pcb' = w.pcb /\ Quiet
      BY <1>5 DEF s
    <2>3. PcbOk(w.pcb) /\ SameMarks(p, w.pcb)
      BY <1>1, <2>1, FinOk
    <2> HIDE DEF w
    <2>4. Conn(w.pcb, owed, starved)
      BY <2>3, MarkStays, MarksConn DEF SameMarks
    <2>5. CASE w.ok
      <3>1. ~Ended(w.pcb)  BY <2>1, <2>3 DEF SameMarks, Ended
      <3>2. PcbOk(r) /\ r.state = s /\ r.flags = w.pcb.flags /\ r.delack = w.pcb.delack
        BY <2>1, <2>3, <3>1, StateOk
      <3> HIDE DEF r
      <3>3. Conn(r, owed, starved)
        BY <2>1, <2>4, <3>1, <3>2 DEF Conn, Marked
      <3>4. Output(r, mem)  BY <2>2, <2>5
      <3> QED BY <3>3, <3>4, OutputInv
    <2>6. CASE ~w.ok
      <3>1. pcb' = w.pcb /\ owed' = owed /\ starved' = starved
        BY <2>2, <2>6 DEF Quiet
      <3> QED BY <2>4, <3>1
    <2> QED BY <2>5, <2>6
  <1>6. \/ pcb' \in {Freed(p), TimeWait(p)} /\ Quiet
        \/ pcb' = p /\ Quiet
        \/ p.state \in DOMAIN AfterFin /\
             (LET w == tcp_send_fin(p, mem)
              IN  IF w.ok THEN Output([w.pcb EXCEPT !.state = AfterFin[p.state]], mem)
                  ELSE pcb' = w.pcb /\ Quiet)
    <2>1. CASE ResetInstead(p, rst)
      <3>1. pcb' = (IF p.state = "ESTABLISHED" THEN TimeWait(p) ELSE Freed(p)) /\ Quiet
        BY <2>1 DEF tcp_close_shutdown
      <3> QED BY <3>1
    <2>2. CASE ~ResetInstead(p, rst) /\ p.state \in {"CLOSED", "SYN_SENT"}
      <3>1. pcb' = Freed(p) /\ Quiet
        BY <2>2 DEF tcp_close_shutdown
      <3> QED BY <3>1
    <2>3. CASE ~ResetInstead(p, rst) /\ p.state \notin {"CLOSED", "SYN_SENT"} /\ p.state \in DOMAIN AfterFin
      BY <2>3 DEF tcp_close_shutdown
    <2>4. CASE ~ResetInstead(p, rst) /\ p.state \notin {"CLOSED", "SYN_SENT"} /\ p.state \notin DOMAIN AfterFin
      <3>1. pcb' = p /\ Quiet
        BY <2>4 DEF tcp_close_shutdown
      <3> QED BY <3>1
    <2> QED BY <2>1, <2>2, <2>3, <2>4
  <1> QED BY <1>3, <1>4, <1>5, <1>6

\* A receiver that is shut.
LEMMA RxClosedConn ==
    ASSUME NEW p, NEW o, NEW s, Conn(p, o, s)
    PROVE  Conn(RxClosed(p), o, s) /\ RxClosed(p).state = p.state
  <1>1. PcbOk(p)  BY DEF Conn
  <1>2. Calm(p, RxClosed(p)) /\ (Marked(p) => Marked(RxClosed(p)))
    BY <1>1, FlagsCalm DEF PcbOk
  <1>3. PcbOk(RxClosed(p)) /\ RxClosed(p).state = p.state
    BY <1>1, <1>2, CalmOk DEF Calm, SameStream
  <1> QED BY <1>2, <1>3, MarksConn

\* tcp_close.
LEMMA CloseInv ==
    ASSUME Inv, NEW mem \in BOOLEAN, tcp_close(mem)
    PROVE  Inv'
  <1> DEFINE p == RxClosed(pcb)
  <1>1. tcp_close_shutdown(p, TRUE, mem) /\ hung' = hung
    BY DEF tcp_close
  <1>2. Conn(p, owed, starved) /\ p.state = pcb.state /\ hung \in BOOLEAN
    BY RxClosedConn DEF Inv
  <1> HIDE DEF p
  <1>3. Conn(pcb', owed', starved')
    BY <1>1, <1>2, CloseShutdownInv
  <1> QED BY <1>1, <1>2, <1>3 DEF Inv

\* tcp_shutdown.
LEMMA ShutdownInv ==
    ASSUME Inv, NEW rx \in BOOLEAN, NEW tx \in BOOLEAN, NEW mem \in BOOLEAN, tcp_shutdown(rx, tx, mem)
    PROVE  Inv'
  <1>1. /\ hung' = hung
        /\ \/ tcp_close_shutdown(pcb, FALSE, mem)
           \/ pcb' = RxClosed(pcb) /\ Quiet
           \/ pcb' = pcb /\ Quiet
    BY DEF tcp_shutdown
  <1>2. Conn(pcb, owed, starved) /\ hung \in BOOLEAN
    BY DEF Inv
  <1>3. CASE tcp_close_shutdown(pcb, FALSE, mem)
    <2>1. Conn(pcb', owed', starved')
      BY <1>2, <1>3, CloseShutdownInv
    <2> QED BY <1>1, <1>2, <2>1 DEF Inv
  <1>4. CASE pcb' = RxClosed(pcb) /\ Quiet
    <2>1. Conn(pcb', owed', starved')
      BY <1>2, <1>4, RxClosedConn DEF Quiet
    <2> QED BY <1>1, <1>2, <2>1 DEF Inv
  <1>5. CASE pcb' = pcb /\ Quiet
    BY <1>1, <1>2, <1>5 DEF Inv, Quiet
  <1> QED BY <1>1, <1>3, <1>4, <1>5

\* The delayed acknowledgement.
LEMMA DelayedAckOk ==
    ASSUME NEW p, PcbOk(p), NEW mem \in BOOLEAN
    PROVE  PcbOk(delayed_ack_due(p, mem)) /\ delayed_ack_due(p, mem).state = p.state
  <1> DEFINE r == tcp_output(tcp_ack_now(p), mem)
             f == r.flags \ {"ACK_NOW"}
             q == [r EXCEPT !.flags = f, !.delack = FALSE]
  <1>1. PcbOk(tcp_ack_now(p)) /\ tcp_ack_now(p).state = p.state
    BY AckNowOk
  <1>2. PcbOk(r) /\ r.state = p.state /\ r \in PcbType
    BY <1>1, OutputOk DEF SameLimits, PcbOk
  <1> HIDE DEF r
  <1>3. f \in SUBSET FlagNames /\ "NODELAY" \in f
    BY <1>2, PcbFields DEF PcbOk
  <1>4. delayed_ack_due(p, mem) = q
    BY DEF delayed_ack_due, r
  <1> HIDE DEF f
  <1>5. Calm(r, q)
    BY <1>2, <1>3 DEF Calm, SameStream, SameWindow, PcbType
  <1> HIDE DEF q
  <1>6. PcbOk(q) /\ q.state = r.state
    BY <1>2, <1>5, CalmOk DEF Calm, SameStream
  <1> QED BY <1>2, <1>4, <1>6

\* The retransmission is due.
LEMMA RetransmitDueOk ==
    ASSUME NEW p, PcbOk(p)
    PROVE  LET q == retransmit_due(p)
           IN  PcbOk(q) /\ SameStream(p, q) /\ (Marked(p) => Marked(q))
  <1> DEFINE x == Ssthresh(p)
             q == [p EXCEPT !.rexmit = FALSE, !.ssthresh = x, !.cwnd = MSS]
  <1>1. p \in PcbType /\ x \in Nat /\ MSS \in Nat
    BY SsthreshType, SizeAssumption DEF PcbOk
  <1>2. retransmit_due(p) = q
    BY DEF retransmit_due
  <1> HIDE DEF x
  <1>3. Calm(p, q) /\ q.flags = p.flags /\ q.delack = p.delack
    BY <1>1 DEF Calm, SameStream, SameWindow, PcbType
  <1> HIDE DEF q
  <1> QED BY <1>2, <1>3, CalmOk DEF Calm, Marked

\* A change of the timers only.
LEMMA TimerChangeOk ==
    ASSUME NEW p, PcbOk(p), NEW x \in BOOLEAN, NEW h \in BOOLEAN
    PROVE  LET q == [p EXCEPT !.rexmit = x]
               r == [p EXCEPT !.hrt = h]
           IN  /\ PcbOk(q) /\ SameStream(p, q) /\ (Marked(p) => Marked(q))
               /\ PcbOk(r) /\ SameStream(p, r) /\ (Marked(p) => Marked(r))
  <1>1. p \in PcbType  BY DEF PcbOk
  <1>2. LET q == [p EXCEPT !.rexmit = x]
        IN  Calm(p, q) /\ q.flags = p.flags /\ q.delack = p.delack
    BY <1>1 DEF Calm, SameStream, SameWindow, PcbType
  <1>3. LET r == [p EXCEPT !.hrt = h]
        IN  Calm(p, r) /\ r.flags = p.flags /\ r.delack = p.delack
    BY <1>1 DEF Calm, SameStream, SameWindow, PcbType
  <1>4. LET q == [p EXCEPT !.rexmit = x]
        IN  PcbOk(q) /\ SameStream(p, q) /\ (Marked(p) => Marked(q))
    BY <1>2, CalmOk DEF Calm, Marked
  <1>5. LET r == [p EXCEPT !.hrt = h]
        IN  PcbOk(r) /\ SameStream(p, r) /\ (Marked(p) => Marked(r))
    BY <1>3, CalmOk DEF Calm, Marked
  <1> QED BY <1>4, <1>5

\* tcp_unified_timer_handler.
LEMMA TimerInv ==
    ASSUME Inv, NEW due \in SUBSET {"delack", "rexmit", "persist"}, NEW mem \in BOOLEAN,
           tcp_unified_timer_handler(due, mem)
    PROVE  Inv'
  <1> DEFINE now == tcp_ack_now(pcb)
             ack == "delack" \in due
             p == IF ack THEN delayed_ack_due(pcb, mem) ELSE pcb
             late == "rexmit" \in due /\ ~(ack /\ CanSend(now))
             again == late /\ p.unacked # <<>> /\ p.snd_wnd > 0
             rtx == retransmit_due(p)
             keep == p.rexmit /\ ~(late /\ p.unacked = <<>>)
             q == [p EXCEPT !.rexmit = keep]
             r == IF "persist" \in due THEN tcp_zero_window_probe(q, mem) ELSE q
             last == IF again THEN tcp_rexmit_rto(rtx, mem) ELSE r
             acked == ack /\ Sends(now, mem)
             resent == again /\ Sends(requeue_unacked(rtx), mem)
             probed == ~again /\ "persist" \in due /\ mem /\ q.unacked \o q.unsent # <<>>
  <1>1. /\ IF again /\ GivesUp(p)
           THEN pcb' = Freed(p) /\ hung' = TRUE
           ELSE /\ \E active \in BOOLEAN : pcb' = [last EXCEPT !.hrt = active]
                /\ hung' \in BOOLEAN
        /\ owed' = (owed /\ ~(acked \/ resent \/ probed))
        /\ starved' = (starved \/ (ack /\ WantsEmptyAck(now) /\ ~mem))
    <2>1. /\ IF again /\ GivesUp(p)
             THEN pcb' = Freed(p) /\ hung' = TRUE
             ELSE /\ \E active \in IF again THEN {FALSE} ELSE BOOLEAN :
                         pcb' = [last EXCEPT !.hrt = active]
                  /\ hung' \in IF AnyTimer(last) /\ (again => acked \/ resent) THEN BOOLEAN ELSE {FALSE}
          /\ owed' = (owed /\ ~(acked \/ resent \/ probed))
          /\ starved' = (starved \/ (ack /\ WantsEmptyAck(now) /\ ~mem))
      BY Zenon DEF tcp_unified_timer_handler
    <2> HIDE DEF now, ack, p, late, again, rtx, q, r, last, acked, resent, probed
    <2> QED BY <2>1
  <1>2. PcbOk(pcb) /\ Conn(pcb, owed, starved) /\ owed \in BOOLEAN /\ starved \in BOOLEAN
    BY DEF Inv, Conn
  <1>3. PcbOk(p) /\ p.state = pcb.state /\ (~ack => p = pcb)
    <2>1. CASE ack  BY <1>2, <2>1, DelayedAckOk
    <2>2. CASE ~ack  BY <1>2, <2>2
    <2> QED BY <2>1, <2>2
  <1>4. ack => acked \/ (WantsEmptyAck(now) /\ ~mem)
    <2>1. "ACK_NOW" \in now.flags /\ "NODELAY" \in now.flags
      BY <1>2, AckNowOk
    <2> HIDE DEF now
    <2>2. Sends(now, mem) \/ (WantsEmptyAck(now) /\ ~mem)
      BY <2>1, AckGoesOut
    <2> QED BY <2>2
  <1> HIDE DEF now, ack, p, late
  <1>5. PcbOk(rtx) /\ SameStream(p, rtx) /\ (Marked(p) => Marked(rtx))
    BY <1>3, RetransmitDueOk
  <1>6. PcbOk(q) /\ SameStream(p, q) /\ (Marked(p) => Marked(q))
    <2>1. keep \in BOOLEAN
      <3>1. p.rexmit \in BOOLEAN  BY <1>3, PcbFields DEF PcbOk
      <3> QED BY <3>1
    <2> HIDE DEF keep
    <2> QED BY <1>3, <2>1, TimerChangeOk
  <1> HIDE DEF q, rtx
  <1>7. PcbOk(r) /\ r.state = q.state /\ (Marked(q) => Marked(r))
    <2>1. CASE "persist" \in due
      <3> DEFINE z == tcp_zero_window_probe(q, mem)
      <3>1. Calm(q, z) /\ z.flags = q.flags /\ z.delack = q.delack
        BY <1>6, ProbeCalm DEF PcbOk
      <3> HIDE DEF z
      <3>2. PcbOk(z) /\ z.state = q.state /\ (Marked(q) => Marked(z))
        BY <1>6, <3>1, CalmOk DEF Calm, SameStream, Marked
      <3>3. r = z  BY <2>1 DEF z
      <3> QED BY <3>2, <3>3
    <2>2. CASE "persist" \notin due
      BY <1>6, <2>2
    <2> QED BY <2>1, <2>2
  <1> HIDE DEF r
  <1>8. /\ PcbOk(last) /\ last.state = p.state
        /\ Marked(p) /\ ~resent => Marked(last)
    <2>1. CASE again
      <3> DEFINE z == tcp_rexmit_rto(rtx, mem)
      <3>1. rtx.unacked # <<>>
        <4>1. p.unacked # <<>>  BY <2>1
        <4> QED BY <1>5, <4>1 DEF SameStream
      <3>2. /\ PcbOk(z) /\ z.state = rtx.state
            /\ Marked(rtx) /\ ~Sends(requeue_unacked(rtx), mem) => Marked(z)
        BY <1>5, <3>1, RexmitRtoOk
      <3>3. last = z  BY <2>1
      <3>4. resent = Sends(requeue_unacked(rtx), mem)  BY <2>1 DEF Sends, WantsEmptyAck, CanSend
      <3> HIDE DEF z, resent, last
      <3> QED BY <1>5, <3>2, <3>3, <3>4 DEF SameStream
    <2>2. CASE ~again
      <3>1. last = r  BY <2>2
      <3> HIDE DEF last
      <3> QED BY <1>6, <1>7, <3>1 DEF SameStream
    <2> QED BY <2>1, <2>2
  <1> HIDE DEF last, again
  <1>9. owed' \in BOOLEAN /\ starved' \in BOOLEAN /\ hung' \in BOOLEAN
    BY <1>1
  <1>10. CASE again /\ GivesUp(p)
    <2>1. pcb' = Freed(p)  BY <1>1, <1>10
    <2>2. PcbOk(pcb') /\ Ended(pcb')  BY <1>3, <2>1, EndOk DEF Ended
    <2> QED BY <1>9, <2>2, EndConn DEF Inv
  <1>11. CASE ~(again /\ GivesUp(p))
    <2>1. PICK active \in BOOLEAN : pcb' = [last EXCEPT !.hrt = active]
      <3>1. \E active \in BOOLEAN : pcb' = [last EXCEPT !.hrt = active]
        BY <1>1, <1>11, Zenon
      <3> QED BY <3>1
    <2>2. PcbOk(pcb') /\ SameStream(last, pcb') /\ (Marked(last) => Marked(pcb'))
      <3> DEFINE z == [last EXCEPT !.hrt = active]
      <3>1. PcbOk(z) /\ SameStream(last, z) /\ (Marked(last) => Marked(z))
        BY <1>8, TimerChangeOk
      <3>2. pcb' = z  BY <2>1
      <3> HIDE DEF z
      <3> QED BY <3>1, <3>2
    <2>3. pcb'.state = pcb.state
      BY <1>3, <1>8, <2>2 DEF SameStream
    <2>4. owed' => pcb'.state \notin {"CLOSED", "SYN_SENT"}
      BY <1>1, <1>2, <2>3 DEF Conn
    <2>5. ASSUME ~Ended(pcb'), owed', ~starved' PROVE Marked(pcb')
      <3>1. owed /\ ~acked /\ ~resent /\ ~starved /\ ~(ack /\ WantsEmptyAck(now) /\ ~mem)
        <4> HIDE DEF acked, resent, probed
        <4> QED BY <1>1, <2>5
      <3>2. ~ack
        <4> HIDE DEF acked
        <4> QED BY <1>4, <3>1
      <3>3. p = pcb  BY <1>3, <3>2
      <3>4. Marked(p)
        BY <1>2, <2>3, <2>5, <3>1, <3>3 DEF Conn, Ended
      <3> HIDE DEF resent
      <3> QED BY <1>8, <2>2, <3>1, <3>4
    <2> QED BY <1>9, <2>2, <2>4, <2>5 DEF Inv, Conn
  <1> QED BY <1>10, <1>11

\* An acknowledgement with a window.
LEMMA AckedWindowOk ==
    ASSUME NEW p, PcbOk(p), ~Ended(p), NEW a \in Nat, NEW w \in Nat
    PROVE  LET q == Window(Acked(p, a), w)
           IN  PcbOk(q) /\ q.state = p.state /\ (Marked(p) => Marked(q))
  <1> DEFINE r == Acked(p, a)
             q == Window(r, w)
  <1>1. PcbOk(r) /\ r.state = p.state /\ (Marked(p) => Marked(r))
    BY AckedOk
  <1> HIDE DEF r
  <1>2. PcbOk(q) /\ SameMarks(r, q)
    BY <1>1, WindowOk
  <1> HIDE DEF q
  <1>3. PcbOk(q) /\ q.state = p.state /\ (Marked(p) => Marked(q))
    BY <1>1, <1>2, MarkStays DEF SameMarks
  <1> QED BY <1>3 DEF q, r

\* The windows of the peer are numbers.
LEMMA PeerWndsAre == \A w \in PeerWnds : w \in Nat
  BY SizeAssumption

\* The SYN-ACK of the peer.
LEMMA SynAckedInv ==
    ASSUME Inv, NEW w \in PeerWnds, NEW mem \in BOOLEAN, SynAcked(w, mem)
    PROVE  Inv'
  <1> DEFINE p == Window(Acked(pcb, 1), w)
             e == [p EXCEPT !.state = "ESTABLISHED"]
             r == tcp_recompute_timers(e)
             q == tcp_ack_now(r)
  <1>1. pcb.state = "SYN_SENT" /\ Output(q, mem) /\ hung' = hung
    BY DEF SynAcked
  <1>2. PcbOk(pcb) /\ Conn(pcb, owed, starved) /\ hung \in BOOLEAN /\ starved \in BOOLEAN
    BY DEF Inv, Conn
  <1>3. ~Ended(pcb) /\ owed = FALSE
    BY <1>1, <1>2 DEF Ended, Conn
  <1>4. PcbOk(p) /\ p.state = "SYN_SENT" /\ ~Ended(p)
    <2>1. w \in Nat /\ 1 \in Nat  BY PeerWndsAre
    <2>2. PcbOk(p) /\ p.state = pcb.state  BY <1>2, <1>3, <2>1, AckedWindowOk
    <2> HIDE DEF p
    <2> QED BY <1>1, <2>2 DEF Ended
  <1> HIDE DEF p
  <1>5. PcbOk(e)
    <2>1. "ESTABLISHED" \in States  BY DEF States
    <2> QED BY <1>4, <2>1, StateOk
  <1> HIDE DEF e
  <1>6. PcbOk(r)
    BY <1>5, TimersOk
  <1> HIDE DEF r
  <1>7. PcbOk(q)
    BY <1>6, AckNowOk
  <1> HIDE DEF q
  <1>8. Conn(q, owed, starved)
    BY <1>2, <1>3, <1>7 DEF Conn
  <1> QED BY <1>1, <1>2, <1>8, OutputInv DEF Inv

\* What follows the acknowledgement of the FIN.
LEMMA AfterFinAckOk ==
    ASSUME NEW p, PcbOk(p), ~Ended(p), NEW a
    PROVE  LET q == AfterFinAck(p, a)
           IN  /\ PcbOk(q)
               /\ Ended(q) \/ q.state = p.state \/ q.state = "FIN_WAIT_2"
               /\ ~Ended(q) /\ Marked(p) => Marked(q)
  <1> DEFINE q == AfterFinAck(p, a)
  <1>1. CASE q = p
    <2> HIDE DEF q
    <2>1. PcbOk(q) /\ q.state = p.state /\ (Marked(p) => Marked(q))  BY <1>1
    <2> QED BY <2>1 DEF q
  <1>2. CASE q = [p EXCEPT !.state = "FIN_WAIT_2"]
    <2> DEFINE r == [p EXCEPT !.state = "FIN_WAIT_2"]
    <2>1. "FIN_WAIT_2" \in States  BY DEF States
    <2>2. PcbOk(r) /\ r.state = "FIN_WAIT_2" /\ r.flags = p.flags /\ r.delack = p.delack
      BY <2>1, StateOk
    <2> HIDE DEF q, r
    <2>3. PcbOk(q) /\ q.state = "FIN_WAIT_2" /\ q.flags = p.flags /\ q.delack = p.delack
      BY <1>2, <2>2 DEF r
    <2>4. Marked(p) => Marked(q)  BY <2>3 DEF Marked
    <2> QED BY <2>3, <2>4 DEF q
  <1>3. CASE q = TimeWait(p) \/ q = Freed(p)
    <2> HIDE DEF q
    <2>1. PcbOk(q) /\ Ended(q)  BY <1>3, EndOk DEF Ended
    <2> QED BY <2>1 DEF q
  <1>4. q = p \/ q = [p EXCEPT !.state = "FIN_WAIT_2"] \/ q = TimeWait(p) \/ q = Freed(p)
    <2>1. CASE "FIN" \notin p.flags \/ a < p.snd_nxt \/ p.unsent # <<>>
      BY <2>1 DEF AfterFinAck
    <2>2. CASE ~("FIN" \notin p.flags \/ a < p.snd_nxt \/ p.unsent # <<>>)
      <3>1. q = CASE p.state = "FIN_WAIT_1" -> [p EXCEPT !.state = "FIN_WAIT_2"]
                  [] p.state = "CLOSING" -> TimeWait(p)
                  [] p.state = "LAST_ACK" -> Freed(p)
                  [] OTHER -> p
        BY <2>2 DEF AfterFinAck
      <3>2. CASE p.state = "FIN_WAIT_1"  BY <3>1, <3>2
      <3>3. CASE p.state = "CLOSING"  BY <3>1, <3>3
      <3>4. CASE p.state = "LAST_ACK"  BY <3>1, <3>4
      <3>5. CASE p.state \notin {"FIN_WAIT_1", "CLOSING", "LAST_ACK"}  BY <3>1, <3>5
      <3> QED BY <3>2, <3>3, <3>4, <3>5
    <2> QED BY <2>1, <2>2
  <1> QED BY <1>1, <1>2, <1>3, <1>4

\* An acknowledgement arrives.
LEMMA AckArrivesInv ==
    ASSUME Inv, NEW a \in Nat, NEW w \in PeerWnds, NEW mem \in BOOLEAN, AckArrives(a, w, mem)
    PROVE  Inv'
  <1> DEFINE x == Window(Acked(pcb, a), w)
             y == tcp_recompute_timers(x)
             p == AfterFinAck(y, a)
  <1>1. /\ pcb.state \notin {"CLOSED", "SYN_SENT", "FREE", "TIME_WAIT"} /\ hung' = hung
        /\ IF p.state \in {"FREE", "TIME_WAIT"} THEN pcb' = p /\ Quiet ELSE Output(p, mem)
    BY DEF AckArrives, Sequenced
  <1>2. PcbOk(pcb) /\ Conn(pcb, owed, starved) /\ hung \in BOOLEAN /\ owed \in BOOLEAN /\ starved \in BOOLEAN
    BY DEF Inv, Conn
  <1>3. ~Ended(pcb)
    BY <1>1 DEF Ended
  <1>4. PcbOk(x) /\ x.state = pcb.state /\ (Marked(pcb) => Marked(x))
    <2>1. w \in Nat  BY PeerWndsAre
    <2> QED BY <1>2, <1>3, <2>1, AckedWindowOk
  <1> HIDE DEF x
  <1>5. PcbOk(y) /\ y.state = pcb.state /\ (Marked(pcb) => Marked(y)) /\ ~Ended(y)
    <2>1. PcbOk(y) /\ y.state = x.state /\ (Marked(x) => Marked(y))
      BY <1>4, TimersOk DEF SameStream
    <2> HIDE DEF y
    <2> QED BY <1>3, <1>4, <2>1 DEF Ended
  <1> HIDE DEF y
  <1>6. /\ PcbOk(p)
        /\ Ended(p) \/ p.state = pcb.state \/ p.state = "FIN_WAIT_2"
        /\ ~Ended(p) /\ Marked(pcb) => Marked(p)
    BY <1>5, AfterFinAckOk
  <1> HIDE DEF p
  <1>7. CASE Ended(p)
    <2>1. pcb' = p /\ owed' = owed /\ starved' = starved
      BY <1>1, <1>7 DEF Ended, Quiet
    <2> QED BY <1>1, <1>2, <1>6, <1>7, <2>1, EndConn DEF Inv
  <1>8. CASE ~Ended(p)
    <2>1. Output(p, mem)
      BY <1>1, <1>8 DEF Ended
    <2>2. Conn(p, owed, starved)
      BY <1>1, <1>2, <1>3, <1>6, <1>8 DEF Conn
    <2> QED BY <1>1, <1>2, <2>1, <2>2, OutputInv DEF Inv
  <1> QED BY <1>7, <1>8

\* A window arrives.
LEMMA WindowArrivesInv ==
    ASSUME Inv, NEW w \in PeerWnds, NEW mem \in BOOLEAN, WindowArrives(w, mem)
    PROVE  Inv'
  <1> DEFINE x == Window(pcb, w)
             p == tcp_recompute_timers(x)
  <1>1. hung' = hung /\ Output(p, mem)
    BY DEF WindowArrives
  <1>2. PcbOk(pcb) /\ Conn(pcb, owed, starved) /\ hung \in BOOLEAN
    BY DEF Inv, Conn
  <1>3. PcbOk(x) /\ SameMarks(pcb, x)
    <2>1. w \in Nat  BY PeerWndsAre
    <2> QED BY <1>2, <2>1, WindowOk
  <1> HIDE DEF x
  <1>4. PcbOk(p) /\ p.state = x.state /\ (Marked(x) => Marked(p))
    BY <1>3, TimersOk DEF SameStream
  <1> HIDE DEF p
  <1>5. p.state = pcb.state /\ (Marked(pcb) => Marked(p))
    BY <1>3, <1>4, MarkStays DEF SameMarks
  <1>6. Conn(p, owed, starved)
    BY <1>2, <1>4, <1>5, MarksConn
  <1> QED BY <1>1, <1>2, <1>6, OutputInv DEF Inv

\* The third duplicate acknowledgement.
LEMMA ThirdDupAckInv ==
    ASSUME Inv, NEW mem \in BOOLEAN, ThirdDupAck(mem)
    PROVE  Inv'
  <1> DEFINE p == tcp_rexmit_fast(pcb)
  <1>1. hung' = hung /\ Output(p, mem)
    BY DEF ThirdDupAck
  <1>2. PcbOk(pcb) /\ Conn(pcb, owed, starved) /\ hung \in BOOLEAN
    BY DEF Inv, Conn
  <1>3. PcbOk(p) /\ SameMarks(pcb, p)
    BY <1>2, RexmitFastOk
  <1> HIDE DEF p
  <1>4. Conn(p, owed, starved)
    BY <1>2, <1>3, MarkStays, MarksConn DEF SameMarks
  <1> QED BY <1>1, <1>2, <1>4, OutputInv DEF Inv

\* A step that receives something and ends in tcp_output.
LEMMA ReceiptInv ==
    ASSUME NEW q, PcbOk(q), Marked(q), q.state \notin {"CLOSED", "SYN_SENT"}, starved \in BOOLEAN,
           NEW mem \in BOOLEAN,
           pcb' = tcp_output(q, mem), owed' = ~Sends(q, mem),
           starved' = (starved \/ (WantsEmptyAck(q) /\ ~mem))
    PROVE  Conn(pcb', owed', starved')
  <1>1. PcbOk(pcb') /\ pcb'.state = q.state /\ (Marked(q) /\ ~Sends(q, mem) => Marked(pcb'))
    BY OutputOk DEF SameLimits
  <1>2. owed' \in BOOLEAN /\ starved' \in BOOLEAN
    OBVIOUS
  <1> QED BY <1>1, <1>2 DEF Conn

\* Data arrive.
LEMMA DataArrivesInv ==
    ASSUME Inv, NEW n \in Nat, NEW mem \in BOOLEAN, DataArrives(n, mem)
    PROVE  Inv'
  <1> DEFINE x == [pcb EXCEPT !.rcv_nxt = @ + n, !.rcv_wnd = @ - n]
             y == tcp_update_rcv_ann_wnd(x)
             q == tcp_ack(y)
  <1>1. /\ pcb.state \in {"ESTABLISHED", "FIN_WAIT_1", "FIN_WAIT_2"} /\ hung' = hung
        /\ pcb.rcv_nxt + n <= Min({pcb.right_edge, MaxRcv})
        /\ pcb' = tcp_output(q, mem)
        /\ owed' = ~Sends(q, mem)
        /\ starved' = (starved \/ (WantsEmptyAck(q) /\ ~mem))
    BY DEF DataArrives
  <1>2. PcbOk(pcb) /\ hung \in BOOLEAN /\ starved \in BOOLEAN /\ pcb \in PcbType
    BY DEF Inv, Conn, PcbOk
  <1>3. /\ pcb.rcv_nxt \in Nat /\ pcb.rcv_wnd \in Int /\ pcb.right_edge \in Int /\ MaxRcv \in Int
        /\ pcb.right_edge <= pcb.rcv_nxt + pcb.rcv_wnd
    BY <1>2, PcbFields, SizeAssumption DEF PcbOk, Promise
  <1>4. pcb.rcv_nxt + n <= pcb.right_edge
    <2> DEFINE m == Min({pcb.right_edge, MaxRcv})
    <2>1. m \in Int /\ m <= pcb.right_edge  BY <1>3, MinOfTwo
    <2> HIDE DEF m
    <2>2. pcb.rcv_nxt + n <= m  BY <1>1 DEF m
    <2> QED BY <1>3, <2>1, <2>2
  <1> DEFINE a == pcb.rcv_nxt + n
             b == pcb.rcv_wnd - n
  <1>5. a \in Nat /\ b \in Int /\ 0 <= b /\ pcb.right_edge <= a + b
    BY <1>3, <1>4
  <1>6. x = [pcb EXCEPT !.rcv_nxt = a, !.rcv_wnd = b]
    OBVIOUS
  <1> HIDE DEF x, a, b
  <1>7. PcbOk(y) /\ SameMarks(pcb, y)
    BY <1>2, <1>5, <1>6, ReceiveOk
  <1> HIDE DEF y
  <1>8. PcbOk(q) /\ q.state = y.state /\ Marked(q)
    <2>1. Calm(y, q) /\ Marked(q)  BY <1>7, AckCalm DEF PcbOk
    <2> HIDE DEF q
    <2> QED BY <1>7, <2>1, CalmOk DEF Calm, SameStream
  <1> HIDE DEF q
  <1>9. q.state \notin {"CLOSED", "SYN_SENT"}
    BY <1>1, <1>7, <1>8 DEF SameMarks
  <1>10. Conn(pcb', owed', starved')
    BY <1>1, <1>2, <1>8, <1>9, ReceiptInv
  <1> QED BY <1>1, <1>2, <1>10 DEF Inv

\* A FIN arrives.
LEMMA FinArrivesInv ==
    ASSUME Inv, NEW mem \in BOOLEAN, FinArrives(mem)
    PROVE  Inv'
  <1> DEFINE s == CASE pcb.state = "ESTABLISHED" -> "CLOSE_WAIT"
                    [] pcb.state = "FIN_WAIT_1" -> "CLOSING"
                    [] OTHER -> "TIME_WAIT"
             x == [pcb EXCEPT !.state = s]
             q == tcp_ack_now(x)
  <1>1. /\ pcb.state \in {"ESTABLISHED", "FIN_WAIT_1", "FIN_WAIT_2"} /\ hung' = hung
        /\ pcb' = tcp_output(q, mem)
        /\ owed' = ~Sends(q, mem)
        /\ starved' = (starved \/ (WantsEmptyAck(q) /\ ~mem))
    BY DEF FinArrives
  <1>2. PcbOk(pcb) /\ hung \in BOOLEAN /\ starved \in BOOLEAN
    BY DEF Inv, Conn
  <1>3. s \in {"CLOSE_WAIT", "CLOSING", "TIME_WAIT"}
    OBVIOUS
  <1> HIDE DEF s
  <1>4. PcbOk(x) /\ x.state = s
    <2>1. s \in States  BY <1>3 DEF States
    <2>2. ~Ended(pcb)  BY <1>1 DEF Ended
    <2> QED BY <1>2, <2>1, <2>2, StateOk
  <1> HIDE DEF x
  <1>5. PcbOk(q) /\ q.state = s /\ Marked(q)
    BY <1>4, AckNowOk
  <1> HIDE DEF q
  <1>6. q.state \notin {"CLOSED", "SYN_SENT"}
    BY <1>3, <1>5
  <1>7. Conn(pcb', owed', starved')
    BY <1>1, <1>2, <1>5, <1>6, ReceiptInv
  <1> QED BY <1>1, <1>2, <1>7 DEF Inv

\* Every step keeps the invariant.
LEMMA NextInv ==
    ASSUME Inv, [Next]_vars
    PROVE  Inv'
  <1>0. pcb.snd_nxt \in Nat
    BY PcbFields DEF Inv, Conn, PcbOk
  <1>1. CASE UNCHANGED vars
    BY <1>1 DEF vars, Inv, Conn
  <1>2. ASSUME NEW mem \in BOOLEAN, tcp_connect(mem) PROVE Inv'
    BY <1>2, ConnectInv
  <1>3. ASSUME NEW mem \in BOOLEAN, NEW n \in 1..MaxBytes, bsys_tcp_sendv(n, mem) PROVE Inv'
    <2>1. n \in Nat  BY SizeAssumption
    <2> QED BY <1>3, <2>1, SendvInv
  <1>4. ASSUME NEW mem \in BOOLEAN, NEW n \in 1..TcpWnd, tcp_recved(n, mem) PROVE Inv'
    <2>1. n \in Nat  BY SizeAssumption
    <2> QED BY <1>4, <2>1, RecvedInv
  <1>5. ASSUME NEW mem \in BOOLEAN, tcp_close(mem) PROVE Inv'
    BY <1>5, CloseInv
  <1>6. ASSUME NEW mem \in BOOLEAN, NEW rx \in BOOLEAN, NEW tx \in BOOLEAN, tcp_shutdown(rx, tx, mem)
        PROVE  Inv'
    BY <1>6, ShutdownInv
  <1>7. ASSUME NEW mem \in BOOLEAN, NEW due \in SUBSET {"delack", "rexmit", "persist"},
               tcp_unified_timer_handler(due, mem)
        PROVE  Inv'
    BY <1>7, TimerInv
  <1>8. ASSUME NEW mem \in BOOLEAN, NEW w \in PeerWnds, SynAcked(w, mem) PROVE Inv'
    BY <1>8, SynAckedInv
  <1>9. ASSUME NEW mem \in BOOLEAN, NEW a \in 1..pcb.snd_nxt, NEW w \in PeerWnds, AckArrives(a, w, mem)
        PROVE  Inv'
    <2>1. a \in Nat  BY <1>0
    <2> QED BY <1>9, <2>1, AckArrivesInv
  <1>10. ASSUME NEW mem \in BOOLEAN, NEW w \in PeerWnds, WindowArrives(w, mem) PROVE Inv'
    BY <1>10, WindowArrivesInv
  <1>11. ASSUME NEW mem \in BOOLEAN, ThirdDupAck(mem) PROVE Inv'
    BY <1>11, ThirdDupAckInv
  <1>12. ASSUME NEW mem \in BOOLEAN, NEW n \in 1..MaxRcv, DataArrives(n, mem) PROVE Inv'
    <2>1. n \in Nat  BY SizeAssumption
    <2> QED BY <1>12, <2>1, DataArrivesInv
  <1>13. ASSUME NEW mem \in BOOLEAN, FinArrives(mem) PROVE Inv'
    BY <1>13, FinArrivesInv
  <1> HIDE DEF Inv
  <1> QED BY <1>1, <1>2, <1>3, <1>4, <1>5, <1>6, <1>7, <1>8, <1>9, <1>10, <1>11, <1>12, <1>13, Zenon
          DEF Next

\* The invariant of the connection: the pcb is well formed, its counters and
\* its announced window are right, and the marks for an acknowledgement stay.
THEOREM ConnInvariant == Spec => []Inv
  <1>1. Init => Inv  BY InitInv
  <1>2. Inv /\ [Next]_vars => Inv'  BY NextInv
  <1> QED BY <1>1, <1>2, PTL DEF Spec

\* The type invariant.
ConnTypes == pcb \in PcbType /\ hung \in BOOLEAN /\ owed \in BOOLEAN /\ starved \in BOOLEAN

\* Every field of the pcb keeps its type, whatever calls, segments and expiries
\* of the timer it has been through.
THEOREM TcpOutTypes == Spec => []ConnTypes
  <1>1. Inv => ConnTypes  BY DEF Inv, Conn, PcbOk, ConnTypes
  <1> QED BY <1>1, ConnInvariant, PTL

\* snd_buf and snd_queuelen count what the queues hold, through writing,
\* sending, retransmitting, acknowledging and closing, for every size of the
\* buffer, the queue, the segments and the peer's windows.
THEOREM AccountsExact == Spec => []AccountsAgree
  <1>1. Inv => AccountsAgree
    <2> SUFFICES ASSUME Inv, Alive
                 PROVE  /\ pcb.snd_buf + pcb.snd_lbb - pcb.lastack = SndBuf
                        /\ pcb.snd_queuelen = PbufCount(Queued)
                        /\ pcb.snd_queuelen <= SndQueueLen
      BY DEF AccountsAgree
    <2>1. Accounts(pcb)
      BY DEF Inv, Conn, PcbOk, Alive, Ended
    <2>2. pcb.unacked \in Queue /\ pcb.unsent \in Queue
      BY PcbFields DEF Inv, Conn, PcbOk
    <2>3. PbufCount(Queued) = PbufCount(pcb.unacked) + PbufCount(pcb.unsent)
      <3> HIDE DEF SegType
      <3> QED BY <2>2, CountBoth DEF Queue, Queued
    <2> QED BY <2>1, <2>3 DEF Accounts
  <1> QED BY <1>1, ConnInvariant, PTL

\* Received data that nothing has acknowledged stays marked for an
\* acknowledgement unless memory ran out for it.
THEOREM AcksNotForgotten == Spec => []AckNotForgotten
  <1>1. Inv => AckNotForgotten
    BY DEF Inv, Conn, AckNotForgotten, Alive, Ended, Marked
  <1> QED BY <1>1, ConnInvariant, PTL

\* The window announced to the peer is covered by receive buffer.
THEOREM PromisesKept == Spec => []PromiseKept
  <1>1. Inv => PromiseKept
    BY DEF Inv, Conn, PcbOk, Promise, PromiseKept
  <1> QED BY <1>1, ConnInvariant, PTL

-----------------------------------------------------------------------------
(* The order of the stream: what Tiles says and what keeps it.             *)

\* Segments that follow each other are in order, within what they hold.
LEMMA TilesOrder ==
    ASSUME NEW q \in Queue, NEW b \in Nat, NEW e \in Nat, Tiles(q, b, e)
    PROVE  /\ b <= e
           /\ \A i \in 1..Len(q) : b <= q[i].seq /\ q[i].seq <= End(q[i]) /\ End(q[i]) <= e
           /\ \A i, j \in 1..Len(q) : i < j => End(q[i]) <= q[j].seq
  <1> DEFINE n == Len(q)
             S == {d \in Nat : \A i \in 1..n : i + d + 1 <= n => End(q[i]) <= q[i + d + 1].seq}
  <1>0. n \in Nat  BY DEF Queue
  <1>1. ASSUME NEW i \in 1..n PROVE q[i].seq \in Nat /\ End(q[i]) \in Nat /\ q[i].seq <= End(q[i])
    <2>1. q[i] \in SegType  BY DEF Queue
    <2> DEFINE s == q[i]
    <2> HIDE DEF s, SegType
    <2>2. s.seq \in Nat /\ End(s) \in Nat /\ End(s) = s.seq + TCP_TCPLEN(s) /\ TCP_TCPLEN(s) \in Nat
      BY <2>1, EndType DEF s
    <2>3. s.seq <= End(s)  BY <2>2
    <2> QED BY <2>2, <2>3 DEF s
  <1>2. ASSUME NEW i \in 1..n, i + 1 <= n PROVE q[i + 1].seq = End(q[i])
    <2>1. i \in 1..n - 1  BY <1>0, <1>2
    <2> QED BY <2>1 DEF Tiles
  <1> HIDE DEF n
  <1>3. 0 \in S
    <2>1. ASSUME NEW i \in 1..n, i + 0 + 1 <= n PROVE End(q[i]) <= q[i + 0 + 1].seq
      <3>1. i + 0 + 1 = i + 1 /\ i + 1 <= n  BY <1>0, <2>1
      <3> QED BY <1>1, <1>2, <3>1
    <2> QED BY <2>1
  <1>4. ASSUME NEW d \in Nat, d \in S PROVE d + 1 \in S
    <2>1. ASSUME NEW i \in 1..n, i + (d + 1) + 1 <= n PROVE End(q[i]) <= q[i + (d + 1) + 1].seq
      <3> DEFINE k == i + d + 1
      <3>1. k \in 1..n /\ k + 1 <= n /\ i + (d + 1) + 1 = k + 1 /\ k + 1 \in 1..n  BY <1>0, <2>1
      <3>2. End(q[i]) <= q[k].seq  BY <1>0, <1>4, <3>1
      <3> HIDE DEF k
      <3>3. q[k + 1].seq = End(q[k])  BY <1>2, <3>1
      <3>4. q[k].seq \in Nat /\ End(q[k]) \in Nat /\ End(q[i]) \in Nat /\ q[k].seq <= End(q[k])
        BY <1>1, <3>1
      <3>5. End(q[i]) <= q[k + 1].seq  BY <3>2, <3>3, <3>4
      <3> QED BY <3>1, <3>5
    <2> QED BY <2>1
  <1>5. \A d \in Nat : d \in S
    <2> HIDE DEF S
    <2> QED BY <1>3, <1>4, SetInduction
  <1>6. ASSUME NEW i \in 1..n, NEW j \in 1..n, i < j PROVE End(q[i]) <= q[j].seq
    <2> DEFINE d == j - i - 1
    <2>1. d \in Nat /\ i + d + 1 = j  BY <1>0, <1>6
    <2> HIDE DEF d
    <2>2. i + d + 1 <= n  BY <1>0, <2>1
    <2>3. End(q[i]) <= q[i + d + 1].seq  BY <1>5, <2>1, <2>2
    <2> QED BY <2>1, <2>3
  <1>7. n > 0 => q[1].seq = b /\ End(q[n]) = e
    BY DEF Tiles, n
  <1>8. ASSUME NEW i \in 1..n PROVE b <= q[i].seq /\ End(q[i]) <= e
    <2>1. 1 \in 1..n /\ n \in 1..n /\ n > 0  BY <1>0
    <2>2. b <= q[i].seq
      <3>1. CASE i = 1  BY <1>7, <2>1, <3>1
      <3>2. CASE i > 1
        <4>1. End(q[1]) <= q[i].seq  BY <1>6, <2>1, <3>2
        <4> QED BY <1>1, <1>7, <2>1, <4>1
      <3> QED BY <1>0, <3>1, <3>2
    <2>3. End(q[i]) <= e
      <3>1. CASE i = n  BY <1>7, <2>1, <3>1
      <3>2. CASE i < n
        <4>1. End(q[i]) <= q[n].seq  BY <1>6, <2>1, <3>2
        <4> QED BY <1>1, <1>7, <2>1, <4>1
      <3> QED BY <1>0, <3>1, <3>2
    <2> QED BY <2>2, <2>3
  <1>9. b <= e
    <2>1. CASE n = 0
      <3>1. b = e  BY <2>1 DEF Tiles, n
      <3> QED BY <3>1
    <2>2. CASE n > 0
      <3>1. 1 \in 1..n  BY <1>0, <2>2
      <3>2. b <= q[1].seq /\ q[1].seq <= End(q[1]) /\ End(q[1]) <= e
            /\ q[1].seq \in Nat /\ End(q[1]) \in Nat
        BY <1>1, <1>8, <3>1
      <3> QED BY <3>2
    <2> QED BY <1>0, <2>1, <2>2
  <1> QED BY <1>1, <1>6, <1>8, <1>9 DEF n

\* No segments.
LEMMA TilesNone ==
    ASSUME NEW b
    PROVE  Tiles(<<>>, b, b)
  BY DEF Tiles

\* Two queues in a row.
LEMMA TilesJoin ==
    ASSUME NEW q \in Queue, NEW r \in Queue, NEW b, NEW m, NEW e, Tiles(q, b, m), Tiles(r, m, e)
    PROVE  Tiles(q \o r, b, e)
  <1> DEFINE t == q \o r
             k == Len(q)
             n == Len(r)
  <1>1. /\ t \in Queue /\ Len(t) = k + n /\ k \in Nat /\ n \in Nat
        /\ \A i \in 1..k : t[i] = q[i]
        /\ \A i \in 1..n : t[k + i] = r[i]
    BY Joined DEF Queue
  <1>2. /\ \A i \in 1..k : q[i].data = Bytes(q[i].seq, q[i].seq + Len(q[i].data))
        /\ \A i \in 1..k - 1 : q[i + 1].seq = End(q[i])
        /\ k = 0 => b = m
        /\ k > 0 => q[1].seq = b /\ End(q[k]) = m
    BY DEF Tiles
  <1>3. /\ \A i \in 1..n : r[i].data = Bytes(r[i].seq, r[i].seq + Len(r[i].data))
        /\ \A i \in 1..n - 1 : r[i + 1].seq = End(r[i])
        /\ n = 0 => m = e
        /\ n > 0 => r[1].seq = m /\ End(r[n]) = e
    BY DEF Tiles
  <1> HIDE DEF t, k, n
  <1>4. ASSUME NEW i \in 1..k + n
        PROVE  t[i].data = Bytes(t[i].seq, t[i].seq + Len(t[i].data))
    <2>1. CASE i <= k
      <3>1. i \in 1..k  BY <1>1, <2>1
      <3> QED BY <1>1, <1>2, <3>1
    <2>2. CASE i > k
      <3> DEFINE j == i - k
      <3>1. j \in 1..n /\ k + j = i  BY <1>1, <2>2
      <3> HIDE DEF j
      <3>2. t[k + j] = r[j]  BY <1>1, <3>1
      <3>3. t[i] = r[j]  BY <3>1, <3>2
      <3> QED BY <1>3, <3>1, <3>3
    <2> QED BY <1>1, <2>1, <2>2
  <1>5. ASSUME NEW i \in 1..k + n - 1
        PROVE  t[i + 1].seq = End(t[i])
    <2>1. CASE i < k
      <3>1. i \in 1..k /\ i + 1 \in 1..k /\ i \in 1..k - 1  BY <1>1, <2>1
      <3> QED BY <1>1, <1>2, <3>1
    <2>2. CASE i = k
      <3>1. i \in 1..k /\ 1 \in 1..n /\ k > 0 /\ n > 0  BY <1>1, <2>2
      <3>2. t[k + 1] = r[1] /\ t[k] = q[k]  BY <1>1, <2>2, <3>1
      <3> QED BY <1>2, <1>3, <2>2, <3>1, <3>2
    <2>3. CASE i > k
      <3> DEFINE j == i - k
      <3>1. j \in 1..n - 1 /\ j \in 1..n /\ j + 1 \in 1..n /\ k + j = i /\ k + (j + 1) = i + 1
        BY <1>1, <2>3
      <3> HIDE DEF j
      <3>2. t[k + j] = r[j] /\ t[k + (j + 1)] = r[j + 1]  BY <1>1, <3>1
      <3>3. t[i] = r[j] /\ t[i + 1] = r[j + 1]  BY <3>1, <3>2
      <3> QED BY <1>3, <3>1, <3>3
    <2> QED BY <1>1, <2>1, <2>2, <2>3
  <1>6. k + n = 0 => b = e
    BY <1>1, <1>2, <1>3
  <1>7. k + n > 0 => t[1].seq = b /\ End(t[k + n]) = e
    <2> SUFFICES ASSUME k + n > 0 PROVE t[1].seq = b /\ End(t[k + n]) = e
      OBVIOUS
    <2>1. t[1].seq = b
      <3>1. CASE k > 0
        <4>1. 1 \in 1..k  BY <1>1, <3>1
        <4> QED BY <1>1, <1>2, <3>1, <4>1
      <3>2. CASE k = 0
        <4>1. 1 \in 1..n /\ k + 1 = 1 /\ n > 0  BY <1>1, <3>2
        <4>2. t[k + 1] = r[1]  BY <1>1, <4>1
        <4>3. t[1] = r[1]  BY <4>1, <4>2
        <4> QED BY <1>2, <1>3, <3>2, <4>1, <4>3
      <3> QED BY <1>1, <3>1, <3>2
    <2>2. End(t[k + n]) = e
      <3>1. CASE n > 0
        <4>1. n \in 1..n  BY <1>1, <3>1
        <4>2. t[k + n] = r[n]  BY <1>1, <4>1
        <4> QED BY <1>3, <3>1, <4>2
      <3>2. CASE n = 0
        <4>1. k \in 1..k /\ k + n = k /\ k > 0  BY <1>1, <3>2
        <4>2. t[k + n] = q[k]  BY <1>1, <4>1
        <4> QED BY <1>2, <1>3, <3>2, <4>1, <4>2
      <3> QED BY <1>1, <3>1, <3>2
    <2> QED BY <2>1, <2>2
  <1>8. Tiles(t, b, e)
    BY <1>1, <1>4, <1>5, <1>6, <1>7 DEF Tiles
  <1> QED BY <1>8 DEF t

\* The first segment and the rest.
LEMMA TilesTail ==
    ASSUME NEW q \in Queue, NEW b, NEW e, Tiles(q, b, e), q # <<>>
    PROVE  /\ Tiles(<<Head(q)>>, b, End(Head(q))) /\ Tiles(Tail(q), End(Head(q)), e)
           /\ Head(q).seq = b
  <1> DEFINE s == Head(q)
             t == Tail(q)
             n == Len(q)
  <1>1. /\ s \in SegType /\ t \in Queue /\ s = q[1] /\ n > 0 /\ Len(t) = n - 1
        /\ \A i \in 1..n - 1 : t[i] = q[i + 1]
    BY HeadAndTail
  <1>2. n \in Nat  BY DEF Queue
  <1>3. /\ \A i \in 1..n : q[i].data = Bytes(q[i].seq, q[i].seq + Len(q[i].data))
        /\ \A i \in 1..n - 1 : q[i + 1].seq = End(q[i])
        /\ q[1].seq = b /\ End(q[n]) = e
    BY <1>1 DEF Tiles
  <1> HIDE DEF s, t, n, SegType
  <1>4. Tiles(<<s>>, b, End(s))
    <2> DEFINE r == <<s>>
    <2>1. r \in Queue /\ Len(r) = 1 /\ r[1] = s  BY <1>1, Single DEF Queue
    <2> HIDE DEF r
    <2>2. 1 \in 1..n  BY <1>1, <1>2
    <2>3. Tiles(r, b, End(s))
      BY <1>1, <1>3, <2>1, <2>2 DEF Tiles
    <2> QED BY <2>3 DEF r
  <1>5. Tiles(t, End(s), e)
    <2>1. ASSUME NEW i \in 1..n - 1 PROVE t[i].data = Bytes(t[i].seq, t[i].seq + Len(t[i].data))
      <3>1. i + 1 \in 1..n  BY <1>2
      <3> QED BY <1>1, <1>3, <3>1
    <2>2. ASSUME NEW i \in 1..(n - 1) - 1 PROVE t[i + 1].seq = End(t[i])
      <3>1. i \in 1..n - 1 /\ i + 1 \in 1..n - 1 /\ i + 1 \in 1..n  BY <1>2
      <3>2. t[i] = q[i + 1] /\ t[i + 1] = q[(i + 1) + 1]  BY <1>1, <3>1
      <3>3. q[(i + 1) + 1].seq = End(q[i + 1])  BY <1>3, <3>1
      <3> QED BY <3>2, <3>3
    <2>3. n - 1 = 0 => End(s) = e
      <3>1. n - 1 = 0 => n = 1  BY <1>2
      <3> QED BY <1>1, <1>3, <3>1
    <2>4. n - 1 > 0 => t[1].seq = End(s) /\ End(t[n - 1]) = e
      <3> SUFFICES ASSUME n - 1 > 0 PROVE t[1].seq = End(s) /\ End(t[n - 1]) = e
        OBVIOUS
      <3>1. 1 \in 1..n - 1 /\ n - 1 \in 1..n - 1 /\ (n - 1) + 1 = n  BY <1>2
      <3>2. t[1] = q[1 + 1] /\ t[n - 1] = q[(n - 1) + 1]  BY <1>1, <3>1
      <3>3. q[1 + 1].seq = End(q[1])  BY <1>3, <3>1
      <3>4. q[(n - 1) + 1] = q[n]  BY <3>1
      <3> QED BY <1>1, <1>3, <3>2, <3>3, <3>4
    <2> QED BY <1>1, <2>1, <2>2, <2>3, <2>4 DEF Tiles
  <1>6. s.seq = b  BY <1>1, <1>3
  <1> QED BY <1>4, <1>5, <1>6 DEF s, t

\* The last segment is changed, but begins where it did.
LEMMA TilesLast ==
    ASSUME NEW v \in Queue, NEW u \in Queue, NEW b, NEW e, NEW f, Tiles(v, b, e),
           Len(u) = Len(v), Len(v) > 0, \A i \in 1..Len(v) - 1 : u[i] = v[i],
           u[Len(v)].seq = v[Len(v)].seq, End(u[Len(v)]) = f,
           u[Len(v)].data = Bytes(u[Len(v)].seq, u[Len(v)].seq + Len(u[Len(v)].data))
    PROVE  Tiles(u, b, f)
  <1> DEFINE n == Len(v)
  <1>1. n \in Nat /\ n > 0 /\ Len(u) = n  BY DEF Queue
  <1>2. /\ \A i \in 1..n : v[i].data = Bytes(v[i].seq, v[i].seq + Len(v[i].data))
        /\ \A i \in 1..n - 1 : v[i + 1].seq = End(v[i])
        /\ v[1].seq = b
    BY DEF Tiles
  <1>3. \A i \in 1..n : i \in 1..n - 1 \/ i = n  BY <1>1
  <1> HIDE DEF n
  <1>4. \A i \in 1..n : u[i].seq = v[i].seq /\ u[i].data = Bytes(u[i].seq, u[i].seq + Len(u[i].data))
    <2>1. ASSUME NEW i \in 1..n - 1
          PROVE  u[i].seq = v[i].seq /\ u[i].data = Bytes(u[i].seq, u[i].seq + Len(u[i].data))
      <3>1. u[i] = v[i] /\ i \in 1..n  BY <1>1 DEF n
      <3> QED BY <1>2, <3>1
    <2>2. u[n].seq = v[n].seq /\ u[n].data = Bytes(u[n].seq, u[n].seq + Len(u[n].data))
      BY DEF n
    <2> QED BY <1>3, <2>1, <2>2, Zenon
  <1>5. ASSUME NEW i \in 1..n - 1 PROVE u[i + 1].seq = End(u[i])
    <2>1. i + 1 \in 1..n /\ u[i] = v[i]  BY <1>1 DEF n
    <2> QED BY <1>2, <1>4, <2>1
  <1>6. u[1].seq = b
    <2>1. 1 \in 1..n  BY <1>1
    <2> QED BY <1>2, <1>4, <2>1
  <1>7. End(u[n]) = f  BY DEF n
  <1> QED BY <1>1, <1>4, <1>5, <1>6, <1>7 DEF Tiles

\* What an acknowledgement leaves.
LEMMA TilesLeft ==
    ASSUME NEW q \in Queue, NEW b \in Nat, NEW e \in Nat, Tiles(q, b, e), NEW a \in Nat
    PROVE  LET l == Left(q, a)
           IN  \E c \in Nat : /\ Tiles(l, c, e)
                              /\ b > a => c = b
                              /\ b <= a /\ e > a => c <= a
                              /\ b <= a /\ e <= a => l = <<>> /\ c = e
  <1> DEFINE l == Left(q, a)
             i == FirstLeft(q, a)
             n == Len(q)
  <1>1. /\ i \in 1..n + 1 /\ \A j \in 1..i - 1 : End(q[j]) <= a
        /\ i <= n => End(q[i]) > a
        /\ l \in Queue /\ Len(l) = n - i + 1
        /\ \A j \in 1..n - i + 1 : l[j] = q[i - 1 + j]
    <2> HIDE DEF SegType
    <2> QED BY LeftSplits DEF Queue
  <1>2. n \in Nat /\ i \in Nat  BY <1>1 DEF Queue
  <1>3. /\ \A j \in 1..n : q[j].data = Bytes(q[j].seq, q[j].seq + Len(q[j].data))
        /\ \A j \in 1..n - 1 : q[j + 1].seq = End(q[j])
        /\ n = 0 => b = e
        /\ n > 0 => q[1].seq = b /\ End(q[n]) = e
    BY DEF Tiles
  <1>4. /\ \A j \in 1..n : b <= q[j].seq /\ q[j].seq <= End(q[j]) /\ End(q[j]) <= e
    BY TilesOrder
  <1>5. \A j \in 1..n : q[j].seq \in Nat /\ End(q[j]) \in Nat
    <2> SUFFICES ASSUME NEW j \in 1..n PROVE q[j].seq \in Nat /\ End(q[j]) \in Nat
      OBVIOUS
    <2>1. q[j] \in SegType  BY DEF Queue
    <2> HIDE DEF SegType
    <2> QED BY <2>1, EndType
  <1> HIDE DEF l, i, n
  <1>6. CASE i = n + 1
    <2>1. Len(l) = 0 /\ l = <<>>
      <3>1. Len(l) = 0  BY <1>1, <1>2, <1>6
      <3> HIDE DEF SegType
      <3> QED BY <1>1, <3>1 DEF Queue
    <2>2. Tiles(l, e, e)  BY <2>1, TilesNone
    <2>3. CASE n = 0
      <3>1. b = e  BY <1>3, <2>3
      <3> QED BY <2>1, <2>2, <3>1 DEF l
    <2>4. CASE n > 0
      <3>1. n \in 1..n /\ n \in 1..i - 1 /\ 1 \in 1..n  BY <1>2, <1>6, <2>4
      <3>2. e <= a  BY <1>1, <1>3, <2>4, <3>1
      <3>3. b <= e  BY TilesOrder
      <3>4. ~(b > a)  BY <3>2, <3>3
      <3> QED BY <2>1, <2>2, <3>2, <3>4 DEF l
    <2> QED BY <1>2, <2>3, <2>4
  <1>7. CASE i <= n
    <2> DEFINE c == q[i].seq
    <2>1. i \in 1..n /\ n > 0 /\ End(q[i]) > a /\ c \in Nat
      BY <1>1, <1>2, <1>5, <1>7
    <2> HIDE DEF c
    <2>2. Tiles(l, c, e)
      <3>1. ASSUME NEW j \in 1..n - i + 1
            PROVE  i - 1 + j \in 1..n /\ l[j] = q[i - 1 + j]
        BY <1>1, <1>2
      <3>2. ASSUME NEW j \in 1..n - i + 1 PROVE l[j].data = Bytes(l[j].seq, l[j].seq + Len(l[j].data))
        BY <1>3, <3>1
      <3>3. ASSUME NEW j \in 1..(n - i + 1) - 1 PROVE l[j + 1].seq = End(l[j])
        <4> DEFINE k == i - 1 + j
        <4>1. j \in 1..n - i + 1 /\ j + 1 \in 1..n - i + 1 /\ k \in 1..n - 1 /\ i - 1 + (j + 1) = k + 1
          BY <1>2, <2>1
        <4>2. l[j] = q[k] /\ l[j + 1] = q[i - 1 + (j + 1)]  BY <3>1, <4>1
        <4> HIDE DEF k
        <4>3. l[j + 1] = q[k + 1]  BY <4>1, <4>2
        <4>4. q[k + 1].seq = End(q[k])  BY <1>3, <4>1
        <4> QED BY <4>2, <4>3, <4>4
      <3>4. l[1].seq = c
        <4>1. 1 \in 1..n - i + 1 /\ i - 1 + 1 = i  BY <1>2, <2>1
        <4>2. l[1] = q[i - 1 + 1]  BY <3>1, <4>1
        <4>3. l[1] = q[i]  BY <4>1, <4>2
        <4> QED BY <4>3 DEF c
      <3>5. End(l[n - i + 1]) = e
        <4>1. n - i + 1 \in 1..n - i + 1 /\ i - 1 + (n - i + 1) = n  BY <1>2, <2>1
        <4>2. l[n - i + 1] = q[i - 1 + (n - i + 1)]  BY <3>1, <4>1
        <4>3. l[n - i + 1] = q[n]  BY <4>1, <4>2
        <4> QED BY <1>3, <2>1, <4>3
      <3>6. n - i + 1 > 0  BY <1>2, <2>1
      <3> QED BY <1>1, <3>2, <3>3, <3>4, <3>5, <3>6 DEF Tiles
    <2>3. e > a
      <3>1. End(q[i]) <= e /\ End(q[i]) \in Nat  BY <1>4, <1>5, <2>1
      <3> QED BY <2>1, <3>1
    <2>4. b > a => c = b
      <3> SUFFICES ASSUME b > a PROVE c = b
        OBVIOUS
      <3>1. CASE i = 1  BY <1>3, <2>1, <3>1 DEF c
      <3>2. CASE i > 1
        <4>1. 1 \in 1..i - 1 /\ 1 \in 1..n  BY <1>2, <2>1, <3>2
        <4>2. End(q[1]) <= a /\ b <= q[1].seq /\ q[1].seq <= End(q[1])  BY <1>1, <1>4, <4>1
        <4>3. q[1].seq \in Nat /\ End(q[1]) \in Nat  BY <1>5, <4>1
        <4> QED BY <4>2, <4>3
      <3> QED BY <1>2, <2>1, <3>1, <3>2
    <2>5. b <= a => c <= a
      <3> SUFFICES ASSUME b <= a PROVE c <= a
        OBVIOUS
      <3>1. CASE i = 1  BY <1>3, <2>1, <3>1 DEF c
      <3>2. CASE i > 1
        <4> DEFINE k == i - 1
        <4>1. k \in 1..i - 1 /\ k \in 1..n - 1 /\ k + 1 = i  BY <1>2, <2>1, <3>2
        <4> HIDE DEF k
        <4>2. End(q[k]) <= a /\ q[k + 1].seq = End(q[k])  BY <1>1, <1>3, <4>1
        <4>3. q[i].seq = End(q[k])  BY <4>1, <4>2
        <4> QED BY <4>2, <4>3 DEF c
      <3> QED BY <1>2, <2>1, <3>1, <3>2
    <2> QED BY <2>1, <2>2, <2>3, <2>4, <2>5 DEF l
  <1> QED BY <1>1, <1>2, <1>6, <1>7

-----------------------------------------------------------------------------
(* The stream on one pcb.                                                  *)

\* Every segment of q is one of S.
All(q, S) == \A i \in 1..Len(q) : q[i] \in S
Uncontrolled == {s \in SegType : s.ctl = {}}
Below(l) == {s \in SegType : s.seq + Len(s.data) <= l}

\* From b to e, which is one more than snd_lbb when a FIN rides on the last
\* segment.  Nothing is sent before the SYN is answered, as no window is known.
Reach(p, b, e) ==
    /\ b <= p.lastack /\ p.lastack <= e
    /\ e = p.snd_lbb \/ e = p.snd_lbb + 1
    /\ p.state = "CLOSED" => e = 0 /\ p.snd_nxt <= 1
    /\ p.state # "CLOSED" => p.snd_nxt <= e
    /\ p.state = "SYN_SENT" => e = 1
    /\ p.state \in {"CLOSED", "SYN_SENT"} => p.snd_wnd_max = 0 /\ e = p.snd_lbb
    /\ p.state \in {"ESTABLISHED", "CLOSE_WAIT"} => e = p.snd_lbb

Plain(p) ==
    p.state \in {"ESTABLISHED", "CLOSE_WAIT"} =>
        All(p.unacked, Uncontrolled) /\ All(p.unsent, Uncontrolled)

InWindow(p) == All(p.unacked, Below(p.lastack + p.snd_wnd))

\* The unacknowledged segments and then the unsent ones are one row.
Span(p, b, m, e) ==
    /\ Tiles(p.unacked, b, m) /\ Tiles(p.unsent, m, e)
    /\ Reach(p, b, e)

StreamOk(p) ==
    /\ Plain(p) /\ InWindow(p)
    /\ \E b, m, e \in Nat : Span(p, b, m, e)

\* What all segments of two queues are, all of the queue of both are.
LEMMA AllJoin ==
    ASSUME NEW q \in Queue, NEW r \in Queue, NEW S, All(q, S), All(r, S)
    PROVE  All(q \o r, S)
  <1> DEFINE t == q \o r
             k == Len(q)
             n == Len(r)
  <1>1. /\ Len(t) = k + n /\ k \in Nat /\ n \in Nat
        /\ \A i \in 1..k : t[i] = q[i]
        /\ \A i \in 1..n : t[k + i] = r[i]
    BY Joined DEF Queue
  <1>2. (\A i \in 1..k : q[i] \in S) /\ (\A i \in 1..n : r[i] \in S)
    BY DEF All
  <1> HIDE DEF t, k, n
  <1>3. ASSUME NEW i \in 1..Len(t) PROVE t[i] \in S
    <2>1. CASE i <= k
      <3>1. i \in 1..k  BY <1>1, <2>1
      <3> QED BY <1>1, <1>2, <3>1
    <2>2. CASE i > k
      <3> DEFINE j == i - k
      <3>1. j \in 1..n /\ k + j = i  BY <1>1, <2>2
      <3> HIDE DEF j
      <3>2. t[k + j] = r[j]  BY <1>1, <3>1
      <3> QED BY <1>2, <3>1, <3>2
    <2> QED BY <1>1, <2>1, <2>2
  <1> QED BY <1>3 DEF All, t

\* The same of the head and the tail.
LEMMA AllTail ==
    ASSUME NEW q \in Queue, q # <<>>, NEW S, All(q, S)
    PROVE  Head(q) \in S /\ All(Tail(q), S)
  <1>1. /\ Head(q) = q[1] /\ Len(q) > 0 /\ Len(Tail(q)) = Len(q) - 1 /\ Len(q) \in Nat
        /\ \A i \in 1..Len(q) - 1 : Tail(q)[i] = q[i + 1]
    BY HeadAndTail DEF Queue
  <1>2. \A i \in 1..Len(q) - 1 : i + 1 \in 1..Len(q)
    BY <1>1
  <1>3. 1 \in 1..Len(q)  BY <1>1
  <1> QED BY <1>1, <1>2, <1>3 DEF All

\* A queue of one segment and one of none.
LEMMA AllFew ==
    ASSUME NEW S
    PROVE  All(<<>>, S) /\ \A s \in SegType : s \in S => All(<<s>>, S)
  <1>1. ASSUME NEW s \in SegType PROVE Len(<<s>>) = 1 /\ <<s>>[1] = s /\ <<s>> \in Queue
    <2> HIDE DEF SegType
    <2> QED BY Single DEF Queue
  <1> HIDE DEF SegType
  <1> QED BY <1>1 DEF All

\* The segments that an acknowledgement leaves were there before.
LEMMA AllLeft ==
    ASSUME NEW q \in Queue, NEW a \in Nat, NEW S, All(q, S)
    PROVE  All(Left(q, a), S)
  <1> DEFINE n == Len(q)
  <1>1. PICK i \in 1..n + 1 : /\ Len(Left(q, a)) = n - i + 1
                              /\ \A j \in 1..n - i + 1 : Left(q, a)[j] = q[i - 1 + j]
    BY LeftSplits, Zenon DEF Queue
  <1>2. n \in Nat  BY DEF Queue
  <1> HIDE DEF n
  <1>3. \A j \in 1..n - i + 1 : i - 1 + j \in 1..n
    BY <1>2
  <1> QED BY <1>1, <1>3 DEF All, n

\* A step that leaves the stream alone.
LEMMA StreamSame ==
    ASSUME NEW p, NEW q, SameStream(p, q), StreamOk(p)
    PROVE  StreamOk(q)
  <1>1. PICK b \in Nat : \E m, e \in Nat : Span(p, b, m, e)  BY DEF StreamOk
  <1>2. PICK m \in Nat, e \in Nat : Span(p, b, m, e)  BY <1>1
  <1>3. Span(q, b, m, e)
    BY <1>2 DEF SameStream, Span, Reach
  <1>4. Plain(q) /\ InWindow(q)
    BY DEF StreamOk, SameStream, Plain, InWindow
  <1> QED BY <1>3, <1>4 DEF StreamOk

\* A step that moves the queues and snd_nxt only.
LEMMA StreamMoves ==
    ASSUME NEW p, NEW q, SameLimits(p, q), NEW b \in Nat, NEW m \in Nat, NEW e \in Nat,
           Reach(p, b, e), p.state = "CLOSED" => q.snd_nxt = p.snd_nxt, 
           q.snd_nxt = p.snd_nxt \/ q.snd_nxt <= e,
           Tiles(q.unacked, b, m), Tiles(q.unsent, m, e), Plain(q), InWindow(q)
    PROVE  StreamOk(q)
  <1>1. Reach(q, b, e)
    BY DEF SameLimits, Reach
  <1> QED BY <1>1 DEF StreamOk, Span

\* Where segments of a row begin and end: each takes room.
LEMMA RowIs ==
    ASSUME NEW q \in Queue, NEW b \in Nat, NEW e \in Nat, Tiles(q, b, e), NEW w, SegsOk(q, w),
           NEW i \in 1..Len(q)
    PROVE  /\ q[i].seq \in Nat /\ End(q[i]) \in Nat
           /\ b <= q[i].seq /\ q[i].seq < End(q[i]) /\ End(q[i]) <= e
  <1>1. q[i] \in SegType  BY DEF Queue
  <1>2. TCP_TCPLEN(q[i]) > 0  BY DEF SegsOk
  <1>3. b <= q[i].seq /\ End(q[i]) <= e  BY TilesOrder
  <1> DEFINE s == q[i]
  <1> HIDE DEF s, SegType
  <1>4. s.seq \in Nat /\ End(s) \in Nat /\ End(s) = s.seq + TCP_TCPLEN(s) /\ TCP_TCPLEN(s) \in Nat
    BY <1>1, EndType DEF s
  <1> QED BY <1>2, <1>3, <1>4 DEF s

\* Sending the head of the unsent queue moves it to the end of the other.
LEMMA SendHeadStream ==
    ASSUME NEW p, PcbOk(p), ~Ended(p), CanSend(p), StreamOk(p)
    PROVE  StreamOk(SendHead(p))
  <1> DEFINE U == p.unacked
             V == p.unsent
             s == Head(V)
             r == SendHead(p)
  <1>1. p \in PcbType /\ V # <<>> /\ Accounts(p)
    BY DEF PcbOk, CanSend
  <1>2. /\ U \in Queue /\ V \in Queue /\ p.snd_nxt \in Nat /\ p.lastack \in Nat
        /\ p.snd_wnd \in Nat /\ p.cwnd \in Nat
    BY <1>1, PcbFields
  <1>3. /\ SameLimits(p, r) /\ r.unsent = Tail(V) /\ r.unacked = Insert(U, s)
        /\ r.snd_nxt = p.snd_nxt \/ r.snd_nxt = End(s)
    BY SendHeadOk
  <1>4. SegsOk(U, p.snd_wnd_max) /\ SegsOk(V, p.snd_wnd_max)
    BY <1>1 DEF Accounts
  <1>5. PICK b \in Nat : \E m, e \in Nat : Span(p, b, m, e)  BY DEF StreamOk
  <1>6. PICK m \in Nat, e \in Nat : Span(p, b, m, e)  BY <1>5
  <1>7. Tiles(U, b, m) /\ Tiles(V, m, e) /\ Reach(p, b, e)
    BY <1>6 DEF Span
  <1>8. s \in SegType /\ s = V[1] /\ Len(V) > 0 /\ Tail(V) \in Queue /\ 1 \in 1..Len(V)
    <2>1. s \in SegType /\ s = V[1] /\ Len(V) > 0 /\ Tail(V) \in Queue
      BY <1>1, <1>2, HeadAndTail
    <2>2. Len(V) \in Nat  BY <1>2 DEF Queue
    <2> QED BY <2>1, <2>2
  <1>9. Tiles(<<s>>, m, End(s)) /\ Tiles(Tail(V), End(s), e) /\ s.seq = m
    BY <1>1, <1>2, <1>7, TilesTail
  <1>f. s.seq - p.lastack + Len(s.data) <= Min({p.snd_wnd, p.cwnd})
    BY DEF CanSend, Fits
  <1>p. Plain(p) /\ InWindow(p)
    BY DEF StreamOk
  <1> HIDE DEF U, V, s, r, SegType
  <1>10. End(s) \in Nat /\ End(s) <= e
    BY <1>2, <1>4, <1>7, <1>8, RowIs
  <1>11. r.unacked = U \o <<s>>
    <2>1. ASSUME NEW j \in 1..Len(U) PROVE U[j].seq < s.seq
      <3>1. U[j].seq \in Nat /\ End(U[j]) \in Nat /\ U[j].seq < End(U[j]) /\ End(U[j]) <= m
        BY <1>2, <1>4, <1>7, RowIs
      <3> QED BY <1>9, <3>1
    <2> QED BY <1>2, <1>3, <1>8, <2>1, InsertLast DEF Queue
  <1>12. <<s>> \in Queue
    BY <1>8, Single DEF Queue
  <1>13. Tiles(r.unacked, b, End(s)) /\ Tiles(r.unsent, End(s), e)
    BY <1>2, <1>3, <1>7, <1>9, <1>11, <1>12, TilesJoin
  <1>14. Plain(r)
    <2> SUFFICES ASSUME r.state \in {"ESTABLISHED", "CLOSE_WAIT"}
                 PROVE  All(r.unacked, Uncontrolled) /\ All(r.unsent, Uncontrolled)
      BY DEF Plain
    <2>1. All(U, Uncontrolled) /\ All(V, Uncontrolled)
      BY <1>3, <1>p DEF Plain, SameLimits, U, V
    <2>2. s \in Uncontrolled /\ All(Tail(V), Uncontrolled)
      BY <1>1, <1>2, <2>1, AllTail DEF s
    <2>3. All(<<s>>, Uncontrolled)
      BY <1>8, <2>2, AllFew
    <2> QED BY <1>2, <1>3, <1>11, <1>12, <2>1, <2>2, <2>3, AllJoin
  <1>15. InWindow(r)
    <2> DEFINE l == p.lastack + p.snd_wnd
               d == Len(s.data)
    <2>1. All(U, Below(l))
      BY <1>p DEF InWindow, U
    <2>2. s \in Below(l)
      <3>1. d \in Nat /\ s.seq \in Nat
        BY <1>8, EndType
      <3>2. Min({p.snd_wnd, p.cwnd}) \in Int /\ Min({p.snd_wnd, p.cwnd}) <= p.snd_wnd
        <4>1. p.snd_wnd \in Int /\ p.cwnd \in Int  BY <1>2
        <4> QED BY <4>1, MinOfTwo
      <3>3. s.seq - p.lastack + d <= Min({p.snd_wnd, p.cwnd})
        BY <1>f
      <3> HIDE DEF d
      <3>4. s.seq + d <= l
        BY <1>2, <3>1, <3>2, <3>3
      <3> QED BY <1>8, <3>4 DEF Below, d
    <2>3. All(<<s>>, Below(l))
      BY <1>8, <2>2, AllFew
    <2>4. All(U \o <<s>>, Below(l))
      BY <1>2, <1>12, <2>1, <2>3, AllJoin
    <2> QED BY <1>3, <1>11, <2>4 DEF InWindow, SameLimits
  <1>16. p.state = "CLOSED" => FALSE
    <2> SUFFICES ASSUME p.state = "CLOSED" PROVE FALSE
      OBVIOUS
    <2>1. e = 0  BY <1>7 DEF Reach
    <2>2. s.seq < End(s)
      BY <1>2, <1>4, <1>7, <1>8, RowIs
    <2> QED BY <1>9, <1>10, <2>1, <2>2
  <1>17. StreamOk(r)
    BY <1>3, <1>7, <1>10, <1>13, <1>14, <1>15, <1>16, StreamMoves
  <1> QED BY <1>17 DEF r

\* tcp_output, if the pcb, or what it is after the first round, has the stream.
LEMMA RoundsStream ==
    ASSUME NEW p, PcbOk(p), ~Ended(p), NEW mem, ~WantsEmptyAck(p),
           StreamOk(p) \/ (CanSend(p) /\ StreamOk(SendHead(p)))
    PROVE  StreamOk(tcp_output(p, mem))
  <1> DEFINE q == tcp_output(p, mem)
             S == {r \in PcbType : PcbOk(r) /\ ~Ended(r) /\ StreamOk(r)}
  <1>0. p \in PcbType  BY DEF PcbOk
  <1>1. ASSUME NEW r, PcbOk(r), ~Ended(r), CanSend(r)
        PROVE  PcbOk(SendHead(r)) /\ SendHead(r) \in PcbType /\ ~Ended(SendHead(r))
    <2>1. PcbOk(SendHead(r)) /\ SameLimits(r, SendHead(r))
      BY <1>1, SendHeadOk
    <2> QED BY <1>1, <2>1 DEF PcbOk, SameLimits, Ended
  <1>2. p \in S \/ (CanSend(p) /\ SendHead(p) \in S)
    BY <1>0, <1>1
  <1>3. ASSUME NEW r \in S, CanSend(r) PROVE SendHead(r) \in S
    <2>1. PcbOk(r) /\ ~Ended(r) /\ StreamOk(r)  OBVIOUS
    <2>2. StreamOk(SendHead(r))  BY <1>3, <2>1, SendHeadStream
    <2> QED BY <1>1, <1>3, <2>1, <2>2
  <1>4. PICK r \in S : q = [r EXCEPT !.flags = @ \ {"NAGLEMEMERR"}]
    <2> HIDE DEF S
    <2> QED BY <1>0, <1>2, <1>3, OutputStays
  <1>5. r \in PcbType /\ StreamOk(r)  BY <1>4
  <1> HIDE DEF S, q
  <1>6. SameStream(r, q)
    BY <1>4, <1>5 DEF SameStream, PcbType
  <1>7. StreamOk(q)  BY <1>5, <1>6, StreamSame
  <1> QED BY <1>7 DEF q

\* tcp_output.
LEMMA OutputStream ==
    ASSUME NEW p, PcbOk(p), ~Ended(p), StreamOk(p), NEW mem \in BOOLEAN
    PROVE  StreamOk(tcp_output(p, mem))
  <1>1. CASE WantsEmptyAck(p)
    <2> DEFINE q == tcp_send_empty_ack(p, mem)
    <2>1. tcp_output(p, mem) = q
      BY <1>1 DEF tcp_output
    <2>2. SameStream(p, q)
      BY EmptyAckCalm DEF PcbOk, Calm
    <2> HIDE DEF q
    <2> QED BY <2>1, <2>2, StreamSame
  <1>2. CASE ~WantsEmptyAck(p)
    BY <1>2, RoundsStream
  <1> QED BY <1>1, <1>2

\* Back into the unsent queue and out again at once: a fast retransmission
\* leaves both queues as they were, because the congestion window has room for
\* a segment and the peer's window still covers what was sent.
LEMMA FastStream ==
    ASSUME NEW p, PcbOk(p), ~Ended(p), StreamOk(p), MaxCwnd >= MSS, NEW mem \in BOOLEAN
    PROVE  StreamOk(tcp_output(tcp_rexmit_fast(p), mem))
  <1> DEFINE q == tcp_rexmit_fast(p)
             r == tcp_rexmit(p)
             x == Ssthresh(p)
             c == Min({x + 3 * MSS, MaxCwnd})
             U == p.unacked
             V == p.unsent
             s == Head(U)
  <1>1. CASE U = <<>> \/ "INFR" \in p.flags
    <2>1. q = p  BY <1>1 DEF tcp_rexmit_fast
    <2> HIDE DEF q
    <2> QED BY <2>1, OutputStream DEF q
  <1>2. CASE ~(U = <<>> \/ "INFR" \in p.flags)
    <2>1. q = [r EXCEPT !.ssthresh = x, !.cwnd = c, !.flags = @ \cup {"INFR"}]
      BY <1>2 DEF tcp_rexmit_fast
    <2>2. /\ PcbOk(r) /\ SameLimits(p, r) /\ r.unacked = Tail(U) /\ r.unsent = Insert(V, s)
          /\ r.snd_nxt = p.snd_nxt
      BY <1>2, RexmitOk
    <2>3. c \in Nat /\ c >= MSS
      BY SsthreshType DEF PcbOk
    <2>4. PcbOk(q) /\ SameMarks(p, q)
      BY RexmitFastOk
    <2>5. r \in PcbType  BY <2>2 DEF PcbOk
    <2> HIDE DEF q, r, x, c
    <2>6. /\ SameLimits(p, q) /\ q.unacked = Tail(U) /\ q.unsent = Insert(V, s)
          /\ q.snd_nxt = p.snd_nxt /\ q.cwnd = c
      BY <2>1, <2>2, <2>5 DEF PcbType, SameLimits
    <2>7. /\ U \in Queue /\ V \in Queue /\ p.snd_nxt \in Nat /\ p.lastack \in Nat
          /\ p.snd_wnd \in Nat /\ Accounts(p)
      BY PcbFields DEF PcbOk
    <2>8. SegsOk(U, p.snd_wnd_max) /\ SegsOk(V, p.snd_wnd_max)
      BY <2>7 DEF Accounts
    <2>9. PICK b \in Nat : \E m, e \in Nat : Span(p, b, m, e)  BY DEF StreamOk
    <2>10. PICK m \in Nat, e \in Nat : Span(p, b, m, e)  BY <2>9
    <2>11. Tiles(U, b, m) /\ Tiles(V, m, e) /\ Reach(p, b, e) /\ b <= p.lastack
      BY <2>10 DEF Span, Reach
    <2>p. Plain(p) /\ InWindow(p)
      BY DEF StreamOk
    <2>12. /\ s \in SegType /\ s = U[1] /\ Len(U) > 0 /\ Tail(U) \in Queue /\ 1 \in 1..Len(U)
           /\ U = <<s>> \o Tail(U) /\ <<s>> \in Queue
      <3>1. s \in SegType /\ s = U[1] /\ Len(U) > 0 /\ Tail(U) \in Queue /\ U = <<s>> \o Tail(U)
        BY <1>2, <2>7, HeadAndTail
      <3>2. Len(U) \in Nat  BY <2>7 DEF Queue
      <3> HIDE DEF SegType
      <3> QED BY <3>1, <3>2, Single DEF Queue
    <2>13. Tiles(<<s>>, b, End(s)) /\ Tiles(Tail(U), End(s), m) /\ s.seq = b
      BY <1>2, <2>7, <2>11, TilesTail
    <2>14. s \in Below(p.lastack + p.snd_wnd)
      BY <1>2, <2>7, <2>p, AllTail DEF InWindow
    <2>15. End(s) \in Nat /\ End(s) <= m /\ s.seq < End(s) /\ m <= e
      <3>1. End(U[1]) \in Nat /\ End(U[1]) <= m /\ U[1].seq < End(U[1])
        BY <2>7, <2>8, <2>11, <2>12, RowIs
      <3>2. m <= e  BY <2>7, <2>11, TilesOrder
      <3> QED BY <2>12, <3>1, <3>2
    <2>16. Len(s.data) \in Nat /\ s.seq \in Nat /\ Len(s.data) <= MSS /\ TCP_TCPLEN(s) > 0 /\ MSS \in Nat
      <3>1. Len(U[1].data) <= MSS /\ TCP_TCPLEN(U[1]) > 0
        BY <2>8, <2>12 DEF SegsOk
      <3> QED BY <2>12, <3>1, EndType, SizeAssumption
    <2> HIDE DEF U, V, s, SegType
    <2>17. q.unsent = <<s>> \o V
      <3>1. ASSUME NEW j \in 1..Len(V) PROVE V[j].seq >= s.seq
        <4>1. V[j].seq \in Nat /\ m <= V[j].seq
          BY <2>7, <2>8, <2>11, RowIs
        <4> QED BY <2>15, <2>16, <4>1
      <3> QED BY <2>6, <2>7, <2>12, <3>1, InsertFirst DEF Queue
    <2>18. q.unsent # <<>> /\ Head(q.unsent) = s /\ Tail(q.unsent) = V
      <3> DEFINE w == <<s>> \o V
      <3>1. Len(<<s>>) = 1 /\ <<s>>[1] = s  BY <2>12, Single
      <3>2. w \in Queue /\ Len(w) = 1 + Len(V) /\ Len(V) \in Nat /\ w[1] = s
            /\ \A i \in 1..Len(V) : w[1 + i] = V[i]
        <4>1. /\ w \in Queue /\ Len(w) = Len(<<s>>) + Len(V) /\ Len(V) \in Nat
              /\ \A i \in 1..Len(<<s>>) : w[i] = <<s>>[i]
              /\ \A i \in 1..Len(V) : w[Len(<<s>>) + i] = V[i]
          BY <2>7, <2>12, Joined DEF Queue
        <4> QED BY <3>1, <4>1
      <3> HIDE DEF w
      <3>3. w # <<>>  BY <3>2
      <3>4. /\ Tail(w) \in Queue /\ Head(w) = w[1] /\ Len(Tail(w)) = Len(w) - 1
            /\ \A i \in 1..Len(w) - 1 : Tail(w)[i] = w[i + 1]
        BY <3>2, <3>3, HeadAndTail
      <3>5. Len(Tail(w)) = Len(V)  BY <3>2, <3>4
      <3>6. ASSUME NEW i \in 1..Len(V) PROVE Tail(w)[i] = V[i]
        <4>1. i \in 1..Len(w) - 1 /\ i + 1 = 1 + i  BY <3>2
        <4>2. Tail(w)[i] = w[1 + i]  BY <3>4, <4>1
        <4> QED BY <3>2, <4>2
      <3>7. Tail(w) = V
        <4> DEFINE y == Tail(w)
        <4> HIDE DEF y
        <4>1. y \in Seq(SegType) /\ V \in Seq(SegType) /\ Len(y) = Len(V)
              /\ \A i \in 1..Len(V) : y[i] = V[i]
          BY <2>7, <3>4, <3>5, <3>6 DEF Queue, y
        <4>2. y = V  BY <4>1
        <4> QED BY <4>2 DEF y
      <3> QED BY <2>17, <3>2, <3>3, <3>4, <3>7 DEF w
    <2>19. Fits(q)
      <3> DEFINE d == Len(s.data)
                 z == Min({q.snd_wnd, q.cwnd})
      <3>1. q.snd_wnd = p.snd_wnd /\ q.lastack = p.lastack
        BY <2>6 DEF SameLimits
      <3>2. z = p.snd_wnd \/ z = c
        <4>1. q.snd_wnd \in Int /\ q.cwnd \in Int  BY <2>3, <2>6, <2>7, <3>1
        <4>2. z = q.snd_wnd \/ z = q.cwnd  BY <4>1, MinOfTwo
        <4> QED BY <2>6, <3>1, <4>2
      <3>3. s.seq + d <= p.lastack + p.snd_wnd
        BY <2>14 DEF Below
      <3>4. d \in Nat /\ d <= MSS  BY <2>16
      <3> HIDE DEF d, z
      <3>5. s.seq - p.lastack + d <= z
        BY <2>3, <2>7, <2>11, <2>13, <2>16, <3>2, <3>3, <3>4
      <3> QED BY <2>18, <3>1, <3>5 DEF Fits, d, z
    <2>20. CanSend(q) /\ ~WantsEmptyAck(q)
      <3>1. "NODELAY" \in q.flags  BY <2>4 DEF PcbOk
      <3>2. q.flags \cap {"NODELAY", "INFR"} # {}  BY <3>1
      <3>3. tcp_do_output_nagle(q)  BY <3>2 DEF tcp_do_output_nagle
      <3> QED BY <2>18, <2>19, <3>3 DEF CanSend, WantsEmptyAck
    <2>21. ~Ended(q)
      BY <2>6 DEF SameLimits, Ended
    <2> DEFINE y == SendHead(q)
    <2>22. /\ SameLimits(q, y) /\ y.unsent = V /\ y.unacked = Insert(Tail(U), s)
           /\ y.snd_nxt = p.snd_nxt \/ y.snd_nxt = End(s)
      BY <2>4, <2>6, <2>18, <2>20, <2>21, SendHeadOk
    <2> HIDE DEF y
    <2>23. y.unacked = U
      <3> DEFINE t == Tail(U)
      <3>1. t \in Queue /\ Tiles(t, End(s), m)  BY <2>12, <2>13
      <3> HIDE DEF t
      <3>2. ASSUME NEW j \in 1..Len(t) PROVE t[j].seq >= s.seq
        <4>1. End(s) <= t[j].seq
          BY <2>7, <2>15, <3>1, TilesOrder
        <4>2. t[j].seq \in Nat
          <5>1. t[j] \in SegType  BY <3>1 DEF Queue
          <5> QED BY <5>1, EndType
        <4> QED BY <2>15, <2>16, <4>1, <4>2
      <3>3. Insert(t, s) = <<s>> \o t
        BY <2>12, <3>1, <3>2, InsertFirst DEF Queue
      <3> QED BY <2>12, <2>22, <3>3 DEF t
    <2>24. SameLimits(p, y)
      BY <2>6, <2>22 DEF SameLimits
    <2>25. Plain(y) /\ InWindow(y)
      BY <2>p, <2>22, <2>23, <2>24 DEF Plain, InWindow, SameLimits, U, V
    <2>26. p.state # "CLOSED"
      <3> SUFFICES ASSUME p.state = "CLOSED" PROVE FALSE
        OBVIOUS
      <3>1. e = 0  BY <2>11 DEF Reach
      <3> QED BY <2>15, <2>16, <3>1
    <2>27. y.snd_nxt = p.snd_nxt \/ y.snd_nxt <= e
      BY <2>15, <2>22
    <2>28. Tiles(y.unacked, b, m) /\ Tiles(y.unsent, m, e)
      BY <2>11, <2>22, <2>23
    <2>29. StreamOk(y)
      BY <2>11, <2>24, <2>25, <2>26, <2>27, <2>28, StreamMoves
    <2>30. StreamOk(tcp_output(q, mem))
      BY <2>4, <2>20, <2>21, <2>29, RoundsStream DEF y
    <2> QED BY <2>30 DEF q
  <1> QED BY <1>1, <1>2

\* A last segment with more data still ends the row.
LEMMA ExtendedTiles ==
    ASSUME NEW v \in Queue, NEW old, NEW b \in Nat, NEW e \in Nat, NEW c \in Nat \ {0},
           Tiles(v, b, e), All(v, Uncontrolled), Extended(v, old, e, c)
    PROVE  Tiles(old, b, e + c) /\ All(old, Uncontrolled)
  <1> DEFINE k == Len(v)
             s == v[k]
             d == Bytes(e, e + c)
             t == [s EXCEPT !.data = @ \o d, !.bufs = @ + 1]
  <1>1. /\ old \in Queue /\ Len(old) = k /\ k > 0
        /\ \A i \in 1..k - 1 : old[i] = v[i]
        /\ old[k] = t
    BY DEF Extended
  <1>2. k \in Nat /\ k \in 1..k /\ s \in SegType /\ s \in Uncontrolled
    <2>1. k \in Nat  BY DEF Queue
    <2>2. k \in 1..k  BY <1>1, <2>1
    <2> QED BY <2>1, <2>2 DEF Queue, All
  <1>3. s.ctl = {}  BY <1>2 DEF Uncontrolled
  <1>4. End(s) = e /\ s.data = Bytes(s.seq, s.seq + Len(s.data))
    BY <1>1, <1>2 DEF Tiles
  <1>5. t.seq = s.seq /\ t.data = s.data \o d /\ t.ctl = s.ctl /\ t \in SegType
    <2>1. t \in SegType
      <3>1. old[k] \in SegType  BY <1>1, <1>2 DEF Queue
      <3> QED BY <1>1, <3>1
    <2>2. t.seq = s.seq /\ t.data = s.data \o d /\ t.ctl = s.ctl
      <3> HIDE DEF s, d
      <3> QED BY <1>2 DEF SegType
    <2> QED BY <2>1, <2>2
  <1> HIDE DEF SegType, t, k, s
  <1> DEFINE l == Len(s.data)
  <1>6. s.seq \in Nat /\ l \in Nat /\ s.seq + l = e
    <2>1. s.seq \in Nat /\ l \in Nat /\ End(s) = s.seq + TCP_TCPLEN(s)
      BY <1>2, EndType
    <2>2. TCP_TCPLEN(s) = l
      <3>1. TCP_TCPLEN(s) = l + 0  BY <1>3 DEF TCP_TCPLEN
      <3> HIDE DEF l
      <3> QED BY <2>1, <3>1
    <2> HIDE DEF l
    <2> QED BY <1>4, <2>1, <2>2
  <1>7. s.data = Bytes(s.seq, e)
    BY <1>4, <1>6
  <1>8. t.data = Bytes(s.seq, e + c)
    <2>1. e + c \in Nat /\ s.seq <= e /\ e <= e + c
      <3> HIDE DEF l
      <3> QED BY <1>6
    <2>2. Bytes(s.seq, e) \o Bytes(e, e + c) = Bytes(s.seq, e + c)
      <3> DEFINE f == e + c
                 u == s.seq
      <3>1. u \in Nat /\ f \in Nat /\ u <= e /\ e <= f  BY <1>6, <2>1
      <3> HIDE DEF f, u, l
      <3>2. Bytes(u, e) \o Bytes(e, f) = Bytes(u, f)  BY <3>1, BytesJoin
      <3> QED BY <3>2 DEF f, u
    <2> QED BY <1>5, <1>7, <2>2
  <1>9. Len(t.data) = e + c - s.seq
    <2> DEFINE f == e + c
               u == s.seq
    <2>1. f \in Nat /\ u \in Nat /\ u <= f
      <3> HIDE DEF l
      <3> QED BY <1>6
    <2>2. t.data = Bytes(u, f) /\ e + c = f /\ s.seq = u  BY <1>8
    <2> HIDE DEF f, u
    <2>3. Len(Bytes(u, f)) = f - u  BY <2>1, BytesAre
    <2>4. Len(t.data) = f - u  BY <2>2, <2>3
    <2>5. e + c - s.seq = f - u  BY <2>1, <2>2
    <2> QED BY <2>4, <2>5
  <1>10. s.seq + Len(t.data) = e + c
    <2> HIDE DEF l
    <2> QED BY <1>6, <1>9
  <1>11. End(t) = e + c
    <2>1. TCP_TCPLEN(t) = Len(t.data) + 0
      BY <1>3, <1>5 DEF TCP_TCPLEN
    <2>2. End(t) = s.seq + TCP_TCPLEN(t)
      BY <1>5 DEF End
    <2> HIDE DEF l
    <2> QED BY <1>6, <1>9, <2>1, <2>2
  <1>12. Tiles(old, b, e + c)
    <2>1. old[k].seq = v[k].seq /\ End(old[k]) = e + c
      BY <1>1, <1>5, <1>11 DEF s
    <2>2. old[k].data = Bytes(old[k].seq, old[k].seq + Len(old[k].data))
      BY <1>1, <1>5, <1>8, <1>10
    <2> HIDE DEF l
    <2> QED BY <1>1, <2>1, <2>2, TilesLast DEF k
  <1>13. All(old, Uncontrolled)
    <2>1. ASSUME NEW i \in 1..k - 1 PROVE old[i] \in Uncontrolled
      <3>1. i \in 1..k  BY <1>2
      <3> QED BY <1>1, <3>1 DEF All, k
    <2>2. old[k] \in Uncontrolled
      BY <1>1, <1>3, <1>5 DEF Uncontrolled
    <2>3. \A i \in 1..k : i \in 1..k - 1 \/ i = k  BY <1>2
    <2> QED BY <1>1, <2>1, <2>2, <2>3 DEF All
  <1> QED BY <1>12, <1>13

\* New data and a SYN or a FIN go to the end of the row.
LEMMA StreamGrows ==
    ASSUME NEW p \in PcbType, NEW b \in Nat, NEW m \in Nat, NEW e \in Nat, Span(p, b, m, e), InWindow(p),
           NEW q \in PcbType, NEW f \in Nat, Tiles(q.unsent, m, f), e <= f,
           q.unacked = p.unacked, q.lastack = p.lastack, q.snd_wnd = p.snd_wnd,
           p.state # "CLOSED" \/ f >= 1, q.snd_nxt = p.snd_nxt,
           f = q.snd_lbb \/ f = q.snd_lbb + 1, Plain(q), q.state # "CLOSED",
           q.state = "SYN_SENT" => f = 1 /\ q.snd_wnd_max = 0 /\ f = q.snd_lbb,
           q.state \in {"ESTABLISHED", "CLOSE_WAIT"} => f = q.snd_lbb
    PROVE  StreamOk(q)
  <1>1. /\ p.snd_nxt \in Nat /\ p.lastack \in Nat
        /\ b <= p.lastack /\ p.lastack <= e
        /\ p.state = "CLOSED" => p.snd_nxt <= 1
        /\ p.state # "CLOSED" => p.snd_nxt <= e
    BY PcbFields DEF Span, Reach
  <1>2. q.snd_nxt <= f
    BY <1>1
  <1>3. Reach(q, b, f)
    BY <1>1, <1>2 DEF Reach
  <1>4. Span(q, b, m, f)
    BY <1>3 DEF Span
  <1>5. InWindow(q)
    BY DEF InWindow
  <1> QED BY <1>4, <1>5 DEF StreamOk

\* tcp_write.
LEMMA WriteStream ==
    ASSUME NEW p, PcbOk(p), ~Ended(p), StreamOk(p), NEW n \in Nat \ {0}, NEW mem \in BOOLEAN
    PROVE  StreamOk(tcp_write(p, n, mem).pcb)
  <1> DEFINE w == tcp_write(p, n, mem)
  <1>1. p \in PcbType /\ Accounts(p)
    BY DEF PcbOk
  <1>2. \/ ~w.ok /\ (w.pcb = p \/ w.pcb = NagleMemErr(p))
        \/ w.ok /\ \E cat \in 0..n, m \in Nat \ {0} : \E old, new \in Queue :
                      Wrote(p, n, cat, m, old, new, w.pcb)
    BY <1>1, WriteIs
  <1> HIDE DEF w
  <1>3. CASE w.pcb = p \/ w.pcb = NagleMemErr(p)
    <2>1. SameStream(p, NagleMemErr(p))
      BY <1>1, FlagsCalm DEF Calm
    <2>2. StreamOk(NagleMemErr(p))
      BY <2>1, StreamSame
    <2> QED BY <1>3, <2>2 DEF w
  <1>4. CASE w.ok /\ \E cat \in 0..n, m \in Nat \ {0} : \E old, new \in Queue :
                        Wrote(p, n, cat, m, old, new, w.pcb)
    <2>1. PICK c \in 0..n : \E m \in Nat \ {0} : \E old, new \in Queue :
                               Wrote(p, n, c, m, old, new, w.pcb)
      BY <1>4
    <2>2. PICK z \in Nat \ {0} : \E old, new \in Queue : Wrote(p, n, c, z, old, new, w.pcb)
      BY <2>1
    <2>3. PICK old \in Queue, new \in Queue : Wrote(p, n, c, z, old, new, w.pcb)
      BY <2>2
    <2> DEFINE q == w.pcb
               len == p.snd_queuelen + (IF c > 0 THEN 1 ELSE 0) + 2 * Len(new)
    <2>4. /\ p.state \in WriteStates /\ 2 * z <= p.snd_wnd_max
          /\ c = 0 => old = p.unsent
          /\ c > 0 => Extended(p.unsent, old, p.snd_lbb, c)
          /\ NewSegs(new, p.snd_lbb + c, p.snd_lbb + n, z)
          /\ q = [p EXCEPT !.unsent = old \o new, !.snd_lbb = @ + n, !.snd_buf = @ - n,
                           !.snd_queuelen = len]
      BY <2>3 DEF Wrote
    <2>5. PICK b \in Nat : \E m, e \in Nat : Span(p, b, m, e)  BY DEF StreamOk
    <2>6. PICK m \in Nat, e \in Nat : Span(p, b, m, e)  BY <2>5
    <2>7. Tiles(p.unsent, m, e) /\ Reach(p, b, e)
      BY <2>6 DEF Span
    <2>8. /\ p.snd_wnd_max \in Nat /\ p.unsent \in Queue /\ p.unacked \in Queue /\ p.snd_lbb \in Nat
          /\ p.state \in States /\ p.snd_nxt \in Nat
      BY <1>1, PcbFields
    <2>9. p.state \in {"ESTABLISHED", "CLOSE_WAIT"} /\ e = p.snd_lbb
      <3>1. p.snd_wnd_max # 0  BY <2>4, <2>8
      <3>2. p.state \notin {"CLOSED", "SYN_SENT"}  BY <2>7, <3>1 DEF Reach
      <3>3. p.state \in {"ESTABLISHED", "CLOSE_WAIT"}
        BY <2>4, <2>8, <3>2 DEF WriteStates, States
      <3> QED BY <2>7, <3>3 DEF Reach
    <2>10. All(p.unacked, Uncontrolled) /\ All(p.unsent, Uncontrolled) /\ InWindow(p)
      BY <2>9 DEF StreamOk, Plain
    <2>11. Tiles(old, m, e + c) /\ All(old, Uncontrolled)
      <3>1. CASE c = 0
        <4>1. old = p.unsent /\ e + c = e  BY <2>4, <3>1
        <4> QED BY <2>7, <2>10, <4>1
      <3>2. CASE c > 0
        <4>1. Extended(p.unsent, old, e, c) /\ c \in Nat \ {0}  BY <2>4, <2>9, <3>2
        <4> QED BY <2>7, <2>8, <2>10, <4>1, ExtendedTiles
      <3> QED BY <3>1, <3>2
    <2>12. Tiles(new, e + c, e + n) /\ All(new, Uncontrolled)
      <3>1. Tiles(new, e + c, e + n) /\ \A i \in 1..Len(new) : new[i].ctl = {}
        BY <2>4, <2>9 DEF NewSegs
      <3>2. \A i \in 1..Len(new) : new[i] \in SegType  BY DEF Queue
      <3> HIDE DEF SegType
      <3> QED BY <3>1, <3>2 DEF All, Uncontrolled
    <2> DEFINE u == old \o new
    <2>13. u \in Queue /\ Tiles(u, m, e + n) /\ All(u, Uncontrolled)
      <3>1. u \in Queue
        <4> HIDE DEF SegType
        <4> QED BY Joined DEF Queue
      <3>2. Tiles(u, m, e + n)  BY <2>11, <2>12, TilesJoin
      <3>3. All(u, Uncontrolled)  BY <2>11, <2>12, AllJoin
      <3> QED BY <3>1, <3>2, <3>3
    <2>14. q \in PcbType
      BY <1>1, WriteOk DEF PcbOk, w
    <2> HIDE DEF u, q, len, w, SegType
    <2>15. /\ q.unsent = u /\ q.unacked = p.unacked /\ q.state = p.state /\ q.lastack = p.lastack
           /\ q.snd_wnd = p.snd_wnd /\ q.snd_nxt = p.snd_nxt /\ q.snd_lbb = e + n
      BY <1>1, <2>4, <2>9 DEF PcbType, u
    <2>16. Plain(q)
      BY <2>10, <2>13, <2>15 DEF Plain
    <2>17. e + n \in Nat /\ e <= e + n  OBVIOUS
    <2>18. p.state # "CLOSED" /\ q.state # "CLOSED" /\ q.state # "SYN_SENT"
      BY <2>9, <2>15
    <2>19. Tiles(q.unsent, m, e + n)  BY <2>13, <2>15
    <2>20. StreamOk(q)
      BY <1>1, <2>6, <2>10, <2>14, <2>15, <2>16, <2>17, <2>18, <2>19, StreamGrows
    <2> QED BY <2>20 DEF q, w
  <1> QED BY <1>2, <1>3, <1>4

\* tcp_enqueue_flags appends a segment that is only a SYN or a FIN.
LEMMA EnqueueIs ==
    ASSUME NEW p \in PcbType, NEW ctl \in {{"SYN"}, {"FIN"}}, NEW mem \in BOOLEAN
    PROVE  LET w == tcp_enqueue_flags(p, ctl, mem)
               q == w.pcb
           IN  \/ ~w.ok /\ SameStream(p, q)
               \/ /\ w.ok /\ q.unacked = p.unacked /\ q.state = p.state /\ q.lastack = p.lastack
                  /\ q.snd_wnd = p.snd_wnd /\ q.snd_wnd_max = p.snd_wnd_max
                  /\ q.snd_nxt = p.snd_nxt /\ q.snd_lbb = p.snd_lbb + 1
                  /\ q.unsent \in Queue
                  /\ \A m \in Nat : Tiles(p.unsent, m, p.snd_lbb) => Tiles(q.unsent, m, p.snd_lbb + 1)
  <1> DEFINE w == tcp_enqueue_flags(p, ctl, mem)
             s == Seg(p.snd_lbb, <<>>, ctl, 1)
             r == [p EXCEPT !.unsent = Append(@, s), !.snd_lbb = @ + 1, !.snd_buf = @ - 1,
                            !.snd_queuelen = @ + 1, !.flags = @ \cup (ctl \cap {"FIN"})]
             full == p.snd_queuelen >= SndQueueLen \/ (p.snd_buf > 0 /\ ~mem)
  <1>0. w = IF full THEN WriteResult(NagleMemErr(p), FALSE)
            ELSE IF p.snd_buf = 0 THEN WriteResult(p, FALSE) ELSE WriteResult(r, TRUE)
    BY DEF tcp_enqueue_flags
  <1>1. p.snd_lbb \in Nat /\ p.unsent \in Queue
    BY PcbFields
  <1> HIDE DEF w
  <1>2. CASE full \/ p.snd_buf = 0
    <2>1. w = WriteResult(NagleMemErr(p), FALSE) \/ w = WriteResult(p, FALSE)
      <3> HIDE DEF full, r
      <3> QED BY <1>0, <1>2
    <2>2. ~w.ok /\ (w.pcb = NagleMemErr(p) \/ w.pcb = p)
      BY <2>1 DEF WriteResult
    <2>3. SameStream(p, NagleMemErr(p)) /\ SameStream(p, p)
      BY FlagsCalm DEF Calm, SameStream
    <2>4. ~w.ok /\ SameStream(p, w.pcb)
      BY <2>2, <2>3
    <2> QED BY <2>4 DEF w
  <1>3. CASE ~(full \/ p.snd_buf = 0)
    <2>1. w = WriteResult(r, TRUE)
      <3> HIDE DEF full, r
      <3> QED BY <1>0, <1>3
    <2>2. w.ok /\ w.pcb = r
      <3> HIDE DEF r
      <3> QED BY <2>1 DEF WriteResult
    <2>3. s \in SegType /\ s.seq = p.snd_lbb /\ s.data = <<>> /\ s.ctl # {}
      BY <1>1 DEF Seg, SegType
    <2> HIDE DEF s, SegType
    <2> DEFINE u == p.unsent \o <<s>>
    <2>4. Append(p.unsent, s) = u
      BY <1>1, <2>3, Appended DEF Queue
    <2>5. /\ r.unsent = Append(p.unsent, s) /\ r.unacked = p.unacked /\ r.state = p.state
          /\ r.lastack = p.lastack /\ r.snd_wnd = p.snd_wnd /\ r.snd_wnd_max = p.snd_wnd_max
          /\ r.snd_nxt = p.snd_nxt /\ r.snd_lbb = p.snd_lbb + 1
      BY DEF PcbType
    <2>6. Len(s.data) = 0 /\ End(s) = p.snd_lbb + 1
      <3>1. Len(s.data) = 0  BY <2>3
      <3>2. TCP_TCPLEN(s) = 0 + 1  BY <2>3, <3>1 DEF TCP_TCPLEN
      <3> QED BY <1>1, <2>3, <3>1, <3>2 DEF End
    <2>7. <<s>> \in Queue /\ Len(<<s>>) = 1 /\ <<s>>[1] = s
      BY <2>3, Single DEF Queue
    <2>8. Tiles(<<s>>, p.snd_lbb, p.snd_lbb + 1)
      <3>1. s.data = Bytes(s.seq, s.seq + Len(s.data))
        <4>1. s.seq + Len(s.data) = s.seq /\ s.seq \in Nat  BY <1>1, <2>3, <2>6
        <4>2. Bytes(s.seq, s.seq) = <<>>
          <5> DEFINE y == s.seq
                     x == Bytes(y, y)
          <5>1. y \in Nat /\ y <= y  BY <4>1
          <5> HIDE DEF y
          <5>2. x \in Seq(Nat) /\ Len(x) = y - y  BY <5>1, BytesAre
          <5> HIDE DEF x
          <5>3. Len(x) = 0  BY <5>1, <5>2
          <5>4. x = <<>>  BY <5>2, <5>3
          <5> QED BY <5>4 DEF x, y
        <4> QED BY <2>3, <4>1, <4>2
      <3> QED BY <2>3, <2>6, <2>7, <3>1 DEF Tiles
    <2>9. ASSUME NEW m \in Nat, Tiles(p.unsent, m, p.snd_lbb) PROVE Tiles(u, m, p.snd_lbb + 1)
      BY <1>1, <2>7, <2>8, <2>9, TilesJoin
    <2>10. u \in Queue
      BY <1>1, <2>7, Joined DEF Queue
    <2> HIDE DEF u, r
    <2>11. /\ r.unsent = u /\ r.unsent \in Queue
           /\ \A m \in Nat : Tiles(p.unsent, m, p.snd_lbb) => Tiles(r.unsent, m, p.snd_lbb + 1)
      BY <2>4, <2>5, <2>9, <2>10
    <2> QED BY <2>2, <2>5, <2>11 DEF w
  <1> QED BY <1>2, <1>3

\* The SYN is the first segment.
LEMMA ConnectStream ==
    ASSUME NEW p, PcbOk(p), p.state = "CLOSED", StreamOk(p), NEW mem \in BOOLEAN
    PROVE  LET w == tcp_enqueue_flags(p, {"SYN"}, mem)
               q == [w.pcb EXCEPT !.state = "SYN_SENT"]
           IN  IF w.ok THEN StreamOk(q) ELSE StreamOk(w.pcb)
  <1> DEFINE w == tcp_enqueue_flags(p, {"SYN"}, mem)
             r == w.pcb
             q == [r EXCEPT !.state = "SYN_SENT"]
  <1>1. p \in PcbType /\ ~Ended(p) /\ p.snd_lbb \in Nat
    BY PcbFields DEF PcbOk, Ended
  <1>2. \/ ~w.ok /\ SameStream(p, r)
        \/ /\ w.ok /\ r.unacked = p.unacked /\ r.lastack = p.lastack
           /\ r.snd_wnd = p.snd_wnd /\ r.snd_wnd_max = p.snd_wnd_max
           /\ r.snd_nxt = p.snd_nxt /\ r.snd_lbb = p.snd_lbb + 1
           /\ r.unsent \in Queue
           /\ \A m \in Nat : Tiles(p.unsent, m, p.snd_lbb) => Tiles(r.unsent, m, p.snd_lbb + 1)
    BY <1>1, EnqueueIs
  <1>3. r \in PcbType
    BY <1>1, EnqueueOk DEF PcbOk
  <1> HIDE DEF w
  <1>4. CASE ~w.ok /\ SameStream(p, r)
    <2>1. StreamOk(r)  BY <1>4, StreamSame
    <2> QED BY <1>4, <2>1 DEF w
  <1>5. CASE /\ w.ok /\ r.unacked = p.unacked /\ r.lastack = p.lastack
             /\ r.snd_wnd = p.snd_wnd /\ r.snd_wnd_max = p.snd_wnd_max
             /\ r.snd_nxt = p.snd_nxt /\ r.snd_lbb = p.snd_lbb + 1
             /\ r.unsent \in Queue
             /\ \A m \in Nat : Tiles(p.unsent, m, p.snd_lbb) => Tiles(r.unsent, m, p.snd_lbb + 1)
    <2>1. PICK b \in Nat : \E m, e \in Nat : Span(p, b, m, e)  BY DEF StreamOk
    <2>2. PICK m \in Nat, e \in Nat : Span(p, b, m, e)  BY <2>1
    <2>3. Tiles(p.unsent, m, e) /\ e = 0 /\ e = p.snd_lbb /\ p.snd_wnd_max = 0
      BY <2>2 DEF Span, Reach
    <2>4. "SYN_SENT" \in States  BY DEF States
    <2> HIDE DEF r
    <2>5. /\ q \in PcbType /\ q.state = "SYN_SENT" /\ q.unsent = r.unsent /\ q.unacked = r.unacked
          /\ q.lastack = r.lastack /\ q.snd_wnd = r.snd_wnd /\ q.snd_wnd_max = r.snd_wnd_max
          /\ q.snd_nxt = r.snd_nxt /\ q.snd_lbb = r.snd_lbb
      BY <1>3, <2>4 DEF PcbType
    <2> HIDE DEF q
    <2>6. Tiles(q.unsent, m, 1) /\ q.snd_lbb = 1
      BY <1>5, <2>3, <2>5
    <2>7. Plain(q)  BY <2>5 DEF Plain
    <2>8. InWindow(p)  BY DEF StreamOk
    <2>9. StreamOk(q)
      <3>1. 1 \in Nat /\ e <= 1 /\ 1 >= 1  BY <2>3
      <3> QED BY <1>1, <1>5, <2>2, <2>3, <2>5, <2>6, <2>7, <2>8, <3>1, StreamGrows
    <2> QED BY <1>5, <2>9 DEF q, r, w
  <1> QED BY <1>2, <1>4, <1>5

\* A FIN ends the row, in a segment of its own or on the last one.
LEMMA FinStream ==
    ASSUME NEW p, PcbOk(p), p.state \in {"ESTABLISHED", "CLOSE_WAIT"}, StreamOk(p),
           NEW s \in States \ {"CLOSED", "SYN_SENT", "ESTABLISHED", "CLOSE_WAIT"}, NEW mem \in BOOLEAN
    PROVE  LET w == tcp_send_fin(p, mem)
               q == [w.pcb EXCEPT !.state = s]
           IN  IF w.ok THEN StreamOk(q) ELSE StreamOk(w.pcb)
  <1> DEFINE w == tcp_send_fin(p, mem)
             r == w.pcb
             q == [r EXCEPT !.state = s]
             U == p.unsent
             k == Len(U)
  <1>1. p \in PcbType /\ ~Ended(p)
    BY DEF PcbOk, Ended
  <1>2. U \in Queue /\ p.snd_lbb \in Nat
    BY <1>1, PcbFields
  <1>3. r \in PcbType
    BY <1>1, FinOk DEF PcbOk
  <1>4. PICK b \in Nat : \E m, e \in Nat : Span(p, b, m, e)  BY DEF StreamOk
  <1>5. PICK m \in Nat, e \in Nat : Span(p, b, m, e)  BY <1>4
  <1>6. Tiles(U, m, e) /\ e = p.snd_lbb /\ All(U, Uncontrolled) /\ InWindow(p)
    BY <1>5 DEF Span, Reach, StreamOk, Plain
  <1>7. \/ ~w.ok /\ SameStream(p, r)
        \/ /\ w.ok /\ r.unacked = p.unacked /\ r.lastack = p.lastack
           /\ r.snd_wnd = p.snd_wnd /\ r.snd_nxt = p.snd_nxt
           /\ r.snd_lbb = e \/ r.snd_lbb = e + 1
           /\ Tiles(r.unsent, m, e + 1)
    <2>1. CASE ~(U # <<>> /\ Last(U).ctl = {})
      <3>1. w = tcp_enqueue_flags(p, {"FIN"}, mem)
        BY <2>1 DEF tcp_send_fin
      <3> HIDE DEF w
      <3> QED BY <1>1, <1>6, <3>1, EnqueueIs
    <2>2. CASE U # <<>> /\ Last(U).ctl = {}
      <3> DEFINE t == [U[k] EXCEPT !.ctl = {"FIN"}]
                 u == [U EXCEPT ![k] = t]
                 x == [p EXCEPT !.unsent[Len(p.unsent)].ctl = {"FIN"}, !.flags = @ \cup {"FIN"}]
      <3>1. w.ok /\ r = x
        <4>1. w = WriteResult(x, TRUE)  BY <2>2 DEF tcp_send_fin
        <4> HIDE DEF w, x
        <4> QED BY <4>1 DEF WriteResult
      <3>2. k \in Nat /\ k > 0 /\ k \in 1..k /\ U[k] \in SegType
        BY <1>2, <2>2, LastIs
      <3>3. /\ x.unsent = u /\ x.unacked = p.unacked /\ x.lastack = p.lastack
            /\ x.snd_wnd = p.snd_wnd /\ x.snd_nxt = p.snd_nxt /\ x.snd_lbb = p.snd_lbb
        <4> HIDE DEF SegType
        <4> QED BY <1>1, <1>2, <3>2 DEF PcbType
      <3>4. U[k].ctl = {}
        <4>1. U[k] \in Uncontrolled  BY <1>6, <3>2 DEF All
        <4> QED BY <4>1 DEF Uncontrolled
      <3>5. /\ t \in SegType /\ t.data = U[k].data /\ t.seq = U[k].seq /\ t.ctl = {"FIN"}
        BY <3>2 DEF SegType
      <3> HIDE DEF t, SegType
      <3>6. u \in Queue /\ Len(u) = k /\ u[k] = t /\ \A i \in 1..k - 1 : u[i] = U[i]
        BY <1>2, <3>2, <3>5 DEF Queue
      <3> HIDE DEF u, x
      <3>7. End(t) = e + 1
        <4> DEFINE v == U[k]
        <4>1. End(v) = e  BY <1>6, <3>2 DEF Tiles
        <4>2. v \in SegType  BY <3>2
        <4>3. v.ctl = {} /\ t.data = v.data /\ t.seq = v.seq  BY <3>4, <3>5
        <4> HIDE DEF v
        <4>4. End(v) = v.seq + (Len(v.data) + 0)  BY <4>3 DEF End, TCP_TCPLEN
        <4>5. End(t) = v.seq + (Len(v.data) + 1)  BY <3>5, <4>3 DEF End, TCP_TCPLEN
        <4>6. v.seq \in Nat /\ Len(v.data) \in Nat  BY <4>2, EndType
        <4> QED BY <4>1, <4>4, <4>5, <4>6
      <3>8. Tiles(u, m, e + 1)
        <4>1. u[k].seq = U[k].seq /\ End(u[k]) = e + 1  BY <3>5, <3>6, <3>7
        <4>2. u[k].data = Bytes(u[k].seq, u[k].seq + Len(u[k].data))
          <5>1. U[k].data = Bytes(U[k].seq, U[k].seq + Len(U[k].data))
            BY <1>6, <3>2 DEF Tiles
          <5> QED BY <3>5, <3>6, <5>1
        <4> QED BY <1>2, <1>6, <3>2, <3>6, <4>1, <4>2, TilesLast
      <3> QED BY <1>6, <3>1, <3>3, <3>8
    <2> HIDE DEF w
    <2> QED BY <2>1, <2>2
  <1> HIDE DEF w
  <1>8. CASE ~w.ok /\ SameStream(p, r)
    <2>1. StreamOk(r)  BY <1>8, StreamSame
    <2> QED BY <1>8, <2>1 DEF w
  <1>9. CASE /\ w.ok /\ r.unacked = p.unacked /\ r.lastack = p.lastack
             /\ r.snd_wnd = p.snd_wnd /\ r.snd_nxt = p.snd_nxt
             /\ r.snd_lbb = e \/ r.snd_lbb = e + 1
             /\ Tiles(r.unsent, m, e + 1)
    <2> HIDE DEF r, U
    <2>1. /\ q \in PcbType /\ q.state = s /\ q.unsent = r.unsent /\ q.unacked = r.unacked
          /\ q.lastack = r.lastack /\ q.snd_wnd = r.snd_wnd /\ q.snd_nxt = r.snd_nxt
          /\ q.snd_lbb = r.snd_lbb
      BY <1>3 DEF PcbType
    <2> HIDE DEF q
    <2>2. Plain(q)  BY <2>1 DEF Plain
    <2>3. e + 1 \in Nat /\ e <= e + 1  OBVIOUS
    <2>4. StreamOk(q)
      <3>1. e + 1 = q.snd_lbb \/ e + 1 = q.snd_lbb + 1  BY <1>9, <2>1
      <3>2. Tiles(q.unsent, m, e + 1)  BY <1>9, <2>1
      <3> QED BY <1>1, <1>5, <1>6, <1>9, <2>1, <2>2, <2>3, <3>1, <3>2, StreamGrows
    <2> QED BY <1>9, <2>4 DEF q, r, w
  <1> QED BY <1>7, <1>8, <1>9

\* A retransmission puts the unacknowledged segments before the unsent ones.
LEMMA RequeueStream ==
    ASSUME NEW p, PcbOk(p), ~Ended(p), StreamOk(p)
    PROVE  StreamOk(requeue_unacked(p))
  <1> DEFINE q == requeue_unacked(p)
             u == p.unacked \o p.unsent
             e0 == <<>>
             k == p.nrtx + 1
  <1>1. p \in PcbType /\ p.unacked \in Queue /\ p.unsent \in Queue /\ p.nrtx \in Nat
    BY PcbFields DEF PcbOk
  <1>2. q = [p EXCEPT !.unsent = u, !.unacked = e0, !.nrtx = k]
    BY DEF requeue_unacked
  <1>3. PICK b \in Nat : \E m, e \in Nat : Span(p, b, m, e)  BY DEF StreamOk
  <1>4. PICK m \in Nat, e \in Nat : Span(p, b, m, e)  BY <1>3
  <1>5. Tiles(p.unacked, b, m) /\ Tiles(p.unsent, m, e) /\ Reach(p, b, e)
    BY <1>4 DEF Span
  <1>6. Tiles(u, b, e) /\ Tiles(e0, b, b)
    BY <1>1, <1>5, TilesJoin, TilesNone
  <1>7. p.state \in {"ESTABLISHED", "CLOSE_WAIT"} => All(u, Uncontrolled) /\ All(e0, Uncontrolled)
    BY <1>1, AllJoin, AllFew DEF StreamOk, Plain
  <1>8. All(e0, Below(p.lastack + p.snd_wnd))
    BY AllFew
  <1> HIDE DEF q, u, e0, k
  <1>9. SameLimits(p, q) /\ q.unsent = u /\ q.unacked = e0 /\ q.snd_nxt = p.snd_nxt
    BY <1>1, <1>2 DEF PcbType, SameLimits
  <1>10. Plain(q) /\ InWindow(q)
    BY <1>7, <1>8, <1>9 DEF Plain, InWindow, SameLimits
  <1>11. Tiles(q.unacked, b, b) /\ Tiles(q.unsent, b, e)
    BY <1>6, <1>9
  <1>12. StreamOk(q)
    BY <1>5, <1>9, <1>10, <1>11, StreamMoves
  <1> QED BY <1>12 DEF q

\* A change of state after the connection is open.
LEMMA StateStream ==
    ASSUME NEW p \in PcbType, StreamOk(p), p.state \notin {"CLOSED", "SYN_SENT"},
           NEW s \in States \ {"CLOSED", "SYN_SENT", "ESTABLISHED"},
           s = "CLOSE_WAIT" => p.state = "ESTABLISHED"
    PROVE  StreamOk([p EXCEPT !.state = s])
  <1> DEFINE q == [p EXCEPT !.state = s]
  <1>1. /\ q.state = s /\ q.unsent = p.unsent /\ q.unacked = p.unacked /\ q.snd_lbb = p.snd_lbb
        /\ q.snd_nxt = p.snd_nxt /\ q.lastack = p.lastack /\ q.snd_wnd = p.snd_wnd
    BY DEF PcbType
  <1> HIDE DEF q
  <1>2. PICK b \in Nat : \E m, e \in Nat : Span(p, b, m, e)  BY DEF StreamOk
  <1>3. PICK m \in Nat, e \in Nat : Span(p, b, m, e)  BY <1>2
  <1>4. Tiles(q.unacked, b, m) /\ Tiles(q.unsent, m, e)
    BY <1>1, <1>3 DEF Span
  <1>5. Reach(q, b, e)
    <2>1. Reach(p, b, e)  BY <1>3 DEF Span
    <2> QED BY <1>1, <2>1 DEF Reach
  <1>6. Plain(q) /\ InWindow(q)
    BY <1>1 DEF StreamOk, Plain, InWindow
  <1>7. StreamOk(q)
    BY <1>4, <1>5, <1>6 DEF StreamOk, Span
  <1> QED BY <1>7 DEF q

\* A new window: what was sent is still within it.
LEMMA WindowStream ==
    ASSUME NEW p, PcbOk(p), StreamOk(p), p.state \notin {"CLOSED", "SYN_SENT"},
           NEW w \in Nat, w >= p.snd_wnd
    PROVE  StreamOk(Window(p, w))
  <1> DEFINE q == Window(p, w)
  <1>1. /\ SameMarks(p, q) /\ q.unsent = p.unsent /\ q.unacked = p.unacked /\ q.snd_nxt = p.snd_nxt
        /\ q.snd_lbb = p.snd_lbb /\ q.lastack = p.lastack /\ q.snd_wnd = w
    BY WindowOk
  <1>2. p.unacked \in Queue /\ p.lastack \in Nat /\ p.snd_wnd \in Nat
    BY PcbFields DEF PcbOk
  <1> HIDE DEF q
  <1>3. PICK b \in Nat : \E m, e \in Nat : Span(p, b, m, e)  BY DEF StreamOk
  <1>4. PICK m \in Nat, e \in Nat : Span(p, b, m, e)  BY <1>3
  <1>5. Tiles(q.unacked, b, m) /\ Tiles(q.unsent, m, e)
    BY <1>1, <1>4 DEF Span
  <1>6. Reach(q, b, e)
    <2>1. Reach(p, b, e)  BY <1>4 DEF Span
    <2> QED BY <1>1, <2>1 DEF Reach, SameMarks
  <1>7. Plain(q)
    BY <1>1 DEF StreamOk, Plain, SameMarks
  <1>8. All(p.unacked, Below(p.lastack + w))
    <2>1. Below(p.lastack + p.snd_wnd) \subseteq Below(p.lastack + w)
      <3> SUFFICES ASSUME NEW s \in SegType, s.seq + Len(s.data) <= p.lastack + p.snd_wnd
                   PROVE  s.seq + Len(s.data) <= p.lastack + w
        BY DEF Below
      <3>1. s.seq \in Nat /\ Len(s.data) \in Nat  BY EndType
      <3> QED BY <1>2, <3>1
    <2>2. All(p.unacked, Below(p.lastack + p.snd_wnd))
      BY DEF StreamOk, InWindow
    <2> QED BY <2>1, <2>2 DEF All
  <1>9. InWindow(q)
    BY <1>1, <1>8 DEF InWindow
  <1>10. StreamOk(q)
    BY <1>5, <1>6, <1>7, <1>9 DEF StreamOk, Span
  <1> QED BY <1>10 DEF q

\* The same bound for segments that an acknowledgement leaves, with its window.
LEMMA AckedBelow ==
    ASSUME NEW q \in Queue, NEW a \in Nat, NEW l \in Nat, NEW h \in Nat, l <= h, All(q, Below(l))
    PROVE  All(Left(q, a), Below(h))
  <1>1. Below(l) \subseteq Below(h)
    <2> SUFFICES ASSUME NEW s \in SegType, s.seq + Len(s.data) <= l
                 PROVE  s.seq + Len(s.data) <= h
      BY DEF Below
    <2>1. s.seq \in Nat /\ Len(s.data) \in Nat  BY EndType
    <2> QED BY <2>1
  <1>2. All(q, Below(h))
    BY <1>1 DEF All
  <1> QED BY <1>2, AllLeft

\* What an acknowledgement leaves of two queues in a row is a row.
LEMMA RowLeft ==
    ASSUME NEW U \in Queue, NEW V \in Queue, NEW b \in Nat, NEW m \in Nat, NEW e \in Nat,
           Tiles(U, b, m), Tiles(V, m, e), NEW a \in Nat, b <= a, a <= e
    PROVE  \E c, d \in Nat : c <= a /\ Tiles(Left(U, a), c, d) /\ Tiles(Left(V, a), d, e)
  <1>1. PICK c \in Nat : /\ Tiles(Left(U, a), c, m)
                         /\ b > a => c = b
                         /\ b <= a /\ m > a => c <= a
                         /\ b <= a /\ m <= a => Left(U, a) = <<>> /\ c = m
    BY TilesLeft
  <1>2. PICK d \in Nat : /\ Tiles(Left(V, a), d, e)
                         /\ m > a => d = m
                         /\ m <= a /\ e > a => d <= a
                         /\ m <= a /\ e <= a => Left(V, a) = <<>> /\ d = e
    BY TilesLeft
  <1>3. CASE m > a
    <2>1. c <= a /\ d = m  BY <1>1, <1>2, <1>3
    <2> QED BY <1>1, <1>2, <2>1
  <1>4. CASE m <= a
    <2>1. Left(U, a) = <<>> /\ d <= a
      BY <1>1, <1>2, <1>4
    <2>2. Tiles(Left(U, a), d, d)  BY <2>1, TilesNone
    <2> QED BY <1>2, <2>1, <2>2
  <1> QED BY <1>3, <1>4

\* An acknowledgement of what was sent, with a window that takes nothing back.
LEMMA AckedStream ==
    ASSUME NEW p, PcbOk(p), ~Ended(p), StreamOk(p), p.state \notin {"CLOSED", "SYN_SENT"},
           NEW a \in Nat, a >= p.lastack, a <= p.snd_nxt, NEW w \in Nat, a + w >= p.lastack + p.snd_wnd
    PROVE  StreamOk(Window(Acked(p, a), w))
  <1> DEFINE x == Acked(p, a)
             q == Window(x, w)
  <1>1. /\ PcbOk(x) /\ x.state = p.state
        /\ x.unacked = Left(p.unacked, a) /\ x.unsent = Left(p.unsent, a)
        /\ x.lastack = a /\ x.snd_nxt = p.snd_nxt /\ x.snd_lbb = p.snd_lbb
    BY AckedOk
  <1> HIDE DEF x
  <1>2. /\ q.state = x.state /\ q.unsent = x.unsent /\ q.unacked = x.unacked /\ q.snd_nxt = x.snd_nxt
        /\ q.snd_lbb = x.snd_lbb /\ q.lastack = x.lastack /\ q.snd_wnd = w
    BY <1>1, WindowOk DEF SameMarks
  <1> HIDE DEF q
  <1>3. /\ p.unacked \in Queue /\ p.unsent \in Queue /\ p.lastack \in Nat /\ p.snd_wnd \in Nat
        /\ p.snd_nxt \in Nat
    BY PcbFields DEF PcbOk
  <1>4. PICK b \in Nat : \E m, e \in Nat : Span(p, b, m, e)  BY DEF StreamOk
  <1>5. PICK m \in Nat, e \in Nat : Span(p, b, m, e)  BY <1>4
  <1>6. /\ Tiles(p.unacked, b, m) /\ Tiles(p.unsent, m, e) /\ Reach(p, b, e)
        /\ b <= p.lastack /\ p.snd_nxt <= e
    BY <1>5 DEF Span, Reach
  <1>7. b <= a /\ a <= e
    BY <1>3, <1>6
  <1>8. PICK c \in Nat : \E d \in Nat :
            c <= a /\ Tiles(Left(p.unacked, a), c, d) /\ Tiles(Left(p.unsent, a), d, e)
    BY <1>3, <1>6, <1>7, RowLeft
  <1>9. PICK d \in Nat :
            c <= a /\ Tiles(Left(p.unacked, a), c, d) /\ Tiles(Left(p.unsent, a), d, e)
    BY <1>8
  <1>10. Reach(q, c, e)
    BY <1>1, <1>2, <1>6, <1>7, <1>9 DEF Reach
  <1>11. Plain(q)
    <2> SUFFICES ASSUME q.state \in {"ESTABLISHED", "CLOSE_WAIT"}
                 PROVE  All(q.unacked, Uncontrolled) /\ All(q.unsent, Uncontrolled)
      BY DEF Plain
    <2>1. All(p.unacked, Uncontrolled) /\ All(p.unsent, Uncontrolled)
      BY <1>1, <1>2 DEF StreamOk, Plain
    <2> QED BY <1>1, <1>2, <1>3, <2>1, AllLeft
  <1>12. InWindow(q)
    <2>1. All(p.unacked, Below(p.lastack + p.snd_wnd))
      BY DEF StreamOk, InWindow
    <2>2. p.lastack + p.snd_wnd \in Nat /\ a + w \in Nat /\ p.lastack + p.snd_wnd <= a + w
      BY <1>3
    <2>3. All(Left(p.unacked, a), Below(a + w))
      BY <1>3, <2>1, <2>2, AckedBelow
    <2> QED BY <1>1, <1>2, <2>3 DEF InWindow
  <1>13. Span(q, c, d, e)
    BY <1>1, <1>2, <1>9, <1>10 DEF Span
  <1>14. StreamOk(q)
    BY <1>11, <1>12, <1>13 DEF StreamOk
  <1> QED BY <1>14 DEF q, x

\* The SYN is acknowledged and nothing is left.
LEMMA SynAckedStream ==
    ASSUME NEW p, PcbOk(p), p.state = "SYN_SENT", StreamOk(p), p.snd_nxt > p.lastack, NEW w \in Nat
    PROVE  StreamOk([Window(Acked(p, 1), w) EXCEPT !.state = "ESTABLISHED"])
  <1> DEFINE x == Acked(p, 1)
             y == Window(x, w)
             q == [y EXCEPT !.state = "ESTABLISHED"]
  <1>0. ~Ended(p)  BY DEF Ended
  <1>1. /\ PcbOk(x) /\ x.state = p.state
        /\ x.unacked = Left(p.unacked, 1) /\ x.unsent = Left(p.unsent, 1)
        /\ x.lastack = 1 /\ x.snd_nxt = p.snd_nxt /\ x.snd_lbb = p.snd_lbb
    BY <1>0, AckedOk
  <1> HIDE DEF x
  <1>2. /\ y.unsent = x.unsent /\ y.unacked = x.unacked /\ y.snd_nxt = x.snd_nxt
        /\ y.snd_lbb = x.snd_lbb /\ y.lastack = x.lastack /\ y \in PcbType
    BY <1>1, WindowOk DEF PcbOk
  <1> HIDE DEF y
  <1>3. /\ q.unsent = y.unsent /\ q.unacked = y.unacked /\ q.snd_nxt = y.snd_nxt
        /\ q.snd_lbb = y.snd_lbb /\ q.lastack = y.lastack /\ q.state = "ESTABLISHED"
    BY <1>2 DEF PcbType
  <1> HIDE DEF q
  <1>4. p.unacked \in Queue /\ p.unsent \in Queue /\ p.lastack \in Nat /\ p.snd_nxt \in Nat
    BY PcbFields DEF PcbOk
  <1>5. PICK b \in Nat : \E m, e \in Nat : Span(p, b, m, e)  BY DEF StreamOk
  <1>6. PICK m \in Nat, e \in Nat : Span(p, b, m, e)  BY <1>5
  <1>7. /\ Tiles(p.unacked, b, m) /\ Tiles(p.unsent, m, e) /\ Reach(p, b, e)
        /\ b <= p.lastack /\ p.lastack <= e /\ e = 1 /\ p.snd_nxt <= e /\ e = p.snd_lbb
    BY <1>6 DEF Span, Reach
  <1>8. b <= 1 /\ m <= e /\ m <= 1
    <2>1. m <= e  BY <1>4, <1>7, TilesOrder
    <2> QED BY <1>4, <1>7, <2>1
  <1>9. Left(p.unacked, 1) = <<>>
    <2>1. \E c \in Nat : b <= 1 /\ m <= 1 => Left(p.unacked, 1) = <<>> /\ c = m
      BY <1>4, <1>7, TilesLeft
    <2> QED BY <1>8, <2>1
  <1>10. Left(p.unsent, 1) = <<>>
    <2>1. \E c \in Nat : m <= 1 /\ e <= 1 => Left(p.unsent, 1) = <<>> /\ c = e
      BY <1>4, <1>7, TilesLeft
    <2> QED BY <1>7, <1>8, <2>1
  <1>11. q.unacked = <<>> /\ q.unsent = <<>>
    BY <1>1, <1>2, <1>3, <1>9, <1>10
  <1>12. Tiles(q.unacked, 1, 1) /\ Tiles(q.unsent, 1, 1)
    BY <1>11, TilesNone
  <1>13. Reach(q, 1, 1)
    BY <1>1, <1>2, <1>3, <1>7 DEF Reach
  <1>14. Plain(q) /\ InWindow(q)
    BY <1>11, AllFew DEF Plain, InWindow
  <1>15. StreamOk(q)
    BY <1>12, <1>13, <1>14 DEF StreamOk, Span
  <1> QED BY <1>15 DEF q, y, x

-----------------------------------------------------------------------------
(* The stream through the steps.                                           *)

Flows(p) == ~Ended(p) => StreamOk(p)
StreamInv == Flows(pcb)

\* A step that leaves the stream alone.
LEMMA FlowSame ==
    ASSUME NEW p, NEW q, SameStream(p, q), Flows(p)
    PROVE  Flows(q)
  <1>1. q.state = p.state  BY DEF SameStream
  <1> QED BY <1>1, StreamSame DEF Flows, Ended

\* Flags, timers and acknowledgements leave it alone.
LEMMA FlowFlags ==
    ASSUME NEW p, PcbOk(p), Flows(p)
    PROVE  /\ Flows(NagleMemErr(p)) /\ Flows(tcp_ack_now(p)) /\ Flows(RxClosed(p))
           /\ Flows(tcp_recompute_timers(p)) /\ Flows(tcp_ack(p)) /\ Flows(retransmit_due(p))
  <1>1. p \in PcbType  BY DEF PcbOk
  <1>2. SameStream(p, NagleMemErr(p)) /\ SameStream(p, tcp_ack_now(p)) /\ SameStream(p, RxClosed(p))
    BY <1>1, FlagsCalm DEF Calm
  <1>3. SameStream(p, tcp_recompute_timers(p))  BY TimersOk
  <1>4. SameStream(p, tcp_ack(p))  BY <1>1, AckCalm DEF Calm
  <1>5. SameStream(p, retransmit_due(p))  BY RetransmitDueOk
  <1> QED BY <1>2, <1>3, <1>4, <1>5, FlowSame

\* tcp_output.
LEMMA FlowOutput ==
    ASSUME NEW p, PcbOk(p), Flows(p), NEW mem \in BOOLEAN
    PROVE  Flows(tcp_output(p, mem))
  <1> DEFINE q == tcp_output(p, mem)
  <1>1. q.state = p.state
    BY OutputOk DEF SameLimits
  <1>2. ~Ended(p) => StreamOk(q)
    BY OutputStream DEF Flows
  <1> HIDE DEF q
  <1>3. Flows(q)
    BY <1>1, <1>2 DEF Flows, Ended
  <1> QED BY <1>3 DEF q

\* A pcb that has ended has no stream.
LEMMA FlowEnd ==
    ASSUME NEW p, PcbOk(p)
    PROVE  Flows(Freed(p)) /\ Flows(TimeWait(p))
  BY EndOk DEF Flows, Ended

\* The stream at first is empty.
LEMMA InitStream == Init => StreamInv
  <1> SUFFICES ASSUME Init PROVE StreamInv
    OBVIOUS
  <1>1. pcb = tcp_alloc  BY DEF Init
  <1>2. /\ pcb.state = "CLOSED" /\ pcb.unsent = <<>> /\ pcb.unacked = <<>> /\ pcb.snd_lbb = 0
        /\ pcb.snd_nxt = 1 /\ pcb.lastack = 0 /\ pcb.snd_wnd_max = 0
    BY <1>1 DEF tcp_alloc
  <1>3. Tiles(pcb.unacked, 0, 0) /\ Tiles(pcb.unsent, 0, 0)
    BY <1>2, TilesNone
  <1>4. Reach(pcb, 0, 0)
    BY <1>2 DEF Reach
  <1>5. Plain(pcb) /\ InWindow(pcb)
    BY <1>2, AllFew DEF Plain, InWindow
  <1>6. 0 \in Nat  OBVIOUS
  <1>7. StreamOk(pcb)
    BY <1>3, <1>4, <1>5, <1>6 DEF StreamOk, Span
  <1> QED BY <1>7 DEF StreamInv, Flows

\* A step that ends in tcp_output.
LEMMA OutputFlow ==
    ASSUME NEW p, PcbOk(p), Flows(p), NEW mem \in BOOLEAN, Output(p, mem)
    PROVE  Flows(pcb')
  <1>1. pcb' = tcp_output(p, mem)  BY DEF Output
  <1> QED BY <1>1, FlowOutput

\* tcp_connect.
LEMMA ConnectFlow ==
    ASSUME Inv, StreamInv, NEW mem \in BOOLEAN, tcp_connect(mem)
    PROVE  Flows(pcb')
  <1> DEFINE w == tcp_enqueue_flags(pcb, {"SYN"}, mem)
             p == [w.pcb EXCEPT !.state = "SYN_SENT"]
  <1>1. /\ pcb.state = "CLOSED"
        /\ IF w.ok THEN Output(p, mem) ELSE pcb' = w.pcb /\ Quiet
    BY DEF tcp_connect
  <1>2. PcbOk(pcb) /\ ~Ended(pcb) /\ StreamOk(pcb)
    BY <1>1 DEF Inv, Conn, StreamInv, Flows, Ended
  <1>3. PcbOk(w.pcb) /\ SameMarks(pcb, w.pcb)
    BY <1>2, EnqueueOk
  <1>4. IF w.ok THEN StreamOk(p) ELSE StreamOk(w.pcb)
    BY <1>1, <1>2, ConnectStream
  <1> HIDE DEF w
  <1>5. CASE w.ok
    <2>1. PcbOk(p)
      <3>1. ~Ended(w.pcb)  BY <1>2, <1>3 DEF SameMarks, Ended
      <3>2. "SYN_SENT" \in States  BY DEF States
      <3> QED BY <1>3, <3>1, <3>2, StateOk
    <2>2. StreamOk(p) /\ Output(p, mem)  BY <1>1, <1>4, <1>5
    <2> HIDE DEF p
    <2>3. Flows(p)  BY <2>2 DEF Flows
    <2> QED BY <2>1, <2>2, <2>3, OutputFlow
  <1>6. CASE ~w.ok
    <2>1. pcb' = w.pcb /\ StreamOk(w.pcb)  BY <1>1, <1>4, <1>6
    <2> QED BY <2>1 DEF Flows
  <1> QED BY <1>5, <1>6

\* bsys_tcp_sendv.
LEMMA SendvFlow ==
    ASSUME Inv, StreamInv, NEW n \in Nat, NEW mem \in BOOLEAN, bsys_tcp_sendv(n, mem)
    PROVE  Flows(pcb')
  <1> DEFINE len == Min({n, pcb.snd_buf})
             w == tcp_write(pcb, len, mem)
  <1>1. /\ len > 0
        /\ IF w.ok THEN Output(w.pcb, mem) ELSE pcb' = w.pcb /\ Quiet
    BY DEF bsys_tcp_sendv
  <1>2. PcbOk(pcb) /\ Flows(pcb)
    BY DEF Inv, Conn, StreamInv
  <1>3. len \in Nat \ {0}
    <2>1. n \in Int /\ pcb.snd_buf \in Int  BY <1>2, PcbFields DEF PcbOk
    <2>2. len \in Int  BY <2>1, MinOfTwo
    <2> HIDE DEF len
    <2> QED BY <1>1, <2>2
  <1> HIDE DEF len
  <1>4. PcbOk(w.pcb) /\ w.pcb.state = pcb.state
    BY <1>2, <1>3, WriteOk DEF SameMarks
  <1>5. ~Ended(pcb) => StreamOk(w.pcb)
    BY <1>2, <1>3, WriteStream DEF Flows
  <1> HIDE DEF w
  <1>6. Flows(w.pcb)
    BY <1>4, <1>5 DEF Flows, Ended
  <1>7. Output(w.pcb, mem) \/ pcb' = w.pcb
    BY <1>1
  <1> QED BY <1>4, <1>6, <1>7, OutputFlow

\* A change of the receive window leaves the stream alone.
LEMMA ReceiveFlow ==
    ASSUME NEW p, PcbOk(p), Flows(p), NEW n \in Nat, NEW w \in Int, 0 <= w, p.right_edge <= n + w
    PROVE  LET q == tcp_update_rcv_ann_wnd([p EXCEPT !.rcv_nxt = n, !.rcv_wnd = w])
           IN  PcbOk(q) /\ Flows(q) /\ q.state = p.state
  <1> DEFINE q == tcp_update_rcv_ann_wnd([p EXCEPT !.rcv_nxt = n, !.rcv_wnd = w])
  <1>1. PcbOk(q) /\ SameStream(p, q)
    BY ReceiveOk
  <1> HIDE DEF q
  <1>2. PcbOk(q) /\ Flows(q) /\ q.state = p.state
    BY <1>1, FlowSame DEF SameStream
  <1> QED BY <1>2 DEF q

\* tcp_recved.
LEMMA RecvedFlow ==
    ASSUME Inv, StreamInv, NEW len \in Nat, NEW mem \in BOOLEAN, tcp_recved(len, mem)
    PROVE  Flows(pcb')
  <1> DEFINE p == [pcb EXCEPT !.rcv_wnd = @ + len]
             q == tcp_update_rcv_ann_wnd(p)
             x == pcb.rcv_wnd + len
  <1>1. Output(tcp_ack_now(q), mem) \/ pcb' = q
    BY DEF tcp_recved
  <1>2. PcbOk(pcb) /\ Flows(pcb) /\ pcb \in PcbType
    BY DEF Inv, Conn, PcbOk, StreamInv
  <1>3. /\ pcb.rcv_nxt \in Nat /\ pcb.rcv_wnd \in Int /\ pcb.right_edge \in Int
        /\ 0 <= pcb.rcv_wnd /\ pcb.right_edge <= pcb.rcv_nxt + pcb.rcv_wnd
    BY <1>2, PcbFields DEF PcbOk, Promise
  <1>4. x \in Int /\ 0 <= x /\ pcb.right_edge <= pcb.rcv_nxt + x
    BY <1>3
  <1>5. p = [pcb EXCEPT !.rcv_nxt = pcb.rcv_nxt, !.rcv_wnd = x]
    BY <1>2 DEF PcbType
  <1> HIDE DEF x, p
  <1>6. PcbOk(q) /\ Flows(q)
    BY <1>2, <1>3, <1>4, <1>5, ReceiveFlow
  <1> HIDE DEF q
  <1>7. PcbOk(tcp_ack_now(q)) /\ Flows(tcp_ack_now(q))
    BY <1>6, AckNowOk, FlowFlags
  <1> QED BY <1>1, <1>6, <1>7, OutputFlow

\* tcp_close_shutdown.
LEMMA CloseShutdownFlow ==
    ASSUME NEW p, PcbOk(p), Flows(p), NEW rst \in BOOLEAN, NEW mem \in BOOLEAN,
           tcp_close_shutdown(p, rst, mem)
    PROVE  Flows(pcb')
  <1>1. Flows(Freed(p)) /\ Flows(TimeWait(p))
    BY FlowEnd
  <1>2. CASE pcb' \in {Freed(p), TimeWait(p)}
    BY <1>1, <1>2
  <1>3. CASE pcb' = p
    BY <1>3
  <1>4. CASE p.state \in DOMAIN AfterFin /\
             (LET w == tcp_send_fin(p, mem)
              IN  IF w.ok THEN Output([w.pcb EXCEPT !.state = AfterFin[p.state]], mem)
                  ELSE pcb' = w.pcb /\ Quiet)
    <2> DEFINE w == tcp_send_fin(p, mem)
               s == AfterFin[p.state]
               r == [w.pcb EXCEPT !.state = s]
    <2>1. /\ p.state \in {"ESTABLISHED", "CLOSE_WAIT"} /\ ~Ended(p)
          /\ s \in {"FIN_WAIT_1", "LAST_ACK"}
      <3>1. p.state \in {"SYN_RCVD", "ESTABLISHED", "CLOSE_WAIT"}  BY <1>4 DEF AfterFin
      <3>2. p.state \in States  BY PcbFields DEF PcbOk
      <3>3. p.state \in {"ESTABLISHED", "CLOSE_WAIT"}  BY <3>1, <3>2 DEF States
      <3> QED BY <3>3 DEF AfterFin, Ended
    <2> HIDE DEF s
    <2>2. IF w.ok THEN Output(r, mem) ELSE pcb' = w.pcb /\ Quiet
      BY <1>4 DEF s
    <2>3. StreamOk(p)  BY <2>1 DEF Flows
    <2>4. s \in States \ {"CLOSED", "SYN_SENT", "ESTABLISHED", "CLOSE_WAIT"} /\ s \in States
      BY <2>1 DEF States
    <2>5. PcbOk(w.pcb) /\ w.pcb.state = p.state
      BY <2>1, FinOk DEF SameMarks
    <2>6. IF w.ok THEN StreamOk(r) ELSE StreamOk(w.pcb)
      BY <2>1, <2>3, <2>4, FinStream
    <2> HIDE DEF w
    <2>7. CASE w.ok
      <3>1. ~Ended(w.pcb)  BY <2>1, <2>5 DEF Ended
      <3>2. PcbOk(r)  BY <2>4, <2>5, <3>1, StateOk
      <3>3. StreamOk(r) /\ Output(r, mem)  BY <2>2, <2>6, <2>7
      <3> HIDE DEF r
      <3>4. Flows(r)  BY <3>3 DEF Flows
      <3> QED BY <3>2, <3>3, <3>4, OutputFlow
    <2>8. CASE ~w.ok
      <3>1. pcb' = w.pcb /\ StreamOk(w.pcb)  BY <2>2, <2>6, <2>8
      <3> QED BY <3>1 DEF Flows
    <2> QED BY <2>7, <2>8
  <1>5. \/ pcb' \in {Freed(p), TimeWait(p)}
        \/ pcb' = p
        \/ p.state \in DOMAIN AfterFin /\
             (LET w == tcp_send_fin(p, mem)
              IN  IF w.ok THEN Output([w.pcb EXCEPT !.state = AfterFin[p.state]], mem)
                  ELSE pcb' = w.pcb /\ Quiet)
    <2>1. CASE ResetInstead(p, rst)
      <3>1. pcb' = (IF p.state = "ESTABLISHED" THEN TimeWait(p) ELSE Freed(p)) /\ Quiet
        BY <2>1 DEF tcp_close_shutdown
      <3> QED BY <3>1
    <2>2. CASE ~ResetInstead(p, rst) /\ p.state \in {"CLOSED", "SYN_SENT"}
      <3>1. pcb' = Freed(p) /\ Quiet
        BY <2>2 DEF tcp_close_shutdown
      <3> QED BY <3>1
    <2>3. CASE ~ResetInstead(p, rst) /\ p.state \notin {"CLOSED", "SYN_SENT"} /\ p.state \in DOMAIN AfterFin
      BY <2>3 DEF tcp_close_shutdown
    <2>4. CASE ~ResetInstead(p, rst) /\ p.state \notin {"CLOSED", "SYN_SENT"} /\ p.state \notin DOMAIN AfterFin
      <3>1. pcb' = p /\ Quiet
        BY <2>4 DEF tcp_close_shutdown
      <3> QED BY <3>1
    <2> QED BY <2>1, <2>2, <2>3, <2>4
  <1> QED BY <1>2, <1>3, <1>4, <1>5

\* tcp_close and tcp_shutdown.
LEMMA CloseFlow ==
    ASSUME Inv, StreamInv, NEW rx \in BOOLEAN, NEW tx \in BOOLEAN, NEW mem \in BOOLEAN,
           tcp_close(mem) \/ tcp_shutdown(rx, tx, mem)
    PROVE  Flows(pcb')
  <1>1. PcbOk(pcb) /\ Flows(pcb)
    BY DEF Inv, Conn, StreamInv
  <1>2. Flows(RxClosed(pcb))
    BY <1>1, FlowFlags
  <1>3. CASE tcp_close(mem)
    <2>1. tcp_close_shutdown(RxClosed(pcb), TRUE, mem)
      BY <1>3 DEF tcp_close
    <2>2. PcbOk(RxClosed(pcb))
      BY <1>1, FlagsCalm, CalmOk DEF PcbOk
    <2> QED BY <1>2, <2>1, <2>2, CloseShutdownFlow
  <1>4. CASE tcp_shutdown(rx, tx, mem)
    <2>1. \/ tcp_close_shutdown(pcb, FALSE, mem)
          \/ pcb' = RxClosed(pcb)
          \/ pcb' = pcb
      BY <1>4 DEF tcp_shutdown
    <2> QED BY <1>1, <1>2, <2>1, CloseShutdownFlow
  <1> QED BY <1>3, <1>4

\* The delayed acknowledgement.
LEMMA DelayedAckFlow ==
    ASSUME NEW p, PcbOk(p), Flows(p), NEW mem \in BOOLEAN
    PROVE  Flows(delayed_ack_due(p, mem))
  <1> DEFINE r == tcp_output(tcp_ack_now(p), mem)
             f == r.flags \ {"ACK_NOW"}
             q == [r EXCEPT !.flags = f, !.delack = FALSE]
  <1>1. PcbOk(tcp_ack_now(p)) /\ Flows(tcp_ack_now(p))
    BY AckNowOk, FlowFlags
  <1>2. PcbOk(r) /\ r \in PcbType
    BY <1>1, OutputOk DEF PcbOk
  <1>3. Flows(r)
    BY <1>1, FlowOutput
  <1>4. delayed_ack_due(p, mem) = q
    BY DEF delayed_ack_due
  <1> HIDE DEF r, f
  <1>5. SameStream(r, q)
    BY <1>2 DEF SameStream, PcbType
  <1> HIDE DEF q
  <1>6. Flows(q)
    BY <1>3, <1>5, FlowSame
  <1> QED BY <1>4, <1>6

\* A retransmission of everything.
LEMMA RexmitRtoFlow ==
    ASSUME NEW p, PcbOk(p), Flows(p), NEW mem \in BOOLEAN
    PROVE  Flows(tcp_rexmit_rto(p, mem))
  <1> DEFINE r == requeue_unacked(p)
  <1>1. CASE p.unacked = <<>>
    <2>1. tcp_rexmit_rto(p, mem) = p  BY <1>1 DEF tcp_rexmit_rto
    <2> QED BY <2>1
  <1>2. CASE p.unacked # <<>>
    <2>1. tcp_rexmit_rto(p, mem) = tcp_output(r, mem)  BY <1>2 DEF tcp_rexmit_rto
    <2>2. PcbOk(r) /\ r.state = p.state
      BY RequeueOk DEF SameMarks
    <2>3. ~Ended(p) => StreamOk(r)
      BY RequeueStream DEF Flows
    <2> HIDE DEF r
    <2>4. Flows(r)  BY <2>2, <2>3 DEF Flows, Ended
    <2> QED BY <2>1, <2>2, <2>4, FlowOutput
  <1> QED BY <1>1, <1>2

\* tcp_unified_timer_handler.
LEMMA TimerFlow ==
    ASSUME Inv, StreamInv, NEW due \in SUBSET {"delack", "rexmit", "persist"}, NEW mem \in BOOLEAN,
           tcp_unified_timer_handler(due, mem)
    PROVE  Flows(pcb')
  <1> DEFINE ack == "delack" \in due
             p == IF ack THEN delayed_ack_due(pcb, mem) ELSE pcb
             late == "rexmit" \in due /\ ~(ack /\ CanSend(tcp_ack_now(pcb)))
             again == late /\ p.unacked # <<>> /\ p.snd_wnd > 0
             rtx == retransmit_due(p)
             keep == p.rexmit /\ ~(late /\ p.unacked = <<>>)
             q == [p EXCEPT !.rexmit = keep]
             r == IF "persist" \in due THEN tcp_zero_window_probe(q, mem) ELSE q
             last == IF again THEN tcp_rexmit_rto(rtx, mem) ELSE r
  <1>1. pcb' = Freed(p) \/ \E active \in BOOLEAN : pcb' = [last EXCEPT !.hrt = active]
    <2>1. IF again /\ GivesUp(p)
          THEN pcb' = Freed(p) /\ hung' = TRUE
          ELSE /\ \E active \in IF again THEN {FALSE} ELSE BOOLEAN :
                      pcb' = [last EXCEPT !.hrt = active]
               /\ hung' \in IF AnyTimer(last)
                               /\ (again => \/ ack /\ Sends(tcp_ack_now(pcb), mem)
                                            \/ again /\ Sends(requeue_unacked(rtx), mem))
                            THEN BOOLEAN ELSE {FALSE}
      BY Zenon DEF tcp_unified_timer_handler
    <2> HIDE DEF ack, p, late, again, rtx, q, r, last
    <2> QED BY <2>1
  <1>2. PcbOk(pcb) /\ Flows(pcb)
    BY DEF Inv, Conn, StreamInv
  <1>3. PcbOk(p) /\ Flows(p)
    <2>1. CASE ack  BY <1>2, <2>1, DelayedAckOk, DelayedAckFlow
    <2>2. CASE ~ack  BY <1>2, <2>2
    <2> QED BY <2>1, <2>2
  <1> HIDE DEF ack, p, late
  <1>4. PcbOk(rtx) /\ Flows(rtx)
    BY <1>3, RetransmitDueOk, FlowFlags
  <1>5. PcbOk(q) /\ Flows(q)
    <2>1. keep \in BOOLEAN
      <3>1. p.rexmit \in BOOLEAN  BY <1>3, PcbFields DEF PcbOk
      <3> QED BY <3>1
    <2> HIDE DEF keep
    <2>2. PcbOk(q) /\ SameStream(p, q)
      BY <1>3, <2>1, TimerChangeOk
    <2> HIDE DEF q
    <2> QED BY <1>3, <2>2, FlowSame
  <1> HIDE DEF q, rtx
  <1>6. PcbOk(r) /\ Flows(r)
    <2>1. CASE "persist" \in due
      <3> DEFINE z == tcp_zero_window_probe(q, mem)
      <3>1. Calm(q, z)
        BY <1>5, ProbeCalm DEF PcbOk
      <3> HIDE DEF z
      <3>2. PcbOk(z) /\ Flows(z)
        BY <1>5, <3>1, CalmOk, FlowSame DEF Calm
      <3>3. r = z  BY <2>1 DEF z
      <3> QED BY <3>2, <3>3
    <2>2. CASE "persist" \notin due
      BY <1>5, <2>2
    <2> QED BY <2>1, <2>2
  <1> HIDE DEF r
  <1>7. PcbOk(last) /\ Flows(last)
    <2>1. CASE again
      <3>1. last = tcp_rexmit_rto(rtx, mem)  BY <2>1
      <3> HIDE DEF last
      <3> QED BY <1>4, <3>1, RexmitRtoOk, RexmitRtoFlow
    <2>2. CASE ~again
      <3>1. last = r  BY <2>2
      <3> HIDE DEF last
      <3> QED BY <1>6, <3>1
    <2> QED BY <2>1, <2>2
  <1> HIDE DEF last, again
  <1>8. CASE pcb' = Freed(p)
    BY <1>3, <1>8, FlowEnd
  <1>9. CASE \E active \in BOOLEAN : pcb' = [last EXCEPT !.hrt = active]
    <2>1. PICK active \in BOOLEAN : pcb' = [last EXCEPT !.hrt = active]
      BY <1>9
    <2> DEFINE z == [last EXCEPT !.hrt = active]
    <2>2. SameStream(last, z)
      BY <1>7, TimerChangeOk
    <2>3. pcb' = z  BY <2>1
    <2> HIDE DEF z
    <2> QED BY <1>7, <2>2, <2>3, FlowSame
  <1> QED BY <1>1, <1>8, <1>9

\* The SYN-ACK of the peer.
LEMMA SynAckedFlow ==
    ASSUME Inv, StreamInv, NEW w \in PeerWnds, NEW mem \in BOOLEAN, SynAcked(w, mem)
    PROVE  Flows(pcb')
  <1> DEFINE p == Window(Acked(pcb, 1), w)
             e == [p EXCEPT !.state = "ESTABLISHED"]
             r == tcp_recompute_timers(e)
             q == tcp_ack_now(r)
  <1>1. pcb.state = "SYN_SENT" /\ pcb.snd_nxt > pcb.lastack /\ Output(q, mem)
    BY DEF SynAcked
  <1>2. PcbOk(pcb) /\ ~Ended(pcb) /\ StreamOk(pcb) /\ w \in Nat
    BY <1>1, PeerWndsAre DEF Inv, Conn, StreamInv, Flows, Ended
  <1>3. StreamOk(e)
    BY <1>1, <1>2, SynAckedStream
  <1>4. PcbOk(p) /\ ~Ended(p)
    <2>1. PcbOk(p) /\ p.state = pcb.state
      <3>1. 1 \in Nat  OBVIOUS
      <3> QED BY <1>2, <3>1, AckedWindowOk
    <2> HIDE DEF p
    <2> QED BY <1>1, <2>1 DEF Ended
  <1> HIDE DEF p
  <1>5. PcbOk(e) /\ Flows(e)
    <2>1. "ESTABLISHED" \in States  BY DEF States
    <2>2. PcbOk(e)  BY <1>4, <2>1, StateOk
    <2> HIDE DEF e
    <2> QED BY <1>3, <2>2 DEF Flows
  <1> HIDE DEF e
  <1>6. PcbOk(r) /\ Flows(r)
    BY <1>5, TimersOk, FlowFlags
  <1> HIDE DEF r
  <1>7. PcbOk(q) /\ Flows(q)
    BY <1>6, AckNowOk, FlowFlags
  <1> HIDE DEF q
  <1> QED BY <1>1, <1>7, OutputFlow

\* What follows the acknowledgement of the FIN.
LEMMA AfterFinAckFlow ==
    ASSUME NEW p, PcbOk(p), Flows(p), p.state \notin {"CLOSED", "SYN_SENT"}, NEW a
    PROVE  Flows(AfterFinAck(p, a))
  <1> DEFINE q == AfterFinAck(p, a)
             r == [p EXCEPT !.state = "FIN_WAIT_2"]
  <1>1. q = p \/ (q = r /\ p.state = "FIN_WAIT_1") \/ q = TimeWait(p) \/ q = Freed(p)
    <2>1. CASE "FIN" \notin p.flags \/ a < p.snd_nxt \/ p.unsent # <<>>
      BY <2>1 DEF AfterFinAck
    <2>2. CASE ~("FIN" \notin p.flags \/ a < p.snd_nxt \/ p.unsent # <<>>)
      <3>1. q = CASE p.state = "FIN_WAIT_1" -> r
                  [] p.state = "CLOSING" -> TimeWait(p)
                  [] p.state = "LAST_ACK" -> Freed(p)
                  [] OTHER -> p
        BY <2>2 DEF AfterFinAck
      <3>2. CASE p.state = "FIN_WAIT_1"  BY <3>1, <3>2
      <3>3. CASE p.state = "CLOSING"  BY <3>1, <3>3
      <3>4. CASE p.state = "LAST_ACK"  BY <3>1, <3>4
      <3>5. CASE p.state \notin {"FIN_WAIT_1", "CLOSING", "LAST_ACK"}  BY <3>1, <3>5
      <3> QED BY <3>2, <3>3, <3>4, <3>5
    <2> QED BY <2>1, <2>2
  <1>2. p.state = "FIN_WAIT_1" => Flows(r)
    <2> SUFFICES ASSUME p.state = "FIN_WAIT_1" PROVE Flows(r)
      OBVIOUS
    <2>1. StreamOk(p) /\ p \in PcbType  BY DEF Flows, Ended, PcbOk
    <2>2. "FIN_WAIT_2" \in States \ {"CLOSED", "SYN_SENT", "ESTABLISHED"}  BY DEF States
    <2>3. StreamOk(r)  BY <2>1, <2>2, StateStream
    <2> HIDE DEF r
    <2> QED BY <2>3 DEF Flows
  <1> HIDE DEF r
  <1>3. Flows(q)
    <2> HIDE DEF q
    <2> QED BY <1>1, <1>2, FlowEnd
  <1> QED BY <1>3

\* An acknowledgement arrives.
LEMMA AckArrivesFlow ==
    ASSUME ~MayShrink, Inv, StreamInv, NEW a \in Nat, NEW w \in PeerWnds, NEW mem \in BOOLEAN,
           AckArrives(a, w, mem)
    PROVE  Flows(pcb')
  <1> DEFINE x == Window(Acked(pcb, a), w)
             y == tcp_recompute_timers(x)
             p == AfterFinAck(y, a)
  <1>1. /\ pcb.state \notin {"CLOSED", "SYN_SENT", "FREE", "TIME_WAIT"}
        /\ a > pcb.lastack /\ a <= pcb.snd_nxt /\ a + w >= pcb.lastack + pcb.snd_wnd
        /\ pcb' = p \/ Output(p, mem)
    BY DEF AckArrives, Sequenced, Announces
  <1>2. PcbOk(pcb) /\ ~Ended(pcb) /\ StreamOk(pcb) /\ w \in Nat
    BY <1>1, PeerWndsAre DEF Inv, Conn, StreamInv, Flows, Ended
  <1>3. pcb.lastack \in Nat
    BY <1>2, PcbFields DEF PcbOk
  <1>4. StreamOk(x)
    <2>1. a >= pcb.lastack  BY <1>1, <1>3
    <2> QED BY <1>1, <1>2, <2>1, AckedStream
  <1>5. PcbOk(x) /\ x.state = pcb.state
    BY <1>2, AckedWindowOk
  <1> HIDE DEF x
  <1>6. PcbOk(y) /\ y.state = pcb.state /\ Flows(y)
    <2>1. Flows(x)  BY <1>4 DEF Flows
    <2> QED BY <1>5, <2>1, TimersOk, FlowFlags DEF SameStream
  <1> HIDE DEF y
  <1>7. PcbOk(p)
    <2>1. ~Ended(y)  BY <1>1, <1>6 DEF Ended
    <2> QED BY <1>6, <2>1, AfterFinAckOk
  <1>8. Flows(p)
    <2>1. y.state \notin {"CLOSED", "SYN_SENT"}  BY <1>1, <1>6
    <2> QED BY <1>6, <2>1, AfterFinAckFlow
  <1> HIDE DEF p
  <1> QED BY <1>1, <1>7, <1>8, OutputFlow

\* A window arrives.
LEMMA WindowArrivesFlow ==
    ASSUME ~MayShrink, Inv, StreamInv, NEW w \in PeerWnds, NEW mem \in BOOLEAN, WindowArrives(w, mem)
    PROVE  Flows(pcb')
  <1> DEFINE x == Window(pcb, w)
             p == tcp_recompute_timers(x)
  <1>1. /\ pcb.state \notin {"CLOSED", "SYN_SENT", "FREE", "TIME_WAIT"}
        /\ pcb.lastack + w >= pcb.lastack + pcb.snd_wnd
        /\ Output(p, mem)
    BY DEF WindowArrives, Sequenced, Announces
  <1>2. PcbOk(pcb) /\ ~Ended(pcb) /\ StreamOk(pcb) /\ w \in Nat
    BY <1>1, PeerWndsAre DEF Inv, Conn, StreamInv, Flows, Ended
  <1>3. w >= pcb.snd_wnd
    <2>1. pcb.lastack \in Nat /\ pcb.snd_wnd \in Nat  BY <1>2, PcbFields DEF PcbOk
    <2> QED BY <1>1, <1>2, <2>1
  <1>4. StreamOk(x)
    BY <1>1, <1>2, <1>3, WindowStream
  <1>5. PcbOk(x)
    BY <1>2, WindowOk
  <1> HIDE DEF x
  <1>6. PcbOk(p) /\ Flows(p)
    <2>1. Flows(x)  BY <1>4 DEF Flows
    <2> QED BY <1>5, <2>1, TimersOk, FlowFlags
  <1> HIDE DEF p
  <1> QED BY <1>1, <1>6, OutputFlow

\* The third duplicate acknowledgement.
LEMMA ThirdDupAckFlow ==
    ASSUME MaxCwnd >= MSS, Inv, StreamInv, NEW mem \in BOOLEAN, ThirdDupAck(mem)
    PROVE  Flows(pcb')
  <1>1. pcb' = tcp_output(tcp_rexmit_fast(pcb), mem) /\ pcb.state \notin {"FREE", "TIME_WAIT"}
    BY DEF ThirdDupAck, Output, Sequenced
  <1>2. PcbOk(pcb) /\ ~Ended(pcb) /\ StreamOk(pcb)
    BY <1>1 DEF Inv, Conn, StreamInv, Flows, Ended
  <1>3. StreamOk(pcb')
    BY <1>1, <1>2, FastStream
  <1> QED BY <1>3 DEF Flows

\* Data arrive.
LEMMA DataArrivesFlow ==
    ASSUME Inv, StreamInv, NEW n \in Nat, NEW mem \in BOOLEAN, DataArrives(n, mem)
    PROVE  Flows(pcb')
  <1> DEFINE x == [pcb EXCEPT !.rcv_nxt = @ + n, !.rcv_wnd = @ - n]
             y == tcp_update_rcv_ann_wnd(x)
             q == tcp_ack(y)
             a == pcb.rcv_nxt + n
             b == pcb.rcv_wnd - n
  <1>1. a <= Min({pcb.right_edge, MaxRcv}) /\ pcb' = tcp_output(q, mem)
    BY DEF DataArrives
  <1>2. PcbOk(pcb) /\ Flows(pcb) /\ pcb \in PcbType
    BY DEF Inv, Conn, PcbOk, StreamInv
  <1>3. /\ pcb.rcv_nxt \in Nat /\ pcb.rcv_wnd \in Int /\ pcb.right_edge \in Int /\ MaxRcv \in Int
        /\ pcb.right_edge <= pcb.rcv_nxt + pcb.rcv_wnd
    BY <1>2, PcbFields, SizeAssumption DEF PcbOk, Promise
  <1>4. a <= pcb.right_edge
    <2> DEFINE m == Min({pcb.right_edge, MaxRcv})
    <2>1. m \in Int /\ m <= pcb.right_edge  BY <1>3, MinOfTwo
    <2>2. a <= m  BY <1>1
    <2> HIDE DEF m
    <2> QED BY <1>3, <2>1, <2>2
  <1>5. a \in Nat /\ b \in Int /\ 0 <= b /\ pcb.right_edge <= a + b
    BY <1>3, <1>4
  <1>6. x = [pcb EXCEPT !.rcv_nxt = a, !.rcv_wnd = b]
    OBVIOUS
  <1> HIDE DEF x, a, b
  <1>7. PcbOk(y) /\ Flows(y)
    BY <1>2, <1>5, <1>6, ReceiveFlow
  <1> HIDE DEF y
  <1>8. PcbOk(q) /\ Flows(q)
    <2>1. Calm(y, q)  BY <1>7, AckCalm DEF PcbOk
    <2>2. Flows(q)  BY <1>7, FlowFlags
    <2> HIDE DEF q
    <2> QED BY <1>7, <2>1, <2>2, CalmOk
  <1> HIDE DEF q
  <1> QED BY <1>1, <1>8, FlowOutput

\* A FIN arrives.
LEMMA FinArrivesFlow ==
    ASSUME Inv, StreamInv, NEW mem \in BOOLEAN, FinArrives(mem)
    PROVE  Flows(pcb')
  <1> DEFINE s == CASE pcb.state = "ESTABLISHED" -> "CLOSE_WAIT"
                    [] pcb.state = "FIN_WAIT_1" -> "CLOSING"
                    [] OTHER -> "TIME_WAIT"
             x == [pcb EXCEPT !.state = s]
             q == tcp_ack_now(x)
  <1>1. /\ pcb.state \in {"ESTABLISHED", "FIN_WAIT_1", "FIN_WAIT_2"}
        /\ pcb' = tcp_output(q, mem)
    BY DEF FinArrives
  <1>2. PcbOk(pcb) /\ ~Ended(pcb) /\ StreamOk(pcb) /\ pcb \in PcbType
    BY <1>1 DEF Inv, Conn, StreamInv, Flows, Ended, PcbOk
  <1>3. /\ s \in {"CLOSE_WAIT", "CLOSING", "TIME_WAIT"}
        /\ s = "CLOSE_WAIT" => pcb.state = "ESTABLISHED"
    BY <1>1
  <1> HIDE DEF s
  <1>4. s \in States \ {"CLOSED", "SYN_SENT", "ESTABLISHED"} /\ s \in States
    BY <1>3 DEF States
  <1>5. StreamOk(x)
    BY <1>1, <1>2, <1>3, <1>4, StateStream
  <1>6. PcbOk(x)
    BY <1>2, <1>4, StateOk
  <1> HIDE DEF x
  <1>7. PcbOk(q) /\ Flows(q)
    <2>1. Flows(x)  BY <1>5 DEF Flows
    <2> QED BY <1>6, <2>1, AckNowOk, FlowFlags
  <1> HIDE DEF q
  <1> QED BY <1>1, <1>7, FlowOutput

\* Every step keeps the stream.
LEMMA NextStream ==
    ASSUME ~MayShrink, MaxCwnd >= MSS, Inv, StreamInv, [Next]_vars
    PROVE  StreamInv'
  <1>0. pcb.snd_nxt \in Nat
    BY PcbFields DEF Inv, Conn, PcbOk
  <1> SUFFICES Flows(pcb')
    BY DEF StreamInv
  <1>1. CASE UNCHANGED vars
    <2>1. pcb' = pcb  BY <1>1 DEF vars
    <2> QED BY <2>1 DEF StreamInv
  <1>2. ASSUME NEW mem \in BOOLEAN, tcp_connect(mem) PROVE Flows(pcb')
    BY <1>2, ConnectFlow
  <1>3. ASSUME NEW mem \in BOOLEAN, NEW n \in 1..MaxBytes, bsys_tcp_sendv(n, mem) PROVE Flows(pcb')
    <2>1. n \in Nat  BY SizeAssumption
    <2> QED BY <1>3, <2>1, SendvFlow
  <1>4. ASSUME NEW mem \in BOOLEAN, NEW n \in 1..TcpWnd, tcp_recved(n, mem) PROVE Flows(pcb')
    <2>1. n \in Nat  BY SizeAssumption
    <2> QED BY <1>4, <2>1, RecvedFlow
  <1>5. ASSUME NEW mem \in BOOLEAN, tcp_close(mem) PROVE Flows(pcb')
    <2>1. TRUE \in BOOLEAN  OBVIOUS
    <2> QED BY <1>5, <2>1, CloseFlow
  <1>6. ASSUME NEW mem \in BOOLEAN, NEW rx \in BOOLEAN, NEW tx \in BOOLEAN, tcp_shutdown(rx, tx, mem)
        PROVE  Flows(pcb')
    BY <1>6, CloseFlow
  <1>7. ASSUME NEW mem \in BOOLEAN, NEW due \in SUBSET {"delack", "rexmit", "persist"},
               tcp_unified_timer_handler(due, mem)
        PROVE  Flows(pcb')
    BY <1>7, TimerFlow
  <1>8. ASSUME NEW mem \in BOOLEAN, NEW w \in PeerWnds, SynAcked(w, mem) PROVE Flows(pcb')
    BY <1>8, SynAckedFlow
  <1>9. ASSUME NEW mem \in BOOLEAN, NEW a \in 1..pcb.snd_nxt, NEW w \in PeerWnds, AckArrives(a, w, mem)
        PROVE  Flows(pcb')
    <2>1. a \in Nat  BY <1>0
    <2> QED BY <1>9, <2>1, AckArrivesFlow
  <1>10. ASSUME NEW mem \in BOOLEAN, NEW w \in PeerWnds, WindowArrives(w, mem) PROVE Flows(pcb')
    BY <1>10, WindowArrivesFlow
  <1>11. ASSUME NEW mem \in BOOLEAN, ThirdDupAck(mem) PROVE Flows(pcb')
    BY <1>11, ThirdDupAckFlow
  <1>12. ASSUME NEW mem \in BOOLEAN, NEW n \in 1..MaxRcv, DataArrives(n, mem) PROVE Flows(pcb')
    <2>1. n \in Nat  BY SizeAssumption
    <2> QED BY <1>12, <2>1, DataArrivesFlow
  <1>13. ASSUME NEW mem \in BOOLEAN, FinArrives(mem) PROVE Flows(pcb')
    BY <1>13, FinArrivesFlow
  <1> HIDE DEF Inv, StreamInv
  <1> QED BY <1>1, <1>2, <1>3, <1>4, <1>5, <1>6, <1>7, <1>8, <1>9, <1>10, <1>11, <1>12, <1>13, Zenon
          DEF Next

\* Of segments that follow each other, none empty, exactly one holds n.
LEMMA OneHolds ==
    ASSUME NEW q \in Queue, NEW b \in Nat, NEW e \in Nat, Tiles(q, b, e), NEW w, SegsOk(q, w),
           NEW n \in Nat, b <= n, n < e
    PROVE  Cardinality({i \in DOMAIN q : q[i].seq <= n /\ n < End(q[i])}) = 1
  <1> DEFINE k == Len(q)
             f == FirstLeft(q, n)
             T == {i \in DOMAIN q : q[i].seq <= n /\ n < End(q[i])}
  <1>1. k \in Nat /\ DOMAIN q = 1..k
    <2> HIDE DEF SegType
    <2> QED BY DEF Queue
  <1>2. /\ f \in 1..k + 1
        /\ \A j \in 1..f - 1 : End(q[j]) <= n
        /\ f <= k => End(q[f]) > n
    <2> HIDE DEF SegType
    <2> QED BY LeftSplits DEF Queue
  <1>3. \A i \in 1..k : /\ q[i].seq \in Nat /\ End(q[i]) \in Nat
                        /\ b <= q[i].seq /\ q[i].seq < End(q[i]) /\ End(q[i]) <= e
    BY RowIs
  <1>4. \A i, j \in 1..k : i < j => End(q[i]) <= q[j].seq
    BY TilesOrder
  <1>5. /\ \A i \in 1..k - 1 : q[i + 1].seq = End(q[i])
        /\ k = 0 => b = e
        /\ k > 0 => q[1].seq = b /\ End(q[k]) = e
    BY DEF Tiles
  <1> HIDE DEF k, f
  <1>6. f <= k
    <2> SUFFICES ASSUME f = k + 1 PROVE FALSE
      BY <1>1, <1>2
    <2>1. k > 0
      BY <1>1, <1>5
    <2>2. k \in 1..f - 1
      BY <1>1, <2>1
    <2>3. End(q[k]) <= n /\ End(q[k]) = e
      BY <1>2, <1>5, <2>1, <2>2
    <2> QED BY <2>3
  <1>7. f \in 1..k
    BY <1>1, <1>2, <1>6
  <1>8. q[f].seq <= n
    <2>1. CASE f = 1
      <3>1. k > 0  BY <1>1, <1>7
      <3>2. q[1].seq = b  BY <1>5, <3>1
      <3> QED BY <2>1, <3>2
    <2>2. CASE f > 1
      <3> DEFINE j == f - 1
      <3>1. j \in 1..k - 1 /\ j \in 1..f - 1 /\ j + 1 = f  BY <1>1, <1>7, <2>2
      <3> HIDE DEF j
      <3>2. End(q[j]) <= n /\ q[j + 1].seq = End(q[j])  BY <1>2, <1>5, <3>1
      <3> QED BY <3>1, <3>2
    <2>3. f = 1 \/ f > 1  BY <1>1, <1>7
    <2> QED BY <2>1, <2>2, <2>3
  <1>9. f \in T
    <2>1. End(q[f]) > n /\ End(q[f]) \in Nat  BY <1>2, <1>3, <1>6, <1>7
    <2>2. n < End(q[f])  BY <2>1
    <2> QED BY <1>1, <1>7, <1>8, <2>2
  <1>10. ASSUME NEW i \in T PROVE i = f
    <2>1. i \in 1..k /\ q[i].seq <= n /\ n < End(q[i])  BY <1>1
    <2>2. q[i].seq \in Nat /\ End(q[i]) \in Nat /\ q[f].seq \in Nat /\ End(q[f]) \in Nat
      BY <1>3, <1>7, <2>1
    <2>3. ~(i < f)
      <3> SUFFICES ASSUME i < f PROVE FALSE
        OBVIOUS
      <3>1. End(q[i]) <= q[f].seq  BY <1>4, <1>7, <2>1
      <3> QED BY <1>8, <2>1, <2>2, <3>1
    <2>4. ~(f < i)
      <3> SUFFICES ASSUME f < i PROVE FALSE
        OBVIOUS
      <3>1. End(q[f]) <= q[i].seq  BY <1>4, <1>7, <2>1
      <3>2. End(q[f]) > n  BY <1>2, <1>6
      <3> QED BY <2>1, <2>2, <3>1, <3>2
    <2> QED BY <1>1, <1>7, <2>1, <2>3, <2>4
  <1>11. T = {f}
    <2> HIDE DEF T
    <2> QED BY <1>9, <1>10
  <1>12. Cardinality({f}) = 1
    BY FS_Singleton
  <1> HIDE DEF T
  <1>13. Cardinality(T) = 1
    BY <1>11, <1>12
  <1> QED BY <1>13 DEF T

\* Such segments are in ascending order.
LEMMA RowAscends ==
    ASSUME NEW q \in Queue, NEW b \in Nat, NEW e \in Nat, Tiles(q, b, e), NEW w, SegsOk(q, w)
    PROVE  Ascending(q)
  <1>1. Len(q) \in Nat  BY DEF Queue
  <1>2. ASSUME NEW i \in 1..Len(q) - 1 PROVE q[i].seq < q[i + 1].seq
    <2>1. i \in 1..Len(q)  BY <1>1
    <2>2. q[i].seq < End(q[i])  BY <2>1, RowIs
    <2>3. q[i + 1].seq = End(q[i])  BY DEF Tiles
    <2> QED BY <2>2, <2>3
  <1> QED BY <1>2 DEF Ascending

\* The invariant of the stream says that every byte is queued once.
LEMMA StreamIsKept ==
    ASSUME Inv, StreamInv, Alive
    PROVE  /\ \A n \in pcb.lastack .. pcb.snd_lbb - 1 :
                 Cardinality({i \in DOMAIN Queued : Queued[i].seq <= n /\ n < End(Queued[i])}) = 1
           /\ \A s \in ToSet(Queued) : s.data = Bytes(s.seq, s.seq + Len(s.data))
           /\ Ascending(pcb.unacked) /\ Ascending(pcb.unsent)
  <1> DEFINE U == pcb.unacked
             V == pcb.unsent
             Q == U \o V
             w == pcb.snd_wnd_max
  <1>1. PcbOk(pcb) /\ ~Ended(pcb)
    BY DEF Inv, Conn, Alive, Ended
  <1>2. U \in Queue /\ V \in Queue /\ pcb.lastack \in Nat /\ pcb.snd_lbb \in Nat
    BY <1>1, PcbFields DEF PcbOk
  <1>3. SegsOk(U, w) /\ SegsOk(V, w)
    BY <1>1 DEF PcbOk, Accounts
  <1>4. PICK b \in Nat, m \in Nat, e \in Nat : Span(pcb, b, m, e)
    BY <1>1 DEF StreamInv, Flows, StreamOk
  <1>5. /\ Tiles(U, b, m) /\ Tiles(V, m, e)
        /\ b <= pcb.lastack /\ (e = pcb.snd_lbb \/ e = pcb.snd_lbb + 1)
    BY <1>4 DEF Span, Reach
  <1> HIDE DEF U, V, w, SegType
  <1>6. Q \in Queue
    BY <1>2, Joined DEF Queue
  <1>7. Tiles(Q, b, e)
    BY <1>2, <1>5, TilesJoin
  <1>8. SegsOk(Q, w)
    BY <1>2, <1>3, SegsJoin
  <1>9. Queued = Q
    BY DEF Queued, U, V
  <1>10. Ascending(U) /\ Ascending(V)
    BY <1>2, <1>3, <1>5, RowAscends
  <1> HIDE DEF Q
  <1>11. ASSUME NEW n \in pcb.lastack .. pcb.snd_lbb - 1
         PROVE  Cardinality({i \in DOMAIN Q : Q[i].seq <= n /\ n < End(Q[i])}) = 1
    <2>1. n \in Nat /\ b <= n /\ n < e
      BY <1>2, <1>5
    <2> QED BY <1>6, <1>7, <1>8, <2>1, OneHolds
  <1>12. ASSUME NEW s \in ToSet(Q) PROVE s.data = Bytes(s.seq, s.seq + Len(s.data))
    <2>1. DOMAIN Q = 1..Len(Q)
      BY <1>6 DEF Queue
    <2>2. PICK i \in 1..Len(Q) : s = Q[i]
      BY <2>1 DEF ToSet
    <2>3. Q[i].data = Bytes(Q[i].seq, Q[i].seq + Len(Q[i].data))
      BY <1>7 DEF Tiles
    <2> QED BY <2>2, <2>3
  <1> QED BY <1>9, <1>10, <1>11, <1>12 DEF U, V

\* The invariant of the stream, under a peer that does not take back window it
\* has announced.  tcp_rexmit_fast sets a congestion window of five segments
\* or more; the bound MaxCwnd of the model must leave room for one of them.
THEOREM StreamInvariant ==
    ~MayShrink /\ MaxCwnd >= MSS => (Spec => [](Inv /\ StreamInv))
  <1> SUFFICES ASSUME ~MayShrink, MaxCwnd >= MSS
               PROVE  Spec => [](Inv /\ StreamInv)
    OBVIOUS
  <1>1. Init => Inv /\ StreamInv
    BY InitInv, InitStream
  <1>2. Inv /\ StreamInv /\ [Next]_vars => (Inv /\ StreamInv)'
    BY NextInv, NextStream
  <1> HIDE DEF Inv, StreamInv
  <1> QED BY <1>1, <1>2, PTL DEF Spec

\* Every byte that is not acknowledged is in exactly one segment, at its own
\* sequence number, and both queues are in order, whatever is written, sent,
\* retransmitted in part or whole, acknowledged and closed, for every size of
\* the buffer, the queue, the segments and the peer's windows.
THEOREM StreamExact ==
    ~MayShrink /\ MaxCwnd >= MSS => (Spec => []StreamKept)
  <1> SUFFICES ASSUME ~MayShrink, MaxCwnd >= MSS
               PROVE  Spec => []StreamKept
    OBVIOUS
  <1>1. Inv /\ StreamInv => StreamKept
    BY StreamIsKept DEF StreamKept
  <1>2. Spec => [](Inv /\ StreamInv)
    BY StreamInvariant
  <1> QED BY <1>1, <1>2, PTL
=============================================================================
