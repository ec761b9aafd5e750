-------------------------- MODULE FlowGroupProofs --------------------------
(***************************************************************************)
(* Proofs about the migration of flow groups in FlowGroup: packets are     *)
(* processed by the CPU that has their group, each group's in the order    *)
(* they arrived in, and only packets are lost that another CPU than the    *)
(* new owner had when their group was handed over, or got later.  Proved   *)
(* for any CPUs, groups, packets, backlogs and timers and a single         *)
(* migration command (MaxCmds <= 1); the types for any number of commands. *)
(* Two commands, and a timer that fires between the early handler's test   *)
(* and its cancel (Raced), break all of this in the code: the first is a   *)
(* hypothesis of the theorems, the second an exception of the properties.  *)
(*                                                                         *)
(* The argument.  With one command every CPU has a part: s gives groups    *)
(* away, d gets them, the others do neither; what each CPU, each call      *)
(* between CPUs and each group can then look like is Control.  A packet of *)
(* a group is at one of seven stages: processed, on d's remote queue or    *)
(* what the handler still walks of it, held by s between the NIC and that  *)
(* queue, at s's NIC queue, in d's local queue, in a receive queue, or     *)
(* still to be received (Live).  The packets at an earlier stage arrived   *)
(* before those at a later one (Chain), every queue is in order, and a     *)
(* step only drops packets or moves them to an earlier stage, past none of *)
(* their group (Stays, Moves, Fits).  So what is processed next arrived    *)
(* after all that was processed.                                           *)
(*                                                                         *)
(* enqueue writes the queue in three steps while d may walk and empty it.  *)
(* Until d has begun to empty it (Whole) the tail pointer is the last      *)
(* packet but for the store to come, and the walk ends where the queue     *)
(* ends (Tailed, Positions): a packet linked then is reached.  One linked  *)
(* later was stranded, is at no stage any more, and may be lost.           *)
(***************************************************************************)
EXTENDS FlowGroup, FiniteSetTheorems, SequenceTheorems, TLAPS

-----------------------------------------------------------------------------
(* Queues.                                                                 *)

\* The packets of one group are in the order they arrived in.
Sorted(q) == \A i, j \in DOMAIN q : i < j /\ q[i].fg = q[j].fg => q[i].seq < q[j].seq

\* The elements of a queue are of its type, and an empty queue has none.
LEMMA RangeType ==
    ASSUME NEW S, NEW q \in Seq(S) PROVE Range(q) \subseteq S
  BY ElementOfSeq, LenProperties DEF Range

\* The empty queue.
LEMMA RangeEmpty == Range(<< >>) = {} /\ Sorted(<< >>)
  BY DEF Range, Sorted

\* An element is put at the end of a queue.
LEMMA Appended ==
    ASSUME NEW S, NEW q \in Seq(S), NEW x \in S
    PROVE  /\ Append(q, x) \in Seq(S) /\ Range(Append(q, x)) = Range(q) \cup {x}
           /\ Len(Append(q, x)) = Len(q) + 1
           /\ \A i \in 1..Len(q) : Append(q, x)[i] = q[i]
           /\ Append(q, x)[Len(q) + 1] = x
  <1> DEFINE r == Append(q, x)
             n == Len(q)
  <1>1. n \in Nat /\ DOMAIN q = 1..n  BY LenProperties
  <1>2. r \in Seq(S) /\ Len(r) = n + 1 /\ \A i \in 1..n : r[i] = q[i]  BY AppendProperties
  <1>3. r[n + 1] = x  BY AppendProperties
  <1>4. DOMAIN r = 1..n + 1  BY <1>2, LenProperties
  <1>5. 1..n + 1 = (1..n) \cup {n + 1}  BY <1>1
  <1> HIDE DEF r, n
  <1>6. Range(r) = Range(q) \cup {x}
    <2>1. ASSUME NEW y \in Range(r) PROVE y \in Range(q) \cup {x}
      BY <1>1, <1>2, <1>3, <1>4, <1>5 DEF Range
    <2>2. ASSUME NEW y \in Range(q) PROVE y \in Range(r)
      <3>1. PICK i \in 1..n : y = q[i]  BY <1>1 DEF Range
      <3>2. i \in DOMAIN r /\ r[i] = y  BY <1>2, <1>4, <1>5, <3>1
      <3> QED BY <3>2 DEF Range
    <2>3. x \in Range(r)
      <3>1. n + 1 \in DOMAIN r  BY <1>4, <1>5
      <3> QED BY <1>3, <3>1 DEF Range
    <2> QED BY <2>1, <2>2, <2>3
  <1> QED BY <1>2, <1>3, <1>6 DEF r, n

\* A packet later than those of its group is put at the end.
LEMMA SortedAppend ==
    ASSUME NEW q \in Seq(Pkt), NEW x \in Pkt, Sorted(q),
           \A p \in Range(q) : p.fg = x.fg => p.seq < x.seq
    PROVE  Sorted(Append(q, x))
  <1> DEFINE r == Append(q, x)
             n == Len(q)
  <1>1. n \in Nat /\ DOMAIN q = 1..n  BY LenProperties
  <1>2. r \in Seq(Pkt) /\ Len(r) = n + 1 /\ (\A i \in 1..n : r[i] = q[i]) /\ r[n + 1] = x
    BY Appended
  <1>3. DOMAIN r = 1..n + 1  BY <1>2, LenProperties
  <1>4. \A i \in 1..n : q[i].fg = x.fg => q[i].seq < x.seq  BY <1>1 DEF Range
  <1> HIDE DEF r, n
  <1> SUFFICES ASSUME NEW i \in 1..n + 1, NEW j \in 1..n + 1, i < j, r[i].fg = r[j].fg
               PROVE  r[i].seq < r[j].seq
    BY <1>3 DEF Sorted, r
  <1>5. i \in 1..n  BY <1>1
  <1>6. CASE j \in 1..n  BY <1>1, <1>2, <1>5, <1>6 DEF Sorted
  <1>7. CASE j = n + 1  BY <1>2, <1>4, <1>5, <1>7
  <1> QED BY <1>1, <1>6, <1>7

\* The first packet is taken off a queue.
LEMMA Popped ==
    ASSUME NEW q \in Seq(Pkt), q # << >>
    PROVE  /\ Head(q) \in Pkt /\ Tail(q) \in Seq(Pkt)
           /\ Head(q) \in Range(q) /\ Range(Tail(q)) \subseteq Range(q)
           /\ Range(q) = Range(Tail(q)) \cup {Head(q)}
           /\ Sorted(q) => /\ Sorted(Tail(q))
                           /\ \A p \in Range(Tail(q)) : p.fg = Head(q).fg => Head(q).seq < p.seq
  <1> DEFINE r == Tail(q)
             n == Len(q)
  <1>1. n \in Nat /\ n > 0 /\ DOMAIN q = 1..n
    BY LenProperties, EmptySeq
  <1>2. Head(q) \in Pkt /\ r \in Seq(Pkt) /\ Len(r) = n - 1 /\ \A i \in 1..Len(r) : r[i] = q[i + 1]
    BY HeadTailProperties
  <1>3. Head(q) = q[1]  BY HeadTailProperties
  <1>4. DOMAIN r = 1..n - 1  BY <1>2, LenProperties
  <1> HIDE DEF r, n
  <1>5. \A i \in 1..n - 1 : r[i] = q[i + 1] /\ i + 1 \in DOMAIN q  BY <1>1, <1>2
  <1>6. Head(q) \in Range(q)
    <2>1. 1 \in DOMAIN q  BY <1>1
    <2> QED BY <1>3, <2>1 DEF Range
  <1>7. Range(r) \subseteq Range(q)  BY <1>4, <1>5 DEF Range
  <1>8. ASSUME NEW y \in Range(q), y # Head(q) PROVE y \in Range(r)
    <2>1. PICK i \in 1..n : y = q[i]  BY <1>1 DEF Range
    <2>2. i - 1 \in 1..n - 1 /\ i - 1 + 1 = i  BY <1>1, <1>3, <1>8, <2>1
    <2>3. r[i - 1] = y  BY <1>5, <2>1, <2>2
    <2> QED BY <1>4, <2>2, <2>3 DEF Range
  <1>9. ASSUME Sorted(q) PROVE Sorted(r)
    <2> SUFFICES ASSUME NEW i \in 1..n - 1, NEW j \in 1..n - 1, i < j, r[i].fg = r[j].fg
                 PROVE  r[i].seq < r[j].seq
      BY <1>4 DEF Sorted
    <2>1. i + 1 < j + 1 /\ r[i] = q[i + 1] /\ r[j] = q[j + 1] /\ i + 1 \in DOMAIN q /\ j + 1 \in DOMAIN q
      BY <1>1, <1>5
    <2> QED BY <1>9, <2>1 DEF Sorted
  <1>10. ASSUME Sorted(q), NEW p \in Range(r), p.fg = Head(q).fg PROVE Head(q).seq < p.seq
    <2>1. PICK i \in 1..n - 1 : p = r[i]  BY <1>4 DEF Range
    <2>2. p = q[i + 1] /\ i + 1 \in DOMAIN q /\ 1 \in DOMAIN q /\ 1 < i + 1  BY <1>1, <1>5, <2>1
    <2> QED BY <1>3, <1>10, <2>2 DEF Sorted
  <1> QED BY <1>2, <1>6, <1>7, <1>8, <1>9, <1>10 DEF r

\* A request is taken from anywhere in an inbox.
LEMMA Removed ==
    ASSUME NEW S, NEW q \in Seq(S), NEW k \in 1..Len(q)
    PROVE  /\ RemoveAt(q, k) \in Seq(S) /\ Len(RemoveAt(q, k)) = Len(q) - 1
           /\ Range(RemoveAt(q, k)) \subseteq Range(q)
           /\ q[k] \in Range(q) /\ q[k] \in S
  <1> DEFINE n == Len(q)
             a == SubSeq(q, 1, k - 1)
             b == SubSeq(q, k + 1, n)
             r == a \o b
  <1>1. n \in Nat /\ DOMAIN q = 1..n /\ \A i \in 1..n : q[i] \in S
    BY LenProperties, ElementOfSeq
  <1>2. k \in 1..n /\ k - 1 \in Int /\ k + 1 \in Int /\ n \in Int /\ 1 \in Int  BY <1>1
  <1>3. \A i \in 1..k - 1 : q[i] \in S  BY <1>1, <1>2
  <1>4. \A i \in k + 1..n : q[i] \in S  BY <1>1, <1>2
  <1>5. /\ a \in Seq(S) /\ Len(a) = IF 1 <= k - 1 THEN k - 1 - 1 + 1 ELSE 0
        /\ \A i \in 1..k - 1 - 1 + 1 : a[i] = q[1 + i - 1]
    BY <1>2, <1>3, SubSeqProperties
  <1>6. /\ b \in Seq(S) /\ Len(b) = IF k + 1 <= n THEN n - (k + 1) + 1 ELSE 0
        /\ \A i \in 1..n - (k + 1) + 1 : b[i] = q[k + 1 + i - 1]
    <2> HIDE DEF n
    <2> QED BY <1>2, <1>4, SubSeqProperties
  <1> HIDE DEF n, a, b
  <1>7. Len(a) = k - 1 /\ Len(b) = n - k
    <2>1. k \in Nat /\ 1 <= k /\ k <= n  BY <1>1, <1>2
    <2>2. Len(a) = k - 1  BY <1>5, <2>1
    <2>3. Len(b) = n - k  BY <1>1, <1>6, <2>1
    <2> QED BY <2>2, <2>3
  <1>8. /\ r \in Seq(S) /\ Len(r) = Len(a) + Len(b)
        /\ \A i \in 1..Len(a) + Len(b) : r[i] = IF i <= Len(a) THEN a[i] ELSE b[i - Len(a)]
    BY <1>5, <1>6, ConcatProperties
  <1> HIDE DEF r
  <1>9. Len(r) = n - 1 /\ DOMAIN r = 1..n - 1
    BY <1>1, <1>2, <1>7, <1>8, LenProperties
  <1>10. ASSUME NEW i \in 1..n - 1 PROVE r[i] \in Range(q)
    <2>0. i \in 1..Len(a) + Len(b)  BY <1>1, <1>2, <1>7
    <2>1. CASE i <= k - 1
      <3>1. r[i] = a[i]  BY <1>7, <1>8, <2>0, <2>1
      <3>2. i \in 1..k - 1 - 1 + 1 /\ 1 + i - 1 = i /\ i \in 1..n  BY <1>1, <1>2, <2>1
      <3>3. a[i] = q[i]  BY <1>5, <3>2
      <3> QED BY <1>1, <3>1, <3>2, <3>3 DEF Range
    <2>2. CASE ~(i <= k - 1)
      <3>1. r[i] = b[i - (k - 1)]  BY <1>7, <1>8, <2>0, <2>2
      <3>2. /\ i - (k - 1) \in 1..n - (k + 1) + 1 /\ k + 1 + (i - (k - 1)) - 1 = i + 1
            /\ i + 1 \in 1..n
        BY <1>1, <1>2, <2>2
      <3>3. b[i - (k - 1)] = q[i + 1]  BY <1>6, <3>2
      <3> QED BY <1>1, <3>1, <3>2, <3>3 DEF Range
    <2> QED BY <2>1, <2>2
  <1>11. Range(r) \subseteq Range(q)  BY <1>9, <1>10 DEF Range
  <1>12. RemoveAt(q, k) = r  BY DEF RemoveAt, r, a, b, n
  <1>13. q[k] \in Range(q) /\ q[k] \in S  BY <1>1, <1>2 DEF Range
  <1> QED BY <1>8, <1>9, <1>11, <1>12, <1>13 DEF n

\* A queue is put behind another one.
LEMMA Joined ==
    ASSUME NEW q \in Seq(Pkt), NEW r \in Seq(Pkt)
    PROVE  /\ q \o r \in Seq(Pkt) /\ Range(q \o r) = Range(q) \cup Range(r)
           /\ Len(q \o r) = Len(q) + Len(r)
           /\ \A i \in 1..Len(q) : (q \o r)[i] = q[i]
           /\ Sorted(q) /\ Sorted(r)
              /\ (\A x \in Range(q), y \in Range(r) : x.fg = y.fg => x.seq < y.seq)
                 => Sorted(q \o r)
  <1> DEFINE n == Len(q)
             m == Len(r)
             w == q \o r
  <1>1. n \in Nat /\ m \in Nat /\ DOMAIN q = 1..n /\ DOMAIN r = 1..m  BY LenProperties
  <1>2. /\ w \in Seq(Pkt) /\ Len(w) = n + m
        /\ \A i \in 1..n + m : w[i] = IF i <= n THEN q[i] ELSE r[i - n]
    BY ConcatProperties
  <1>3. DOMAIN w = 1..n + m  BY <1>2, LenProperties
  <1> HIDE DEF n, m, w
  <1>4. ASSUME NEW i \in 1..n + m
        PROVE  IF i <= n THEN i \in 1..n /\ w[i] = q[i] ELSE i - n \in 1..m /\ w[i] = r[i - n]
    BY <1>1, <1>2
  <1>5. \A i \in 1..n : i \in 1..n + m /\ w[i] = q[i]
    <2>1. \A i \in 1..n : i \in 1..n + m /\ i <= n  BY <1>1
    <2> QED BY <1>4, <2>1
  <1>6. \A i \in 1..m : i + n \in 1..n + m /\ w[i + n] = r[i]
    <2> SUFFICES ASSUME NEW i \in 1..m PROVE i + n \in 1..n + m /\ w[i + n] = r[i]
      OBVIOUS
    <2>0. PICK j : j = i + n  OBVIOUS
    <2>1. j \in 1..n + m /\ ~(j <= n) /\ j - n = i  BY <1>1, <2>0
    <2>2. w[j] = r[j - n]  BY <1>4, <2>1
    <2> QED BY <2>0, <2>1, <2>2
  <1>7. Range(w) = Range(q) \cup Range(r)
    <2>1. ASSUME NEW x \in Range(w) PROVE x \in Range(q) \cup Range(r)
      BY <1>1, <1>3, <1>4 DEF Range
    <2>2. ASSUME NEW x \in Range(q) PROVE x \in Range(w)  BY <1>1, <1>3, <1>5 DEF Range
    <2>3. ASSUME NEW x \in Range(r) PROVE x \in Range(w)
      <3>1. PICK i \in 1..m : x = r[i]  BY <1>1 DEF Range
      <3>2. i + n \in DOMAIN w /\ w[i + n] = x  BY <1>3, <1>6, <3>1
      <3> QED BY <3>2 DEF Range
    <2> QED BY <2>1, <2>2, <2>3
  <1>8. ASSUME Sorted(q), Sorted(r), \A x \in Range(q), y \in Range(r) : x.fg = y.fg => x.seq < y.seq
        PROVE  Sorted(w)
    <2> SUFFICES ASSUME NEW i \in 1..n + m, NEW j \in 1..n + m, i < j, w[i].fg = w[j].fg
                 PROVE  w[i].seq < w[j].seq
      BY <1>3 DEF Sorted
    <2>1. CASE j <= n
      <3>1. i <= n  BY <1>1, <2>1
      <3>2. i \in DOMAIN q /\ j \in DOMAIN q /\ w[i] = q[i] /\ w[j] = q[j]  BY <1>1, <1>4, <2>1, <3>1
      <3> QED BY <1>8, <3>2 DEF Sorted
    <2>2. CASE ~(j <= n) /\ i <= n
      <3>1. i \in DOMAIN q /\ j - n \in DOMAIN r /\ w[i] = q[i] /\ w[j] = r[j - n]  BY <1>1, <1>4, <2>2
      <3>2. w[i] \in Range(q) /\ w[j] \in Range(r)  BY <3>1 DEF Range
      <3> QED BY <1>8, <3>2
    <2>3. CASE ~(j <= n) /\ ~(i <= n)
      <3>1. i - n \in DOMAIN r /\ j - n \in DOMAIN r /\ w[i] = r[i - n] /\ w[j] = r[j - n]
        BY <1>1, <1>4, <2>3
      <3>2. i - n < j - n  BY <1>1
      <3> QED BY <1>8, <3>1, <3>2 DEF Sorted
    <2> QED BY <2>1, <2>2, <2>3
  <1> QED BY <1>2, <1>5, <1>7, <1>8 DEF n, m, w

\* The number of indices of I up to i.
Rank(I, i) == Cardinality({j \in I : j <= i})

\* Sifted keeps the elements it is told to, and their order.
LEMMA SiftedIs ==
    ASSUME NEW q \in Seq(Pkt), NEW I \in SUBSET (DOMAIN q)
    PROVE  /\ Sifted(q, I) \in Seq(Pkt)
           /\ Range(Sifted(q, I)) = {q[i] : i \in I}
           /\ Sorted(q) => Sorted(Sifted(q, I))
  <1> DEFINE m == Cardinality(I)
             nth(k) == CHOOSE i \in I : Rank(I, i) = k
             r == [k \in 1..m |-> q[nth(k)]]
  <1>0. DOMAIN q = 1..Len(q) /\ Len(q) \in Nat /\ \A i \in 1..Len(q) : q[i] \in Pkt
    BY LenProperties, ElementOfSeq
  <1>1. IsFiniteSet(I) /\ m \in Nat /\ I \subseteq Nat
    <2>1. IsFiniteSet(1..Len(q))  BY <1>0, FS_Interval
    <2>2. I \in SUBSET (1..Len(q))  BY <1>0
    <2>3. IsFiniteSet(I)  BY <2>1, <2>2, FS_Subset
    <2>4. I \subseteq Nat  BY <2>2
    <2> QED BY <2>3, <2>4, FS_CardinalityType
  <1>2. ASSUME NEW i \in I
        PROVE  IsFiniteSet({j \in I : j <= i}) /\ Rank(I, i) \in Nat /\ Rank(I, i) \in 1..m
    <2> DEFINE A == {j \in I : j <= i}
    <2>1. A \in SUBSET I  OBVIOUS
    <2>2. IsFiniteSet(A) /\ Cardinality(A) <= m  BY <1>1, <2>1, FS_Subset
    <2>3. Cardinality(A) \in Nat  BY <2>2, FS_CardinalityType
    <2>4. i \in A  BY <1>1
    <2>5. Cardinality(A) # 0  BY <2>2, <2>4, FS_EmptySet
    <2> HIDE DEF m, A
    <2>6. Cardinality(A) \in 1..m  BY <1>1, <2>2, <2>3, <2>5
    <2> QED BY <2>2, <2>3, <2>6 DEF Rank, A
  <1>3. ASSUME NEW i \in I, NEW j \in I, i < j PROVE Rank(I, i) < Rank(I, j)
    <2> DEFINE A == {x \in I : x <= i}
               B == {x \in I : x <= j}
    <2>1. A \in SUBSET B  BY <1>1, <1>3
    <2>2. j \in B /\ j \notin A  BY <1>1, <1>3
    <2>3. IsFiniteSet(B) /\ Cardinality(A) \in Nat /\ Cardinality(B) \in Nat  BY <1>2 DEF Rank
    <2>4. Cardinality(A) <= Cardinality(B) /\ (Cardinality(B) = Cardinality(A) => B = A)
      BY <2>1, <2>3, FS_Subset
    <2>5. Cardinality(B) # Cardinality(A)  BY <2>2, <2>4
    <2> HIDE DEF A, B
    <2>6. Cardinality(A) < Cardinality(B)  BY <2>3, <2>4, <2>5
    <2> QED BY <2>6 DEF Rank, A, B
  <1>4. ASSUME NEW i \in I, NEW j \in I, Rank(I, i) = Rank(I, j) PROVE i = j
    <2>1. Rank(I, i) \in Nat /\ Rank(I, j) \in Nat /\ i \in Nat /\ j \in Nat  BY <1>1, <1>2
    <2>2. i < j => Rank(I, i) < Rank(I, j)  BY <1>3
    <2>3. j < i => Rank(I, j) < Rank(I, i)  BY <1>3
    <2> QED BY ONLY <1>4, <2>1, <2>2, <2>3
  <1>5. ASSUME NEW k \in 1..m PROVE \E i \in I : Rank(I, i) = k
    <2> DEFINE f == [i \in I |-> Rank(I, i)]
    <2>1. f \in [I -> 1..m]  BY <1>2
    <2>2. f \in Injection(I, 1..m)  BY <1>4, <2>1 DEF Injection, IsInjective
    <2>3. IsFiniteSet(1..m) /\ Cardinality(1..m) = m
      <3> HIDE DEF m
      <3>1. IsFiniteSet(1..m) /\ Cardinality(1..m) = IF 1 > m THEN 0 ELSE m - 1 + 1  BY <1>1, FS_Interval
      <3> QED BY <1>1, <3>1
    <2>4. f \in Surjection(I, 1..m)  BY <2>2, <2>3, FS_Injection
    <2> HIDE DEF f
    <2>5. PICK i \in I : f[i] = k  BY <2>4 DEF Surjection
    <2> QED BY <2>5 DEF f
  <1>6. ASSUME NEW k \in 1..m PROVE nth(k) \in I /\ Rank(I, nth(k)) = k
    BY <1>5
  <1>7. Sifted(q, I) = r  BY DEF Sifted, Rank
  <1> HIDE DEF nth, m
  <1>8. \A k \in 1..m : r[k] = q[nth(k)] /\ r[k] \in Pkt  BY <1>0, <1>6
  <1>9. r \in Seq(Pkt) /\ DOMAIN r = 1..m  BY <1>1, <1>8
  <1> HIDE DEF r
  <1>10. Range(r) = {q[i] : i \in I}
    <2>1. ASSUME NEW x \in Range(r) PROVE x \in {q[i] : i \in I}
      BY <1>6, <1>8, <1>9 DEF Range
    <2>2. ASSUME NEW i \in I PROVE q[i] \in Range(r)
      <3>1. Rank(I, i) \in 1..m  BY <1>2
      <3>2. nth(Rank(I, i)) = i  BY <1>4, <1>6, <3>1
      <3>3. r[Rank(I, i)] = q[i]  BY <1>8, <3>1, <3>2
      <3> QED BY <1>9, <3>1, <3>3 DEF Range
    <2> QED BY <2>1, <2>2
  <1>11. ASSUME Sorted(q) PROVE Sorted(r)
    <2> SUFFICES ASSUME NEW k \in 1..m, NEW l \in 1..m, k < l, r[k].fg = r[l].fg
                 PROVE  r[k].seq < r[l].seq
      BY <1>9 DEF Sorted
    <2>1. nth(k) \in I /\ nth(l) \in I /\ Rank(I, nth(k)) = k /\ Rank(I, nth(l)) = l  BY <1>6
    <2>2. nth(k) < nth(l)
      <3>1. nth(l) < nth(k) => l < k  BY <1>3, <2>1
      <3>2. nth(k) # nth(l)  BY <1>1, <2>1
      <3>3. nth(k) \in Nat /\ nth(l) \in Nat  BY <1>1, <2>1
      <3> QED BY <1>1, <3>1, <3>2, <3>3
    <2> QED BY <1>8, <1>11, <2>1, <2>2 DEF Sorted
  <1> QED BY <1>7, <1>9, <1>10, <1>11

\* The last packet of a queue.
LEMMA LastOf ==
    ASSUME NEW q \in Seq(Pkt), q # << >>
    PROVE  Len(q) \in DOMAIN q /\ Last(q) = q[Len(q)] /\ Last(q) \in Range(q) /\ Last(q) \in Pkt
  <1>1. Len(q) \in Nat /\ Len(q) > 0 /\ DOMAIN q = 1..Len(q)  BY LenProperties, EmptySeq
  <1>2. Len(q) \in DOMAIN q  BY <1>1
  <1>3. Last(q) = q[Len(q)]  BY DEF Last
  <1>4. Last(q) \in Range(q)  BY <1>2, <1>3 DEF Range
  <1> QED BY <1>2, <1>3, <1>4, RangeType

\* A queue of one packet.
LEMMA OneIs ==
    ASSUME NEW x \in Pkt
    PROVE  <<x>> \in Seq(Pkt) /\ <<x>> # << >> /\ Range(<<x>>) = {x} /\ Sorted(<<x>>) /\ Last(<<x>>) = x
  <1>1. <<x>> \in Seq(Pkt) /\ <<x>> # << >> /\ DOMAIN <<x>> = {1} /\ <<x>>[1] = x /\ Len(<<x>>) = 1
    OBVIOUS
  <1>2. Range(<<x>>) = {x}  BY <1>1 DEF Range
  <1>3. Sorted(<<x>>)  BY <1>1 DEF Sorted
  <1>4. Last(<<x>>) = x  BY <1>1 DEF Last
  <1> QED BY <1>1, <1>2, <1>3, <1>4

\* The next of packet t is set to the packets of r: the queue is cut behind t,
\* if it has t, and goes on with r.  At its end nothing is cut.
LEMMA LinkedIs ==
    ASSUME NEW q \in Seq(Pkt), NEW t, NEW r \in Seq(Pkt), r # << >>
    PROVE  /\ Linked(q, t, r) \in Seq(Pkt)
           /\ Range(Linked(q, t, r)) \subseteq Range(q) \cup Range(r)
           /\ q # << >> => Linked(q, t, r) # << >>
           /\ Sorted(q) /\ Sorted(r)
              /\ (\A x \in Range(q), y \in Range(r) : x.fg = y.fg => x.seq < y.seq)
                => Sorted(Linked(q, t, r))
           /\ Sorted(q) /\ q # << >> /\ t = Last(q) => Linked(q, t, r) = q \o r
  <1> DEFINE n == Len(q)
             i == CHOOSE k \in DOMAIN q : q[k] = t
             a == SubSeq(q, 1, i)
             l == Linked(q, t, r)
  <1>1. n \in Nat /\ DOMAIN q = 1..n /\ (\A k \in 1..n : q[k] \in Pkt)
    BY LenProperties, ElementOfSeq
  <1>2. CASE t \notin Range(q)
    <2>1. l = q  BY <1>2 DEF Linked
    <2>2. q # << >> => Last(q) \in Range(q)  BY LastOf
    <2> QED BY <1>2, <2>1, <2>2
  <1>3. CASE t \in Range(q)
    <2>1. i \in 1..n /\ q[i] = t  BY <1>1, <1>3 DEF Range
    <2>2. l = a \o r  BY <1>3 DEF Linked
    <2> HIDE DEF i, l
    <2>3. i \in Nat /\ 1 <= i /\ i <= n /\ i \in Int /\ 1 \in Int /\ \A k \in 1..i : q[k] \in Pkt
      BY <1>1, <2>1
    <2>4. /\ a \in Seq(Pkt) /\ Len(a) = i
          /\ \A k \in 1..i : a[k] = q[k]
      <3>1. /\ a \in Seq(Pkt) /\ Len(a) = IF 1 <= i THEN i - 1 + 1 ELSE 0
            /\ \A k \in 1..i - 1 + 1 : a[k] = q[1 + k - 1]
        BY <2>3, SubSeqProperties
      <3> HIDE DEF a
      <3>2. Len(a) = i /\ i - 1 + 1 = i /\ \A k \in 1..i : 1 + k - 1 = k  BY <2>3, <3>1
      <3> QED BY <3>1, <3>2
    <2>5. DOMAIN a = 1..i  BY <2>4, LenProperties
    <2>6. 1..i \subseteq 1..n  BY <2>3, <1>1
    <2> HIDE DEF a
    <2>7. Range(a) \subseteq Range(q)  BY <1>1, <2>4, <2>5, <2>6 DEF Range
    <2>8. Sorted(q) => Sorted(a)  BY <1>1, <2>4, <2>5, <2>6 DEF Sorted
    <2>9. /\ l \in Seq(Pkt) /\ Range(l) = Range(a) \cup Range(r)
          /\ Sorted(a) /\ Sorted(r)
             /\ (\A x \in Range(a), y \in Range(r) : x.fg = y.fg => x.seq < y.seq) => Sorted(l)
      BY <2>2, <2>4, Joined
    <2>10. l # << >>
      <3>1. Last(r) \in Range(l)  BY <2>9, LastOf
      <3> QED BY <3>1, RangeEmpty
    <2>11. ASSUME Sorted(q), q # << >>, t = Last(q) PROVE l = q \o r
      <3>1. n \in DOMAIN q /\ q[n] = t  BY <2>11, LastOf
      <3>2. ~(i < n)
        <4>1. ASSUME i < n PROVE FALSE
          <5>1. q[i].seq < q[n].seq  BY <1>1, <2>1, <2>11, <3>1, <4>1 DEF Sorted
          <5>2. t.seq \in Int  BY <1>1, <2>1, BoundAssumption DEF Pkt
          <5> QED BY <2>1, <3>1, <5>1, <5>2
        <4> QED BY <4>1
      <3>3. i = n
        <4> HIDE DEF n
        <4> QED BY ONLY <1>1, <2>3, <3>2
      <3>4. a = q  BY <1>1, <2>4, <2>5, <3>3, SeqEqual
      <3> QED BY <2>2, <3>4
    <2>12. Sorted(q) /\ Sorted(r)
             /\ (\A x \in Range(q), y \in Range(r) : x.fg = y.fg => x.seq < y.seq) => Sorted(l)
      BY <2>7, <2>8, <2>9
    <2> QED BY <2>7, <2>9, <2>10, <2>11, <2>12 DEF l
  <1> QED BY <1>2, <1>3

\* The last packet after one is put at the end, a queue behind, or the first
\* one taken off.
LEMMA LastsOf ==
    ASSUME NEW q \in Seq(Pkt)
    PROVE  /\ \A x \in Pkt : Append(q, x) # << >> /\ Last(Append(q, x)) = x
           /\ \A r \in Seq(Pkt) : r # << >> => q \o r # << >> /\ Last(q \o r) = Last(r)
           /\ q # << >> /\ Tail(q) # << >> => Last(Tail(q)) = Last(q)
           /\ q # << >> /\ Tail(q) = << >> => Range(q) = {Head(q)}
  <1>1. ASSUME NEW x \in Pkt PROVE Append(q, x) # << >> /\ Last(Append(q, x)) = x
    <2>1. Append(q, x) \in Seq(Pkt) /\ Len(Append(q, x)) = Len(q) + 1 /\ Append(q, x)[Len(q) + 1] = x
          /\ Range(Append(q, x)) = Range(q) \cup {x}
      BY Appended
    <2>2. Append(q, x) # << >>  BY <2>1, RangeEmpty
    <2> QED BY <2>1, <2>2 DEF Last
  <1>2. ASSUME NEW r \in Seq(Pkt), r # << >> PROVE q \o r # << >> /\ Last(q \o r) = Last(r)
    <2>1. /\ q \o r \in Seq(Pkt) /\ Range(q \o r) = Range(q) \cup Range(r) /\ Len(q \o r) = Len(q) + Len(r)
      BY Joined
    <2>2. Last(r) \in Range(r) /\ Last(r) = r[Len(r)] /\ Len(r) \in DOMAIN r  BY <1>2, LastOf
    <2>3. q \o r # << >>  BY <2>1, <2>2, RangeEmpty
    <2>4. Len(q) \in Nat /\ Len(r) \in Nat /\ Len(r) > 0  BY <1>2, LenProperties, EmptySeq
    <2>5. (q \o r)[Len(q) + Len(r)] = r[Len(r)]
      <3>1. Len(q) + Len(r) \in 1..Len(q) + Len(r) /\ ~(Len(q) + Len(r) <= Len(q))
            /\ Len(q) + Len(r) - Len(q) = Len(r)
        BY <2>4
      <3>2. \A k \in 1..Len(q) + Len(r) : (q \o r)[k] = IF k <= Len(q) THEN q[k] ELSE r[k - Len(q)]
        BY ConcatProperties
      <3> QED BY ONLY <3>1, <3>2
    <2> QED BY <2>1, <2>2, <2>3, <2>5 DEF Last
  <1>3. ASSUME q # << >>, Tail(q) # << >> PROVE Last(Tail(q)) = Last(q)
    <2>1. Tail(q) \in Seq(Pkt) /\ Len(Tail(q)) = Len(q) - 1 /\ \A k \in 1..Len(Tail(q)) : Tail(q)[k] = q[k + 1]
      BY <1>3, HeadTailProperties
    <2>2. Len(Tail(q)) > 0 /\ Len(Tail(q)) \in Nat /\ Len(q) \in Nat
      BY <1>3, <2>1, LenProperties, EmptySeq
    <2>3. Tail(q)[Len(Tail(q))] = q[Len(q)]
      <3>1. Len(Tail(q)) \in 1..Len(Tail(q)) /\ Len(Tail(q)) + 1 = Len(q)  BY <2>1, <2>2
      <3> QED BY <2>1, <3>1
    <2> QED BY <2>3 DEF Last
  <1>4. ASSUME q # << >>, Tail(q) = << >> PROVE Range(q) = {Head(q)}
    <2>1. Range(q) = Range(Tail(q)) \cup {Head(q)}  BY <1>4, Popped
    <2> QED BY <1>4, <2>1, RangeEmpty
  <1> QED BY <1>1, <1>2, <1>3, <1>4

-----------------------------------------------------------------------------
(* The types, for any number of commands.                                  *)

\* What enqueue holds.
EnqOK(c) ==
    /\ enq[c].at = "no" => enq[c] = NoEnq
    /\ enq[c].at # "no" => enq[c].q \in Cpus
    /\ enq[c].at \in {"test", "head", "link"} => reg[c] # None
    /\ enq[c].at = "tail" => enq[c].pkt # None

\* What cpu_run_on_one does to the inboxes.
LEMMA SendTypes ==
    ASSUME TypeOK, NEW c, NEW r \in Request, r.f = "target" => r.info # None,
           cpu_run_on_one(c, r)
    PROVE  /\ inbox' \in [Cpus -> Seq(Request)]
           /\ \A x \in Cpus : \A y \in Range(inbox'[x]) : y.f = "target" => y.info # None
           /\ c \in Cpus => /\ Range(inbox'[c]) = Range(inbox[c]) \cup {r}
                            /\ Len(inbox'[c]) = Len(inbox[c]) + 1
           /\ \A x \in Cpus : x # c => inbox'[x] = inbox[x]
  <1>0. inbox \in [Cpus -> Seq(Request)]  BY DEF TypeOK
  <1>1. CASE c \notin Cpus
    <2>1. inbox' = inbox  BY <1>1 DEF cpu_run_on_one
    <2> QED BY <1>1, <2>1 DEF TypeOK
  <1>2. CASE c \in Cpus
    <2>1. inbox' = [inbox EXCEPT ![c] = Append(inbox[c], r)]  BY <1>0, <1>2 DEF cpu_run_on_one
    <2>2. /\ Append(inbox[c], r) \in Seq(Request) /\ Range(Append(inbox[c], r)) = Range(inbox[c]) \cup {r}
          /\ Len(Append(inbox[c], r)) = Len(inbox[c]) + 1
      BY <1>0, <1>2, Appended
    <2>3. /\ inbox' \in [Cpus -> Seq(Request)] /\ inbox'[c] = Append(inbox[c], r)
          /\ \A x \in Cpus : x # c => inbox'[x] = inbox[x]
      BY <1>0, <1>2, <2>1, <2>2
    <2>4. \A x \in Cpus : \A y \in Range(inbox[x]) : y.f = "target" => y.info # None
      BY DEF TypeOK
    <2> QED BY <1>2, <2>2, <2>3, <2>4
  <1> QED BY <1>1, <1>2

\* What taking a request does to them.
LEMMA TakeTypes ==
    ASSUME TypeOK, NEW c \in Cpus, NEW k, NEW f, Takes(c, k, f)
    PROVE  /\ inbox[c][k] \in Request /\ inbox[c][k] \in Range(inbox[c]) /\ inbox[c][k].f = f
           /\ inbox' \in [Cpus -> Seq(Request)]
           /\ \A x \in Cpus : \A y \in Range(inbox'[x]) : y.f = "target" => y.info # None
           /\ Range(inbox'[c]) \subseteq Range(inbox[c]) /\ Len(inbox'[c]) = Len(inbox[c]) - 1
           /\ \A x \in Cpus : x # c => inbox'[x] = inbox[x]
  <1>0. inbox \in [Cpus -> Seq(Request)]  BY DEF TypeOK
  <1>1. k \in 1..Len(inbox[c]) /\ inbox[c][k].f = f /\ inbox' = [inbox EXCEPT ![c] = RemoveAt(inbox[c], k)]
    BY <1>0 DEF Takes
  <1>2. /\ RemoveAt(inbox[c], k) \in Seq(Request) /\ Range(RemoveAt(inbox[c], k)) \subseteq Range(inbox[c])
        /\ Len(RemoveAt(inbox[c], k)) = Len(inbox[c]) - 1
        /\ inbox[c][k] \in Range(inbox[c]) /\ inbox[c][k] \in Request
    BY <1>0, <1>1, Removed
  <1>3. /\ inbox' \in [Cpus -> Seq(Request)] /\ inbox'[c] = RemoveAt(inbox[c], k)
        /\ \A x \in Cpus : x # c => inbox'[x] = inbox[x]
    BY <1>0, <1>1, <1>2
  <1>4. \A x \in Cpus : \A y \in Range(inbox[x]) : y.f = "target" => y.info # None
    BY DEF TypeOK
  <1> QED BY <1>1, <1>2, <1>3, <1>4

\* What eth_input does to the log.
LEMMA InputTypes ==
    ASSUME TypeOK, NEW c \in Cpus, NEW p \in Pkt, eth_input(c, p)
    PROVE  /\ log' \in [Fgs -> Seq([seq : 1..MaxPkts, cpu : Cpus])]
           /\ log'[p.fg] = Append(log[p.fg], [seq |-> p.seq, cpu |-> c])
           /\ \A g \in Fgs : g # p.fg => log'[g] = log[g]
  <1>0. log \in [Fgs -> Seq([seq : 1..MaxPkts, cpu : Cpus])]  BY DEF TypeOK
  <1>1. p.fg \in Fgs /\ [seq |-> p.seq, cpu |-> c] \in [seq : 1..MaxPkts, cpu : Cpus]  BY DEF Pkt
  <1>2. Append(log[p.fg], [seq |-> p.seq, cpu |-> c]) \in Seq([seq : 1..MaxPkts, cpu : Cpus])
    BY <1>0, <1>1, Appended
  <1>3. log' = [log EXCEPT ![p.fg] = Append(log[p.fg], [seq |-> p.seq, cpu |-> c])]
    BY <1>0, <1>1 DEF eth_input
  <1> HIDE DEF Pkt
  <1> QED BY <1>0, <1>1, <1>2, <1>3

\* A packet arrives.
LEMMA ArriveTypes == ASSUME TypeOK, NEW g \in Fgs, Arrive(g) PROVE TypeOK'
  <1> DEFINE x == [fg |-> g, seq |-> sent[g] + 1]
             c == reta[g]
  <1>1. /\ c # None /\ sent[g] < MaxPkts
        /\ sent' = [sent EXCEPT ![g] = sent[g] + 1]
        /\ hwq' = [hwq EXCEPT ![c] = Append(hwq[c], x)]
    BY DEF Arrive, TypeOK, Cpu
  <1>2. sent[g] + 1 \in 1..MaxPkts /\ sent[g] + 1 \in 0..MaxPkts
    <2>1. sent[g] \in 0..MaxPkts /\ MaxPkts \in Nat  BY BoundAssumption DEF TypeOK
    <2> QED BY <1>1, <2>1
  <1>3. x \in Pkt /\ c \in Cpus  BY <1>1, <1>2 DEF Pkt, TypeOK, Cpu
  <1> HIDE DEF x, c
  <1>4. hwq' \in [Cpus -> Seq(Pkt)]
    <2>1. hwq \in [Cpus -> Seq(Pkt)]  BY DEF TypeOK
    <2>2. Append(hwq[c], x) \in Seq(Pkt)  BY <1>3, <2>1, Appended
    <2> QED BY <1>1, <1>3, <2>1, <2>2
  <1>5. sent' \in [Fgs -> 0..MaxPkts]  BY <1>1, <1>2 DEF TypeOK
  <1>6. UNCHANGED <<fgVars, outCpu, reta, queueVars, infoVars, inbox, cpVars, mode,
                   locVars, regVars, log, refused, lost, cause>>
    BY DEF Arrive
  <1>7. stranded' \subseteq Pkt
    <2>1. stranded' = stranded \/ stranded' = stranded \cup {x}  BY DEF Arrive, x
    <2> QED BY <1>3, <2>1 DEF TypeOK
  <1> QED BY <1>4, <1>5, <1>6, <1>7 DEF TypeOK, fgVars, queueVars, infoVars, cpVars, locVars, regVars, endVars

\* What a round of the driver's poll does, case by case.
LEMMA PollCases ==
    ASSUME TypeOK, NEW c \in Cpus, Poll(c)
    PROVE  /\ mode[c] \in {"loop", "early"} /\ reg[c] = None /\ enq[c] = NoEnq /\ hwq[c] # << >>
           /\ hwq' = [hwq EXCEPT ![c] = Tail(hwq[c])]
           /\ Head(hwq[c]) \in Pkt /\ Head(hwq[c]) \in Range(hwq[c]) /\ Head(hwq[c]).fg \in Fgs
           /\ UNCHANGED <<fgVars, outCpu, reta, remoteq, tail, infoVars, cpVars, mode, locVars,
                          enq, sent, log, stranded, cause>>
           /\ LET p == Head(hwq[c])
                  g == Head(hwq[c]).fg IN
              \/ ~inTransition[g] /\ curCpu[g] = c /\ EnqueueBacklog(c, p)
              \/ /\ inTransition[g] /\ prevCpu[g] = c
                 /\ reg' = [reg EXCEPT ![c] = p]
                 /\ UNCHANGED <<rxq, localq, inbox, refused, lost>>
              \/ /\ inTransition[g] /\ prevCpu[g] # c /\ targetCpu[g] = c
                 /\ eth_recv_at_target(c, p)
              \/ /\ IF inTransition[g] THEN c \notin {prevCpu[g], targetCpu[g]} ELSE curCpu[g] # c
                 /\ lost' = lost \cup {p}
                 /\ UNCHANGED <<rxq, localq, inbox, reg, refused>>
              \/ refused' = refused \cup {p} /\ UNCHANGED <<rxq, localq, inbox, reg, lost>>
  <1>1. hwq \in [Cpus -> Seq(Pkt)]  BY DEF TypeOK
  <1>2. hwq[c] # << >> /\ mode[c] \in {"loop", "early"} /\ reg[c] = None /\ enq[c] = NoEnq  BY DEF Poll
  <1>3. Head(hwq[c]) \in Pkt /\ Head(hwq[c]) \in Range(hwq[c])  BY <1>1, <1>2, Popped
  <1>4. Head(hwq[c]).fg \in Fgs  BY <1>3 DEF Pkt
  <1>5. hwq' = [hwq EXCEPT ![c] = Tail(hwq[c])]  BY <1>1 DEF Poll
  <1> QED BY <1>2, <1>3, <1>4, <1>5 DEF Poll, eth_recv

\* The driver polls.
LEMMA PollTypes == ASSUME TypeOK, NEW c \in Cpus, Poll(c) PROVE TypeOK'
  <1> DEFINE p == Head(hwq[c])
  <1>0. /\ hwq \in [Cpus -> Seq(Pkt)] /\ rxq \in [Cpus -> Seq(Pkt)] /\ localq \in [Cpus -> Seq(Pkt)]
        /\ reg \in [Cpus -> Pkt \cup {None}] /\ refused \subseteq Pkt /\ lost \subseteq Pkt
        /\ inbox \in [Cpus -> Seq(Request)]
        /\ \A x \in Cpus : \A y \in Range(inbox[x]) : y.f = "target" => y.info # None
    BY DEF TypeOK
  <1>1. /\ hwq[c] # << >> /\ hwq' = [hwq EXCEPT ![c] = Tail(hwq[c])] /\ p \in Pkt
        /\ enq[c] = NoEnq /\ \A x \in Cpus : EnqOK(x)
        /\ UNCHANGED <<fgVars, outCpu, reta, remoteq, tail, infoVars, cpVars, mode, locVars, enq, sent, log,
                       stranded, cause>>
    BY PollCases DEF TypeOK, EnqOK
  <1>2. hwq' \in [Cpus -> Seq(Pkt)]
    <2>1. Tail(hwq[c]) \in Seq(Pkt)  BY <1>0, <1>1, Popped
    <2> QED BY <1>0, <1>1, <2>1
  <1>3. /\ rxq' \in [Cpus -> Seq(Pkt)] /\ localq' \in [Cpus -> Seq(Pkt)]
        /\ reg' \in [Cpus -> Pkt \cup {None}] /\ refused' \subseteq Pkt /\ lost' \subseteq Pkt
        /\ \A x \in Cpus : x # c => reg'[x] = reg[x]
        /\ inbox' \in [Cpus -> Seq(Request)]
        /\ \A x \in Cpus : \A y \in Range(inbox'[x]) : y.f = "target" => y.info # None
    <2> HIDE DEF p
    <2>1. CASE EnqueueBacklog(c, p)
      <3>1. Append(rxq[c], p) \in Seq(Pkt)  BY <1>0, <1>1, Appended
      <3>2. rxq' = rxq \/ rxq' = [rxq EXCEPT ![c] = Append(rxq[c], p)]
        BY <1>0, <2>1 DEF EnqueueBacklog
      <3>3. rxq' \in [Cpus -> Seq(Pkt)]  BY <1>0, <3>1, <3>2
      <3>4. refused' \subseteq Pkt /\ UNCHANGED <<localq, inbox, reg, lost>>
        BY <1>0, <1>1, <2>1 DEF EnqueueBacklog
      <3> QED BY <1>0, <3>3, <3>4
    <2>2. CASE reg' = [reg EXCEPT ![c] = p] /\ UNCHANGED <<rxq, localq, inbox, refused, lost>>
      <3>1. reg' \in [Cpus -> Pkt \cup {None}] /\ \A x \in Cpus : x # c => reg'[x] = reg[x]
        BY <1>0, <1>1, <2>2
      <3> QED BY <1>0, <2>2, <3>1
    <2>3. CASE eth_recv_at_target(c, p)
      <3>1. Append(localq[c], p) \in Seq(Pkt)  BY <1>0, <1>1, Appended
      <3>2. localq' = [localq EXCEPT ![c] = Append(localq[c], p)]
        BY <1>0, <2>3 DEF eth_recv_at_target
      <3>3. localq' \in [Cpus -> Seq(Pkt)]  BY <1>0, <3>1, <3>2
      <3>4. UNCHANGED <<rxq, reg, refused, lost>>  BY <2>3 DEF eth_recv_at_target
      <3>5. /\ inbox' \in [Cpus -> Seq(Request)]
            /\ \A x \in Cpus : \A y \in Range(inbox'[x]) : y.f = "target" => y.info # None
        <4>1. [f |-> "early", info |-> None] \in Request  BY DEF Request, Cpu
        <4>2. CASE cpu_run_on_one(infoPrev[c], [f |-> "early", info |-> None])
          BY <4>1, <4>2, SendTypes
        <4>3. CASE UNCHANGED inbox  BY <1>0, <4>3
        <4> QED BY <2>3, <4>2, <4>3 DEF eth_recv_at_target
      <3> QED BY <1>0, <3>3, <3>4, <3>5
    <2>4. CASE lost' = lost \cup {p} /\ UNCHANGED <<rxq, localq, inbox, reg, refused>>
      BY <1>0, <1>1, <2>4
    <2>5. CASE refused' = refused \cup {p} /\ UNCHANGED <<rxq, localq, inbox, reg, lost>>
      BY <1>0, <1>1, <2>5
    <2> QED BY <2>1, <2>2, <2>3, <2>4, <2>5, PollCases DEF p
  <1> HIDE DEF p
  <1>4. /\ UNCHANGED <<inTransition, curCpu, targetCpu, prevCpu, reta, outCpu, remoteq, infoPrev,
                       infoTarget, infoFgs, timerActive, timerArmed, status, cmds, mode, cmd, tail, enq, walk, stranded,
                       handler, sent, log, cause>>
    BY <1>1 DEF fgVars, infoVars, cpVars, locVars
  <1>5. \A x \in Cpus : EnqOK(x)'
    <2>1. NoEnq.at = "no"  BY DEF NoEnq
    <2>2. ASSUME NEW x \in Cpus, x # c PROVE EnqOK(x)'  BY <1>1, <1>3, <2>2 DEF EnqOK
    <2>3. EnqOK(c)'  BY <1>1, <2>1 DEF EnqOK
    <2> QED BY <2>2, <2>3
  <1> QED BY <1>2, <1>3, <1>4, <1>5 DEF TypeOK, EnqOK

\* The previous CPU has found the target's queue, or there is none.
LEMMA AtPrevTypes == ASSUME TypeOK, NEW c \in Cpus, eth_recv_at_prev(c) PROVE TypeOK'
  <1> DEFINE t == targetCpu[reg[c].fg]
  <1>0. /\ reg \in [Cpus -> Pkt \cup {None}] /\ enq \in [Cpus -> EnqType] /\ lost \subseteq Pkt
        /\ \A x \in Cpus : EnqOK(x)
    BY DEF TypeOK, EnqOK
  <1>1. /\ reg[c] # None /\ enq[c] = NoEnq
        /\ IF t \in Cpus
           THEN enq' = [enq EXCEPT ![c] = [NoEnq EXCEPT !.at = "test", !.q = t]] /\ reg' = reg /\ lost' = lost
           ELSE reg' = [reg EXCEPT ![c] = None] /\ lost' = lost \cup {reg[c]} /\ enq' = enq
        /\ UNCHANGED <<inTransition, curCpu, targetCpu, prevCpu, outCpu, reta, hwq, rxq, localq, remoteq,
                       infoPrev, infoTarget, infoFgs, timerActive, timerArmed, inbox, status, cmds,
                       mode, cmd, tail, walk, stranded, handler, sent, log, refused, cause>>
    BY DEF eth_recv_at_prev, fgVars, nicVars, queueVars, infoVars, cpVars, locVars
  <1>2. reg[c] \in Pkt  BY <1>0, <1>1
  <1> HIDE DEF t
  <1>3. /\ reg' \in [Cpus -> Pkt \cup {None}] /\ enq' \in [Cpus -> EnqType] /\ lost' \subseteq Pkt
        /\ \A x \in Cpus : EnqOK(x)'
    <2>1. CASE t \notin Cpus
      <3>1. reg' \in [Cpus -> Pkt \cup {None}] /\ \A x \in Cpus : x # c => reg'[x] = reg[x]
        BY <1>0, <1>1, <2>1
      <3>2. lost' \subseteq Pkt  BY <1>0, <1>1, <1>2, <2>1
      <3>3. \A x \in Cpus : EnqOK(x)'  BY <1>0, <1>1, <2>1, <3>1 DEF EnqOK, NoEnq
      <3> QED BY <1>0, <1>1, <2>1, <3>1, <3>2, <3>3
    <2>2. CASE t \in Cpus
      <3>1. enq' = [enq EXCEPT ![c] = [at |-> "test", q |-> t, pkt |-> None]]
        BY <1>1, <2>2 DEF NoEnq
      <3>2. [at |-> "test", q |-> t, pkt |-> None] \in EnqType  BY <2>2 DEF EnqType, Cpu
      <3>3. /\ enq' \in [Cpus -> EnqType] /\ enq'[c] = [at |-> "test", q |-> t, pkt |-> None]
            /\ \A x \in Cpus : x # c => enq'[x] = enq[x]
        BY <1>0, <3>1, <3>2
      <3>4. \A x \in Cpus : EnqOK(x)'
        <4>1. reg' = reg  BY <1>1, <2>2
        <4>2. ASSUME NEW x \in Cpus, x # c PROVE EnqOK(x)'  BY <1>0, <3>3, <4>1, <4>2 DEF EnqOK
        <4>3. /\ enq'[c].at = "test" /\ enq'[c].q = t  BY <3>3
        <4>4. EnqOK(c)'  BY <1>1, <2>2, <4>1, <4>3 DEF EnqOK
        <4> QED BY <4>2, <4>4
      <3> QED BY <1>0, <1>1, <2>2, <3>3, <3>4
    <2> QED BY <2>1, <2>2
  <1> QED BY <1>1, <1>3 DEF TypeOK, EnqOK

\* enqueue looks at the head,
LEMMA TestTypes == ASSUME TypeOK, NEW c \in Cpus, EnqueueTest(c) PROVE TypeOK'
  <1> DEFINE a == IF remoteq[enq[c].q] = << >> THEN "head" ELSE "link"
  <1>0. enq \in [Cpus -> EnqType] /\ \A x \in Cpus : EnqOK(x)  BY DEF TypeOK, EnqOK
  <1>1. /\ enq[c].at = "test" /\ enq' = [enq EXCEPT ![c].at = a]
        /\ UNCHANGED <<inTransition, curCpu, targetCpu, prevCpu, outCpu, reta, hwq, rxq, localq, remoteq,
                       infoPrev, infoTarget, infoFgs, timerActive, timerArmed, inbox, status, cmds,
                       mode, cmd, reg, tail, walk, stranded, handler, sent, log, refused, lost, cause>>
    BY DEF EnqueueTest, fgVars, nicVars, queueVars, infoVars, cpVars, locVars, endVars
  <1>2. a \in {"head", "link"}  OBVIOUS
  <1> HIDE DEF a
  <1>3. /\ enq' \in [Cpus -> EnqType] /\ enq'[c].at = a /\ enq'[c].q = enq[c].q
        /\ \A x \in Cpus : x # c => enq'[x] = enq[x]
    BY <1>0, <1>1, <1>2 DEF EnqType
  <1>4. \A x \in Cpus : EnqOK(x)'  BY <1>0, <1>1, <1>2, <1>3 DEF EnqOK
  <1> QED BY <1>1, <1>3, <1>4 DEF TypeOK, EnqOK

\* What is forgotten are packets.
LEMMA ForgetsTypes ==
    ASSUME TypeOK, NEW old, NEW kept, old \subseteq Pkt, Forgets(old, kept)
    PROVE  lost' \subseteq Pkt /\ lost' = lost \cup {p \in old \ kept : ~Processed(p)}
  BY DEF Forgets, TypeOK

\* What the two ways to put packets on a queue do.
LEMMA PutIs ==
    ASSUME TypeOK, NEW t \in Cpus, NEW r \in Seq(Pkt), r # << >>
    PROVE  /\ PutHead(t, r) =>
                /\ remoteq' \in [Cpus -> Seq(Pkt)] /\ walk' = walk /\ lost' \subseteq Pkt
                /\ remoteq'[t] = r /\ \A y \in Cpus : y # t => remoteq'[y] = remoteq[y]
                /\ lost' = lost \cup {p \in Range(remoteq[t]) \ Range(walk[t]) : ~Processed(p)}
           /\ PutNext(t, r) =>
                /\ remoteq' \in [Cpus -> Seq(Pkt)] /\ walk' \in [Cpus -> Seq(Pkt)] /\ lost' \subseteq Pkt
                /\ remoteq'[t] = Linked(remoteq[t], tail[t], r)
                /\ walk'[t] = Linked(walk[t], tail[t], r)
                /\ \A y \in Cpus : y # t => remoteq'[y] = remoteq[y] /\ walk'[y] = walk[y]
                /\ lost' = lost \cup {p \in (Range(remoteq[t]) \cup Range(walk[t]) \cup Range(r))
                                            \ (Range(remoteq'[t]) \cup Range(walk'[t])) : ~Processed(p)}
                /\ walk[t] # << >> => walk'[t] # << >>
  <1>0. /\ remoteq \in [Cpus -> Seq(Pkt)] /\ walk \in [Cpus -> Seq(Pkt)]
        /\ Range(remoteq[t]) \subseteq Pkt /\ Range(walk[t]) \subseteq Pkt /\ Range(r) \subseteq Pkt
    BY RangeType DEF TypeOK
  <1>2. ASSUME PutHead(t, r)
        PROVE  /\ remoteq' \in [Cpus -> Seq(Pkt)] /\ walk' = walk /\ lost' \subseteq Pkt
               /\ remoteq'[t] = r /\ \A y \in Cpus : y # t => remoteq'[y] = remoteq[y]
               /\ lost' = lost \cup {p \in Range(remoteq[t]) \ Range(walk[t]) : ~Processed(p)}
    <2>1. remoteq' = [remoteq EXCEPT ![t] = r] /\ walk' = walk
      BY <1>2 DEF PutHead
    <2>2. Forgets(Range(remoteq[t]), Range(walk[t]))  BY <1>2 DEF PutHead
    <2>3. lost' \subseteq Pkt /\ lost' = lost \cup {p \in Range(remoteq[t]) \ Range(walk[t]) : ~Processed(p)}
      BY <1>0, <2>2, ForgetsTypes
    <2> QED BY <1>0, <2>1, <2>3
  <1>3. ASSUME PutNext(t, r)
        PROVE  /\ remoteq' \in [Cpus -> Seq(Pkt)] /\ walk' \in [Cpus -> Seq(Pkt)] /\ lost' \subseteq Pkt
               /\ remoteq'[t] = Linked(remoteq[t], tail[t], r)
               /\ walk'[t] = Linked(walk[t], tail[t], r)
               /\ \A y \in Cpus : y # t => remoteq'[y] = remoteq[y] /\ walk'[y] = walk[y]
               /\ lost' = lost \cup {p \in (Range(remoteq[t]) \cup Range(walk[t]) \cup Range(r))
                                           \ (Range(remoteq'[t]) \cup Range(walk'[t])) : ~Processed(p)}
               /\ walk[t] # << >> => walk'[t] # << >>
    <2> DEFINE l == Linked(remoteq[t], tail[t], r)
               w == Linked(walk[t], tail[t], r)
    <2>1. /\ remoteq' = [remoteq EXCEPT ![t] = l] /\ walk' = [walk EXCEPT ![t] = w]
          /\ Forgets(Range(remoteq[t]) \cup Range(walk[t]) \cup Range(r), Range(l) \cup Range(w))
      BY <1>3 DEF PutNext
    <2>2. l \in Seq(Pkt) /\ w \in Seq(Pkt) /\ (walk[t] # << >> => w # << >>)
      BY <1>0, LinkedIs
    <2> HIDE DEF l, w
    <2>3. Range(remoteq[t]) \cup Range(walk[t]) \cup Range(r) \subseteq Pkt  BY <1>0
    <2>4. /\ lost' \subseteq Pkt
          /\ lost' = lost \cup {p \in (Range(remoteq[t]) \cup Range(walk[t]) \cup Range(r))
                                      \ (Range(l) \cup Range(w)) : ~Processed(p)}
      BY <2>1, <2>3, ForgetsTypes
    <2>5. /\ remoteq' \in [Cpus -> Seq(Pkt)] /\ walk' \in [Cpus -> Seq(Pkt)]
          /\ remoteq'[t] = l /\ walk'[t] = w
          /\ \A y \in Cpus : y # t => remoteq'[y] = remoteq[y] /\ walk'[y] = walk[y]
      BY <1>0, <2>1, <2>2
    <2>6. lost' = lost \cup {p \in (Range(remoteq[t]) \cup Range(walk[t]) \cup Range(r))
                                   \ (Range(remoteq'[t]) \cup Range(walk'[t])) : ~Processed(p)}
      BY <2>4, <2>5
    <2>7. walk[t] # << >> => walk'[t] # << >>  BY <2>2, <2>5
    <2>8. remoteq'[t] = Linked(remoteq[t], tail[t], r) /\ walk'[t] = Linked(walk[t], tail[t], r)
      BY <2>5 DEF l, w
    <2> QED BY <2>4, <2>5, <2>6, <2>7, <2>8
  <1> QED BY <1>2, <1>3

\* Either way of putting the packet on the queue, or the stop without a tail.
LEMMA LinkCases ==
    ASSUME TypeOK, NEW c \in Cpus, EnqueueLink(c)
    PROVE  /\ enq[c].q \in Cpus /\ reg[c] \in Pkt
           /\ UNCHANGED <<inTransition, curCpu, targetCpu, prevCpu, outCpu, reta, hwq, rxq, localq, tail,
                          infoPrev, infoTarget, infoFgs, timerActive, timerArmed, inbox, status, cmds,
                          cmd, handler, sent, log, refused, stranded, cause>>
           /\ \/ /\ \/ enq[c].at = "head" /\ PutHead(enq[c].q, <<reg[c]>>)
                    \/ enq[c].at = "link" /\ tail[enq[c].q] # None /\ PutNext(enq[c].q, <<reg[c]>>)
                 /\ reg' = [reg EXCEPT ![c] = None]
                 /\ enq' = [enq EXCEPT ![c] = [at |-> "tail", q |-> enq[c].q, pkt |-> reg[c]]]
                 /\ mode' = mode
              \/ /\ enq[c].at = "link" /\ tail[enq[c].q] = None
                 /\ mode' = [mode EXCEPT ![c] = "oops"]
                 /\ remoteq' = remoteq /\ walk' = walk /\ reg' = reg /\ enq' = enq /\ lost' = lost
  <1>1. enq[c].at \in {"head", "link"}  BY DEF EnqueueLink
  <1>2. EnqOK(c) /\ reg[c] \in Pkt \cup {None}  BY DEF TypeOK, EnqOK
  <1>3. enq[c].q \in Cpus /\ reg[c] \in Pkt  BY <1>1, <1>2 DEF EnqOK
  <1>4. UNCHANGED <<inTransition, curCpu, targetCpu, prevCpu, outCpu, reta, hwq, rxq, localq, tail,
                    infoPrev, infoTarget, infoFgs, timerActive, timerArmed, inbox, status, cmds,
                    cmd, handler, sent, log, refused, stranded, cause>>
    BY DEF EnqueueLink, fgVars, nicVars, infoVars, cpVars
  <1> QED BY <1>3, <1>4 DEF EnqueueLink, Goto, regVars

\* puts the packet on the queue,
LEMMA LinkTypes == ASSUME TypeOK, NEW c \in Cpus, EnqueueLink(c) PROVE TypeOK'
  <1> DEFINE t == enq[c].q
             x == reg[c]
             e == [at |-> "tail", q |-> t, pkt |-> x]
  <1>0. /\ reg \in [Cpus -> Pkt \cup {None}] /\ enq \in [Cpus -> EnqType] /\ mode \in [Cpus -> Modes]
        /\ (\A y \in Cpus : EnqOK(y)) /\ \A y \in Cpus : mode[y] = "drain" => walk[y] # << >>
    BY DEF TypeOK, EnqOK
  <1>1. /\ t \in Cpus /\ x \in Pkt
        /\ UNCHANGED <<inTransition, curCpu, targetCpu, prevCpu, outCpu, reta, hwq, rxq, localq, tail,
                       infoPrev, infoTarget, infoFgs, timerActive, timerArmed, inbox, status, cmds,
                       cmd, handler, sent, log, refused, stranded, cause>>
    BY LinkCases
  <1>2. CASE /\ PutHead(t, <<x>>) \/ PutNext(t, <<x>>)
             /\ reg' = [reg EXCEPT ![c] = None] /\ enq' = [enq EXCEPT ![c] = e] /\ mode' = mode
    <2>1. /\ remoteq' \in [Cpus -> Seq(Pkt)] /\ walk' \in [Cpus -> Seq(Pkt)] /\ lost' \subseteq Pkt
          /\ \A y \in Cpus : walk[y] # << >> => walk'[y] # << >>
      <3>1. walk \in [Cpus -> Seq(Pkt)]  BY DEF TypeOK
      <3>2. <<x>> \in Seq(Pkt) /\ <<x>> # << >>  BY <1>1, OneIs
      <3> HIDE DEF t, x
      <3> QED BY <1>1, <1>2, <3>1, <3>2, PutIs
    <2>2. e \in EnqType  BY <1>1 DEF EnqType, Cpu
    <2>3. e.at = "tail" /\ e.q = t /\ e.pkt = x  OBVIOUS
    <2> HIDE DEF e
    <2>4. /\ reg' \in [Cpus -> Pkt \cup {None}] /\ enq' \in [Cpus -> EnqType] /\ enq'[c] = e
          /\ \A y \in Cpus : y # c => reg'[y] = reg[y] /\ enq'[y] = enq[y]
      BY <1>0, <1>2, <2>2
    <2>5. \A y \in Cpus : EnqOK(y)'
      <3>1. x # None
        <4>1. enq[c].at \in {"head", "link"}  BY DEF EnqueueLink
        <4> QED BY <1>0, <4>1 DEF EnqOK
      <3> QED BY <1>0, <1>1, <2>3, <2>4, <3>1 DEF EnqOK
    <2>6. \A y \in Cpus : mode'[y] = "drain" => walk'[y] # << >>  BY <1>0, <1>2, <2>1
    <2> QED BY <1>1, <1>2, <2>1, <2>4, <2>5, <2>6 DEF TypeOK, EnqOK
  <1>3. CASE /\ mode' = [mode EXCEPT ![c] = "oops"]
             /\ remoteq' = remoteq /\ walk' = walk /\ reg' = reg /\ enq' = enq /\ lost' = lost
    <2>1. mode' \in [Cpus -> Modes] /\ \A y \in Cpus : mode'[y] = mode[y] \/ mode'[y] = "oops"
      BY <1>0, <1>3 DEF Modes
    <2>2. /\ \A y \in Cpus : mode'[y] \in AssignModes => cmd[y].cpu \in Cpus
          /\ \A y \in Cpus : mode'[y] = "drain" => walk[y] # << >>
      BY <2>1 DEF TypeOK, AssignModes
    <2> QED BY <1>1, <1>3, <2>1, <2>2 DEF TypeOK
  <1> QED BY <1>2, <1>3, LinkCases

\* and sets the tail.
LEMMA TailTypes == ASSUME TypeOK, NEW c \in Cpus, EnqueueTail(c) PROVE TypeOK'
  <1>0. /\ enq \in [Cpus -> EnqType] /\ tail \in [Cpus -> Pkt \cup {None}]
        /\ \A x \in Cpus : EnqOK(x)
    BY DEF TypeOK, EnqOK
  <1>1. /\ enq[c].at = "tail" /\ tail' = [tail EXCEPT ![enq[c].q] = enq[c].pkt]
        /\ enq' = [enq EXCEPT ![c] = NoEnq]
        /\ UNCHANGED <<inTransition, curCpu, targetCpu, prevCpu, outCpu, reta, hwq, rxq, localq, remoteq,
                       infoPrev, infoTarget, infoFgs, timerActive, timerArmed, inbox, status, cmds,
                       mode, cmd, reg, walk, stranded, handler, sent, log, refused, lost, cause>>
    BY DEF EnqueueTail, fgVars, nicVars, infoVars, cpVars, locVars, endVars
  <1>2. tail' \in [Cpus -> Pkt \cup {None}]
    <2>1. enq[c].pkt \in Pkt \cup {None}  BY <1>0 DEF EnqType
    <2> QED BY <1>0, <1>1, <2>1
  <1>3. NoEnq \in EnqType /\ NoEnq.at = "no"  BY DEF NoEnq, EnqType, Cpu
  <1>4. /\ enq' \in [Cpus -> EnqType] /\ enq'[c] = NoEnq /\ \A x \in Cpus : x # c => enq'[x] = enq[x]
    BY <1>0, <1>1, <1>3
  <1>5. \A x \in Cpus : EnqOK(x)'  BY <1>0, <1>1, <1>3, <1>4 DEF EnqOK
  <1> QED BY <1>1, <1>2, <1>4, <1>5 DEF TypeOK, EnqOK

\* A packet of the backlog is processed.
LEMMA ProcessTypes == ASSUME TypeOK, NEW c \in Cpus, eth_process_recv(c) PROVE TypeOK'
  <1>0. rxq \in [Cpus -> Seq(Pkt)]  BY DEF TypeOK
  <1>1. /\ rxq[c] # << >> /\ rxq' = [rxq EXCEPT ![c] = Tail(rxq[c])] /\ eth_input(c, Head(rxq[c]))
        /\ UNCHANGED <<inTransition, curCpu, targetCpu, prevCpu, outCpu, reta, hwq, remoteq, localq,
                       infoPrev, infoTarget, infoFgs, timerActive, timerArmed, inbox, status, cmds,
                       mode, cmd, reg, enq, tail, walk, stranded, handler, sent, refused, lost, cause>>
    BY <1>0 DEF eth_process_recv, fgVars, nicVars, infoVars, cpVars, locVars, regVars
  <1>2. Head(rxq[c]) \in Pkt /\ Tail(rxq[c]) \in Seq(Pkt)  BY <1>0, <1>1, Popped
  <1>3. rxq' \in [Cpus -> Seq(Pkt)]  BY <1>0, <1>1, <1>2
  <1>4. log' \in [Fgs -> Seq([seq : 1..MaxPkts, cpu : Cpus])]  BY <1>1, <1>2, InputTypes
  <1> QED BY <1>1, <1>3, <1>4 DEF TypeOK

\* A command comes.
LEMMA CommandTypes ==
    ASSUME TypeOK, NEW c \in Cpus, NEW cpu \in Cpus, NEW fgs \in SUBSET Fgs, Command(c, fgs, cpu)
    PROVE  TypeOK'
  <1>1. /\ cmds < MaxCmds /\ cmds' = cmds + 1 /\ status' = [status EXCEPT ![c] = "RUNNING"]
        /\ cmd' = [cmd EXCEPT ![c] = [NoCmd EXCEPT !.fgs = fgs, !.cpu = cpu]]
        /\ mode' = [mode EXCEPT ![c] = "assign"]
        /\ UNCHANGED <<inTransition, curCpu, targetCpu, prevCpu, outCpu, reta, hwq, rxq, remoteq, localq,
                       infoPrev, infoTarget, infoFgs, timerActive, timerArmed, inbox, reg, enq, tail, walk, stranded,
                       handler, sent, log, refused, lost, cause>>
    BY DEF Command, Goto, fgVars, nicVars, queueVars, infoVars, regVars, endVars
  <1>2. cmds' \in 0..MaxCmds
    <2>1. cmds \in 0..MaxCmds /\ MaxCmds \in Nat  BY BoundAssumption DEF TypeOK
    <2> QED BY <1>1, <2>1
  <1>3. status' \in [Cpus -> {"READY", "RUNNING"}]  BY <1>1 DEF TypeOK
  <1>4. /\ cmd' \in [Cpus -> CmdType] /\ cmd'[c].cpu = cpu /\ \A x \in Cpus : x # c => cmd'[x] = cmd[x]
    BY <1>1 DEF TypeOK, CmdType, Cpu, NoCmd
  <1>5. /\ mode' \in [Cpus -> Modes]
        /\ mode'[c] = "assign" /\ \A x \in Cpus : x # c => mode'[x] = mode[x]
    BY <1>1 DEF TypeOK, Modes, AssignModes
  <1>6. \A x \in Cpus : mode'[x] \in AssignModes => cmd'[x].cpu \in Cpus
    BY <1>4, <1>5 DEF TypeOK
  <1>7. \A x \in Cpus : mode'[x] = "drain" => walk[x] # << >>
    BY <1>5 DEF TypeOK
  <1> QED BY <1>1, <1>2, <1>3, <1>4, <1>5, <1>6, <1>7 DEF TypeOK

\* What assigning a group does to the command.
LEMMA SingleCmd ==
    ASSUME TypeOK, NEW c \in Cpus, NEW g \in Fgs, eth_fg_assign_single_to_cpu(c, g)
    PROVE  /\ cmd' \in [Cpus -> CmdType] /\ \A x \in Cpus : cmd'[x].cpu = cmd[x].cpu
           /\ cmd'[c].fgs = cmd[c].fgs \ {g} /\ \A x \in Cpus : x # c => cmd'[x] = cmd[x]
           /\ cmd'[c].moved = IF curCpu[g] = cmd[c].cpu THEN cmd[c].moved ELSE cmd[c].moved \cup {g}
           /\ cmd'[c].real = IF curCpu[g] \in {cmd[c].cpu, None} THEN cmd[c].real ELSE TRUE
  <1>0. cmd \in [Cpus -> CmdType] /\ cmd[c].cpu \in Cpus
    BY DEF TypeOK, eth_fg_assign_single_to_cpu, AssignModes
  <1>1. None # cmd[c].cpu  BY <1>0, BoundAssumption
  <1>2. \/ /\ curCpu[g] = cmd[c].cpu
           /\ cmd' = [cmd EXCEPT ![c] = [cmd[c] EXCEPT !.fgs = @ \ {g}]]
        \/ /\ curCpu[g] = None
           /\ cmd' = [cmd EXCEPT ![c] = [[cmd[c] EXCEPT !.fgs = @ \ {g}] EXCEPT !.moved = @ \cup {g}]]
        \/ /\ curCpu[g] \notin {cmd[c].cpu, None}
           /\ cmd' = [cmd EXCEPT ![c] = [[cmd[c] EXCEPT !.fgs = @ \ {g}] EXCEPT !.moved = @ \cup {g}, !.real = TRUE]]
    BY DEF eth_fg_assign_single_to_cpu
  <1>3. CASE /\ curCpu[g] = cmd[c].cpu
             /\ cmd' = [cmd EXCEPT ![c] = [cmd[c] EXCEPT !.fgs = @ \ {g}]]
    BY <1>0, <1>1, <1>3 DEF CmdType
  <1>4. CASE /\ curCpu[g] = None
             /\ cmd' = [cmd EXCEPT ![c] = [[cmd[c] EXCEPT !.fgs = @ \ {g}] EXCEPT !.moved = @ \cup {g}]]
    BY <1>0, <1>1, <1>4 DEF CmdType
  <1>5. CASE /\ curCpu[g] \notin {cmd[c].cpu, None}
             /\ cmd' = [cmd EXCEPT ![c] = [[cmd[c] EXCEPT !.fgs = @ \ {g}] EXCEPT !.moved = @ \cup {g}, !.real = TRUE]]
    BY <1>0, <1>1, <1>5 DEF CmdType
  <1> QED BY <1>2, <1>3, <1>4, <1>5

\* The packets of a group, and the others.
LEMMA PartsIs ==
    ASSUME TypeOK, NEW c \in Cpus, NEW g
    PROVE  /\ OfGroup(c, g) \in Seq(Pkt) /\ OfOthers(c, g) \in Seq(Pkt)
           /\ Range(OfGroup(c, g)) = {p \in Range(rxq[c]) : p.fg = g}
           /\ Range(OfOthers(c, g)) = {p \in Range(rxq[c]) : p.fg # g}
           /\ Sorted(rxq[c]) => Sorted(OfGroup(c, g)) /\ Sorted(OfOthers(c, g))
  <1> DEFINE I == {i \in DOMAIN rxq[c] : rxq[c][i].fg = g}
             J == {i \in DOMAIN rxq[c] : rxq[c][i].fg # g}
  <1>1. rxq[c] \in Seq(Pkt) /\ I \in SUBSET (DOMAIN rxq[c]) /\ J \in SUBSET (DOMAIN rxq[c])
    BY DEF TypeOK
  <1>2. /\ {rxq[c][i] : i \in I} = {p \in Range(rxq[c]) : p.fg = g}
        /\ {rxq[c][i] : i \in J} = {p \in Range(rxq[c]) : p.fg # g}
    BY DEF Range
  <1>3. OfGroup(c, g) = Sifted(rxq[c], I) /\ OfOthers(c, g) = Sifted(rxq[c], J)
    BY DEF OfGroup, OfOthers
  <1> HIDE DEF I, J
  <1> QED BY <1>1, <1>2, <1>3, SiftedIs

\* Moving the packets of a group to the target's queue.
LEMMA MoveTypes ==
    ASSUME TypeOK, NEW c \in Cpus, NEW g, NEW t \in Cpus, migrate_pkts_to_remote(c, g, t)
    PROVE  /\ rxq' \in [Cpus -> Seq(Pkt)] /\ remoteq' \in [Cpus -> Seq(Pkt)]
           /\ tail' \in [Cpus -> Pkt \cup {None}] /\ walk' \in [Cpus -> Seq(Pkt)] /\ lost' \subseteq Pkt
           /\ (\A x \in Cpus : walk[x] # << >> => walk'[x] # << >>)
           /\ mode' = mode \/ mode' = [mode EXCEPT ![c] = "oops"]
  <1> DEFINE s == OfGroup(c, g)
  <1>0. /\ rxq \in [Cpus -> Seq(Pkt)] /\ remoteq \in [Cpus -> Seq(Pkt)] /\ walk \in [Cpus -> Seq(Pkt)]
        /\ tail \in [Cpus -> Pkt \cup {None}] /\ lost \subseteq Pkt
    BY DEF TypeOK
  <1>1. s \in Seq(Pkt) /\ OfOthers(c, g) \in Seq(Pkt)  BY PartsIs
  <1>2. rxq' \in [Cpus -> Seq(Pkt)]  BY <1>0, <1>1 DEF migrate_pkts_to_remote
  <1>3. CASE UNCHANGED <<remoteq, tail, walk, lost>> /\ (mode' = mode \/ mode' = [mode EXCEPT ![c] = "oops"])
    BY <1>0, <1>2, <1>3
  <1>4. CASE /\ s # << >> /\ (PutHead(t, s) \/ PutNext(t, s))
             /\ tail' = [tail EXCEPT ![t] = Last(s)] /\ mode' = mode
    <2>1. tail' \in [Cpus -> Pkt \cup {None}]
      <3>1. Last(s) \in Pkt  BY <1>1, <1>4, LastOf
      <3> QED BY <1>0, <1>4, <3>1
    <2> HIDE DEF s
    <2>2. CASE PutHead(t, s)  BY <1>0, <1>1, <1>2, <1>4, <2>1, <2>2, PutIs
    <2>3. CASE PutNext(t, s)
      <3>1. /\ remoteq' \in [Cpus -> Seq(Pkt)] /\ walk' \in [Cpus -> Seq(Pkt)] /\ lost' \subseteq Pkt
            /\ \A y \in Cpus : y # t => remoteq'[y] = remoteq[y] /\ walk'[y] = walk[y]
            /\ walk[t] # << >> => walk'[t] # << >>
        BY <1>1, <1>4, <2>3, PutIs
      <3>2. \A x \in Cpus : walk[x] # << >> => walk'[x] # << >>  BY <3>1
      <3> QED BY <1>2, <1>4, <2>1, <3>1, <3>2
    <2> QED BY <1>4, <2>2, <2>3
  <1> QED BY <1>3, <1>4 DEF migrate_pkts_to_remote, Goto

\* The groups of a command are assigned, one by one.
LEMMA SingleTypes ==
    ASSUME TypeOK, NEW c \in Cpus, NEW g \in Fgs, eth_fg_assign_single_to_cpu(c, g)
    PROVE  TypeOK'
  <1> DEFINE cpu == cmd[c].cpu
  <1>0. cmd \in [Cpus -> CmdType] /\ curCpu \in [Fgs -> Cpu]  BY DEF TypeOK
  <1>1. mode[c] = "assign" /\ cpu \in Cpus /\ cpu \in Cpu
    BY DEF eth_fg_assign_single_to_cpu, TypeOK, AssignModes, Cpu
  <1>2. UNCHANGED <<outCpu, reta, hwq, localq, infoPrev, infoTarget, timerActive,
                   timerArmed, inbox, status, cmds, reg, enq, stranded, handler, sent, log, refused, cause>>
    BY DEF eth_fg_assign_single_to_cpu, nicVars, cpVars, regVars
  <1>3. cmd' \in [Cpus -> CmdType] /\ \A x \in Cpus : cmd'[x].cpu = cmd[x].cpu
    BY SingleCmd
  <1>4. /\ inTransition' \in [Fgs -> BOOLEAN] /\ curCpu' \in [Fgs -> Cpu] /\ targetCpu' \in [Fgs -> Cpu]
        /\ prevCpu' \in [Fgs -> Cpu] /\ infoFgs' \in [Cpus -> SUBSET Fgs]
    <2>1. None \in Cpu  BY DEF Cpu
    <2> HIDE DEF cpu
    <2>2. \/ curCpu' = curCpu
          \/ curCpu' = [curCpu EXCEPT ![g] = cpu]
          \/ curCpu' = [curCpu EXCEPT ![g] = None]
      BY DEF eth_fg_assign_single_to_cpu, fgVars, cpu
    <2>3. /\ inTransition' = inTransition \/ inTransition' = [inTransition EXCEPT ![g] = TRUE]
          /\ targetCpu' = targetCpu \/ targetCpu' = [targetCpu EXCEPT ![g] = cpu]
          /\ prevCpu' = prevCpu \/ prevCpu' = [prevCpu EXCEPT ![g] = curCpu[g]]
          /\ infoFgs' = infoFgs \/ infoFgs' = [infoFgs EXCEPT ![c] = infoFgs[c] \cup {g}]
      BY DEF eth_fg_assign_single_to_cpu, fgVars, cpu, TypeOK
    <2>4. curCpu' \in [Fgs -> Cpu]  BY <1>0, <1>1, <2>1, <2>2
    <2>5. inTransition' \in [Fgs -> BOOLEAN]  BY <2>3 DEF TypeOK
    <2>6. targetCpu' \in [Fgs -> Cpu]
      <3>1. targetCpu \in [Fgs -> Cpu]  BY DEF TypeOK
      <3> QED BY <1>1, <2>3, <3>1
    <2>7. prevCpu' \in [Fgs -> Cpu]
      <3>1. prevCpu \in [Fgs -> Cpu] /\ curCpu[g] \in Cpu  BY <1>0 DEF TypeOK
      <3> QED BY <2>3, <3>1
    <2>8. infoFgs' \in [Cpus -> SUBSET Fgs]
      <3>1. infoFgs \in [Cpus -> SUBSET Fgs]  BY DEF TypeOK
      <3>2. infoFgs[c] \cup {g} \in SUBSET Fgs  BY <3>1
      <3> QED BY <2>3, <3>1, <3>2
    <2> QED BY <2>4, <2>5, <2>6, <2>7, <2>8
  <1>5. /\ rxq' \in [Cpus -> Seq(Pkt)] /\ remoteq' \in [Cpus -> Seq(Pkt)]
        /\ tail' \in [Cpus -> Pkt \cup {None}] /\ walk' \in [Cpus -> Seq(Pkt)] /\ lost' \subseteq Pkt
        /\ (\A x \in Cpus : walk[x] # << >> => walk'[x] # << >>)
        /\ mode' = mode \/ mode' = [mode EXCEPT ![c] = "oops"]
    <2> HIDE DEF cpu
    <2>1. CASE UNCHANGED <<rxq, remoteq, tail, walk, lost, mode>>  BY <2>1 DEF TypeOK
    <2>2. CASE migrate_pkts_to_remote(c, g, cpu)  BY <1>1, <2>2, MoveTypes DEF TypeOK
    <2> QED BY <2>1, <2>2 DEF eth_fg_assign_single_to_cpu, cpu
  <1>6. /\ mode' \in [Cpus -> Modes]
        /\ \A x \in Cpus : mode'[x] = mode[x] \/ mode'[x] = "oops"
    <2>1. mode \in [Cpus -> Modes]  BY DEF TypeOK
    <2>2. "oops" \in Modes  BY DEF Modes
    <2> QED BY <1>5, <2>1, <2>2
  <1>7. /\ \A x \in Cpus : mode'[x] \in AssignModes => cmd'[x].cpu \in Cpus
        /\ \A x \in Cpus : mode'[x] = "drain" => walk'[x] # << >>
    BY <1>3, <1>5, <1>6 DEF TypeOK, AssignModes
  <1> HIDE DEF cpu
  <1> QED BY <1>2, <1>3, <1>4, <1>5, <1>6, <1>7 DEF TypeOK

\* The migration starts, or the command is done.
LEMMA InfoTypes == ASSUME TypeOK, NEW c \in Cpus, AssignInfo(c) PROVE TypeOK'
  <1>1. /\ mode[c] = "assign" /\ cmd[c].cpu \in Cpus
        /\ mode' = [mode EXCEPT ![c] = "copy"] \/ mode' = [mode EXCEPT ![c] = "reta"]
    BY DEF AssignInfo, Goto, TypeOK, AssignModes
  <1>2. /\ mode' \in [Cpus -> Modes]
        /\ mode'[c] \in {"copy", "reta"} /\ \A x \in Cpus : x # c => mode'[x] = mode[x]
    <2>1. mode \in [Cpus -> Modes]  BY DEF TypeOK
    <2>2. "copy" \in Modes /\ "reta" \in Modes  BY DEF Modes, AssignModes
    <2> QED BY <1>1, <2>1, <2>2
  <1>c. c \in Cpu  BY DEF Cpu
  <1>i. infoPrev' \in [Cpus -> Cpu]
    <2>1. infoPrev' = [infoPrev EXCEPT ![c] = c] \/ infoPrev' = infoPrev  BY DEF AssignInfo
    <2>2. infoPrev \in [Cpus -> Cpu]  BY DEF TypeOK
    <2> QED BY <1>c, <2>1, <2>2
  <1>t. infoTarget' \in [Cpus -> Cpu]
    <2>1. infoTarget' = [infoTarget EXCEPT ![c] = cmd[c].cpu] \/ infoTarget' = infoTarget
      BY DEF AssignInfo
    <2>2. cmd[c].cpu \in Cpu  BY <1>1 DEF Cpu
    <2> QED BY <2>1, <2>2 DEF TypeOK
  <1>a. timerActive' \in [Cpus -> BOOLEAN] /\ timerArmed' \in [Cpus -> BOOLEAN]
    <2>1. /\ timerActive' = [timerActive EXCEPT ![c] = TRUE] \/ timerActive' = timerActive
          /\ timerArmed' = [timerArmed EXCEPT ![c] = TRUE] \/ timerArmed' = timerArmed
      BY DEF AssignInfo
    <2> QED BY <2>1 DEF TypeOK
  <1>s. status' \in [Cpus -> {"READY", "RUNNING"}]
    <2>1. status' = [status EXCEPT ![c] = "READY"] \/ status' = status  BY DEF AssignInfo
    <2> QED BY <2>1 DEF TypeOK
  <1>3. /\ infoPrev' \in [Cpus -> Cpu] /\ infoTarget' \in [Cpus -> Cpu]
        /\ timerActive' \in [Cpus -> BOOLEAN] /\ timerArmed' \in [Cpus -> BOOLEAN]
        /\ status' \in [Cpus -> {"READY", "RUNNING"}]
    BY <1>i, <1>t, <1>a, <1>s
  <1>4. UNCHANGED <<inTransition, curCpu, targetCpu, prevCpu, outCpu, reta, hwq, rxq, localq, remoteq,
                    infoFgs, inbox, cmds, cmd, reg, enq, tail, walk, stranded, handler, sent, log, refused, lost, cause>>
    BY DEF AssignInfo, fgVars, nicVars, queueVars, regVars, endVars
  <1>5. /\ \A x \in Cpus : mode'[x] \in AssignModes => cmd[x].cpu \in Cpus
        /\ \A x \in Cpus : mode'[x] = "drain" => walk[x] # << >>
    BY <1>1, <1>2 DEF TypeOK
  <1> QED BY <1>2, <1>3, <1>4, <1>5 DEF TypeOK

\* memcpy of the migration_info.
LEMMA CopyTypes == ASSUME TypeOK, NEW c \in Cpus, AssignCopy(c) PROVE TypeOK'
  BY DEF TypeOK, AssignCopy, Goto, fgVars, nicVars, queueVars, cpVars, locVars, regVars, endVars,
         Modes, AssignModes, HandlerModes

\* The redirection table is written.
LEMMA RetaTypes == ASSUME TypeOK, NEW c \in Cpus, AssignReta(c) PROVE TypeOK'
  BY DEF TypeOK, AssignReta, Goto, fgVars, queueVars, infoVars, cpVars, locVars, regVars, endVars,
         Modes, AssignModes, HandlerModes, CmdType, Cpu

\* The outbound groups follow.
LEMMA FdirTypes == ASSUME TypeOK, NEW c \in Cpus, AssignFdir(c) PROVE TypeOK'
  BY DEF TypeOK, AssignFdir, Goto, fgVars, nicVars, queueVars, infoVars, cpVars, regVars, endVars,
         Modes, AssignModes, HandlerModes, CmdType, NoCmd, Cpu

\* The request for the target handler.
LEMMA TargetRequest ==
    ASSUME NEW c \in Cpus
    PROVE  LET r == [f |-> "target", info |-> c] IN r \in Request /\ (r.f = "target" => r.info # None)
  BY BoundAssumption DEF Request, Cpu

\* The timeout.
LEMMA TimeoutTypes == ASSUME TypeOK, NEW c \in Cpus, transition_handler_prev(c) PROVE TypeOK'
  <1>1. cpu_run_on_one(infoTarget[c], [f |-> "target", info |-> c])  BY DEF transition_handler_prev
  <1>2. /\ inbox' \in [Cpus -> Seq(Request)]
        /\ \A x \in Cpus : \A y \in Range(inbox'[x]) : y.f = "target" => y.info # None
    BY <1>1, TargetRequest, SendTypes
  <1>3. /\ timerArmed' \in [Cpus -> BOOLEAN] /\ timerActive' \in [Cpus -> BOOLEAN]
        /\ cause' \subseteq {"timeout", "nombuf", "race"}
    BY DEF transition_handler_prev, TypeOK
  <1>4. UNCHANGED <<inTransition, curCpu, targetCpu, prevCpu, outCpu, reta, hwq, rxq, localq, remoteq,
                    infoPrev, infoTarget, infoFgs, status, cmds, mode, cmd, reg, enq, tail, walk, stranded, handler, sent, log,
                    refused, lost>>
    BY DEF transition_handler_prev, fgVars, nicVars, queueVars, cpVars, locVars, regVars
  <1> QED BY <1>2, <1>3, <1>4 DEF TypeOK

\* The previous CPU is asked for an early transition,
LEMMA EarlyTypes ==
    ASSUME TypeOK, NEW c \in Cpus, NEW k, early_transition_handler_prev(c, k) PROVE TypeOK'
  <1>1. Takes(c, k, "early") /\ mode[c] = "loop"  BY DEF early_transition_handler_prev, Takes, Idle
  <1>2. /\ inbox' \in [Cpus -> Seq(Request)]
        /\ \A x \in Cpus : \A y \in Range(inbox'[x]) : y.f = "target" => y.info # None
    BY <1>1, TakeTypes
  <1>3. mode' = mode \/ mode' = [mode EXCEPT ![c] = "cancel"]
    BY DEF early_transition_handler_prev, Goto
  <1>4. /\ mode' \in [Cpus -> Modes]
        /\ \A x \in Cpus : mode'[x] = mode[x] \/ mode'[x] = "cancel"
    <2>1. mode \in [Cpus -> Modes]  BY DEF TypeOK
    <2>2. "cancel" \in Modes  BY DEF Modes
    <2> QED BY <1>3, <2>1, <2>2
  <1>5. UNCHANGED <<inTransition, curCpu, targetCpu, prevCpu, outCpu, reta, hwq, rxq, localq, remoteq,
                    infoPrev, infoTarget, infoFgs, timerActive, timerArmed, status, cmds, cmd, reg, enq, tail,
                    walk, stranded, handler, sent, log, refused, lost, cause>>
    BY DEF early_transition_handler_prev, fgVars, nicVars, queueVars, infoVars, cpVars, locVars, regVars,
           endVars
  <1>6. /\ \A x \in Cpus : mode'[x] \in AssignModes => cmd[x].cpu \in Cpus
        /\ \A x \in Cpus : mode'[x] = "drain" => walk[x] # << >>
    BY <1>4 DEF TypeOK, Modes, AssignModes
  <1> QED BY <1>2, <1>4, <1>5, <1>6 DEF TypeOK

\* and stops its timer.
LEMMA CancelTypes == ASSUME TypeOK, NEW c \in Cpus, EarlyCancel(c) PROVE TypeOK'
  <1>1. mode' = [mode EXCEPT ![c] = "early"]  BY DEF EarlyCancel, Goto
  <1>2. /\ mode' \in [Cpus -> Modes]
        /\ \A x \in Cpus : mode'[x] = mode[x] \/ mode'[x] = "early"
    <2>1. mode \in [Cpus -> Modes]  BY DEF TypeOK
    <2>2. "early" \in Modes  BY DEF Modes
    <2> QED BY <1>1, <2>1, <2>2
  <1>3. timerArmed' \in [Cpus -> BOOLEAN] /\ timerActive' \in [Cpus -> BOOLEAN]
    BY DEF EarlyCancel, TypeOK
  <1>4. UNCHANGED <<inTransition, curCpu, targetCpu, prevCpu, outCpu, reta, hwq, rxq, localq, remoteq,
                    infoPrev, infoTarget, infoFgs, inbox, status, cmds, cmd, reg, enq, tail, walk, stranded,
                    handler, sent, log, refused, lost, cause>>
    BY DEF EarlyCancel, fgVars, nicVars, queueVars, cpVars, locVars, regVars, endVars
  <1>5. /\ \A x \in Cpus : mode'[x] \in AssignModes => cmd[x].cpu \in Cpus
        /\ \A x \in Cpus : mode'[x] = "drain" => walk[x] # << >>
    BY <1>2 DEF TypeOK, Modes, AssignModes
  <1> QED BY <1>2, <1>3, <1>4, <1>5 DEF TypeOK

\* The previous CPU has read its queue.
LEMMA DoneTypes == ASSUME TypeOK, NEW c \in Cpus, EarlyDone(c) PROVE TypeOK'
  <1>1. cpu_run_on_one(infoTarget[c], [f |-> "target", info |-> c])  BY DEF EarlyDone
  <1>2. /\ inbox' \in [Cpus -> Seq(Request)]
        /\ \A x \in Cpus : \A y \in Range(inbox'[x]) : y.f = "target" => y.info # None
    BY <1>1, TargetRequest, SendTypes
  <1>3. mode' = [mode EXCEPT ![c] = "loop"]  BY DEF EarlyDone, Goto
  <1>4. /\ mode' \in [Cpus -> Modes]
        /\ \A x \in Cpus : mode'[x] = mode[x] \/ mode'[x] = "loop"
    BY <1>3 DEF TypeOK, Modes
  <1>5. cause' \subseteq {"timeout", "nombuf", "race"}  BY DEF EarlyDone, TypeOK
  <1>6. UNCHANGED <<inTransition, curCpu, targetCpu, prevCpu, outCpu, reta, hwq, rxq, localq, remoteq,
                    infoPrev, infoTarget, infoFgs, timerActive, timerArmed, status, cmds, cmd, reg, enq, tail, walk, stranded,
                    handler, sent, log, refused, lost>>
    BY DEF EarlyDone, fgVars, nicVars, queueVars, infoVars, cpVars, locVars, regVars
  <1>7. /\ \A x \in Cpus : mode'[x] \in AssignModes => cmd[x].cpu \in Cpus
        /\ \A x \in Cpus : mode'[x] = "drain" => walk[x] # << >>
    BY <1>4 DEF TypeOK, Modes, AssignModes
  <1> QED BY <1>2, <1>4, <1>5, <1>6, <1>7 DEF TypeOK

\* What another CPU than the target has of a group is in its ring, or in its hands.
LEMMA BehindIs ==
    ASSUME NEW g, NEW p
    PROVE  p \in Behind(g) <=>
             /\ p.fg = g
             /\ \/ \E x \in Cpus : x # targetCpu[g] /\ p \in Range(hwq[x])
                \/ p # None /\ \E x \in Cpus : p = reg[x]
  <1> DEFINE A == {Range(hwq[x]) : x \in Cpus \ {targetCpu[g]}}
             B == {reg[x] : x \in Cpus} \ {None}
  <1>1. Behind(g) = {y \in (UNION A) \cup B : y.fg = g}  BY Zenon DEF Behind
  <1>2. p \in UNION A <=> \E x \in Cpus : x # targetCpu[g] /\ p \in Range(hwq[x])  OBVIOUS
  <1>3. p \in B <=> p # None /\ \E x \in Cpus : p = reg[x]  OBVIOUS
  <1> HIDE DEF A, B
  <1> QED BY <1>1, <1>2, <1>3

\* The groups are handed over.
LEMMA TargetTypes ==
    ASSUME TypeOK, NEW c \in Cpus, NEW k, transition_handler_target(c, k) PROVE TypeOK'
  <1> DEFINE info == inbox[c][k].info
             done == infoFgs[info]
  <1>1. Takes(c, k, "target")  BY DEF transition_handler_target
  <1>2. /\ inbox' \in [Cpus -> Seq(Request)]
        /\ \A x \in Cpus : \A y \in Range(inbox'[x]) : y.f = "target" => y.info # None
        /\ inbox[c][k] \in Request /\ inbox[c][k] \in Range(inbox[c]) /\ inbox[c][k].f = "target"
    BY <1>1, TakeTypes
  <1>3. info \in Cpus
    <2>1. info # None  BY <1>2 DEF TypeOK
    <2> QED BY <1>2, <2>1 DEF Request, Cpu
  <1>4. /\ inTransition' = [g \in Fgs |-> IF g \in done THEN FALSE ELSE inTransition[g]]
        /\ curCpu' = [g \in Fgs |-> IF g \in done THEN targetCpu[g] ELSE curCpu[g]]
        /\ targetCpu' = [g \in Fgs |-> IF g \in done THEN None ELSE targetCpu[g]]
        /\ prevCpu' = [g \in Fgs |-> IF g \in done THEN None ELSE prevCpu[g]]
        /\ handler' = [handler EXCEPT ![c] = [info |-> info, prev |-> infoPrev[info]]]
        /\ mode' = [mode EXCEPT ![c] = "readHead"]
    BY DEF transition_handler_target, Goto
  <1> HIDE DEF info, done
  <1>5. /\ inTransition' \in [Fgs -> BOOLEAN] /\ curCpu' \in [Fgs -> Cpu]
    BY <1>4 DEF TypeOK
  <1>6. targetCpu' \in [Fgs -> Cpu] /\ prevCpu' \in [Fgs -> Cpu]
    BY <1>4 DEF TypeOK, Cpu
  <1>7. handler' \in [Cpus -> [info : Cpu, prev : Cpu]]
    <2>1. info \in Cpu /\ infoPrev[info] \in Cpu  BY <1>3 DEF TypeOK, Cpu
    <2> QED BY <1>4, <2>1 DEF TypeOK
  <1>8. /\ mode' \in [Cpus -> Modes]
        /\ \A x \in Cpus : mode'[x] = mode[x] \/ mode'[x] = "readHead"
    BY <1>4 DEF TypeOK, Modes, HandlerModes
  <1>9. UNCHANGED <<outCpu, reta, hwq, rxq, localq, remoteq, infoPrev, infoTarget, infoFgs, timerActive,
                    timerArmed, status, cmds, cmd, reg, enq, tail, walk, sent, log, refused, lost, cause>>
    BY DEF transition_handler_target, nicVars, queueVars, infoVars, cpVars, regVars, endVars
  <1>10. /\ \A x \in Cpus : mode'[x] \in AssignModes => cmd[x].cpu \in Cpus
         /\ \A x \in Cpus : mode'[x] = "drain" => walk[x] # << >>
    BY <1>8 DEF TypeOK, Modes, AssignModes
  <1>11. stranded' \subseteq Pkt
    <2>1. stranded' = stranded \cup UNION {Behind(g) : g \in done}
      BY DEF transition_handler_target, info, done
    <2>2. \A x \in Cpus : Range(hwq[x]) \subseteq Pkt  BY RangeType DEF TypeOK
    <2>3. ASSUME NEW g, NEW p \in Behind(g) PROVE p \in Pkt
      <3>1. (\E x \in Cpus : p \in Range(hwq[x])) \/ (p # None /\ \E x \in Cpus : p = reg[x])
        BY <2>3, BehindIs
      <3>2. CASE \E x \in Cpus : p \in Range(hwq[x])  BY <2>2, <3>2
      <3>3. CASE p # None /\ \E x \in Cpus : p = reg[x]  BY <3>3 DEF TypeOK
      <3> QED BY <3>1, <3>2, <3>3
    <2>4. UNION {Behind(g) : g \in done} \subseteq Pkt  BY <2>3
    <2>5. stranded \subseteq Pkt  BY DEF TypeOK
    <2> QED BY <2>1, <2>4, <2>5
  <1> QED BY <1>2, <1>5, <1>6, <1>7, <1>8, <1>9, <1>10, <1>11 DEF TypeOK

\* The target looks at the queue of packets that were moved to it,
LEMMA ReadHeadTypes == ASSUME TypeOK, NEW c \in Cpus, TargetReadHead(c) PROVE TypeOK'
  <1>1. /\ walk' = [walk EXCEPT ![c] = remoteq[c]]
        /\ mode' = [mode EXCEPT ![c] = IF remoteq[c] = << >> THEN "reset" ELSE "drain"]
        /\ UNCHANGED <<inTransition, curCpu, targetCpu, prevCpu, outCpu, reta, hwq, rxq, localq, remoteq,
                    infoPrev, infoTarget, infoFgs, timerActive, timerArmed, inbox, status, cmds, cmd, reg,
                    enq, tail, stranded, handler, sent, log, refused, lost, cause>>
    BY DEF TargetReadHead, Goto, fgVars, nicVars, queueVars, infoVars, cpVars, regVars, endVars
  <1>2. walk' \in [Cpus -> Seq(Pkt)] /\ walk'[c] = remoteq[c] /\ \A x \in Cpus : x # c => walk'[x] = walk[x]
    BY <1>1 DEF TypeOK
  <1>3. /\ mode' \in [Cpus -> Modes]
        /\ mode'[c] = IF remoteq[c] = << >> THEN "reset" ELSE "drain"
        /\ \A x \in Cpus : x # c => mode'[x] = mode[x]
    BY <1>1 DEF TypeOK, Modes, HandlerModes
  <1>5. /\ \A x \in Cpus : mode'[x] \in AssignModes => cmd[x].cpu \in Cpus
        /\ \A x \in Cpus : mode'[x] = "drain" => walk'[x] # << >>
    BY <1>2, <1>3 DEF TypeOK, Modes, AssignModes
  <1> QED BY <1>1, <1>2, <1>3, <1>5 DEF TypeOK

\* processes a packet of it,
LEMMA DrainTypes == ASSUME TypeOK, NEW c \in Cpus, TargetDrain(c) PROVE TypeOK'
  <1> DEFINE p == Head(walk[c])
             w == Tail(walk[c])
  <1>0. walk \in [Cpus -> Seq(Pkt)]  BY DEF TypeOK
  <1>1. /\ mode[c] = "drain" /\ walk' = [walk EXCEPT ![c] = w] /\ eth_input(c, p)
        /\ mode' = [mode EXCEPT ![c] = IF w = << >> THEN "reset" ELSE "drain"]
        /\ UNCHANGED <<inTransition, curCpu, targetCpu, prevCpu, outCpu, reta, hwq, rxq, localq, remoteq,
                    infoPrev, infoTarget, infoFgs, timerActive, timerArmed, inbox, status, cmds, cmd, reg,
                    enq, tail, stranded, handler, sent, refused, lost, cause>>
    BY <1>0 DEF TargetDrain, Goto, fgVars, nicVars, queueVars, infoVars, cpVars, regVars
  <1>2. walk[c] # << >>  BY <1>1 DEF TypeOK
  <1>3. p \in Pkt /\ w \in Seq(Pkt)  BY <1>0, <1>2, Popped
  <1>4. log' \in [Fgs -> Seq([seq : 1..MaxPkts, cpu : Cpus])]  BY <1>1, <1>3, InputTypes
  <1> HIDE DEF p, w
  <1>5. walk' \in [Cpus -> Seq(Pkt)] /\ walk'[c] = w /\ \A x \in Cpus : x # c => walk'[x] = walk[x]
    BY <1>0, <1>1, <1>3
  <1>6. /\ mode' \in [Cpus -> Modes]
        /\ mode'[c] = IF w = << >> THEN "reset" ELSE "drain"
        /\ \A x \in Cpus : x # c => mode'[x] = mode[x]
    BY <1>1 DEF TypeOK, Modes, HandlerModes
  <1>7. /\ \A x \in Cpus : mode'[x] \in AssignModes => cmd[x].cpu \in Cpus
        /\ \A x \in Cpus : mode'[x] = "drain" => walk'[x] # << >>
    BY <1>5, <1>6 DEF TypeOK, Modes, AssignModes
  <1> QED BY <1>1, <1>4, <1>5, <1>6, <1>7 DEF TypeOK

\* empties it,
LEMMA ResetTypes == ASSUME TypeOK, NEW c \in Cpus, TargetReset(c) PROVE TypeOK'
  <1>1. /\ mode[c] = "reset" /\ mode' = [mode EXCEPT ![c] = "resetTail"]
        /\ remoteq' = [remoteq EXCEPT ![c] = << >>] /\ Forgets(Range(remoteq[c]), {})
        /\ UNCHANGED <<inTransition, curCpu, targetCpu, prevCpu, outCpu, reta, hwq, rxq, localq,
                    infoPrev, infoTarget, infoFgs, timerActive, timerArmed, inbox, status, cmds, cmd, reg,
                    enq, tail, walk, stranded, handler, sent, log, refused, cause>>
    BY DEF TargetReset, Goto, fgVars, nicVars, queueVars, infoVars, cpVars, locVars, regVars
  <1>2. lost' \subseteq Pkt
    <2>1. Range(remoteq[c]) \subseteq Pkt  BY RangeType DEF TypeOK
    <2> QED BY <1>1, <2>1, ForgetsTypes
  <1>3. remoteq' \in [Cpus -> Seq(Pkt)]
    <2>1. << >> \in Seq(Pkt) /\ remoteq \in [Cpus -> Seq(Pkt)]  BY DEF TypeOK
    <2> QED BY <1>1, <2>1
  <1>4. /\ mode' \in [Cpus -> Modes]
        /\ mode'[c] = "resetTail" /\ \A x \in Cpus : x # c => mode'[x] = mode[x]
    BY <1>1 DEF TypeOK, Modes, HandlerModes
  <1>5. /\ \A x \in Cpus : mode'[x] \in AssignModes => cmd[x].cpu \in Cpus
        /\ \A x \in Cpus : mode'[x] = "drain" => walk[x] # << >>
    BY <1>4 DEF TypeOK, Modes, AssignModes
  <1> QED BY <1>1, <1>2, <1>3, <1>4, <1>5 DEF TypeOK

\* its tail too,
LEMMA ResetTailTypes == ASSUME TypeOK, NEW c \in Cpus, TargetResetTail(c) PROVE TypeOK'
  BY DEF TypeOK, TargetResetTail, Goto, fgVars, nicVars, infoVars, cpVars, locVars, regVars,
         endVars, Modes, AssignModes, HandlerModes

\* processes a packet that came to it,
LEMMA LocalTypes == ASSUME TypeOK, NEW c \in Cpus, TargetLocal(c) PROVE TypeOK'
  <1>0. localq \in [Cpus -> Seq(Pkt)]  BY DEF TypeOK
  <1>1. /\ localq[c] # << >> /\ localq' = [localq EXCEPT ![c] = Tail(localq[c])]
        /\ eth_input(c, Head(localq[c]))
        /\ UNCHANGED <<inTransition, curCpu, targetCpu, prevCpu, outCpu, reta, hwq, rxq, remoteq,
                       infoPrev, infoTarget, infoFgs, timerActive, timerArmed, inbox, status, cmds,
                       mode, cmd, reg, enq, tail, walk, stranded, handler, sent, refused, lost, cause>>
    BY <1>0 DEF TargetLocal, fgVars, nicVars, infoVars, cpVars, locVars, regVars
  <1>2. Head(localq[c]) \in Pkt /\ Tail(localq[c]) \in Seq(Pkt)  BY <1>0, <1>1, Popped
  <1>3. localq' \in [Cpus -> Seq(Pkt)]  BY <1>0, <1>1, <1>2
  <1>4. log' \in [Fgs -> Seq([seq : 1..MaxPkts, cpu : Cpus])]  BY <1>1, <1>2, InputTypes
  <1> QED BY <1>1, <1>3, <1>4 DEF TypeOK

\* and reports.
LEMMA FinishTypes == ASSUME TypeOK, NEW c \in Cpus, TargetFinish(c) PROVE TypeOK'
  BY DEF TypeOK, TargetFinish, Goto, fgVars, nicVars, queueVars, regVars, endVars,
         Modes, AssignModes, HandlerModes, Cpu

\* The initial state.
LEMMA InitTypes == Init => TypeOK
  <1> SUFFICES ASSUME Init PROVE TypeOK  OBVIOUS
  <1>1. << >> \in Seq(Pkt) /\ << >> \in Seq(Request) /\ << >> \in Seq([seq : 1..MaxPkts, cpu : Cpus])
    OBVIOUS
  <1>2. NoCmd \in CmdType  BY DEF NoCmd, CmdType, Cpu
  <1>3. None \in Cpu /\ [info |-> None, prev |-> None] \in [info : Cpu, prev : Cpu]
        /\ Cpus \subseteq Cpu /\ Owners \subseteq Cpu
    BY BoundAssumption DEF Cpu
  <1>4. 0 \in 0..MaxPkts /\ 0 \in 0..MaxCmds  BY BoundAssumption
  <1>5. \A c \in Cpus : Range(inbox[c]) = {} /\ mode[c] = "loop"  BY RangeEmpty DEF Init
  <1>6. /\ inTransition \in [Fgs -> BOOLEAN] /\ curCpu \in [Fgs -> Cpu] /\ targetCpu \in [Fgs -> Cpu]
        /\ prevCpu \in [Fgs -> Cpu] /\ reta \in [Fgs -> Cpu] /\ outCpu \in [Cpus -> Cpus]
    BY <1>3 DEF Init
  <1>7. /\ hwq \in [Cpus -> Seq(Pkt)] /\ rxq \in [Cpus -> Seq(Pkt)]
        /\ localq \in [Cpus -> Seq(Pkt)] /\ remoteq \in [Cpus -> Seq(Pkt)]
        /\ inbox \in [Cpus -> Seq(Request)] /\ log \in [Fgs -> Seq([seq : 1..MaxPkts, cpu : Cpus])]
    BY <1>1 DEF Init
  <1>8. /\ infoPrev \in [Cpus -> Cpu] /\ infoTarget \in [Cpus -> Cpu] /\ infoFgs \in [Cpus -> SUBSET Fgs]
        /\ timerActive \in [Cpus -> BOOLEAN] /\ timerArmed \in [Cpus -> BOOLEAN]
        /\ handler \in [Cpus -> [info : Cpu, prev : Cpu]] /\ cmd \in [Cpus -> CmdType]
    BY <1>2, <1>3 DEF Init
  <1>9. /\ status \in [Cpus -> {"READY", "RUNNING"}]
        /\ mode \in [Cpus -> Modes]
        /\ reg \in [Cpus -> Pkt \cup {None}] /\ tail \in [Cpus -> Pkt \cup {None}]
        /\ walk \in [Cpus -> Seq(Pkt)] /\ sent \in [Fgs -> 0..MaxPkts]
        /\ refused = {} /\ lost = {} /\ stranded = {} /\ cause = {} /\ cmds \in 0..MaxCmds
    BY <1>1, <1>4 DEF Init, Modes
  <1>10. enq = [c \in Cpus |-> NoEnq] /\ NoEnq \in EnqType /\ NoEnq.at = "no"
    BY DEF Init, NoEnq, EnqType, Cpu
  <1>11. enq \in [Cpus -> EnqType] /\ \A c \in Cpus : enq[c] = NoEnq  BY <1>10
  <1> QED BY <1>5, <1>6, <1>7, <1>8, <1>9, <1>10, <1>11 DEF TypeOK, AssignModes

\* Every step of a CPU keeps the types.
LEMMA StepTypes == ASSUME TypeOK, NEW c \in Cpus, Step(c) PROVE TypeOK'
  BY PollTypes, AtPrevTypes, TestTypes, LinkTypes, TailTypes, ProcessTypes, SingleTypes, InfoTypes,
     CopyTypes, RetaTypes, FdirTypes, EarlyTypes, CancelTypes, TargetTypes, DoneTypes, ReadHeadTypes,
     DrainTypes, ResetTypes, ResetTailTypes, LocalTypes, FinishTypes DEF Step

\* Every variable keeps its type, and no handler reads where there is nothing,
\* for any number of CPUs, groups, packets and commands.
THEOREM FlowTypes == Spec => []TypeOK
  <1>1. TypeOK /\ [Next]_vars => TypeOK'
    <2> SUFFICES ASSUME TypeOK, [Next]_vars PROVE TypeOK'  OBVIOUS
    <2>1. CASE \E g \in Fgs : Arrive(g)  BY <2>1, ArriveTypes
    <2>2. CASE \E c \in Cpus : Step(c) \/ transition_handler_prev(c)
      BY <2>2, StepTypes, TimeoutTypes
    <2>3. CASE \E c, cpu \in Cpus, fgs \in SUBSET Fgs \ {{}} : Command(c, fgs, cpu)
      BY <2>3, CommandTypes
    <2>4. CASE UNCHANGED vars  BY <2>4 DEF TypeOK, vars
    <2> QED BY <2>1, <2>2, <2>3, <2>4 DEF Next
  <1> QED BY <1>1, InitTypes, PTL DEF Spec

-----------------------------------------------------------------------------
(* One migration.                                                          *)

\* The states of at most one command, which moves groups from CPU s to CPU d
\* (None before there is one).  A transition ends when d has run the target
\* handler; until then the call for it is in d's inbox, or s polls its queue
\* for the last time before it makes that call, or the timer will make it.
Asked(d) == d \in Cpus /\ \E r \in Range(inbox[d]) : r.f = "target"
Waiting(s, d) == timerArmed[s] \/ mode[s] = "early" \/ Asked(d)

\* Which CPU can be where: s gives groups away, d takes them.
Place(c, s, d) ==
    /\ mode[c] \in AssignModes \cup {"oops"} => c = s
    /\ mode[c] \in {"cancel", "early"} => c = s /\ s # d
    /\ mode[c] = "cancel" => timerArmed[c]
    /\ mode[c] \in HandlerModes => c = d /\ s # d
    /\ mode[c] \in AssignModes \cup {"cancel"} => reg[c] = None /\ enq[c].at = "no"
Roles(s, d) ==
    /\ s = None <=> cmds = 0
    /\ d = None <=> cmds = 0
    /\ \A c \in Cpus :
       /\ Place(c, s, d)
       /\ timerArmed[c] => c = s /\ s # d
       /\ reg[c] # None => c = s /\ s # d
       /\ enq[c].at # "no" => c = s /\ s # d /\ enq[c].q = d
       /\ infoPrev[c] # None => c \in {s, d} /\ infoPrev[c] = s
       /\ cmds = 0 => infoFgs[c] = {} /\ ~timerActive[c]

\* Which calls CPUs can have been sent.
Calls(s, d) ==
    /\ \A c \in Cpus : \A r \in Range(inbox[c]) :
         IF r.f = "target" THEN c = d /\ s # d /\ r.info = s ELSE c = s /\ s # d
    /\ cmds # 0 /\ s # d => Len(inbox[d]) <= 1

\* The command assigns the groups it has not come to yet.
Assigning(s, d) ==
    /\ mode[s] \in AssignModes => cmd[s].cpu = d
    /\ mode[s] = "assign" =>
         /\ ~Waiting(s, d) /\ mode[d] \notin HandlerModes /\ ~timerActive[s]
         /\ cmd[s].real <=> infoFgs[s] # {}
         /\ \A g \in cmd[s].fgs : /\ curCpu[g] = reta[g] /\ curCpu[g] \in {s, d, None}
                                  /\ ~inTransition[g]
    /\ mode[s] = "copy" => s # d

\* Exactly one of the three is the case while groups are in transition, and
\* the bitmap of s names those groups.
Tokens(s, d) ==
    /\ s # d /\ timerActive[s] => timerArmed[s]
    /\ ~(timerArmed[s] /\ mode[s] = "early")
    /\ ~(timerArmed[s] /\ Asked(d))
    /\ ~(mode[s] = "early" /\ Asked(d))
    /\ Waiting(s, d) => infoTarget[s] = d /\ s # d /\ mode[d] \notin HandlerModes
    /\ mode[s] = "assign" \/ Waiting(s, d) => infoFgs[s] = {g \in Fgs : inTransition[g]}
    /\ mode[s] # "assign" /\ ~Waiting(s, d) => \A g \in Fgs : ~inTransition[g]

\* Where the groups are, and where the NIC sends them.
Groups(s, d) == \A g \in Fgs :
    /\ inTransition[g] => /\ cmds # 0 /\ s # d /\ curCpu[g] = None
                          /\ prevCpu[g] = s /\ targetCpu[g] = d /\ reta[g] \in {s, d}
    /\ ~inTransition[g] => /\ targetCpu[g] = None
                           /\ reta[g] # curCpu[g] => /\ cmds # 0 /\ curCpu[g] = d
                                                     /\ reta[g] = None \/ (reta[g] = s /\ s # d)
    /\ cmds # 0 /\ reta[g] # (IF inTransition[g] THEN d ELSE curCpu[g]) =>
         mode[s] \in {"assign", "copy", "reta"} /\ g \in cmd[s].moved
    /\ cmds # 0 /\ g \in cmd[s].moved => inTransition[g] \/ curCpu[g] = d

\* The part of the invariant that does not look at packets.
Control(s, d) ==
    /\ Roles(s, d) /\ Calls(s, d) /\ Groups(s, d)
    /\ cmds # 0 => Assigning(s, d) /\ Tokens(s, d)

\* A packet's stages, from its processing back to the NIC.  A packet in a
\* queue where eth_recv will drop it is at no stage, nor is one on the remote
\* queue that the target's loop is past or one that will be put there too late.
Walking(c) == mode[c] \in {"readHead", "drain"}
Owner(g)   == IF inTransition[g] THEN targetCpu[g] ELSE curCpu[g]
Pending(p) == \E c \in Cpus :
    p \in Range(walk[c]) \/ (p \in Range(remoteq[c]) /\ (inTransition[p.fg] \/ mode[c] = "readHead"))
Held(p)    == (\E c \in Cpus : reg[c] # None /\ reg[c] = p) /\
              (inTransition[p.fg] \/ \E t \in Cpus : Walking(t))
AtPrev(p)  == inTransition[p.fg] /\ prevCpu[p.fg] \in Cpus /\ p \in Range(hwq[prevCpu[p.fg]])
Parked(p)  == \E c \in Cpus : p \in Range(localq[c])
Queued(p)  == \E c \in Cpus : p \in Range(rxq[c])
Coming(p)  == Owner(p.fg) \in Cpus /\ p \in Range(hwq[Owner(p.fg)])

Live(p, k) ==
    \/ k = 0 /\ Processed(p)
    \/ k = 1 /\ Pending(p)
    \/ k = 2 /\ Held(p)
    \/ k = 3 /\ AtPrev(p)
    \/ k = 4 /\ Parked(p)
    \/ k = 5 /\ Queued(p)
    \/ k = 6 /\ Coming(p)

\* A packet at an earlier stage arrived before those of its group at a later
\* one, and they have all been sent.
Chain ==
    /\ \A p, q \in Pkt : \A k, l \in 0..6 :
         p.fg = q.fg /\ k < l /\ Live(p, k) /\ Live(q, l) => p.seq < q.seq
    /\ \A p \in Pkt : \A k \in 0..6 : Live(p, k) => p.seq <= sent[p.fg]

\* So it is in every queue (the remote one is in Tailed).
Queues == \A c \in Cpus :
    /\ Sorted(hwq[c]) /\ Sorted(rxq[c]) /\ Sorted(localq[c]) /\ Sorted(walk[c])
    /\ \A p \in Range(hwq[c]) : p.seq <= sent[p.fg]

\* The groups the command has come to are not handed over yet.
Busy(s, d) == mode[s] = "assign" \/ Waiting(s, d)

\* The target handler walks the queue to its end.
Positions == \A c \in Cpus :
    /\ mode[c] # "drain" => walk[c] = << >>
    /\ mode[c] = "drain" => remoteq[c] # << >> /\ Last(walk[c]) = Last(remoteq[c])

\* While nobody has begun to empty d's queue it is in order, and its tail
\* pointer is its last packet, but for the store that is still to come.
Whole(s, d) == Busy(s, d) \/ Walking(d)
Tailed(s, d) ==
    /\ \A c \in Cpus : enq[c].at = "head" => remoteq[enq[c].q] = << >>
    /\ cmds # 0 /\ Whole(s, d) =>
         /\ Sorted(remoteq[d])
         /\ enq[s].at = "link" => remoteq[d] # << >>
         /\ enq[s].at = "tail" => remoteq[d] # << >> /\ Last(remoteq[d]) = enq[s].pkt
         /\ enq[s].at # "tail" /\ remoteq[d] # << >> => tail[d] = Last(remoteq[d])

\* Which packets each queue holds.
PlacedRx == \A c \in Cpus : \A p \in Range(rxq[c]) : ~inTransition[p.fg] /\ curCpu[p.fg] = c
PlacedLocal(d) == \A c \in Cpus : \A p \in Range(localq[c]) :
    /\ c = d /\ reta[p.fg] = d
    /\ inTransition[p.fg] \/ (curCpu[p.fg] = d /\ mode[d] \in HandlerModes)
PlacedWalk(d) == \A c \in Cpus : \A p \in Range(walk[c]) : c = d /\ curCpu[p.fg] = d
PlacedRemote(s, d) == \A c \in Cpus : \A p \in Range(remoteq[c]) :
    /\ c = d
    /\ IF Busy(s, d) THEN inTransition[p.fg]
       ELSE IF mode[d] = "readHead" THEN curCpu[p.fg] = d
       ELSE p \in Range(walk[d]) \/ Processed(p) \/ (mode[d] # "drain" /\ p \in stranded)
PlacedReg(s, d) == \A c \in Cpus : reg[c] # None =>
    IF Busy(s, d) THEN inTransition[reg[c].fg] ELSE curCpu[reg[c].fg] = d /\ reg[c] \in stranded
PlacedHw(d) == \A c \in Cpus : \A p \in Range(hwq[c]) : inTransition[p.fg] /\ c = d => reta[p.fg] = d
Placed(s, d) ==
    /\ PlacedRx /\ PlacedLocal(d) /\ PlacedWalk(d)
    /\ PlacedRemote(s, d) /\ PlacedReg(s, d) /\ PlacedHw(d)

\* s has no packet left of the groups it gave away.
Drained(s) == \A g \in Fgs : inTransition[g] =>
    /\ \A p \in Range(hwq[s]) : p.fg # g
    /\ \A c \in Cpus : reg[c] # None => reg[c].fg # g

\* Nothing is lost for no reason: every packet is where its group will be
\* found, or stranded, which nothing is without a cause; without one s is done
\* with its packets when it asks d to take over.
Losses(s, d) ==
    /\ LossNeedsCause
    /\ cmds = 0 \/ mode[s] = "assign" => cause = {}
    /\ \A c \in Cpus : \A p \in Range(hwq[c]) :
         IF inTransition[p.fg] THEN c \in {s, d} ELSE c = curCpu[p.fg] \/ p \in stranded
    /\ cause = {} => \A g \in Fgs : ~inTransition[g] /\ reta[g] # curCpu[g] => reta[g] = None
    /\ cause = {} => \A c \in Cpus : enq[c].at # "no" => timerArmed[c] \/ mode[c] = "early"
    /\ cause = {} /\ Asked(d) => Drained(s) /\ \A g \in Fgs : inTransition[g] => reta[g] = d

\* The log of each group is in order.
LogInOrder == \A g \in Fgs : \A i, j \in DOMAIN log[g] : i < j => log[g][i].seq < log[g][j].seq

\* The inductive invariant, for the command from s to d: once the timer has
\* fired between the early handler's test and its cancel, nothing is promised.
Packets(s, d) ==
    /\ Chain /\ Queues /\ LogInOrder /\ Positions /\ Tailed(s, d)
    /\ Placed(s, d) /\ Losses(s, d)
Migration(s, d) == Control(s, d) /\ Packets(s, d)
FlowInv == Raced \/ \E s, d \in Cpu : Migration(s, d)

\* Every packet that is at a stage was at it before; or x alone is new at m.
Stays       == \A p \in Pkt : \A k \in 0..6 : Live(p, k)' => Live(p, k)
Moves(x, m) == \A p \in Pkt : \A k \in 0..6 : Live(p, k)' => Live(p, k) \/ (p = x /\ k = m)
\* x fits in at stage m.
Fits(x, m)  == \A p \in Pkt : \A k \in 0..6 : p.fg = x.fg /\ Live(p, k)' =>
                 (k < m => p.seq < x.seq) /\ (m < k => x.seq < p.seq)

\* The fields of a packet.
LEMMA PktType == \A p \in Pkt : p.fg \in Fgs /\ p.seq \in Nat /\ p.seq \in 1..MaxPkts
  BY BoundAssumption DEF Pkt

\* Dropping packets, or leaving them where they are, keeps the order.
LEMMA ChainStays == ASSUME Chain, Stays, sent' = sent PROVE Chain'
  BY DEF Chain, Stays

\* So does moving one to where it fits.
LEMMA ChainMoves ==
    ASSUME Chain, NEW x \in Pkt, NEW m \in 0..6, Moves(x, m), Fits(x, m),
           x.seq <= sent'[x.fg], \A g \in Fgs : sent[g] \in Nat /\ sent'[g] \in Nat /\ sent[g] <= sent'[g]
    PROVE  Chain'
  <1>1. ASSUME NEW p \in Pkt, NEW q \in Pkt, NEW k \in 0..6, NEW l \in 0..6, p.fg = q.fg, k < l,
               Live(p, k)', Live(q, l)'
        PROVE  p.seq < q.seq
    <2>1. CASE Live(p, k) /\ Live(q, l)  BY <1>1, <2>1 DEF Chain
    <2>2. CASE p = x /\ k = m  BY <1>1, <2>2 DEF Fits
    <2>3. CASE q = x /\ l = m  BY <1>1, <2>3 DEF Fits
    <2> QED BY <1>1, <2>1, <2>2, <2>3 DEF Moves
  <1>2. ASSUME NEW p \in Pkt, NEW k \in 0..6, Live(p, k)' PROVE p.seq <= sent'[p.fg]
    <2>1. CASE Live(p, k)
      <3>1. p.seq <= sent[p.fg] /\ p.fg \in Fgs /\ p.seq \in Nat  BY <2>1, PktType DEF Chain
      <3>2. sent[p.fg] \in Nat /\ sent'[p.fg] \in Nat /\ sent[p.fg] <= sent'[p.fg]  BY <3>1
      <3> QED BY ONLY <3>1, <3>2
    <2>2. CASE p = x  BY <2>2
    <2> QED BY <1>2, <2>1, <2>2 DEF Moves
  <1> QED BY <1>1, <1>2 DEF Chain

\* A packet moves on from stage n to stage m: nothing of its group is between
\* the two, or left before it where it was.
LEMMA ChainForward ==
    ASSUME TypeOK, Chain, NEW x \in Pkt, NEW m \in 0..6, NEW n \in 0..6, m < n, Live(x, n), Moves(x, m),
           sent' = sent,
           \A p \in Pkt : \A k \in 0..6 : p.fg = x.fg /\ Live(p, k)' /\ m < k => n <= k,
           \A p \in Pkt : p.fg = x.fg /\ Live(p, n)' => x.seq < p.seq
    PROVE  Chain'
  <1>1. Fits(x, m)
    <2> SUFFICES ASSUME NEW p \in Pkt, NEW k \in 0..6, p.fg = x.fg, Live(p, k)', k # m
                 PROVE  (k < m => p.seq < x.seq) /\ (m < k => x.seq < p.seq)
      BY DEF Fits
    <2>1. Live(p, k)  BY DEF Moves
    <2>2. CASE k < m
      <3>1. k < n  BY <2>2
      <3> QED BY <2>1, <2>2, <3>1 DEF Chain
    <2>3. CASE k = n  BY <2>3
    <2>4. CASE m < k /\ k # n
      <3>1. n < k  BY <2>4
      <3> QED BY <2>1, <2>4, <3>1 DEF Chain
    <2> QED BY <2>2, <2>3, <2>4
  <1>2. x.seq <= sent'[x.fg] /\ \A g \in Fgs : sent[g] \in Nat /\ sent'[g] \in Nat /\ sent[g] <= sent'[g]
    <2>1. x.seq <= sent[x.fg]  BY DEF Chain
    <2>2. \A g \in Fgs : sent[g] \in Nat  BY BoundAssumption DEF TypeOK
    <2> QED BY <2>1, <2>2
  <1> QED BY <1>1, <1>2, ChainMoves

\* No CPU begins or ends the walk of its remote queue.
WalksKept == \A c \in Cpus : Walking(c) \/ Walking(c)' => mode'[c] = mode[c]

\* What the stages are read from: a stage none of whose variables change keeps
\* its packets.
LEMMA StageFrame ==
    ASSUME NEW p
    PROVE  /\ log' = log => (Processed(p)' <=> Processed(p))
           /\ inTransition' = inTransition /\ remoteq' = remoteq /\ walk' = walk /\ WalksKept
              => (Pending(p)' <=> Pending(p))
           /\ inTransition' = inTransition /\ reg' = reg /\ WalksKept => (Held(p)' <=> Held(p))
           /\ inTransition' = inTransition /\ prevCpu' = prevCpu /\ hwq' = hwq
              => (AtPrev(p)' <=> AtPrev(p))
           /\ localq' = localq => (Parked(p)' <=> Parked(p))
           /\ rxq' = rxq => (Queued(p)' <=> Queued(p))
           /\ inTransition' = inTransition /\ targetCpu' = targetCpu /\ curCpu' = curCpu /\ hwq' = hwq
              => (Coming(p)' <=> Coming(p))
  <1>1. log' = log => (Processed(p)' <=> Processed(p))  BY DEF Processed
  <1>2. WalksKept => \A c \in Cpus : (mode'[c] = "readHead" <=> mode[c] = "readHead") /\
                                     (Walking(c)' <=> Walking(c))
    BY DEF WalksKept, Walking
  <1>3. inTransition' = inTransition /\ remoteq' = remoteq /\ walk' = walk /\ WalksKept
        => (Pending(p)' <=> Pending(p))
    BY <1>2 DEF Pending
  <1>4. inTransition' = inTransition /\ reg' = reg /\ WalksKept => (Held(p)' <=> Held(p))
    BY <1>2 DEF Held
  <1>5. inTransition' = inTransition /\ prevCpu' = prevCpu /\ hwq' = hwq => (AtPrev(p)' <=> AtPrev(p))
    BY DEF AtPrev
  <1>6. localq' = localq => (Parked(p)' <=> Parked(p))  BY DEF Parked
  <1>7. rxq' = rxq => (Queued(p)' <=> Queued(p))  BY DEF Queued
  <1>8. inTransition' = inTransition /\ targetCpu' = targetCpu /\ curCpu' = curCpu /\ hwq' = hwq
        => (Coming(p)' <=> Coming(p))
    BY DEF Coming, Owner
  <1> QED BY <1>1, <1>3, <1>4, <1>5, <1>6, <1>7, <1>8

\* The stages by name.
LEMMA Stages ==
    \A p : /\ (Live(p, 0) <=> Processed(p)) /\ (Live(p, 0)' <=> Processed(p)')
           /\ (Live(p, 1) <=> Pending(p)) /\ (Live(p, 1)' <=> Pending(p)')
           /\ (Live(p, 2) <=> Held(p)) /\ (Live(p, 2)' <=> Held(p)')
           /\ (Live(p, 3) <=> AtPrev(p)) /\ (Live(p, 3)' <=> AtPrev(p)')
           /\ (Live(p, 4) <=> Parked(p)) /\ (Live(p, 4)' <=> Parked(p)')
           /\ (Live(p, 5) <=> Queued(p)) /\ (Live(p, 5)' <=> Queued(p)')
           /\ (Live(p, 6) <=> Coming(p)) /\ (Live(p, 6)' <=> Coming(p)')
  BY DEF Live
\* The stages, one by one.
LEMMA SevenStages == \A k \in 0..6 : k = 0 \/ k = 1 \/ k = 2 \/ k = 3 \/ k = 4 \/ k = 5 \/ k = 6
  OBVIOUS

-----------------------------------------------------------------------------
(* Control: where the CPUs are, what they were sent, and where groups are.  *)

\* The types it needs.
LEMMA ControlTypes ==
    ASSUME TypeOK
    PROVE  /\ inTransition \in [Fgs -> BOOLEAN] /\ curCpu \in [Fgs -> Cpu] /\ targetCpu \in [Fgs -> Cpu]
           /\ prevCpu \in [Fgs -> Cpu] /\ reta \in [Fgs -> Cpu]
           /\ infoPrev \in [Cpus -> Cpu] /\ infoTarget \in [Cpus -> Cpu]
           /\ infoFgs \in [Cpus -> SUBSET Fgs]
           /\ timerActive \in [Cpus -> BOOLEAN] /\ timerArmed \in [Cpus -> BOOLEAN]
           /\ inbox \in [Cpus -> Seq(Request)] /\ (\A c \in Cpus : Len(inbox[c]) \in Nat)
           /\ mode \in [Cpus -> Modes]
           /\ cmd \in [Cpus -> CmdType] /\ reg \in [Cpus -> Pkt \cup {None}] /\ enq \in [Cpus -> EnqType]
           /\ cmds \in Nat /\ None \notin Cpus
  <1>1. \A c \in Cpus : Len(inbox[c]) \in Nat  BY LenProperties DEF TypeOK
  <1> QED BY <1>1, BoundAssumption DEF TypeOK

\* There is a command, and s and d are its CPUs.
LEMMA CommandCpus ==
    ASSUME NEW s \in Cpu, NEW d \in Cpu, Roles(s, d), cmds # 0 PROVE s \in Cpus /\ d \in Cpus
  BY DEF Roles, Cpu

\* Nothing it looks at changes.
LEMMA ControlSame ==
    ASSUME NEW s \in Cpu, NEW d \in Cpu, Control(s, d),
           UNCHANGED <<fgVars, reta, infoVars, inbox, mode, cmd, cmds, reg, enq>>
    PROVE  Control(s, d)'
  <1>1. UNCHANGED <<inTransition, curCpu, targetCpu, prevCpu, reta, infoPrev, infoTarget, infoFgs,
                    timerActive, timerArmed, inbox, mode, cmd, cmds, reg, enq>>
    BY DEF fgVars, infoVars
  <1>2. Asked(d)' <=> Asked(d)  BY <1>1 DEF Asked
  <1>3. Waiting(s, d)' <=> Waiting(s, d)  BY <1>1, <1>2 DEF Waiting
  <1>4. Roles(s, d)'  BY <1>1 DEF Control, Roles, Place
  <1>5. Calls(s, d)'  BY <1>1 DEF Control, Calls
  <1>6. Groups(s, d)'  BY <1>1 DEF Control, Groups
  <1>7. cmds' # 0 => Assigning(s, d)'  BY <1>1, <1>3 DEF Control, Assigning
  <1>8. cmds' # 0 => Tokens(s, d)'  BY <1>1, <1>2, <1>3 DEF Control, Tokens
  <1> QED BY <1>4, <1>5, <1>6, <1>7, <1>8 DEF Control

\* The target handler goes on.
LEMMA ControlHandler ==
    ASSUME TypeOK, NEW s \in Cpu, NEW d \in Cpu, Control(s, d), NEW c \in Cpus, NEW m \in HandlerModes,
           mode[c] \in HandlerModes, mode' = [mode EXCEPT ![c] = m],
           UNCHANGED <<fgVars, reta, infoVars, inbox, cmd, cmds, reg, enq>>
    PROVE  Control(s, d)'
  <1>1. UNCHANGED <<inTransition, curCpu, targetCpu, prevCpu, reta, infoPrev, infoTarget, infoFgs,
                    timerActive, timerArmed, inbox, cmd, cmds, reg, enq>>
    BY DEF fgVars, infoVars
  <1>0. mode \in [Cpus -> Modes]  BY ControlTypes
  <1>2. mode'[c] = m /\ \A x \in Cpus : x # c => mode'[x] = mode[x]  BY <1>0
  <1>3. c = d /\ s # d /\ d \in Cpus /\ cmds # 0 /\ s \in Cpus
    <2>1. c = d /\ s # d  BY DEF Control, Roles, Place
    <2>2. cmds # 0  BY <2>1, BoundAssumption DEF Control, Roles, Place
    <2> QED BY <2>1, <2>2, CommandCpus DEF Control
  <1>4. Asked(d)' <=> Asked(d)  BY <1>1 DEF Asked
  <1>5. mode'[s] = mode[s]  BY <1>2, <1>3
  <1>6. Waiting(s, d)' <=> Waiting(s, d)  BY <1>1, <1>4, <1>5 DEF Waiting
  <1>7. m \notin AssignModes \cup {"early", "cancel", "oops"} /\ m # "copy" /\ m # "assign" /\ mode[d] \in HandlerModes /\ mode'[d] = m
    BY <1>2, <1>3 DEF AssignModes, HandlerModes
  <1>8. Roles(s, d)'  BY <1>1, <1>2, <1>3, <1>7 DEF Control, Roles, Place
  <1>9. Calls(s, d)'  BY <1>1 DEF Control, Calls
  <1>10. Groups(s, d)'  BY <1>1, <1>5 DEF Control, Groups
  <1>11. Assigning(s, d)'  BY <1>1, <1>3, <1>5, <1>6, <1>7 DEF Control, Assigning
  <1>12. Tokens(s, d)'  BY <1>1, <1>3, <1>4, <1>5, <1>6, <1>7 DEF Control, Tokens
  <1> QED BY <1>8, <1>9, <1>10, <1>11, <1>12 DEF Control

\* eth_recv_at_prev holds a packet, or hands it to enqueue, or that goes on.
LEMMA ControlReg ==
    ASSUME TypeOK, NEW s \in Cpu, NEW d \in Cpu, Control(s, d), NEW c \in Cpus,
           NEW r, NEW e, reg' = [reg EXCEPT ![c] = r], enq' = [enq EXCEPT ![c] = e],
           r # None \/ e.at # "no" => c = s /\ s # d /\ mode[c] \notin AssignModes \cup {"cancel"},
           e.at # "no" => e.q = d,
           UNCHANGED <<fgVars, reta, infoVars, inbox, mode, cmd, cmds>>
    PROVE  Control(s, d)'
  <1>1. UNCHANGED <<inTransition, curCpu, targetCpu, prevCpu, reta, infoPrev, infoTarget, infoFgs,
                    timerActive, timerArmed, inbox, mode, cmd, cmds>>
    BY DEF fgVars, infoVars
  <1>0. reg \in [Cpus -> Pkt \cup {None}] /\ enq \in [Cpus -> EnqType]  BY ControlTypes
  <1>2. reg'[c] = r /\ enq'[c] = e /\ \A x \in Cpus : x # c => reg'[x] = reg[x] /\ enq'[x] = enq[x]
    BY <1>0
  <1>3. Asked(d)' <=> Asked(d)  BY <1>1 DEF Asked
  <1>4. Waiting(s, d)' <=> Waiting(s, d)  BY <1>1, <1>3 DEF Waiting
  <1>5. Roles(s, d)'
    <2>1. ASSUME NEW x \in Cpus
          PROVE  /\ Place(x, s, d)'
                 /\ reg'[x] # None => x = s /\ s # d
                 /\ enq'[x].at # "no" => x = s /\ s # d /\ enq'[x].q = d
      BY <1>1, <1>2 DEF Control, Roles, Place
    <2> QED BY <1>1, <2>1 DEF Control, Roles
  <1>6. Calls(s, d)'  BY <1>1 DEF Control, Calls
  <1>7. Groups(s, d)'  BY <1>1 DEF Control, Groups
  <1>8. cmds' # 0 => Assigning(s, d)'  BY <1>1, <1>4 DEF Control, Assigning
  <1>9. cmds' # 0 => Tokens(s, d)'  BY <1>1, <1>3, <1>4 DEF Control, Tokens
  <1> QED BY <1>5, <1>6, <1>7, <1>8, <1>9 DEF Control

\* The first packet at the target asks s for an early transition.
LEMMA ControlAsk ==
    ASSUME TypeOK, NEW s \in Cpu, NEW d \in Cpu, Control(s, d), s # d, NEW c \in Cpus,
           cpu_run_on_one(infoPrev[c], [f |-> "early", info |-> None]),
           UNCHANGED <<fgVars, reta, infoVars, mode, cmd, cmds, reg, enq>>
    PROVE  Control(s, d)'
  <1>r. PICK r : r = [f |-> "early", info |-> None]  OBVIOUS
  <1>1. UNCHANGED <<inTransition, curCpu, targetCpu, prevCpu, reta, infoPrev, infoTarget, infoFgs,
                    timerActive, timerArmed, reg, enq, mode, cmd, cmds>>
    BY DEF fgVars, infoVars
  <1>2. r \in Request /\ r.f = "early"  BY <1>r DEF Request, Cpu
  <1>3. cpu_run_on_one(infoPrev[c], r)  BY <1>r
  <1>4. infoPrev[c] \in Cpus => infoPrev[c] = s  BY ControlTypes DEF Control, Roles, Place
  <1>5. /\ infoPrev[c] \in Cpus => Range(inbox'[infoPrev[c]]) = Range(inbox[infoPrev[c]]) \cup {r}
        /\ \A x \in Cpus : x # infoPrev[c] => inbox'[x] = inbox[x]
    <2>1. [f |-> "early", info |-> None] \in Request  BY DEF Request, Cpu
    <2>2. \A x \in Cpus : x # infoPrev[c] => inbox'[x] = inbox[x]  BY <2>1, SendTypes
    <2>3. infoPrev[c] \in Cpus => Range(inbox'[infoPrev[c]])
                                  = Range(inbox[infoPrev[c]]) \cup {[f |-> "early", info |-> None]}
      BY <2>1, SendTypes
    <2> QED BY <1>r, <2>2, <2>3
  <1>6. /\ \A x \in Cpus : x # s => inbox'[x] = inbox[x]
        /\ s \in Cpus => Range(inbox'[s]) \subseteq Range(inbox[s]) \cup {r}
    BY <1>4, <1>5
  <1>7. Asked(d)' <=> Asked(d)  BY <1>6 DEF Asked
  <1>8. Waiting(s, d)' <=> Waiting(s, d)  BY <1>1, <1>7 DEF Waiting
  <1>9. Roles(s, d)'  BY <1>1 DEF Control, Roles, Place
  <1>10. Calls(s, d)'
    <2>1. ASSUME NEW x \in Cpus, NEW y \in Range(inbox'[x])
          PROVE  IF y.f = "target" THEN x = d /\ s # d /\ y.info = s ELSE x = s /\ s # d
      <3>1. CASE x = s /\ y = r  BY <1>2, <3>1
      <3>2. CASE y \in Range(inbox[x])  BY <3>2 DEF Control, Calls
      <3> QED BY <1>6, <2>1, <3>1, <3>2
    <2>2. cmds' # 0 => Len(inbox'[d]) <= 1
      <3>1. cmds # 0 => d \in Cpus  BY CommandCpus DEF Control
      <3> QED BY <1>1, <1>6, <3>1 DEF Control, Calls
    <2> QED BY <2>1, <2>2 DEF Calls
  <1>11. Groups(s, d)'  BY <1>1 DEF Control, Groups
  <1>12. cmds' # 0 => Assigning(s, d)'  BY <1>1, <1>8 DEF Control, Assigning
  <1>13. cmds' # 0 => Tokens(s, d)'  BY <1>1, <1>7, <1>8 DEF Control, Tokens
  <1> QED BY <1>9, <1>10, <1>11, <1>12, <1>13 DEF Control

\* The driver polls, and eth_recv_at_prev goes on.
LEMMA ControlPoll ==
    ASSUME TypeOK, NEW s \in Cpu, NEW d \in Cpu, Control(s, d), NEW c \in Cpus, Poll(c)
    PROVE  Control(s, d)'
  <1> DEFINE p == Head(hwq[c])
             g == Head(hwq[c]).fg
  <1>1. /\ UNCHANGED <<fgVars, reta, infoVars, mode, cmd, cmds, enq>> /\ p \in Pkt /\ g \in Fgs
        /\ mode[c] \in {"loop", "early"} /\ enq[c] = NoEnq
    BY PollCases DEF cpVars, locVars
  <1>2. \/ EnqueueBacklog(c, p)
        \/ /\ inTransition[g] /\ prevCpu[g] = c
           /\ reg' = [reg EXCEPT ![c] = p]
           /\ UNCHANGED <<rxq, localq, inbox, refused, lost>>
        \/ inTransition[g] /\ eth_recv_at_target(c, p)
        \/ UNCHANGED <<rxq, localq, inbox, reg>>
    BY PollCases
  <1> HIDE DEF p, g
  <1>3. inTransition[g] => s # d /\ prevCpu[g] = s  BY <1>1 DEF Control, Groups
  <1>4. CASE EnqueueBacklog(c, p)
    <2>1. UNCHANGED <<inbox, reg, enq>>  BY <1>1, <1>4 DEF EnqueueBacklog
    <2> QED BY <1>1, <2>1, ControlSame
  <1>5. CASE inTransition[g] /\ prevCpu[g] = c /\ reg' = [reg EXCEPT ![c] = p] /\ UNCHANGED inbox
    <2>1. c = s /\ s # d /\ mode[c] \notin AssignModes \cup {"cancel"}
      BY <1>1, <1>3, <1>5 DEF AssignModes
    <2>2. enq' = [enq EXCEPT ![c] = NoEnq] /\ NoEnq.at = "no"
      <3>1. enq' = enq /\ enq[c] = NoEnq /\ enq \in [Cpus -> EnqType]  BY <1>1, ControlTypes
      <3> QED BY <3>1 DEF NoEnq
    <2> DEFINE e == NoEnq
    <2>3. e.at = "no" /\ enq' = [enq EXCEPT ![c] = e]  BY <2>2
    <2>4. UNCHANGED <<fgVars, reta, infoVars, inbox, mode, cmd, cmds>> /\ reg' = [reg EXCEPT ![c] = p]
      BY <1>1, <1>5
    <2> HIDE DEF e
    <2> QED BY <2>1, <2>3, <2>4, ControlReg
  <1>6. CASE inTransition[g] /\ eth_recv_at_target(c, p)
    <2>1. UNCHANGED reg  BY <1>6 DEF eth_recv_at_target
    <2>2. CASE localq[c] = << >>
      <3>1. cpu_run_on_one(infoPrev[c], [f |-> "early", info |-> None])
        BY <1>6, <2>2 DEF eth_recv_at_target
      <3>2. s # d  BY <1>3, <1>6
      <3> QED BY <1>1, <2>1, <3>1, <3>2, ControlAsk
    <2>3. CASE localq[c] # << >>
      <3>1. UNCHANGED inbox  BY <1>6, <2>3 DEF eth_recv_at_target
      <3> QED BY <1>1, <2>1, <3>1, ControlSame
    <2> QED BY <2>2, <2>3
  <1>7. CASE UNCHANGED <<inbox, reg>>  BY <1>1, <1>7, ControlSame
  <1> QED BY <1>2, <1>4, <1>5, <1>6, <1>7

\* Only s, outside eth_fg_assign_to_cpu, is in eth_recv_at_prev.
LEMMA AtPrevRole ==
    ASSUME TypeOK, NEW s \in Cpu, NEW d \in Cpu, Control(s, d), NEW c \in Cpus,
           reg[c] # None \/ enq[c].at # "no"
    PROVE  /\ c = s /\ s # d /\ s \in Cpus /\ d \in Cpus /\ cmds # 0
           /\ mode[c] \notin AssignModes \cup {"cancel"} \cup HandlerModes
  <1>1. c = s /\ s # d /\ mode[c] \notin AssignModes \cup {"cancel"}  BY DEF Control, Roles, Place
  <1>2. mode[c] \notin HandlerModes  BY <1>1 DEF Control, Roles, Place
  <1>3. cmds # 0  BY <1>1, BoundAssumption DEF Control, Roles
  <1> QED BY <1>1, <1>2, <1>3, CommandCpus DEF Control

\* eth_recv_at_prev and enqueue leave the command's part alone,
LEMMA ControlAtPrev ==
    ASSUME TypeOK, NEW s \in Cpu, NEW d \in Cpu, Control(s, d), NEW c \in Cpus, eth_recv_at_prev(c)
    PROVE  Control(s, d)'
  <1> DEFINE t == targetCpu[reg[c].fg]
             e == IF t \in Cpus THEN [NoEnq EXCEPT !.at = "test", !.q = t] ELSE NoEnq
             r == IF t \in Cpus THEN reg[c] ELSE None
  <1>1. reg[c] # None /\ enq[c] = NoEnq /\ UNCHANGED <<fgVars, reta, infoVars, inbox, mode, cmd, cmds>>
    BY DEF eth_recv_at_prev, nicVars, cpVars, locVars
  <1>2. c = s /\ s # d /\ mode[c] \notin AssignModes \cup {"cancel"}  BY <1>1, AtPrevRole
  <1>3. reg' = [reg EXCEPT ![c] = r] /\ enq' = [enq EXCEPT ![c] = e]
    BY <1>1, ControlTypes DEF eth_recv_at_prev
  <1>4. e.at # "no" => e.q = d
    <2>1. reg[c].fg \in Fgs  BY <1>1 DEF TypeOK, Pkt
    <2>2. t \in {d, None}  BY <2>1 DEF Control, Groups
    <2> QED BY <2>2, BoundAssumption DEF NoEnq
  <1> HIDE DEF t, e, r
  <1> QED BY <1>1, <1>2, <1>3, <1>4, ControlReg

\* as does enqueue's test for a head,
LEMMA ControlTest ==
    ASSUME TypeOK, NEW s \in Cpu, NEW d \in Cpu, Control(s, d), NEW c \in Cpus, EnqueueTest(c)
    PROVE  Control(s, d)'
  <1> DEFINE r == reg[c]
             e == [enq[c] EXCEPT !.at = IF remoteq[enq[c].q] = << >> THEN "head" ELSE "link"]
  <1>1. enq[c].at = "test" /\ UNCHANGED <<fgVars, reta, infoVars, inbox, mode, cmd, cmds, reg>>
    BY DEF EnqueueTest, nicVars, cpVars, locVars
  <1>2. c = s /\ s # d /\ mode[c] \notin AssignModes \cup {"cancel"}  BY <1>1, AtPrevRole
  <1>3. reg' = [reg EXCEPT ![c] = r] /\ enq' = [enq EXCEPT ![c] = e]
    BY <1>1, ControlTypes DEF EnqueueTest
  <1>4. e.at # "no" /\ e.q = d
    <2>1. enq[c] \in EnqType  BY ControlTypes
    <2>2. enq[c].q = d  BY <1>1 DEF Control, Roles
    <2>3. e.at \in {"head", "link"} /\ e.q = enq[c].q  BY <2>1 DEF EnqType
    <2> QED BY <2>2, <2>3
  <1> HIDE DEF r, e
  <1> QED BY <1>1, <1>2, <1>3, <1>4, ControlReg

\* and its link, if it does not stop the CPU,
LEMMA ControlLink ==
    ASSUME TypeOK, NEW s \in Cpu, NEW d \in Cpu, Control(s, d), NEW c \in Cpus, EnqueueLink(c),
           UNCHANGED mode
    PROVE  Control(s, d)'
  <1> DEFINE e == [at |-> "tail", q |-> enq[c].q, pkt |-> reg[c]]
  <1>1. /\ enq[c].at # "no"
        /\ UNCHANGED <<fgVars, reta, infoVars, inbox, mode, cmd, cmds>>
        /\ reg' = [reg EXCEPT ![c] = None] /\ enq' = [enq EXCEPT ![c] = e]
    <2>1. ~Goto(c, "oops") \/ mode[c] = "oops"  BY ControlTypes DEF Goto
    <2> QED BY <2>1 DEF EnqueueLink, nicVars, cpVars
  <1>2. c = s /\ s # d /\ mode[c] \notin AssignModes \cup {"cancel"}  BY <1>1, AtPrevRole
  <1>3. e.at # "no" /\ e.q = d  BY <1>1 DEF Control, Roles
  <1> HIDE DEF e
  <1> QED BY <1>1, <1>2, <1>3, ControlReg

\* and its last store,
LEMMA ControlTail ==
    ASSUME TypeOK, NEW s \in Cpu, NEW d \in Cpu, Control(s, d), NEW c \in Cpus, EnqueueTail(c)
    PROVE  Control(s, d)'
  <1>1. enq[c].at = "tail" /\ UNCHANGED <<fgVars, reta, infoVars, inbox, mode, cmd, cmds, reg>>
    BY DEF EnqueueTail, nicVars, cpVars, locVars
  <1>2. c = s /\ s # d /\ mode[c] \notin AssignModes \cup {"cancel"}  BY <1>1, AtPrevRole
  <1>3. reg' = [reg EXCEPT ![c] = reg[c]] /\ enq' = [enq EXCEPT ![c] = NoEnq] /\ NoEnq.at = "no"
    BY <1>1, ControlTypes DEF EnqueueTail, NoEnq
  <1> QED BY <1>1, <1>2, <1>3, ControlReg

\* which it does only when s is through with the command.
LEMMA ControlOops ==
    ASSUME TypeOK, NEW s \in Cpu, NEW d \in Cpu, Control(s, d), NEW c \in Cpus, EnqueueLink(c),
           mode' # mode, ~Waiting(s, d)
    PROVE  Control(s, d)'
  <1>1. /\ enq[c].at = "link" /\ mode' = [mode EXCEPT ![c] = "oops"]
        /\ UNCHANGED <<inTransition, curCpu, targetCpu, prevCpu, reta, infoPrev, infoTarget, infoFgs,
                       timerActive, timerArmed, inbox, cmd, cmds, reg, enq>>
    BY DEF EnqueueLink, Goto, fgVars, nicVars, infoVars, cpVars, regVars
  <1>2. /\ c = s /\ s # d /\ s \in Cpus /\ d \in Cpus /\ cmds # 0
        /\ mode[s] \notin AssignModes \cup {"cancel"} \cup HandlerModes
    BY <1>1, AtPrevRole
  <1>3. mode'[s] = "oops" /\ \A x \in Cpus : x # s => mode'[x] = mode[x]  BY <1>1, <1>2, ControlTypes
  <1>4. "oops" \notin AssignModes /\ "oops" \notin HandlerModes  BY DEF AssignModes, HandlerModes
  <1>5. Asked(d)' <=> Asked(d)  BY <1>1 DEF Asked
  <1>6. ~Waiting(s, d)'  BY <1>1, <1>3, <1>5 DEF Waiting
  <1>7. Roles(s, d)'
    <2>1. ASSUME NEW x \in Cpus PROVE Place(x, s, d)'
      BY <1>1, <1>2, <1>3, <1>4 DEF Control, Roles, Place
    <2> QED BY <1>1, <2>1 DEF Control, Roles
  <1>8. Calls(s, d)'  BY <1>1 DEF Control, Calls
  <1>9. mode[s] \notin {"assign", "copy", "reta"}  BY <1>2 DEF AssignModes
  <1>10. Groups(s, d)'  BY <1>1, <1>2, <1>9 DEF Control, Groups
  <1>11. Assigning(s, d)'  BY <1>3, <1>4 DEF Assigning
  <1>12. Tokens(s, d)'  BY <1>1, <1>2, <1>3, <1>5, <1>6, <1>9 DEF Control, Tokens, Waiting
  <1> QED BY <1>7, <1>8, <1>10, <1>11, <1>12 DEF Control

\* A CPU in eth_fg_assign_to_cpu is the one the command is for.
LEMMA AssignRole ==
    ASSUME TypeOK, NEW s \in Cpu, NEW d \in Cpu, Control(s, d), NEW c \in Cpus, mode[c] \in AssignModes
    PROVE  c = s /\ s \in Cpus /\ d \in Cpus /\ cmds # 0 /\ cmd[s].cpu = d
  <1>1. c = s  BY DEF Control, Roles, Place
  <1>2. cmds # 0  BY <1>1, BoundAssumption DEF Control, Roles, Place
  <1> QED BY <1>1, <1>2, CommandCpus DEF Control, Assigning

\* The redirection table is written.
LEMMA ControlReta ==
    ASSUME TypeOK, NEW s \in Cpu, NEW d \in Cpu, Control(s, d), NEW c \in Cpus, AssignReta(c)
    PROVE  Control(s, d)'
  <1>1. mode[c] = "reta" /\ mode[c] \in AssignModes  BY DEF AssignReta, AssignModes
  <1>2. c = s /\ s \in Cpus /\ d \in Cpus /\ cmds # 0 /\ cmd[s].cpu = d  BY <1>1, AssignRole
  <1>3. /\ reta' = [g \in Fgs |-> IF g \in cmd[s].moved THEN d ELSE reta[g]]
        /\ mode' = [mode EXCEPT ![s] = "fdir"]
        /\ UNCHANGED <<inTransition, curCpu, targetCpu, prevCpu, infoPrev, infoTarget, infoFgs,
                       timerActive, timerArmed, inbox, cmd, cmds, reg, enq>>
    BY <1>2 DEF AssignReta, Goto, fgVars, infoVars, cpVars, locVars, regVars
  <1>0. mode \in [Cpus -> Modes]  BY ControlTypes
  <1>4. mode[s] = "reta" /\ mode'[s] = "fdir" /\ \A x \in Cpus : x # s => mode'[x] = mode[x]
    BY <1>0, <1>1, <1>2, <1>3
  <1>5. "fdir" \in AssignModes /\ "fdir" \notin HandlerModes  BY DEF AssignModes, HandlerModes
  <1>6. mode'[d] \in HandlerModes => mode[d] \in HandlerModes  BY <1>2, <1>4, <1>5
  <1>7. Asked(d)' <=> Asked(d)  BY <1>3 DEF Asked
  <1>8. Waiting(s, d)' <=> Waiting(s, d)  BY <1>3, <1>4, <1>7 DEF Waiting
  <1>9. Roles(s, d)'
    <2>1. ASSUME NEW x \in Cpus
          PROVE  Place(x, s, d)'
      BY <1>2, <1>3, <1>4, <1>5 DEF Control, Roles, Place, AssignModes, HandlerModes
    <2> QED BY <1>3, <2>1 DEF Control, Roles, Place
  <1>10. Calls(s, d)'  BY <1>3 DEF Control, Calls
  <1>11. Groups(s, d)'
    <2> SUFFICES ASSUME NEW g \in Fgs
                 PROVE  /\ inTransition[g] =>
                             /\ cmds # 0 /\ s # d /\ curCpu[g] = None
                             /\ prevCpu[g] = s /\ targetCpu[g] = d /\ reta'[g] \in {s, d}
                        /\ ~inTransition[g] =>
                             /\ targetCpu[g] = None
                             /\ reta'[g] # curCpu[g] => /\ cmds # 0 /\ curCpu[g] = d
                                                        /\ reta'[g] = None \/ (reta'[g] = s /\ s # d)
                        /\ reta'[g] = IF inTransition[g] THEN d ELSE curCpu[g]
                        /\ cmds # 0 /\ g \in cmd[s].moved => inTransition[g] \/ curCpu[g] = d
      BY <1>3, <1>4 DEF Groups
    <2>1. reta'[g] = IF g \in cmd[s].moved THEN d ELSE reta[g]  BY <1>3
    <2>2. reta'[g] = IF inTransition[g] THEN d ELSE curCpu[g]  BY <1>2, <2>1 DEF Control, Groups
    <2> QED BY <2>1, <2>2 DEF Control, Groups
  <1>12. Assigning(s, d)'  BY <1>2, <1>3, <1>4 DEF Control, Assigning
  <1>13. Tokens(s, d)'  BY <1>2, <1>3, <1>4, <1>6, <1>7, <1>8 DEF Control, Tokens
  <1> QED BY <1>9, <1>10, <1>11, <1>12, <1>13 DEF Control

\* The outbound groups follow, and the command is forgotten.
LEMMA ControlFdir ==
    ASSUME TypeOK, NEW s \in Cpu, NEW d \in Cpu, Control(s, d), NEW c \in Cpus, AssignFdir(c)
    PROVE  Control(s, d)'
  <1>1. mode[c] = "fdir" /\ mode[c] \in AssignModes  BY DEF AssignFdir, AssignModes
  <1>2. c = s /\ s \in Cpus /\ d \in Cpus /\ cmds # 0 /\ cmd[s].cpu = d  BY <1>1, AssignRole
  <1>3. /\ cmd' = [cmd EXCEPT ![s] = NoCmd] /\ mode' = [mode EXCEPT ![s] = "loop"]
        /\ UNCHANGED <<inTransition, curCpu, targetCpu, prevCpu, reta, infoPrev, infoTarget, infoFgs,
                       timerActive, timerArmed, inbox, cmds, reg, enq>>
    BY <1>2 DEF AssignFdir, Goto, fgVars, nicVars, infoVars, cpVars, regVars
  <1>0. /\ mode \in [Cpus -> Modes]
        /\ cmd \in [Cpus -> CmdType]
    BY ControlTypes
  <1>4. /\ mode[s] = "fdir" /\ mode'[s] = "loop" /\ cmd'[s].moved = {}
        /\ \A x \in Cpus : x # s => mode'[x] = mode[x]
    BY <1>0, <1>1, <1>2, <1>3 DEF NoCmd
  <1>5. "loop" \notin AssignModes /\ "loop" \notin HandlerModes  BY DEF AssignModes, HandlerModes
  <1>6. mode'[d] \in HandlerModes => mode[d] \in HandlerModes  BY <1>2, <1>4, <1>5
  <1>7. Asked(d)' <=> Asked(d)  BY <1>3 DEF Asked
  <1>8. Waiting(s, d)' <=> Waiting(s, d)  BY <1>3, <1>4, <1>7 DEF Waiting
  <1>9. Roles(s, d)'
    <2>1. ASSUME NEW x \in Cpus
          PROVE  Place(x, s, d)'
      BY <1>2, <1>3, <1>4, <1>5 DEF Control, Roles, Place, AssignModes, HandlerModes
    <2> QED BY <1>3, <2>1 DEF Control, Roles, Place
  <1>10. Calls(s, d)'  BY <1>3 DEF Control, Calls
  <1>11. Groups(s, d)'  BY <1>3, <1>4 DEF Control, Groups
  <1>12. Assigning(s, d)'  BY <1>3, <1>4, <1>5 DEF Control, Assigning
  <1>13. Tokens(s, d)'  BY <1>2, <1>3, <1>4, <1>6, <1>7, <1>8 DEF Control, Tokens
  <1> QED BY <1>9, <1>10, <1>11, <1>12, <1>13 DEF Control

\* memcpy of the migration_info.
LEMMA ControlCopy ==
    ASSUME TypeOK, NEW s \in Cpu, NEW d \in Cpu, Control(s, d), NEW c \in Cpus, AssignCopy(c)
    PROVE  Control(s, d)'
  <1>1. mode[c] = "copy" /\ mode[c] \in AssignModes  BY DEF AssignCopy, AssignModes
  <1>2. c = s /\ s \in Cpus /\ d \in Cpus /\ cmds # 0 /\ cmd[s].cpu = d  BY <1>1, AssignRole
  <1>3. s # d  BY <1>1, <1>2 DEF Control, Assigning
  <1>4. /\ infoPrev' = [infoPrev EXCEPT ![d] = infoPrev[s]]
        /\ infoTarget' = [infoTarget EXCEPT ![d] = infoTarget[s]]
        /\ infoFgs' = [infoFgs EXCEPT ![d] = infoFgs[s]]
        /\ timerActive' = [timerActive EXCEPT ![d] = timerActive[s]]
        /\ mode' = [mode EXCEPT ![s] = "reta"]
        /\ UNCHANGED <<inTransition, curCpu, targetCpu, prevCpu, reta, timerArmed, inbox, cmd, cmds, reg, enq>>
    BY <1>2 DEF AssignCopy, Goto, fgVars, nicVars, cpVars, locVars, regVars
  <1>5. mode[s] = "copy" /\ mode'[s] = "reta" /\ \A x \in Cpus : x # s => mode'[x] = mode[x]
    BY <1>1, <1>2, <1>4, ControlTypes
  <1>6. /\ infoTarget'[s] = infoTarget[s] /\ infoFgs'[s] = infoFgs[s] /\ timerActive'[s] = timerActive[s]
        /\ \A x \in Cpus : infoPrev'[x] = IF x = d THEN infoPrev[s] ELSE infoPrev[x]
    BY <1>2, <1>3, <1>4, ControlTypes
  <1>7. "reta" \in AssignModes /\ "reta" \notin HandlerModes  BY DEF AssignModes, HandlerModes
  <1>8. mode'[d] = mode[d]  BY <1>2, <1>3, <1>5
  <1>9. Asked(d)' <=> Asked(d)  BY <1>4 DEF Asked
  <1>10. Waiting(s, d)' <=> Waiting(s, d)  BY <1>4, <1>5, <1>9 DEF Waiting
  <1>11. Roles(s, d)'
    <2>1. ASSUME NEW x \in Cpus
          PROVE  /\ Place(x, s, d)'
                 /\ infoPrev'[x] # None => x \in {s, d} /\ infoPrev'[x] = s
      BY <1>2, <1>4, <1>5, <1>6, <1>7 DEF Control, Roles, Place, AssignModes, HandlerModes
    <2> QED BY <1>2, <1>4, <2>1 DEF Control, Roles, Place
  <1>12. Calls(s, d)'  BY <1>4 DEF Control, Calls
  <1>13. Groups(s, d)'  BY <1>4, <1>5 DEF Control, Groups
  <1>14. Assigning(s, d)'  BY <1>2, <1>4, <1>5 DEF Control, Assigning
  <1>15. Tokens(s, d)'  BY <1>2, <1>4, <1>5, <1>6, <1>8, <1>9, <1>10 DEF Control, Tokens
  <1> QED BY <1>11, <1>12, <1>13, <1>14, <1>15 DEF Control

\* The migration_info is filled in and the timer started.
LEMMA ControlInfo ==
    ASSUME TypeOK, NEW s \in Cpu, NEW d \in Cpu, Control(s, d), NEW c \in Cpus, AssignInfo(c)
    PROVE  Control(s, d)'
  <1>1. mode[c] = "assign" /\ mode[c] \in AssignModes  BY DEF AssignInfo, AssignModes
  <1>2. c = s /\ s \in Cpus /\ d \in Cpus /\ cmds # 0 /\ cmd[s].cpu = d  BY <1>1, AssignRole
  <1>3. UNCHANGED <<inTransition, curCpu, targetCpu, prevCpu, reta, infoFgs, inbox, cmd, cmds, reg, enq>>
    BY DEF AssignInfo, fgVars, nicVars, regVars
  <1>4. \/ /\ cmd[s].real
           /\ infoPrev' = [infoPrev EXCEPT ![s] = s]
           /\ infoTarget' = [infoTarget EXCEPT ![s] = d]
           /\ timerActive' = [timerActive EXCEPT ![s] = TRUE]
           /\ timerArmed' = [timerArmed EXCEPT ![s] = TRUE]
           /\ mode' = [mode EXCEPT ![s] = "copy"]
        \/ /\ ~cmd[s].real
           /\ mode' = [mode EXCEPT ![s] = "reta"]
           /\ UNCHANGED <<infoPrev, infoTarget, timerActive, timerArmed>>
    BY <1>2 DEF AssignInfo, Goto
  <1>5. /\ ~Waiting(s, d) /\ mode[d] \notin HandlerModes /\ ~timerActive[s] /\ mode[s] = "assign"
        /\ cmd[s].real <=> infoFgs[s] # {}
        /\ infoFgs[s] = {g \in Fgs : inTransition[g]}
    BY <1>1, <1>2 DEF Control, Assigning, Tokens
  <1>6. cmd[s].real => s # d  BY <1>5 DEF Control, Groups
  <1>7. "copy" \notin HandlerModes /\ "reta" \notin HandlerModes /\ "copy" \in AssignModes /\ "reta" \in AssignModes
    BY DEF AssignModes, HandlerModes
  <1>8. Asked(d)' <=> Asked(d)  BY <1>3 DEF Asked
  <1>9. ~Asked(d) /\ ~timerArmed[s]  BY <1>5 DEF Waiting
  <1>10. Calls(s, d)'  BY <1>3 DEF Control, Calls
  <1>11. CASE cmd[s].real
    <2>1. /\ infoPrev' = [infoPrev EXCEPT ![s] = s]
          /\ infoTarget' = [infoTarget EXCEPT ![s] = d]
          /\ timerActive' = [timerActive EXCEPT ![s] = TRUE]
          /\ timerArmed' = [timerArmed EXCEPT ![s] = TRUE]
          /\ mode' = [mode EXCEPT ![s] = "copy"]
      BY <1>4, <1>11
    <2>2. /\ mode'[s] = "copy" /\ timerArmed'[s] /\ infoTarget'[s] = d
          /\ \A x \in Cpus : x # s => mode'[x] = mode[x] /\ timerArmed'[x] = timerArmed[x]
          /\ \A x \in Cpus : infoPrev'[x] = IF x = s THEN s ELSE infoPrev[x]
      BY <1>2, <2>1, ControlTypes
    <2>3. s # d /\ mode'[d] = mode[d]  BY <1>2, <1>6, <1>11, <2>2
    <2>4. Roles(s, d)'
      <3>1. ASSUME NEW x \in Cpus
            PROVE  /\ Place(x, s, d)'
                   /\ timerArmed'[x] => x = s /\ s # d
                   /\ infoPrev'[x] # None => x \in {s, d} /\ infoPrev'[x] = s
        BY <1>1, <1>2, <1>3, <1>7, <2>2, <2>3 DEF Control, Roles, Place, AssignModes, HandlerModes
      <3> QED BY <1>2, <1>3, <3>1 DEF Control, Roles, Place
    <2>5. Groups(s, d)'  BY <1>2, <1>3, <1>5, <2>2 DEF Control, Groups
    <2>6. Assigning(s, d)'  BY <1>2, <1>3, <2>2, <2>3 DEF Assigning
    <2>7. Tokens(s, d)'  BY <1>3, <1>5, <1>8, <1>9, <2>2, <2>3 DEF Tokens, Waiting
    <2> QED BY <1>10, <2>4, <2>5, <2>6, <2>7 DEF Control
  <1>12. CASE ~cmd[s].real
    <2>1. /\ mode' = [mode EXCEPT ![s] = "reta"]
          /\ UNCHANGED <<infoPrev, infoTarget, timerActive, timerArmed>>
      BY <1>4, <1>12
    <2>2. mode'[s] = "reta" /\ \A x \in Cpus : x # s => mode'[x] = mode[x]
      BY <1>2, <2>1, ControlTypes
    <2>3. \A g \in Fgs : ~inTransition[g]  BY <1>5, <1>12
    <2>4. Roles(s, d)'
      <3>1. ASSUME NEW x \in Cpus
            PROVE  Place(x, s, d)'
        BY <1>1, <1>2, <1>3, <1>7, <2>1, <2>2 DEF Control, Roles, Place, AssignModes, HandlerModes
      <3> QED BY <1>2, <1>3, <2>1, <3>1 DEF Control, Roles, Place
    <2>5. Groups(s, d)'  BY <1>2, <1>3, <1>5, <2>2 DEF Control, Groups
    <2>6. Assigning(s, d)'  BY <1>2, <1>3, <2>2 DEF Assigning
    <2>7. ~Waiting(s, d)'  BY <1>8, <1>9, <2>1, <2>2 DEF Waiting
    <2>8. Tokens(s, d)'  BY <1>3, <1>5, <1>8, <1>9, <2>1, <2>2, <2>3, <2>7 DEF Tokens
    <2> QED BY <1>10, <2>4, <2>5, <2>6, <2>8 DEF Control
  <1> QED BY <1>11, <1>12

\* A group is assigned.
LEMMA ControlSingle ==
    ASSUME TypeOK, NEW s \in Cpu, NEW d \in Cpu, Control(s, d), NEW c \in Cpus, NEW g \in Fgs,
           eth_fg_assign_single_to_cpu(c, g), UNCHANGED mode
    PROVE  Control(s, d)'
  <1>1. mode[c] = "assign" /\ mode[c] \in AssignModes /\ g \in cmd[c].fgs
    BY DEF eth_fg_assign_single_to_cpu, AssignModes
  <1>2. c = s /\ s \in Cpus /\ d \in Cpus /\ cmds # 0 /\ cmd[s].cpu = d  BY <1>1, AssignRole
  <1>3. UNCHANGED <<reta, infoPrev, infoTarget, timerActive, timerArmed, inbox, cmds, mode, reg, enq>>
    BY DEF eth_fg_assign_single_to_cpu, nicVars, cpVars, regVars
  <1>4. /\ cmd'[s].cpu = d /\ cmd'[s].fgs = cmd[s].fgs \ {g}
        /\ cmd'[s].moved = IF curCpu[g] = d THEN cmd[s].moved ELSE cmd[s].moved \cup {g}
        /\ cmd'[s].real = IF curCpu[g] \in {d, None} THEN cmd[s].real ELSE TRUE
    <2>1. \A x \in Cpus : cmd'[x].cpu = cmd[x].cpu  BY SingleCmd
    <2>2. cmd'[c].fgs = cmd[c].fgs \ {g}  BY SingleCmd
    <2>3. cmd'[c].moved = IF curCpu[g] = cmd[c].cpu THEN cmd[c].moved ELSE cmd[c].moved \cup {g}
      BY SingleCmd
    <2>4. cmd'[c].real = IF curCpu[g] \in {cmd[c].cpu, None} THEN cmd[c].real ELSE TRUE  BY SingleCmd
    <2> QED BY <1>2, <2>1, <2>2, <2>3, <2>4
  <1>5. /\ ~Waiting(s, d) /\ mode[d] \notin HandlerModes /\ ~timerActive[s] /\ mode[s] = "assign"
        /\ cmd[s].real <=> infoFgs[s] # {}
        /\ \A h \in cmd[s].fgs : curCpu[h] = reta[h] /\ curCpu[h] \in {s, d, None} /\ ~inTransition[h]
        /\ infoFgs[s] = {h \in Fgs : inTransition[h]}
    BY <1>1, <1>2 DEF Control, Assigning, Tokens
  <1>6. curCpu[g] = reta[g] /\ curCpu[g] \in {s, d, None} /\ ~inTransition[g] /\ None # s /\ None # d
    BY <1>1, <1>2, <1>5, BoundAssumption
  <1>7. /\ inTransition' = IF curCpu[g] \in {d, None} THEN inTransition ELSE [inTransition EXCEPT ![g] = TRUE]
        /\ prevCpu' = IF curCpu[g] \in {d, None} THEN prevCpu ELSE [prevCpu EXCEPT ![g] = s]
        /\ curCpu' = IF curCpu[g] = d THEN curCpu
                     ELSE [curCpu EXCEPT ![g] = IF curCpu[g] = None THEN d ELSE None]
        /\ targetCpu' = IF curCpu[g] \in {d, None} THEN targetCpu ELSE [targetCpu EXCEPT ![g] = d]
        /\ infoFgs' = IF curCpu[g] \in {d, None} THEN infoFgs
                      ELSE [infoFgs EXCEPT ![s] = infoFgs[s] \cup {g}]
    <2>1. CASE curCpu[g] = d
      BY <1>2, <1>6, <2>1 DEF eth_fg_assign_single_to_cpu, fgVars
    <2>2. CASE curCpu[g] = None
      BY <1>2, <1>6, <2>2 DEF eth_fg_assign_single_to_cpu, fgVars
    <2>3. CASE curCpu[g] = s /\ s # d
      BY <1>2, <1>6, <2>3, ControlTypes DEF eth_fg_assign_single_to_cpu, fgVars
    <2> QED BY <1>6, <2>1, <2>2, <2>3
  <1>8. /\ inTransition'[g] = (curCpu[g] \notin {d, None})
        /\ curCpu[g] \notin {d, None} => prevCpu'[g] = s /\ targetCpu'[g] = d /\ curCpu'[g] = None
                                         /\ curCpu[g] = s /\ s # d
        /\ curCpu[g] \in {d, None} => targetCpu'[g] = targetCpu[g] /\ curCpu'[g] = d
        /\ \A h \in Fgs : h # g => /\ inTransition'[h] = inTransition[h] /\ curCpu'[h] = curCpu[h]
                                   /\ targetCpu'[h] = targetCpu[h] /\ prevCpu'[h] = prevCpu[h]
    BY <1>6, <1>7, ControlTypes
  <1>9. infoFgs'[s] = IF curCpu[g] \in {d, None} THEN infoFgs[s] ELSE infoFgs[s] \cup {g}
    BY <1>2, <1>7, ControlTypes
  <1>10. Asked(d)' <=> Asked(d)  BY <1>3 DEF Asked
  <1>11. Waiting(s, d)' <=> Waiting(s, d)  BY <1>3, <1>10 DEF Waiting
  <1>12. Roles(s, d)'  BY <1>2, <1>3 DEF Control, Roles, Place
  <1>13. Calls(s, d)'  BY <1>3 DEF Control, Calls
  <1>14. Groups(s, d)'
    <2> DEFINE G(h) ==
            /\ inTransition'[h] => /\ cmds' # 0 /\ s # d /\ curCpu'[h] = None
                                   /\ prevCpu'[h] = s /\ targetCpu'[h] = d /\ reta'[h] \in {s, d}
            /\ ~inTransition'[h] => /\ targetCpu'[h] = None
                                    /\ reta'[h] # curCpu'[h] =>
                                         /\ cmds' # 0 /\ curCpu'[h] = d
                                         /\ reta'[h] = None \/ (reta'[h] = s /\ s # d)
            /\ cmds' # 0 /\ reta'[h] # (IF inTransition'[h] THEN d ELSE curCpu'[h]) =>
                 mode'[s] \in {"assign", "copy", "reta"} /\ h \in cmd'[s].moved
            /\ cmds' # 0 /\ h \in cmd'[s].moved => inTransition'[h] \/ curCpu'[h] = d
    <2>1. ASSUME NEW h \in Fgs, h # g PROVE G(h)
      <3>1. h \in cmd'[s].moved <=> h \in cmd[s].moved  BY <1>4, <2>1
      <3> QED BY <1>3, <1>8, <2>1, <3>1 DEF Control, Groups
    <2>2. G(g)
      <3>1. targetCpu[g] = None  BY <1>6 DEF Control, Groups
      <3>2. CASE curCpu[g] = d  BY <1>3, <1>5, <1>6, <1>8, <3>1, <3>2
      <3>3. CASE curCpu[g] = None  BY <1>2, <1>3, <1>4, <1>5, <1>6, <1>8, <3>1, <3>3
      <3>4. CASE curCpu[g] \notin {d, None}  BY <1>2, <1>3, <1>4, <1>5, <1>6, <1>8, <3>4
      <3> QED BY <3>2, <3>3, <3>4
    <2> HIDE DEF G
    <2>3. \A h \in Fgs : G(h)  BY <2>1, <2>2
    <2> QED BY <2>3 DEF Groups, G
  <1>15. Assigning(s, d)'
    <2>1. cmd'[s].real <=> infoFgs'[s] # {}  BY <1>4, <1>5, <1>9
    <2>2. ASSUME NEW h \in cmd'[s].fgs
          PROVE  curCpu'[h] = reta'[h] /\ curCpu'[h] \in {s, d, None} /\ ~inTransition'[h]
      <3>1. h \in cmd[s].fgs /\ h # g  BY <1>4
      <3>2. h \in Fgs  BY <1>2, <3>1 DEF TypeOK, CmdType
      <3> QED BY <1>3, <1>5, <1>8, <3>1, <3>2
    <2> QED BY <1>3, <1>4, <1>5, <1>11, <2>1, <2>2 DEF Assigning
  <1>16. Tokens(s, d)'
    <2>1. infoFgs'[s] = {h \in Fgs : inTransition'[h]}  BY <1>5, <1>6, <1>8, <1>9
    <2> QED BY <1>3, <1>5, <1>10, <1>11, <2>1 DEF Control, Tokens, Waiting
  <1> QED BY <1>2, <1>3, <1>12, <1>13, <1>14, <1>15, <1>16 DEF Control

\* A queue without elements is empty.
LEMMA RangeNone == ASSUME NEW S, NEW q \in Seq(S), Range(q) = {} PROVE Len(q) = 0
  <1>1. Len(q) \in Nat /\ DOMAIN q = 1..Len(q)  BY LenProperties
  <1>2. \A i \in DOMAIN q : q[i] \in Range(q)  BY DEF Range
  <1>3. ~(1 \in DOMAIN q)  BY <1>2
  <1> QED BY <1>1, <1>3

\* A call for the target handler is sent: by the timer's handler, or by s when
\* it has polled its queue.
LEMMA SendTarget ==
    ASSUME TypeOK, NEW s \in Cpus, NEW d \in Cpus, Calls(s, d), s # d, ~Asked(d),
           cpu_run_on_one(d, [f |-> "target", info |-> s])
    PROVE  /\ Asked(d)' /\ Len(inbox'[d]) <= 1
           /\ \A c \in Cpus : \A r \in Range(inbox'[c]) :
                IF r.f = "target" THEN c = d /\ s # d /\ r.info = s ELSE c = s /\ s # d
  <1>1. [f |-> "target", info |-> s] \in Request /\ s # None  BY BoundAssumption DEF Request, Cpu
  <1>2. \A x \in Cpus : x # d => inbox'[x] = inbox[x]  BY <1>1, SendTypes
  <1>3. Range(inbox'[d]) = Range(inbox[d]) \cup {[f |-> "target", info |-> s]}  BY <1>1, SendTypes
  <1>4. Len(inbox'[d]) = Len(inbox[d]) + 1  BY <1>1, SendTypes
  <1>5. Range(inbox[d]) = {}  BY DEF Calls, Asked
  <1>6. Len(inbox[d]) = 0
    <2>1. inbox[d] \in Seq(Request)  BY DEF TypeOK
    <2> QED BY <1>5, <2>1, RangeNone
  <1>7. Len(inbox'[d]) <= 1  BY <1>4, <1>6
  <1>8. ASSUME NEW c \in Cpus, NEW r \in Range(inbox'[c])
        PROVE  IF r.f = "target" THEN c = d /\ s # d /\ r.info = s ELSE c = s /\ s # d
    <2>1. CASE c = d
      <3>1. r = [f |-> "target", info |-> s]  BY <1>3, <1>5, <1>8, <2>1
      <3> QED BY <2>1, <3>1
    <2>2. CASE c # d
      <3>1. r \in Range(inbox[c])  BY <1>2, <1>8, <2>2
      <3> QED BY <3>1 DEF Calls
    <2> QED BY <2>1, <2>2
  <1>9. Asked(d)'
    <2>1. [f |-> "target", info |-> s] \in Range(inbox'[d])  BY <1>3
    <2> QED BY <2>1 DEF Asked
  <1> QED BY <1>7, <1>8, <1>9

\* The timeout.
LEMMA ControlTimeout ==
    ASSUME TypeOK, NEW s \in Cpu, NEW d \in Cpu, Control(s, d), NEW c \in Cpus, transition_handler_prev(c),
           mode[c] # "cancel"
    PROVE  Control(s, d)'
  <1>1. timerArmed[c]  BY DEF transition_handler_prev
  <1>2. c = s /\ s # d  BY <1>1 DEF Control, Roles, Place
  <1>3. cmds # 0 /\ s \in Cpus /\ d \in Cpus
    <2>1. cmds # 0  BY <1>2, BoundAssumption DEF Control, Roles, Place
    <2> QED BY <2>1, CommandCpus DEF Control
  <1>4. /\ Waiting(s, d) /\ infoTarget[s] = d /\ ~Asked(d) /\ mode[s] # "early" /\ mode[d] \notin HandlerModes
        /\ infoFgs[s] = {g \in Fgs : inTransition[g]} /\ mode[s] # "assign"
    BY <1>1, <1>2, <1>3 DEF Control, Tokens, Assigning, Waiting
  <1>5. /\ timerArmed' = [timerArmed EXCEPT ![s] = FALSE] /\ timerActive' = [timerActive EXCEPT ![s] = FALSE]
        /\ cpu_run_on_one(d, [f |-> "target", info |-> s])
        /\ UNCHANGED <<inTransition, curCpu, targetCpu, prevCpu, reta, infoPrev, infoTarget, infoFgs,
                       mode, cmd, cmds, reg, enq>>
    BY <1>2, <1>4 DEF transition_handler_prev, fgVars, nicVars, cpVars, locVars, regVars
  <1>6. /\ Asked(d)' /\ Len(inbox'[d]) <= 1
        /\ \A x \in Cpus : \A r \in Range(inbox'[x]) :
             IF r.f = "target" THEN x = d /\ s # d /\ r.info = s ELSE x = s /\ s # d
    BY <1>2, <1>3, <1>4, <1>5, SendTarget DEF Control
  <1>7. /\ ~timerArmed'[s] /\ ~timerActive'[s]
        /\ \A x \in Cpus : timerArmed'[x] => timerArmed[x] /\ x # s
    BY <1>3, <1>5, ControlTypes
  <1>8. Roles(s, d)'
    <2>1. ASSUME NEW x \in Cpus PROVE Place(x, s, d)'
      <3>1. timerArmed'[x] = timerArmed[x] \/ x = s  BY <1>3, <1>5, ControlTypes
      <3> QED BY <1>2, <1>5, <3>1 DEF Control, Roles, Place
    <2> QED BY <1>3, <1>5, <1>7, <2>1 DEF Control, Roles
  <1>9. Calls(s, d)'  BY <1>6 DEF Calls
  <1>10. Groups(s, d)'  BY <1>5 DEF Control, Groups
  <1>11. Assigning(s, d)'  BY <1>3, <1>4, <1>5 DEF Control, Assigning
  <1>12. Waiting(s, d)'  BY <1>6 DEF Waiting
  <1>13. Tokens(s, d)'  BY <1>2, <1>4, <1>5, <1>6, <1>7, <1>12 DEF Tokens
  <1> QED BY <1>8, <1>9, <1>10, <1>11, <1>13 DEF Control

\* s has polled its queue, and asks d.
LEMMA ControlDone ==
    ASSUME TypeOK, NEW s \in Cpu, NEW d \in Cpu, Control(s, d), NEW c \in Cpus, EarlyDone(c)
    PROVE  Control(s, d)'
  <1>1. mode[c] = "early"  BY DEF EarlyDone
  <1>2. c = s /\ s # d  BY <1>1 DEF Control, Roles, Place
  <1>3. cmds # 0 /\ s \in Cpus /\ d \in Cpus
    <2>1. cmds # 0  BY <1>2, BoundAssumption DEF Control, Roles, Place
    <2> QED BY <2>1, CommandCpus DEF Control
  <1>4. /\ Waiting(s, d) /\ infoTarget[s] = d /\ ~Asked(d) /\ ~timerArmed[s] /\ mode[d] \notin HandlerModes
        /\ infoFgs[s] = {g \in Fgs : inTransition[g]} /\ mode[s] = "early"
    BY <1>1, <1>2, <1>3 DEF Control, Tokens, Waiting
  <1>5. /\ mode' = [mode EXCEPT ![s] = "loop"]
        /\ cpu_run_on_one(d, [f |-> "target", info |-> s])
        /\ UNCHANGED <<inTransition, curCpu, targetCpu, prevCpu, reta, infoPrev, infoTarget, infoFgs,
                       timerActive, timerArmed, cmd, cmds, reg, enq>>
    BY <1>2, <1>4 DEF EarlyDone, Goto, fgVars, nicVars, infoVars, cpVars, locVars, regVars
  <1>6. /\ Asked(d)' /\ Len(inbox'[d]) <= 1
        /\ \A x \in Cpus : \A r \in Range(inbox'[x]) :
             IF r.f = "target" THEN x = d /\ s # d /\ r.info = s ELSE x = s /\ s # d
    BY <1>2, <1>3, <1>4, <1>5, SendTarget DEF Control
  <1>7. mode'[s] = "loop" /\ \A x \in Cpus : x # s => mode'[x] = mode[x]
    BY <1>3, <1>5, ControlTypes
  <1>8. "loop" \notin AssignModes /\ "loop" \notin HandlerModes  BY DEF AssignModes, HandlerModes
  <1>9. Roles(s, d)'
    <2>1. ASSUME NEW x \in Cpus
          PROVE  Place(x, s, d)'
      BY <1>7, <1>8 DEF Control, Roles, Place
    <2> QED BY <1>3, <1>5, <2>1 DEF Control, Roles, Place
  <1>10. Calls(s, d)'  BY <1>6 DEF Calls
  <1>11. Groups(s, d)'  BY <1>4, <1>5, <1>7 DEF Control, Groups
  <1>12. Assigning(s, d)'  BY <1>7, <1>8 DEF Assigning
  <1>13. Waiting(s, d)'  BY <1>6 DEF Waiting
  <1>14. Tokens(s, d)'  BY <1>2, <1>3, <1>4, <1>5, <1>6, <1>7, <1>13 DEF Control, Tokens
  <1> QED BY <1>9, <1>10, <1>11, <1>12, <1>14 DEF Control

\* s is asked for an early transition: if its timer runs, it polls its queue.
LEMMA ControlEarly ==
    ASSUME TypeOK, NEW s \in Cpu, NEW d \in Cpu, Control(s, d), NEW c \in Cpus, NEW k,
           early_transition_handler_prev(c, k)
    PROVE  Control(s, d)'
  <1>1. Takes(c, k, "early") /\ mode[c] = "loop"  BY DEF early_transition_handler_prev, Takes, Idle
  <1>2. inbox[c][k] \in Range(inbox[c]) /\ inbox[c][k].f = "early"  BY <1>1, TakeTypes
  <1>3. c = s /\ s # d  BY <1>2 DEF Control, Calls
  <1>4. cmds # 0 /\ s \in Cpus /\ d \in Cpus
    <2>1. cmds # 0  BY <1>3, BoundAssumption DEF Control, Roles, Place
    <2> QED BY <2>1, CommandCpus DEF Control
  <1>5. Range(inbox'[s]) \subseteq Range(inbox[s])  BY <1>1, <1>3, TakeTypes
  <1>6. \A x \in Cpus : x # s => inbox'[x] = inbox[x]  BY <1>1, <1>3, TakeTypes
  <1>7. UNCHANGED <<inTransition, curCpu, targetCpu, prevCpu, reta, infoPrev, infoTarget, infoFgs,
                    cmd, cmds, reg, enq>>
    BY DEF early_transition_handler_prev, fgVars, nicVars, infoVars, cpVars, locVars, regVars
  <1>8. Asked(d)' <=> Asked(d)  BY <1>3, <1>6 DEF Asked
  <1>9. Calls(s, d)'
    <2>1. ASSUME NEW x \in Cpus, NEW r \in Range(inbox'[x]) PROVE r \in Range(inbox[x])
      BY <1>5, <1>6, <2>1
    <2>2. Len(inbox'[d]) <= 1  BY <1>3, <1>4, <1>6 DEF Control, Calls
    <2> QED BY <2>1, <2>2 DEF Control, Calls
  <1>10. CASE timerActive[s]
    <2>1. mode' = [mode EXCEPT ![s] = "cancel"] /\ UNCHANGED <<timerActive, timerArmed>>
      BY <1>3, <1>10 DEF early_transition_handler_prev, Goto, infoVars
    <2>2. mode[s] = "loop" /\ mode'[s] = "cancel" /\ \A x \in Cpus : x # s => mode'[x] = mode[x]
      BY <1>1, <1>3, <1>4, <2>1, ControlTypes
    <2>3. timerArmed[s] /\ reg[s] = None /\ enq[s].at = "no"
      BY <1>1, <1>3, <1>4, <1>10 DEF Control, Tokens, Takes, Idle, NoEnq
    <2>4. Waiting(s, d)' <=> Waiting(s, d)  BY <1>8, <2>1, <2>2 DEF Waiting
    <2>6. "cancel" \notin AssignModes /\ "cancel" \notin HandlerModes  BY DEF AssignModes, HandlerModes
    <2>7. Roles(s, d)'
      <3>1. ASSUME NEW x \in Cpus PROVE Place(x, s, d)'
        BY <1>3, <1>7, <2>1, <2>2, <2>3, <2>6 DEF Control, Roles, Place
      <3> QED BY <1>4, <1>7, <2>1, <3>1 DEF Control, Roles
    <2>8. Groups(s, d)'  BY <1>4, <1>7, <2>2 DEF Control, Groups
    <2>9. Assigning(s, d)'  BY <2>2, <2>6 DEF Assigning
    <2>10. mode'[d] = mode[d]  BY <1>3, <1>4, <2>2
    <2>11. Tokens(s, d)'  BY <1>3, <1>4, <1>7, <1>8, <2>1, <2>2, <2>4, <2>10 DEF Control, Tokens
    <2> QED BY <1>9, <2>7, <2>8, <2>9, <2>11 DEF Control
  <1>11. CASE ~timerActive[s]
    <2>1. UNCHANGED <<timerActive, timerArmed, mode>>
      BY <1>3, <1>11 DEF early_transition_handler_prev, infoVars
    <2>2. Waiting(s, d)' <=> Waiting(s, d)  BY <1>8, <2>1 DEF Waiting
    <2>3. Roles(s, d)'  BY <1>7, <2>1 DEF Control, Roles, Place
    <2>4. Groups(s, d)'  BY <1>7, <2>1 DEF Control, Groups
    <2>5. Assigning(s, d)'  BY <1>4, <1>7, <2>1, <2>2 DEF Control, Assigning
    <2>6. Tokens(s, d)'  BY <1>4, <1>7, <1>8, <2>1, <2>2 DEF Control, Tokens
    <2> QED BY <1>9, <2>3, <2>4, <2>5, <2>6 DEF Control
  <1> QED BY <1>10, <1>11

\* s stops its timer.
LEMMA ControlCancel ==
    ASSUME TypeOK, NEW s \in Cpu, NEW d \in Cpu, Control(s, d), NEW c \in Cpus, EarlyCancel(c)
    PROVE  Control(s, d)'
  <1>1. mode[c] = "cancel"  BY DEF EarlyCancel
  <1>2. c = s /\ s # d /\ timerArmed[s]  BY <1>1 DEF Control, Roles, Place
  <1>3. cmds # 0 /\ s \in Cpus /\ d \in Cpus
    <2>1. cmds # 0  BY <1>2, BoundAssumption DEF Control, Roles
    <2> QED BY <2>1, CommandCpus DEF Control
  <1>4. /\ timerActive' = [timerActive EXCEPT ![s] = FALSE] /\ timerArmed' = [timerArmed EXCEPT ![s] = FALSE]
        /\ mode' = [mode EXCEPT ![s] = "early"]
        /\ UNCHANGED <<inTransition, curCpu, targetCpu, prevCpu, reta, infoPrev, infoTarget, infoFgs,
                       inbox, cmd, cmds, reg, enq>>
    BY <1>2 DEF EarlyCancel, Goto, fgVars, nicVars, cpVars, locVars, regVars
  <1>5. /\ ~timerActive'[s] /\ ~timerArmed'[s] /\ mode'[s] = "early"
        /\ \A x \in Cpus : timerArmed'[x] => timerArmed[x]
        /\ \A x \in Cpus : x # s => mode'[x] = mode[x] /\ timerArmed'[x] = timerArmed[x]
    BY <1>3, <1>4, ControlTypes
  <1>6. Asked(d)' <=> Asked(d)  BY <1>4 DEF Asked
  <1>7. Waiting(s, d) /\ Waiting(s, d)' /\ ~Asked(d)  BY <1>2, <1>3, <1>5 DEF Waiting, Control, Tokens
  <1>8. /\ infoTarget[s] = d /\ mode[d] \notin HandlerModes
        /\ infoFgs[s] = {g \in Fgs : inTransition[g]}
    BY <1>3, <1>7 DEF Control, Tokens
  <1>9. "early" \notin AssignModes /\ "early" \notin HandlerModes  BY DEF AssignModes, HandlerModes
  <1>10. Roles(s, d)'
    <2>1. ASSUME NEW x \in Cpus
          PROVE  /\ Place(x, s, d)'
                 /\ timerArmed'[x] => x = s /\ s # d
      BY <1>2, <1>4, <1>5, <1>9 DEF Control, Roles, Place
    <2> QED BY <1>3, <1>4, <2>1 DEF Control, Roles
  <1>11. Calls(s, d)'  BY <1>4 DEF Control, Calls
  <1>12. Groups(s, d)'  BY <1>1, <1>2, <1>3, <1>4, <1>5 DEF Control, Groups
  <1>13. Assigning(s, d)'  BY <1>5, <1>9 DEF Assigning
  <1>14. mode'[d] = mode[d]  BY <1>2, <1>3, <1>5
  <1>15. Tokens(s, d)'  BY <1>2, <1>3, <1>4, <1>5, <1>6, <1>7, <1>8, <1>14 DEF Tokens
  <1> QED BY <1>10, <1>11, <1>12, <1>13, <1>15 DEF Control

\* The groups are handed over to d.
LEMMA ControlTarget ==
    ASSUME TypeOK, NEW s \in Cpu, NEW d \in Cpu, Control(s, d), NEW c \in Cpus, NEW k,
           transition_handler_target(c, k)
    PROVE  /\ Control(s, d)' /\ c = d /\ s # d /\ s \in Cpus /\ cmds # 0 /\ Asked(d) /\ ~Asked(d)'
           /\ mode[d] = "loop" /\ mode'[d] = "readHead" /\ \A x \in Cpus : x # d => mode'[x] = mode[x]
           /\ \A g \in Fgs : ~inTransition'[g] /\ curCpu'[g] = IF inTransition[g] THEN d ELSE curCpu[g]
  <1>1. Takes(c, k, "target") /\ mode[c] = "loop"  BY DEF transition_handler_target, Takes, Idle
  <1>2. inbox[c][k] \in Range(inbox[c]) /\ inbox[c][k].f = "target"  BY <1>1, TakeTypes
  <1>3. c = d /\ s # d /\ inbox[c][k].info = s  BY <1>2 DEF Control, Calls
  <1>4. cmds # 0 /\ s \in Cpus /\ d \in Cpus
    <2>1. cmds # 0  BY <1>3, BoundAssumption DEF Control, Roles, Place
    <2> QED BY <2>1, CommandCpus DEF Control
  <1>5. Asked(d)  BY <1>2, <1>3, <1>4 DEF Asked
  <1>6. /\ Waiting(s, d) /\ ~timerArmed[s] /\ mode[s] # "early" /\ mode[s] # "assign"
        /\ infoFgs[s] = {g \in Fgs : inTransition[g]} /\ (timerActive[s] => timerArmed[s])
    BY <1>3, <1>4, <1>5 DEF Control, Tokens, Assigning, Waiting
  <1>7. /\ inTransition' = [g \in Fgs |-> IF g \in infoFgs[s] THEN FALSE ELSE inTransition[g]]
        /\ curCpu' = [g \in Fgs |-> IF g \in infoFgs[s] THEN targetCpu[g] ELSE curCpu[g]]
        /\ targetCpu' = [g \in Fgs |-> IF g \in infoFgs[s] THEN None ELSE targetCpu[g]]
        /\ mode' = [mode EXCEPT ![d] = "readHead"]
        /\ UNCHANGED <<reta, infoPrev, infoTarget, infoFgs, timerActive, timerArmed, cmd, cmds, reg, enq>>
    BY <1>3 DEF transition_handler_target, Goto, nicVars, infoVars, cpVars, regVars
  <1>8. ASSUME NEW g \in Fgs
        PROVE  /\ ~inTransition'[g] /\ targetCpu'[g] = None
               /\ curCpu'[g] = IF inTransition[g] THEN d ELSE curCpu[g]
    <2>1. g \in infoFgs[s] <=> inTransition[g]  BY <1>6
    <2>2. inTransition[g] => targetCpu[g] = d  BY DEF Control, Groups
    <2>3. ~inTransition[g] => targetCpu[g] = None  BY DEF Control, Groups
    <2>4. inTransition[g] \in BOOLEAN  BY ControlTypes
    <2> QED BY <1>7, <2>1, <2>2, <2>3, <2>4
  <1>9. mode'[d] = "readHead" /\ \A x \in Cpus : x # d => mode'[x] = mode[x]
    BY <1>4, <1>7, ControlTypes
  <1>10. mode'[s] = mode[s]  BY <1>3, <1>4, <1>9
  <1>11. Range(inbox'[d]) \subseteq Range(inbox[d])  BY <1>1, <1>3, TakeTypes
  <1>12. \A x \in Cpus : x # d => inbox'[x] = inbox[x]  BY <1>1, <1>3, TakeTypes
  <1>13. Len(inbox'[d]) = Len(inbox[d]) - 1  BY <1>1, <1>3, TakeTypes
  <1>14. ~Asked(d)'
    <2>1. inbox' \in [Cpus -> Seq(Request)]  BY <1>1, TakeTypes
    <2>2. inbox'[d] \in Seq(Request) /\ Len(inbox[d]) \in Nat /\ Len(inbox[d]) <= 1
      BY <1>3, <1>4, <2>1, ControlTypes DEF Control, Calls
    <2>3. Len(inbox'[d]) \in Nat /\ DOMAIN inbox'[d] = 1..Len(inbox'[d])  BY <2>2, LenProperties
    <2>4. DOMAIN inbox'[d] = {}  BY <1>13, <2>2, <2>3
    <2>5. Range(inbox'[d]) = {}  BY <2>4 DEF Range
    <2> QED BY <2>5 DEF Asked
  <1>15. ~Waiting(s, d)'  BY <1>6, <1>7, <1>10, <1>14 DEF Waiting
  <1>16. "readHead" \in HandlerModes /\ "readHead" \notin AssignModes  BY DEF AssignModes, HandlerModes
  <1>17. Roles(s, d)'
    <2>1. ASSUME NEW x \in Cpus
          PROVE  Place(x, s, d)'
      BY <1>3, <1>4, <1>7, <1>9, <1>16 DEF Control, Roles, Place
    <2> QED BY <1>4, <1>7, <2>1 DEF Control, Roles, Place
  <1>18. Calls(s, d)'
    <2>1. ASSUME NEW x \in Cpus, NEW r \in Range(inbox'[x]) PROVE r \in Range(inbox[x])
      BY <1>11, <1>12, <2>1
    <2>2. Len(inbox'[d]) <= 1  BY <1>3, <1>4, <1>13, ControlTypes DEF Control, Calls
    <2> QED BY <2>1, <2>2 DEF Control, Calls
  <1>19. Groups(s, d)'
    <2>1. ASSUME NEW g \in Fgs, inTransition[g]
          PROVE  /\ reta[g] \in {s, d} /\ curCpu'[g] = d
                 /\ reta[g] # d => mode[s] \in {"assign", "copy", "reta"} /\ g \in cmd[s].moved
      BY <1>4, <1>8, <2>1 DEF Control, Groups
    <2>2. ASSUME NEW g \in Fgs, ~inTransition[g]
          PROVE  /\ curCpu'[g] = curCpu[g]
                 /\ reta[g] # curCpu[g] => curCpu[g] = d /\ (reta[g] = None \/ (reta[g] = s /\ s # d))
                 /\ reta[g] # curCpu[g] => mode[s] \in {"assign", "copy", "reta"} /\ g \in cmd[s].moved
                 /\ g \in cmd[s].moved => curCpu[g] = d
      BY <1>4, <1>8, <2>2 DEF Control, Groups
    <2> QED BY <1>3, <1>4, <1>7, <1>8, <1>10, <2>1, <2>2 DEF Groups
  <1>20. Assigning(s, d)'  BY <1>4, <1>6, <1>7, <1>10 DEF Control, Assigning
  <1>21. Tokens(s, d)'  BY <1>6, <1>7, <1>8, <1>10, <1>14, <1>15 DEF Tokens
  <1>22. Control(s, d)'  BY <1>17, <1>18, <1>19, <1>20, <1>21 DEF Control
  <1> QED BY <1>1, <1>3, <1>4, <1>5, <1>8, <1>9, <1>14, <1>22

\* The target handler returns.
LEMMA ControlFinish ==
    ASSUME TypeOK, NEW s \in Cpu, NEW d \in Cpu, Control(s, d), NEW c \in Cpus, TargetFinish(c)
    PROVE  Control(s, d)'
  <1>1. mode[c] = "local" /\ "local" \in HandlerModes  BY DEF TargetFinish, HandlerModes
  <1>2. c = d /\ s # d  BY <1>1 DEF Control, Roles, Place
  <1>3. cmds # 0 /\ s \in Cpus /\ d \in Cpus
    <2>1. cmds # 0  BY <1>2, BoundAssumption DEF Control, Roles, Place
    <2> QED BY <2>1, CommandCpus DEF Control
  <1>4. /\ infoPrev' = [infoPrev EXCEPT ![c] = None, ![handler[c].info] = None]
        /\ mode' = [mode EXCEPT ![d] = "loop"]
        /\ UNCHANGED <<inTransition, curCpu, targetCpu, prevCpu, reta, infoTarget, infoFgs,
                       timerActive, timerArmed, inbox, cmd, cmds, reg, enq>>
    BY <1>2 DEF TargetFinish, Goto, fgVars, nicVars, regVars
  <1>5. mode'[d] = "loop" /\ \A x \in Cpus : x # d => mode'[x] = mode[x]
    BY <1>3, <1>4, ControlTypes
  <1>6. \A x \in Cpus : infoPrev'[x] \in {infoPrev[x], None}  BY <1>4, ControlTypes
  <1>7. "loop" \notin AssignModes /\ "loop" \notin HandlerModes  BY DEF AssignModes, HandlerModes
  <1>8. Asked(d)' <=> Asked(d)  BY <1>4 DEF Asked
  <1>9. mode'[s] = mode[s]  BY <1>2, <1>3, <1>5
  <1>10. Waiting(s, d)' <=> Waiting(s, d)  BY <1>4, <1>8, <1>9 DEF Waiting
  <1>11. Roles(s, d)'
    <2>1. ASSUME NEW x \in Cpus
          PROVE  /\ Place(x, s, d)'
                 /\ infoPrev'[x] # None => x \in {s, d} /\ infoPrev'[x] = s
      <3>1. infoPrev'[x] # None => x \in {s, d} /\ infoPrev'[x] = s  BY <1>6 DEF Control, Roles
      <3>2. Place(x, s, d)'  BY <1>2, <1>3, <1>4, <1>5, <1>7 DEF Control, Roles, Place
      <3> QED BY <3>1, <3>2
    <2> QED BY <1>3, <1>4, <2>1 DEF Control, Roles, Place
  <1>12. Calls(s, d)'  BY <1>4 DEF Control, Calls
  <1>13. Groups(s, d)'  BY <1>4, <1>9 DEF Control, Groups
  <1>14. Assigning(s, d)'  BY <1>3, <1>4, <1>5, <1>7, <1>9, <1>10 DEF Control, Assigning
  <1>15. Tokens(s, d)'  BY <1>3, <1>4, <1>5, <1>7, <1>8, <1>9, <1>10 DEF Control, Tokens
  <1> QED BY <1>11, <1>12, <1>13, <1>14, <1>15 DEF Control

\* The state before there is a command.
Before ==
    /\ \A c \in Cpus : /\ mode[c] = "loop" /\ ~timerArmed[c] /\ ~timerActive[c]
                       /\ reg[c] = None /\ enq[c].at = "no" /\ infoPrev[c] = None /\ infoFgs[c] = {}
               /\ Range(inbox[c]) = {}
    /\ \A g \in Fgs : ~inTransition[g] /\ targetCpu[g] = None /\ reta[g] = curCpu[g]

\* Without a command no CPU knows of a migration.
LEMMA BeforeCommand ==
    ASSUME TypeOK, NEW s \in Cpu, NEW d \in Cpu, Control(s, d), cmds = 0
    PROVE  Before
  <1>1. s = None /\ d = None /\ None \notin Cpus  BY BoundAssumption DEF Control, Roles, Place
  <1>2. ASSUME NEW c \in Cpus
        PROVE  /\ mode[c] = "loop" /\ ~timerArmed[c] /\ ~timerActive[c]
               /\ reg[c] = None /\ enq[c].at = "no" /\ infoPrev[c] = None /\ infoFgs[c] = {}
               /\ Range(inbox[c]) = {}
    <2>1. mode[c] \in Modes  BY ControlTypes
    <2>2. mode[c] = "loop" /\ ~timerArmed[c] /\ reg[c] = None /\ enq[c].at = "no" /\ infoPrev[c] = None
      BY <1>1, <2>1 DEF Control, Roles, Place, Modes
    <2>3. infoFgs[c] = {} /\ ~timerActive[c]  BY DEF Control, Roles, Place
    <2>4. Range(inbox[c]) = {}  BY <1>1 DEF Control, Calls
    <2> QED BY <2>2, <2>3, <2>4
  <1>3. \A g \in Fgs : ~inTransition[g] /\ targetCpu[g] = None /\ reta[g] = curCpu[g]
    BY DEF Control, Groups
  <1> QED BY <1>2, <1>3 DEF Before

\* The command.
LEMMA ControlCommand ==
    ASSUME TypeOK, Before, cmds = 0, NEW c \in Cpus, NEW cpu \in Cpus, NEW fgs \in SUBSET Fgs,
           Command(c, fgs, cpu)
    PROVE  Control(c, cpu)' /\ mode'[c] = "assign" /\ \A x \in Cpus : x # c => mode'[x] = "loop"
  <1>1. /\ cmds' = cmds + 1 /\ mode' = [mode EXCEPT ![c] = "assign"]
        /\ cmd' = [cmd EXCEPT ![c] = [NoCmd EXCEPT !.fgs = fgs, !.cpu = cpu]]
        /\ \A g \in fgs : curCpu[g] \in {c, cpu, None}
        /\ UNCHANGED <<inTransition, curCpu, targetCpu, prevCpu, reta, infoPrev, infoTarget, infoFgs,
                       timerActive, timerArmed, inbox, reg, enq>>
    BY DEF Command, Goto, fgVars, nicVars, infoVars, regVars
  <1>2. cmds' # 0 /\ c # None /\ cpu # None  BY <1>1, BoundAssumption
  <1>3. mode'[c] = "assign" /\ \A x \in Cpus : x # c => mode'[x] = "loop"
    BY <1>1, ControlTypes DEF Before
  <1>4. cmd'[c].fgs = fgs /\ cmd'[c].cpu = cpu /\ ~cmd'[c].real /\ cmd'[c].moved = {}
    BY <1>1, ControlTypes DEF NoCmd
  <1>5. /\ "loop" \notin AssignModes /\ "loop" \notin HandlerModes /\ "assign" \in AssignModes
        /\ "assign" \notin HandlerModes
    BY DEF AssignModes, HandlerModes
  <1>6. ~Asked(cpu)'  BY <1>1 DEF Before, Asked
  <1>7. ~Waiting(c, cpu)'  BY <1>1, <1>3, <1>6 DEF Before, Waiting
  <1>8. Roles(c, cpu)'
    <2>1. ASSUME NEW x \in Cpus
          PROVE  Place(x, c, cpu)'
      BY <1>1, <1>3, <1>5 DEF Place, Before
    <2> QED BY <1>1, <1>2, <2>1 DEF Roles, Before
  <1>9. Calls(c, cpu)'
    <2>1. Len(inbox[cpu]) = 0
      <3>1. inbox[cpu] \in Seq(Request)  BY ControlTypes
      <3> QED BY <3>1, RangeNone DEF Before
    <2> QED BY <1>1, <2>1 DEF Calls, Before
  <1>10. Groups(c, cpu)'  BY <1>1, <1>4 DEF Groups, Before
  <1>11. Assigning(c, cpu)'
    <2>1. mode'[cpu] \notin HandlerModes  BY <1>3, <1>5
    <2> QED BY <1>1, <1>3, <1>4, <1>7, <2>1 DEF Assigning, Before
  <1>12. Tokens(c, cpu)'  BY <1>1, <1>3, <1>6, <1>7 DEF Tokens, Before
  <1> QED BY <1>3, <1>8, <1>9, <1>10, <1>11, <1>12 DEF Control

-----------------------------------------------------------------------------
(* Packets: where they are, and in which order.                            *)

\* What is in the queues.
LEMMA QueueTypes ==
    ASSUME TypeOK, NEW c \in Cpus
    PROVE  /\ \A p \in Range(hwq[c]) : p \in Pkt /\ p.fg \in Fgs /\ p.seq \in Nat
           /\ \A p \in Range(rxq[c]) : p \in Pkt /\ p.fg \in Fgs /\ p.seq \in Nat
           /\ \A p \in Range(localq[c]) : p \in Pkt /\ p.fg \in Fgs /\ p.seq \in Nat
           /\ \A p \in Range(remoteq[c]) : p \in Pkt /\ p.fg \in Fgs /\ p.seq \in Nat
           /\ \A p \in Range(walk[c]) : p \in Pkt /\ p.fg \in Fgs /\ p.seq \in Nat
           /\ reg[c] # None => reg[c] \in Pkt /\ reg[c].fg \in Fgs /\ reg[c].seq \in Nat
           /\ hwq[c] \in Seq(Pkt) /\ rxq[c] \in Seq(Pkt) /\ localq[c] \in Seq(Pkt)
           /\ remoteq[c] \in Seq(Pkt) /\ walk[c] \in Seq(Pkt)
  <1>1. /\ hwq[c] \in Seq(Pkt) /\ rxq[c] \in Seq(Pkt) /\ localq[c] \in Seq(Pkt)
        /\ remoteq[c] \in Seq(Pkt) /\ walk[c] \in Seq(Pkt) /\ reg[c] \in Pkt \cup {None}
    BY DEF TypeOK
  <1>2. /\ Range(hwq[c]) \subseteq Pkt /\ Range(rxq[c]) \subseteq Pkt
        /\ Range(localq[c]) \subseteq Pkt /\ Range(remoteq[c]) \subseteq Pkt /\ Range(walk[c]) \subseteq Pkt
    BY <1>1, RangeType
  <1> QED BY <1>1, <1>2, PktType

\* Whether the groups are handed over yet, when nothing it looks at changes.
LEMMA BusySame ==
    ASSUME NEW s, NEW d, UNCHANGED <<mode, timerArmed, inbox>>
    PROVE  /\ Asked(d)' <=> Asked(d)
           /\ Waiting(s, d)' <=> Waiting(s, d)
           /\ Busy(s, d)' <=> Busy(s, d)
           /\ Whole(s, d)' <=> Whole(s, d)
  <1>1. Asked(d)' <=> Asked(d)  BY DEF Asked
  <1>2. Waiting(s, d)' <=> Waiting(s, d)  BY <1>1 DEF Waiting
  <1>3. Busy(s, d)' <=> Busy(s, d)  BY <1>2 DEF Busy
  <1> QED BY <1>1, <1>2, <1>3 DEF Whole, Walking

\* The parts of Placed, when groups stay and queues only lose packets.
LEMMA PlacedFrame ==
    ASSUME TypeOK, NEW s, NEW d, Placed(s, d), UNCHANGED <<inTransition, curCpu>>
    PROVE  /\ (\A c \in Cpus : Range(rxq'[c]) \subseteq Range(rxq[c])) => PlacedRx'
           /\ /\ \A c \in Cpus : Range(localq'[c]) \subseteq Range(localq[c])
              /\ \A g \in Fgs : reta[g] = d => reta'[g] = d
              /\ mode[d] \in HandlerModes => mode'[d] \in HandlerModes \/ localq[d] = << >>
              => PlacedLocal(d)'
           /\ (\A c \in Cpus : Range(walk'[c]) \subseteq Range(walk[c])) => PlacedWalk(d)'
           /\ /\ \A c \in Cpus : Range(hwq'[c]) \subseteq Range(hwq[c])
              /\ \A g \in Fgs : reta[g] = d => reta'[g] = d
              => PlacedHw(d)'
           /\ /\ remoteq' = remoteq /\ walk' = walk /\ stranded \subseteq stranded'
              /\ \A p \in Pkt : Processed(p) => Processed(p)'
              /\ Busy(s, d)' <=> Busy(s, d)
              /\ mode'[d] = "readHead" <=> mode[d] = "readHead"
              /\ mode'[d] = "drain" => mode[d] = "drain"
              => PlacedRemote(s, d)'
           /\ /\ stranded \subseteq stranded' /\ (Busy(s, d)' <=> Busy(s, d))
              /\ \A c \in Cpus : reg'[c] \in {reg[c], None}
              => PlacedReg(s, d)'
  <1>1. (\A c \in Cpus : Range(rxq'[c]) \subseteq Range(rxq[c])) => PlacedRx'  BY DEF Placed, PlacedRx
  <1>2. ASSUME \A c \in Cpus : Range(localq'[c]) \subseteq Range(localq[c]),
               \A g \in Fgs : reta[g] = d => reta'[g] = d,
               mode[d] \in HandlerModes => mode'[d] \in HandlerModes \/ localq[d] = << >>
        PROVE  PlacedLocal(d)'
    <2>1. ASSUME NEW c \in Cpus, NEW p \in Range(localq'[c])
          PROVE  /\ c = d /\ reta'[p.fg] = d
                 /\ inTransition'[p.fg] \/ (curCpu'[p.fg] = d /\ mode'[d] \in HandlerModes)
      <3>1. p \in Range(localq[c])  BY <1>2, <2>1
      <3>2. p.fg \in Fgs /\ localq[c] # << >>  BY <3>1, QueueTypes, RangeEmpty
      <3> QED BY <1>2, <3>1, <3>2 DEF Placed, PlacedLocal
    <2> QED BY <2>1 DEF PlacedLocal
  <1>3. (\A c \in Cpus : Range(walk'[c]) \subseteq Range(walk[c])) => PlacedWalk(d)'
    BY DEF Placed, PlacedWalk
  <1>4. ASSUME \A c \in Cpus : Range(hwq'[c]) \subseteq Range(hwq[c]),
               \A g \in Fgs : reta[g] = d => reta'[g] = d
        PROVE  PlacedHw(d)'
    <2>1. ASSUME NEW c \in Cpus, NEW p \in Range(hwq'[c]), inTransition'[p.fg], c = d PROVE reta'[p.fg] = d
      <3>1. p \in Range(hwq[c])  BY <1>4, <2>1
      <3>2. p.fg \in Fgs  BY <3>1, QueueTypes
      <3> QED BY <1>4, <2>1, <3>1, <3>2 DEF Placed, PlacedHw
    <2> QED BY <2>1 DEF PlacedHw
  <1>5. ASSUME remoteq' = remoteq, walk' = walk, stranded \subseteq stranded',
               \A p \in Pkt : Processed(p) => Processed(p)', Busy(s, d)' <=> Busy(s, d),
               mode'[d] = "readHead" <=> mode[d] = "readHead", mode'[d] = "drain" => mode[d] = "drain"
        PROVE  PlacedRemote(s, d)'
    <2>1. \A c \in Cpus : \A p \in Range(remoteq[c]) : p \in Pkt  BY QueueTypes
    <2> QED BY <1>5, <2>1 DEF Placed, PlacedRemote
  <1>6. ASSUME stranded \subseteq stranded', Busy(s, d)' <=> Busy(s, d),
               \A c \in Cpus : reg'[c] \in {reg[c], None}
        PROVE  PlacedReg(s, d)'
    BY <1>6 DEF Placed, PlacedReg
  <1> QED BY <1>1, <1>2, <1>3, <1>4, <1>5, <1>6

\* d's queue ends where it did.
LEMMA TailedSame ==
    ASSUME NEW s, NEW d, Tailed(s, d), UNCHANGED <<remoteq, tail, enq, cmds>>, Whole(s, d)' => Whole(s, d)
    PROVE  Tailed(s, d)'
  BY DEF Tailed

\* While a group is in transition the command is not through with it.
LEMMA TransitBusy ==
    ASSUME NEW s \in Cpu, NEW d \in Cpu, Control(s, d), NEW g \in Fgs, inTransition[g]
    PROVE  Busy(s, d)
  <1>1. cmds # 0  BY DEF Control, Groups
  <1> QED BY <1>1 DEF Control, Tokens, Busy

\* Nor will it be.
LEMMA TransitBusyNext ==
    ASSUME NEW s \in Cpu, NEW d \in Cpu, Control(s, d)', NEW g \in Fgs, inTransition'[g]
    PROVE  Busy(s, d)'
  <1>1. cmds' # 0  BY DEF Control, Groups
  <1> QED BY <1>1 DEF Control, Tokens, Busy

\* No packet is touched.
LEMMA PacketsQuiet ==
    ASSUME TypeOK, NEW s \in Cpus, NEW d \in Cpus, Control(s, d), Control(s, d)', Packets(s, d),
           UNCHANGED <<inTransition, curCpu, targetCpu, prevCpu, hwq, rxq, localq, remoteq, walk, log,
                       reg, sent, lost, stranded, cmds>>,
           cause \subseteq cause', cause' = cause \/ (mode'[s] # "assign" /\ cmds # 0),
           \A g \in Fgs : reta'[g] = reta[g] \/ (reta'[g] = d /\ (inTransition[g] \/ curCpu[g] = d)),
           mode[d] \in HandlerModes => mode'[d] \in HandlerModes \/ localq[d] = << >>,
           mode'[s] = "assign" => mode[s] = "assign",
           cause' = {} /\ Asked(d)' =>
             Asked(d) \/ (Drained(s) /\ \A g \in Fgs : inTransition[g] => reta[g] = d),
           cause' = {} => \A c \in Cpus : enq'[c].at # "no" => timerArmed'[c] \/ mode'[c] = "early",
           \A c \in Cpus : mode'[c] = "oops" => mode[c] = "oops" \/ cause # {},
           WalksKept, Busy(s, d)' => Busy(s, d), Tailed(s, d)'
    PROVE  Packets(s, d)'
  <1>0. WalksKept => (mode'[d] = "readHead" <=> mode[d] = "readHead") /\ \A c \in Cpus :
          (mode'[c] = "drain" <=> mode[c] = "drain")
    BY DEF WalksKept, Walking
  <1>1. Chain'
    <2>1. ASSUME NEW p \in Pkt
          PROVE  /\ Processed(p)' => Processed(p)
                 /\ Pending(p)' => Pending(p)
                 /\ Held(p)' => Held(p)
                 /\ AtPrev(p)' => AtPrev(p)
                 /\ Parked(p)' => Parked(p)
                 /\ Queued(p)' => Queued(p)
                 /\ Coming(p)' => Coming(p)
      BY StageFrame
    <2>2. Stays  BY <2>1 DEF Stays, Live
    <2> QED BY <2>2, ChainStays DEF Packets
  <1>2. Queues'  BY DEF Packets, Queues
  <1>3. LogInOrder'  BY DEF Packets, LogInOrder
  <1>4. Positions'  BY <1>0 DEF Packets, Positions
  <1>5. Placed(s, d)'
    <2>1. \A g \in Fgs : reta[g] = d => reta'[g] = d  OBVIOUS
    <2>2. PlacedRx' /\ PlacedLocal(d)' /\ PlacedWalk(d)' /\ PlacedHw(d)'
      BY <2>1, PlacedFrame DEF Packets
    <2>3. PlacedRemote(s, d)' /\ PlacedReg(s, d)'
      <3>1. CASE Busy(s, d)' <=> Busy(s, d)
        <4>1. ASSUME NEW p \in Pkt, Processed(p) PROVE Processed(p)'  BY <4>1, StageFrame
        <4>2. Placed(s, d) /\ stranded \subseteq stranded' /\ remoteq' = remoteq /\ walk' = walk
          BY DEF Packets
        <4>3. (mode'[d] = "readHead" <=> mode[d] = "readHead") /\ (mode'[d] = "drain" => mode[d] = "drain")
          BY <1>0
        <4>4. PlacedRemote(s, d)'  BY <3>1, <4>1, <4>2, <4>3, PlacedFrame
        <4>5. \A c \in Cpus : reg'[c] \in {reg[c], None}  OBVIOUS
        <4>6. PlacedReg(s, d)'  BY <3>1, <4>2, <4>5, PlacedFrame
        <4> QED BY <4>4, <4>6
      <3>2. CASE Busy(s, d) /\ ~Busy(s, d)'
        <4>1. s \in Cpu /\ d \in Cpu  BY DEF Cpu
        <4>2. ASSUME NEW g \in Fgs, inTransition[g] PROVE FALSE
          BY <3>2, <4>1, <4>2, TransitBusyNext
        <4>3. ASSUME NEW c \in Cpus, NEW p \in Range(remoteq[c]) PROVE FALSE
          <5>1. inTransition[p.fg]  BY <3>2 DEF Packets, Placed, PlacedRemote
          <5> QED BY <4>2, <5>1, QueueTypes
        <4>4. ASSUME NEW c \in Cpus, reg[c] # None PROVE FALSE
          <5>1. inTransition[reg[c].fg]  BY <3>2, <4>4 DEF Packets, Placed, PlacedReg
          <5> QED BY <4>2, <4>4, <5>1, QueueTypes
        <4> QED BY <4>3, <4>4 DEF PlacedRemote, PlacedReg
      <3> QED BY <3>1, <3>2
    <2> QED BY <2>2, <2>3 DEF Placed
  <1>6. Losses(s, d)'
    <2>1. LossNeedsCause'  BY DEF Packets, Losses, LossNeedsCause, Raced
    <2>2. cmds' = 0 \/ mode'[s] = "assign" => cause' = {}  BY DEF Packets, Losses
    <2>3. cause' = {} => cause = {}  OBVIOUS
    <2>4. Drained(s)' <=> Drained(s)  BY DEF Drained
    <2>5. cause' = {} /\ Asked(d)' => Drained(s)' /\ \A g \in Fgs : inTransition'[g] => reta'[g] = d
      BY <2>3, <2>4 DEF Packets, Losses
    <2>6. cause' = {} => \A g \in Fgs : ~inTransition'[g] /\ reta'[g] # curCpu'[g] => reta'[g] = None
      BY <2>3 DEF Packets, Losses
    <2> QED BY <2>1, <2>2, <2>3, <2>5, <2>6 DEF Packets, Losses
  <1> QED BY <1>1, <1>2, <1>3, <1>4, <1>5, <1>6 DEF Packets


\* d's queue is no better off than before.
LEMMA WholeKept ==
    ASSUME NEW s, NEW d \in Cpus, WalksKept, Busy(s, d)' => Busy(s, d) PROVE Whole(s, d)' => Whole(s, d)
  BY DEF WalksKept, Walking, Whole

\* Who is where at the end of a migration.
LEMMA EndRole ==
    ASSUME TypeOK, NEW s \in Cpu, NEW d \in Cpu, Migration(s, d), NEW c \in Cpus,
           mode[c] \in {"cancel", "early"} \cup HandlerModes \/ timerArmed[c]
    PROVE  /\ s # d /\ s \in Cpus /\ d \in Cpus /\ cmds # 0 /\ Control(s, d) /\ Packets(s, d)
           /\ mode[c] \in HandlerModes => c = d /\ ~Busy(s, d)
           /\ mode[c] \in {"cancel", "early"} \/ timerArmed[c] => c = s /\ Waiting(s, d) /\ mode[s] # "assign"
  <1>1. Control(s, d) /\ Packets(s, d)  BY DEF Migration
  <1>2. s # d /\ (mode[c] \in HandlerModes => c = d)  BY <1>1 DEF Control, Roles, Place
  <1>3. cmds # 0  BY <1>1, <1>2, BoundAssumption DEF Control, Roles
  <1>4. s \in Cpus /\ d \in Cpus  BY <1>1, <1>3, CommandCpus DEF Control
  <1>5. mode[c] \in HandlerModes => ~Busy(s, d)  BY <1>1, <1>2, <1>3 DEF Control, Assigning, Tokens, Busy
  <1>6. ASSUME mode[c] \in {"cancel", "early"} \/ timerArmed[c] PROVE c = s /\ Waiting(s, d)
    BY <1>1, <1>6 DEF Control, Roles, Place, Waiting
  <1>7. Waiting(s, d) => mode[s] # "assign"  BY <1>1, <1>3 DEF Control, Assigning
  <1> QED BY <1>1, <1>2, <1>3, <1>4, <1>5, <1>6, <1>7

\* The steps of eth_fg_assign_to_cpu after the groups are assigned.
LEMMA PacketsAssign ==
    ASSUME TypeOK, NEW s \in Cpu, NEW d \in Cpu, Migration(s, d), NEW c \in Cpus,
           AssignInfo(c) \/ AssignCopy(c) \/ AssignReta(c) \/ AssignFdir(c)
    PROVE  Control(s, d)' /\ Packets(s, d)'
  <1>0. Control(s, d) /\ Control(s, d)' /\ Packets(s, d)
    BY ControlInfo, ControlCopy, ControlReta, ControlFdir DEF Migration
  <1>1. mode[c] \in AssignModes  BY DEF AssignInfo, AssignCopy, AssignReta, AssignFdir, AssignModes
  <1>2. c = s /\ s \in Cpus /\ d \in Cpus /\ cmds # 0 /\ cmd[s].cpu = d  BY <1>0, <1>1, AssignRole
  <1>3. UNCHANGED <<inTransition, curCpu, targetCpu, prevCpu, hwq, rxq, localq, remoteq, tail, walk, log,
                    reg, enq, sent, lost, stranded, cause, cmds, inbox>>
    <2>1. CASE AssignInfo(c)
      BY <2>1 DEF AssignInfo, fgVars, nicVars, queueVars, regVars, endVars
    <2>2. CASE AssignCopy(c)
      BY <2>2 DEF AssignCopy, fgVars, nicVars, queueVars, cpVars, locVars, regVars, endVars
    <2>3. CASE AssignReta(c)
      BY <2>3 DEF AssignReta, fgVars, queueVars, cpVars, locVars, regVars, endVars
    <2>4. CASE AssignFdir(c)
      BY <2>4 DEF AssignFdir, fgVars, nicVars, queueVars, cpVars, regVars, endVars
    <2> QED BY <2>1, <2>2, <2>3, <2>4
  <1>4. ASSUME NEW g \in Fgs
        PROVE  reta'[g] = reta[g] \/ (reta'[g] = d /\ (inTransition[g] \/ curCpu[g] = d))
    <2>1. reta' = reta \/ reta' = [h \in Fgs |-> IF h \in cmd[s].moved THEN d ELSE reta[h]]
      BY <1>2 DEF AssignInfo, AssignCopy, AssignReta, AssignFdir, nicVars
    <2>2. g \in cmd[s].moved => inTransition[g] \/ curCpu[g] = d
      BY <1>0, <1>2 DEF Control, Groups
    <2> QED BY <2>1, <2>2
  <1>5. \E m \in {"copy", "reta", "fdir", "loop"} : mode' = [mode EXCEPT ![s] = m]
    BY <1>2 DEF AssignInfo, AssignCopy, AssignReta, AssignFdir, Goto
  <1>6. mode'[s] \in {"copy", "reta", "fdir", "loop"} /\ \A x \in Cpus : x # s => mode'[x] = mode[x]
    BY <1>2, <1>5, ControlTypes
  <1>7. mode[s] \notin HandlerModes  BY <1>1, <1>2 DEF AssignModes, HandlerModes
  <1>8. mode[d] \in HandlerModes => mode'[d] \in HandlerModes  BY <1>2, <1>6, <1>7
  <1>9. WalksKept  BY <1>2, <1>6, <1>7 DEF WalksKept, Walking, HandlerModes
  <1>10. Asked(d)' <=> Asked(d)  BY <1>3 DEF Asked
  <1>11. \A x \in Cpus : enq[x].at = "no"  BY <1>0, <1>1, <1>2 DEF Control, Roles, Place
  <1>12. Busy(s, d)' => Busy(s, d)
    <2>1. CASE mode[s] = "assign"  BY <2>1 DEF Busy
    <2>2. CASE mode[s] # "assign"
      <3>1. timerArmed' = timerArmed
        BY <1>2, <2>2 DEF AssignInfo, AssignCopy, AssignReta, AssignFdir, infoVars
      <3> QED BY <1>6, <1>10, <3>1 DEF Busy, Waiting
    <2> QED BY <2>1, <2>2
  <1>13. Tailed(s, d)'  BY <1>0, <1>2, <1>3, <1>9, <1>12, WholeKept, TailedSame DEF Packets
  <1> QED BY <1>0, <1>2, <1>3, <1>4, <1>6, <1>8, <1>9, <1>10, <1>11, <1>12, <1>13, PacketsQuiet

\* The timeout: whatever s has not put on d's queue by then is stranded.
LEMMA PacketsTimeout ==
    ASSUME TypeOK, NEW s \in Cpu, NEW d \in Cpu, Migration(s, d), NEW c \in Cpus,
           transition_handler_prev(c), mode[c] # "cancel"
    PROVE  Control(s, d)' /\ Packets(s, d)'
  <1>1. timerArmed[c]  BY DEF transition_handler_prev
  <1>2. /\ c = s /\ s # d /\ s \in Cpus /\ d \in Cpus /\ cmds # 0 /\ Control(s, d) /\ Packets(s, d)
        /\ Waiting(s, d) /\ mode[s] # "assign"
    BY <1>1, EndRole
  <1>3. Control(s, d)'  BY <1>2, ControlTimeout
  <1>4. /\ UNCHANGED <<inTransition, curCpu, targetCpu, prevCpu, hwq, reta, rxq, localq, remoteq, tail,
                       walk, log, reg, enq, sent, lost, stranded, cmds, mode>>
        /\ cause' = cause \cup {"timeout"}
    BY DEF transition_handler_prev, fgVars, nicVars, queueVars, cpVars, locVars, regVars
  <1>5. WalksKept /\ (Busy(s, d)' => Busy(s, d))  BY <1>2, <1>4 DEF WalksKept, Walking, Busy
  <1>6. Tailed(s, d)'  BY <1>2, <1>4, <1>5, WholeKept, TailedSame DEF Packets
  <1>7. cause' # {} /\ cause \subseteq cause'  BY <1>4
  <1> QED BY <1>2, <1>3, <1>4, <1>5, <1>6, <1>7, PacketsQuiet

\* s looks at its timer.
LEMMA PacketsEarly ==
    ASSUME TypeOK, NEW s \in Cpu, NEW d \in Cpu, Migration(s, d), NEW c \in Cpus, NEW k,
           early_transition_handler_prev(c, k)
    PROVE  Control(s, d)' /\ Packets(s, d)'
  <1>0. Control(s, d) /\ Control(s, d)' /\ Packets(s, d)  BY ControlEarly DEF Migration
  <1>1. Takes(c, k, "early") /\ mode[c] = "loop" /\ enq[c].at = "no"
    BY DEF early_transition_handler_prev, Takes, Idle, NoEnq
  <1>2. inbox[c][k] \in Range(inbox[c]) /\ inbox[c][k].f = "early"  BY <1>1, TakeTypes
  <1>3. c = s /\ s # d  BY <1>0, <1>2 DEF Control, Calls
  <1>4. cmds # 0 /\ s \in Cpus /\ d \in Cpus
    <2>1. cmds # 0  BY <1>0, <1>3, BoundAssumption DEF Control, Roles
    <2> QED BY <1>0, <2>1, CommandCpus DEF Control
  <1>5. UNCHANGED <<inTransition, curCpu, targetCpu, prevCpu, hwq, reta, rxq, localq, remoteq, tail, walk,
                    log, reg, enq, sent, lost, stranded, cause, cmds, timerArmed>>
    BY DEF early_transition_handler_prev, fgVars, nicVars, queueVars, infoVars, cpVars, locVars, regVars, endVars
  <1>6. \A x \in Cpus : x # s => inbox'[x] = inbox[x]  BY <1>1, <1>3, TakeTypes
  <1>7. Asked(d)' <=> Asked(d)  BY <1>3, <1>6 DEF Asked
  <1>8. mode' = mode \/ mode' = [mode EXCEPT ![s] = "cancel"]
    BY <1>3 DEF early_transition_handler_prev, Goto
  <1>9. mode'[s] \in {"loop", "cancel"} /\ \A x \in Cpus : x # s => mode'[x] = mode[x]
    BY <1>1, <1>3, <1>4, <1>8, ControlTypes
  <1>10. WalksKept  BY <1>1, <1>3, <1>9 DEF WalksKept, Walking
  <1>11. Busy(s, d)' => Busy(s, d)  BY <1>5, <1>7, <1>9 DEF Busy, Waiting
  <1>12. Tailed(s, d)'  BY <1>0, <1>4, <1>5, <1>10, <1>11, WholeKept, TailedSame DEF Packets
  <1>13. \A x \in Cpus : enq[x].at = "no"  BY <1>0, <1>1, <1>3 DEF Control, Roles
  <1> QED BY <1>0, <1>3, <1>4, <1>5, <1>7, <1>9, <1>10, <1>11, <1>12, <1>13, PacketsQuiet

\* s stops it.
LEMMA PacketsCancel ==
    ASSUME TypeOK, NEW s \in Cpu, NEW d \in Cpu, Migration(s, d), NEW c \in Cpus, EarlyCancel(c)
    PROVE  Control(s, d)' /\ Packets(s, d)'
  <1>1. mode[c] = "cancel"  BY DEF EarlyCancel
  <1>2. /\ c = s /\ s # d /\ s \in Cpus /\ d \in Cpus /\ cmds # 0 /\ Control(s, d) /\ Packets(s, d)
        /\ Waiting(s, d) /\ mode[s] # "assign"
    BY <1>1, EndRole
  <1>3. Control(s, d)'  BY <1>2, ControlCancel
  <1>4. UNCHANGED <<inTransition, curCpu, targetCpu, prevCpu, hwq, reta, rxq, localq, remoteq, tail, walk,
                    log, reg, enq, sent, lost, stranded, cause, cmds, inbox>>
    BY DEF EarlyCancel, fgVars, nicVars, queueVars, cpVars, locVars, regVars, endVars
  <1>5. mode' = [mode EXCEPT ![s] = "early"]  BY <1>2 DEF EarlyCancel, Goto
  <1>6. mode'[s] = "early" /\ \A x \in Cpus : x # s => mode'[x] = mode[x]
    BY <1>2, <1>5, ControlTypes
  <1>7. WalksKept  BY <1>1, <1>2, <1>6 DEF WalksKept, Walking
  <1>8. Busy(s, d)' => Busy(s, d)  BY <1>2 DEF Busy
  <1>9. Tailed(s, d)'  BY <1>2, <1>4, <1>7, <1>8, WholeKept, TailedSame DEF Packets
  <1>10. \A x \in Cpus : enq[x].at # "no" => mode'[x] = "early"
    BY <1>2, <1>6 DEF Control, Roles
  <1>11. Asked(d)' <=> Asked(d)  BY <1>4 DEF Asked
  <1> QED BY <1>2, <1>3, <1>4, <1>6, <1>7, <1>8, <1>9, <1>10, <1>11, PacketsQuiet

\* s has read its queue to the end, or the driver could not.
LEMMA PacketsDone ==
    ASSUME TypeOK, NEW s \in Cpu, NEW d \in Cpu, Migration(s, d), NEW c \in Cpus, EarlyDone(c)
    PROVE  Control(s, d)' /\ Packets(s, d)'
  <1>1. mode[c] = "early" /\ reg[c] = None /\ enq[c].at = "no"  BY DEF EarlyDone, NoEnq
  <1>2. /\ c = s /\ s # d /\ s \in Cpus /\ d \in Cpus /\ cmds # 0 /\ Control(s, d) /\ Packets(s, d)
        /\ Waiting(s, d) /\ mode[s] # "assign"
    BY <1>1, EndRole
  <1>3. Control(s, d)'  BY <1>2, ControlDone
  <1>4. UNCHANGED <<inTransition, curCpu, targetCpu, prevCpu, hwq, reta, rxq, localq, remoteq, tail, walk,
                    log, reg, enq, sent, lost, stranded, cmds>>
    BY DEF EarlyDone, fgVars, nicVars, queueVars, cpVars, locVars, regVars
  <1>5. (hwq[s] = << >> /\ cause' = cause) \/ cause' = cause \cup {"nombuf"}
    BY <1>2 DEF EarlyDone
  <1>6. mode' = [mode EXCEPT ![s] = "loop"]  BY <1>2 DEF EarlyDone, Goto
  <1>7. mode'[s] = "loop" /\ \A x \in Cpus : x # s => mode'[x] = mode[x]
    BY <1>2, <1>6, ControlTypes
  <1>8. WalksKept  BY <1>1, <1>2, <1>7 DEF WalksKept, Walking
  <1>9. hwq[s] = << >> => Drained(s)
    <2>1. \A x \in Cpus : reg[x] = None  BY <1>1, <1>2 DEF Control, Roles
    <2> QED BY <2>1, RangeEmpty DEF Drained
  <1>10. \A g \in Fgs : inTransition[g] => reta[g] = d
    BY <1>1, <1>2 DEF Control, Groups
  <1>11. cause' = {} => Drained(s) /\ \A g \in Fgs : inTransition[g] => reta[g] = d
    BY <1>5, <1>9, <1>10
  <1>12. mode[d] \in HandlerModes => mode'[d] \in HandlerModes  BY <1>2, <1>7
  <1>13. Busy(s, d)' => Busy(s, d)  BY <1>2 DEF Busy
  <1>14. Tailed(s, d)'  BY <1>2, <1>4, <1>8, <1>13, WholeKept, TailedSame DEF Packets
  <1>15. \A x \in Cpus : enq[x].at = "no"  BY <1>1, <1>2 DEF Control, Roles
  <1>16. reta' = reta  BY DEF EarlyDone, nicVars
  <1> QED BY <1>2, <1>3, <1>4, <1>5, <1>7, <1>8, <1>11, <1>12, <1>13, <1>14, <1>15, <1>16, PacketsQuiet

\* The target has emptied its queue's head, and now its tail.
LEMMA PacketsResetTail ==
    ASSUME TypeOK, NEW s \in Cpu, NEW d \in Cpu, Migration(s, d), NEW c \in Cpus, TargetResetTail(c)
    PROVE  Control(s, d)' /\ Packets(s, d)'
  <1>1. mode[c] = "resetTail" /\ mode[c] \in HandlerModes /\ "local" \in HandlerModes
    BY DEF TargetResetTail, HandlerModes
  <1>2. /\ c = d /\ s # d /\ s \in Cpus /\ d \in Cpus /\ cmds # 0 /\ Control(s, d) /\ Packets(s, d)
        /\ ~Busy(s, d)
    BY <1>1, EndRole
  <1>3. /\ UNCHANGED <<inTransition, curCpu, targetCpu, prevCpu, hwq, reta, rxq, localq, remoteq, walk,
                       log, reg, enq, sent, lost, stranded, cause, cmds, inbox, timerArmed>>
        /\ UNCHANGED <<fgVars, reta, infoVars, inbox, cmd, cmds, reg, enq>>
        /\ mode' = [mode EXCEPT ![c] = "local"]
    BY DEF TargetResetTail, Goto, fgVars, nicVars, infoVars, cpVars, locVars, regVars, endVars
  <1>4. Control(s, d)'  BY <1>1, <1>2, <1>3, ControlHandler
  <1>5. mode'[d] = "local" /\ \A x \in Cpus : x # d => mode'[x] = mode[x]
    BY <1>2, <1>3, ControlTypes
  <1>6. WalksKept  BY <1>1, <1>2, <1>5 DEF WalksKept, Walking
  <1>7. Asked(d)' <=> Asked(d)  BY <1>3 DEF Asked
  <1>8. Busy(s, d)' => Busy(s, d)  BY <1>2, <1>3, <1>5, <1>7 DEF Busy, Waiting
  <1>9. ~Whole(s, d)'  BY <1>2, <1>5, <1>8 DEF Whole, Walking
  <1>10. Tailed(s, d)'  BY <1>2, <1>3, <1>9 DEF Packets, Tailed
  <1>11. mode'[s] = mode[s] /\ mode'[d] \in HandlerModes  BY <1>1, <1>2, <1>5
  <1>12. \A x \in Cpus : mode'[x] = "early" <=> mode[x] = "early"  BY <1>1, <1>2, <1>5
  <1>13. cause = {} => \A x \in Cpus : enq[x].at # "no" => timerArmed[x] \/ mode'[x] = "early"
    BY <1>2, <1>12 DEF Packets, Losses
  <1>14. \A x \in Cpus : mode'[x] = "oops" => mode[x] = "oops"  BY <1>5
  <1> QED BY <1>2, <1>3, <1>4, <1>6, <1>7, <1>8, <1>10, <1>11, <1>13, <1>14, PacketsQuiet

\* The target has processed everything s and the NIC left it.
LEMMA PacketsFinish ==
    ASSUME TypeOK, NEW s \in Cpu, NEW d \in Cpu, Migration(s, d), NEW c \in Cpus, TargetFinish(c)
    PROVE  Control(s, d)' /\ Packets(s, d)'
  <1>1. mode[c] = "local" /\ mode[c] \in HandlerModes  BY DEF TargetFinish, HandlerModes
  <1>2. /\ c = d /\ s # d /\ s \in Cpus /\ d \in Cpus /\ cmds # 0 /\ Control(s, d) /\ Packets(s, d)
        /\ ~Busy(s, d)
    BY <1>1, EndRole
  <1>3. Control(s, d)'  BY <1>2, ControlFinish
  <1>4. /\ UNCHANGED <<inTransition, curCpu, targetCpu, prevCpu, hwq, reta, rxq, localq, remoteq, tail, walk,
                       log, reg, enq, sent, lost, stranded, cause, cmds, inbox, timerArmed>>
        /\ localq[d] = << >> /\ mode' = [mode EXCEPT ![d] = "loop"]
    BY <1>2 DEF TargetFinish, Goto, fgVars, nicVars, queueVars, regVars, endVars
  <1>5. mode'[d] = "loop" /\ \A x \in Cpus : x # d => mode'[x] = mode[x]
    BY <1>2, <1>4, ControlTypes
  <1>6. WalksKept  BY <1>1, <1>2, <1>5 DEF WalksKept, Walking
  <1>7. Asked(d)' <=> Asked(d)  BY <1>4 DEF Asked
  <1>8. Busy(s, d)' => Busy(s, d)  BY <1>2, <1>4, <1>5, <1>7 DEF Busy, Waiting
  <1>9. Tailed(s, d)'  BY <1>2, <1>4, <1>6, <1>8, WholeKept, TailedSame DEF Packets
  <1>10. mode'[s] = mode[s]  BY <1>2, <1>5
  <1>11. \A x \in Cpus : mode'[x] = "early" <=> mode[x] = "early"  BY <1>1, <1>2, <1>5
  <1>12. cause = {} => \A x \in Cpus : enq[x].at # "no" => timerArmed[x] \/ mode'[x] = "early"
    BY <1>2, <1>11 DEF Packets, Losses
  <1>13. \A x \in Cpus : mode'[x] = "oops" => mode[x] = "oops"  BY <1>5
  <1> QED BY <1>2, <1>3, <1>4, <1>6, <1>7, <1>8, <1>9, <1>10, <1>12, <1>13, PacketsQuiet

\* enqueue looks for a head.
LEMMA PacketsTest ==
    ASSUME TypeOK, NEW s \in Cpu, NEW d \in Cpu, Migration(s, d), NEW c \in Cpus, EnqueueTest(c)
    PROVE  Control(s, d)' /\ Packets(s, d)'
  <1>0. Control(s, d) /\ Control(s, d)' /\ Packets(s, d)  BY ControlTest DEF Migration
  <1>1. enq[c].at = "test"  BY DEF EnqueueTest
  <1>2. c = s /\ s # d /\ s \in Cpus /\ d \in Cpus /\ cmds # 0  BY <1>0, <1>1, AtPrevRole
  <1>3. enq[s].q = d  BY <1>0, <1>1, <1>2 DEF Control, Roles
  <1>4. UNCHANGED <<inTransition, curCpu, targetCpu, prevCpu, hwq, reta, rxq, localq, remoteq, tail, walk,
                    log, reg, sent, lost, stranded, cause, cmds, inbox, timerArmed, mode>>
    BY DEF EnqueueTest, fgVars, nicVars, queueVars, infoVars, cpVars, locVars, endVars
  <1> DEFINE a == IF remoteq[d] = << >> THEN "head" ELSE "link"
  <1>5. enq' = [enq EXCEPT ![s].at = a]  BY <1>2, <1>3 DEF EnqueueTest
  <1>6. /\ enq'[s].at = a /\ enq'[s].q = d
        /\ \A x \in Cpus : x # s => enq'[x] = enq[x] /\ enq[x].at = "no"
    <2>1. enq \in [Cpus -> EnqType]  BY ControlTypes
    <2>2. enq'[s] = [enq[s] EXCEPT !.at = a] /\ \A x \in Cpus : x # s => enq'[x] = enq[x]
      BY <1>2, <1>5, <2>1
    <2>3. enq[s] \in EnqType  BY <1>2, <2>1
    <2>4. enq'[s].at = a /\ enq'[s].q = enq[s].q
      <3> HIDE DEF a
      <3> QED BY <2>2, <2>3 DEF EnqType
    <2> QED BY <1>0, <1>3, <2>2, <2>4 DEF Control, Roles
  <1>7. WalksKept  BY <1>4 DEF WalksKept
  <1>8. (Busy(s, d)' <=> Busy(s, d)) /\ (Whole(s, d)' <=> Whole(s, d)) /\ (Asked(d)' <=> Asked(d))
    BY <1>4, BusySame
  <1>9. Tailed(s, d)'
    <2>1. \A x \in Cpus : enq'[x].at = "head" => remoteq[enq'[x].q] = << >>  BY <1>6
    <2>2. Whole(s, d) => Sorted(remoteq[d]) /\ (remoteq[d] # << >> => tail[d] = Last(remoteq[d]))
      BY <1>0, <1>1, <1>2 DEF Packets, Tailed
    <2> QED BY <1>4, <1>6, <1>8, <2>1, <2>2 DEF Tailed
  <1>10. cause = {} => \A x \in Cpus : enq'[x].at # "no" => timerArmed[x] \/ mode[x] = "early"
    <2>1. cause = {} => timerArmed[s] \/ mode[s] = "early"  BY <1>0, <1>1, <1>2 DEF Packets, Losses
    <2> QED BY <1>6, <2>1
  <1> QED BY <1>0, <1>2, <1>4, <1>7, <1>8, <1>9, <1>10, PacketsQuiet

\* It stores the tail.
LEMMA PacketsTail ==
    ASSUME TypeOK, NEW s \in Cpu, NEW d \in Cpu, Migration(s, d), NEW c \in Cpus, EnqueueTail(c)
    PROVE  Control(s, d)' /\ Packets(s, d)'
  <1>0. Control(s, d) /\ Control(s, d)' /\ Packets(s, d)  BY ControlTail DEF Migration
  <1>1. enq[c].at = "tail"  BY DEF EnqueueTail
  <1>2. c = s /\ s # d /\ s \in Cpus /\ d \in Cpus /\ cmds # 0  BY <1>0, <1>1, AtPrevRole
  <1>3. enq[s].q = d  BY <1>0, <1>1, <1>2 DEF Control, Roles
  <1>4. UNCHANGED <<inTransition, curCpu, targetCpu, prevCpu, hwq, reta, rxq, localq, remoteq, walk,
                    log, reg, sent, lost, stranded, cause, cmds, inbox, timerArmed, mode>>
    BY DEF EnqueueTail, fgVars, nicVars, queueVars, infoVars, cpVars, locVars, endVars
  <1>5. enq' = [enq EXCEPT ![s] = NoEnq] /\ tail' = [tail EXCEPT ![d] = enq[s].pkt]
    BY <1>2, <1>3 DEF EnqueueTail
  <1>6. \A x \in Cpus : enq'[x].at = "no"
    <2>1. enq \in [Cpus -> EnqType]  BY ControlTypes
    <2> QED BY <1>0, <1>2, <1>5, <2>1 DEF Control, Roles, NoEnq
  <1>7. tail'[d] = enq[s].pkt
    <2>1. tail \in [Cpus -> Pkt \cup {None}]  BY DEF TypeOK
    <2> QED BY <1>2, <1>5, <2>1
  <1>8. WalksKept  BY <1>4 DEF WalksKept
  <1>9. (Busy(s, d)' <=> Busy(s, d)) /\ (Whole(s, d)' <=> Whole(s, d)) /\ (Asked(d)' <=> Asked(d))
    BY <1>4, BusySame
  <1>10. Tailed(s, d)'
    <2>1. Whole(s, d) => Last(remoteq[d]) = enq[s].pkt /\ Sorted(remoteq[d])
      BY <1>0, <1>1, <1>2 DEF Packets, Tailed
    <2> QED BY <1>2, <1>4, <1>6, <1>7, <1>9, <2>1 DEF Tailed
  <1> QED BY <1>0, <1>2, <1>4, <1>6, <1>8, <1>9, <1>10, PacketsQuiet

\* It finds no tail.
LEMMA PacketsOops ==
    ASSUME TypeOK, NEW s \in Cpu, NEW d \in Cpu, Migration(s, d), NEW c \in Cpus, EnqueueLink(c), mode' # mode
    PROVE  Control(s, d)' /\ Packets(s, d)'
  <1>0. Control(s, d) /\ Packets(s, d)  BY DEF Migration
  <1>1. /\ enq[c].at = "link" /\ tail[enq[c].q] = None /\ mode' = [mode EXCEPT ![c] = "oops"]
        /\ remoteq' = remoteq /\ walk' = walk /\ reg' = reg /\ enq' = enq /\ lost' = lost
        /\ UNCHANGED <<inTransition, curCpu, targetCpu, prevCpu, outCpu, reta, hwq, rxq, localq, tail,
                       infoPrev, infoTarget, infoFgs, timerActive, timerArmed, inbox, status, cmds,
                       cmd, handler, sent, log, refused, stranded, cause>>
    BY LinkCases
  <1>2. c = s /\ s # d /\ s \in Cpus /\ d \in Cpus /\ cmds # 0 /\ mode[s] \notin HandlerModes
    BY <1>0, <1>1, AtPrevRole
  <1>3. enq[s].q = d  BY <1>0, <1>1, <1>2 DEF Control, Roles
  <1>4. ~Whole(s, d)
    <2>1. Whole(s, d) => remoteq[d] # << >> /\ tail[d] = Last(remoteq[d])
      BY <1>0, <1>1, <1>2, <1>3 DEF Packets, Tailed
    <2>2. remoteq[d] # << >> => Last(remoteq[d]) \in Pkt
      <3>1. remoteq[d] \in Seq(Pkt)  BY <1>2, QueueTypes
      <3> QED BY <3>1, LastOf
    <2> QED BY <1>1, <1>2, <1>3, <2>1, <2>2, NullAssumption DEF Pkt
  <1>5. ~Busy(s, d) /\ ~Waiting(s, d)  BY <1>4 DEF Whole, Busy
  <1>6. Control(s, d)'  BY <1>0, <1>5, ControlOops
  <1>7. mode'[s] = "oops" /\ \A x \in Cpus : x # s => mode'[x] = mode[x]
    BY <1>1, <1>2, ControlTypes
  <1>8. WalksKept  BY <1>2, <1>7 DEF WalksKept, Walking, HandlerModes
  <1>9. Asked(d)' <=> Asked(d)  BY <1>1 DEF Asked
  <1>10. Busy(s, d)' => Busy(s, d)  BY <1>1, <1>7, <1>9 DEF Busy, Waiting
  <1>11. Tailed(s, d)'  BY <1>0, <1>1, <1>2, <1>8, <1>10, WholeKept, TailedSame DEF Packets
  <1>12. cause # {}  BY <1>0, <1>1, <1>2, <1>5 DEF Packets, Losses, Waiting
  <1>13. mode[d] \in HandlerModes => mode'[d] \in HandlerModes  BY <1>2, <1>7
  <1> QED BY <1>0, <1>1, <1>2, <1>6, <1>7, <1>8, <1>9, <1>10, <1>11, <1>12, <1>13, PacketsQuiet

\* The history's part, when packets stay where they are and a CPU's mode does
\* not matter to it.
LEMMA LossesSame ==
    ASSUME NEW s, NEW d, Losses(s, d),
           UNCHANGED <<inTransition, curCpu, hwq, reta, reg, enq, stranded, cause, cmds, timerArmed, inbox>>,
           lost' \subseteq lost \cup stranded, mode'[s] = "assign" => mode[s] = "assign",
           \A x \in Cpus : /\ mode[x] = "early" => mode'[x] = "early"
                           /\ mode'[x] = "oops" => mode[x] = "oops"
    PROVE  Losses(s, d)'
  <1>1. LossNeedsCause'  BY DEF Losses, LossNeedsCause, Raced
  <1>2. (Asked(d)' <=> Asked(d)) /\ (Drained(s)' <=> Drained(s))  BY DEF Asked, Drained
  <1>3. cause = {} => \A x \in Cpus : enq[x].at # "no" => timerArmed[x] \/ mode'[x] = "early"
    BY DEF Losses
  <1> QED BY <1>1, <1>2, <1>3 DEF Losses

\* The target begins to read the queue.
LEMMA PacketsReadHead ==
    ASSUME TypeOK, NEW s \in Cpu, NEW d \in Cpu, Migration(s, d), NEW c \in Cpus, TargetReadHead(c)
    PROVE  Control(s, d)' /\ Packets(s, d)'
  <1>1. mode[c] = "readHead" /\ mode[c] \in HandlerModes  BY DEF TargetReadHead, HandlerModes
  <1>2. /\ c = d /\ s # d /\ s \in Cpus /\ d \in Cpus /\ cmds # 0 /\ Control(s, d) /\ Packets(s, d)
        /\ ~Busy(s, d)
    BY <1>1, EndRole
  <1> DEFINE m == IF remoteq[d] = << >> THEN "reset" ELSE "drain"
  <1>3. /\ UNCHANGED <<inTransition, curCpu, targetCpu, prevCpu, hwq, reta, rxq, localq, remoteq, tail,
                       log, reg, enq, sent, lost, stranded, cause, cmds, inbox, timerArmed>>
        /\ UNCHANGED <<fgVars, reta, infoVars, inbox, cmd, cmds, reg, enq>>
        /\ mode' = [mode EXCEPT ![c] = m] /\ walk' = [walk EXCEPT ![d] = remoteq[d]]
    BY <1>2 DEF TargetReadHead, Goto, fgVars, nicVars, queueVars, infoVars, cpVars, regVars, endVars
  <1>4. m \in HandlerModes /\ m \in {"reset", "drain"}  BY DEF HandlerModes
  <1>5. Control(s, d)'
    <2> HIDE DEF m
    <2> QED BY <1>1, <1>2, <1>3, <1>4, ControlHandler
  <1>6. mode'[d] = m /\ \A x \in Cpus : x # d => mode'[x] = mode[x]
    <2> HIDE DEF m
    <2> QED BY <1>2, <1>3, ControlTypes
  <1>7. walk'[d] = remoteq[d] /\ \A x \in Cpus : x # d => walk'[x] = walk[x]
    BY <1>2, <1>3 DEF TypeOK
  <1>8. Asked(d)' <=> Asked(d)  BY <1>3 DEF Asked
  <1>9. mode'[s] = mode[s] /\ mode'[d] # "readHead"  BY <1>2, <1>4, <1>6
  <1>10. ~Busy(s, d)'  BY <1>2, <1>3, <1>8, <1>9 DEF Busy, Waiting
  <1>11. Whole(s, d)  BY <1>1, <1>2 DEF Whole, Walking
  <1>12. \A x \in Cpus : Walking(x)' => Walking(x)
    BY <1>1, <1>2, <1>6 DEF Walking
  <1>13. Chain'
    <2>1. ASSUME NEW p \in Pkt
          PROVE  /\ Processed(p)' => Processed(p)
                 /\ AtPrev(p)' => AtPrev(p)
                 /\ Parked(p)' => Parked(p)
                 /\ Queued(p)' => Queued(p)
                 /\ Coming(p)' => Coming(p)
      BY <1>3, StageFrame
    <2>2. ASSUME NEW p \in Pkt, Pending(p)' PROVE Pending(p)
      <3>1. PICK x \in Cpus : p \in Range(walk'[x]) \/
                              (p \in Range(remoteq[x]) /\ (inTransition[p.fg] \/ mode'[x] = "readHead"))
        BY <1>3, <2>2 DEF Pending
      <3>2. CASE x = d  BY <1>1, <1>2, <1>7, <1>9, <3>1, <3>2 DEF Pending
      <3>3. CASE x # d  BY <1>6, <1>7, <3>1, <3>3 DEF Pending
      <3> QED BY <3>2, <3>3
    <2>3. ASSUME NEW p \in Pkt, Held(p)' PROVE Held(p)
      BY <1>3, <1>12, <2>3 DEF Held
    <2>4. Stays  BY <2>1, <2>2, <2>3 DEF Stays, Live
    <2> QED BY <1>2, <1>3, <2>4, ChainStays DEF Packets
  <1>14. Queues'
    <2>1. Sorted(remoteq[d])  BY <1>2, <1>11 DEF Packets, Tailed
    <2> QED BY <1>2, <1>3, <1>7, <2>1 DEF Packets, Queues
  <1>15. LogInOrder'  BY <1>2, <1>3 DEF Packets, LogInOrder
  <1>16. Positions'  BY <1>2, <1>3, <1>6, <1>7 DEF Packets, Positions
  <1>17. Tailed(s, d)'  BY <1>2, <1>3, <1>11, TailedSame DEF Packets
  <1>18. Placed(s, d)'
    <2>1. Placed(s, d) /\ mode'[d] \in HandlerModes  BY <1>2, <1>4, <1>6 DEF Packets
    <2>2. PlacedRx' /\ PlacedLocal(d)' /\ PlacedHw(d)'
      BY <1>3, <2>1, PlacedFrame
    <2>3. PlacedWalk(d)'
      <3>1. ASSUME NEW x \in Cpus, NEW p \in Range(walk'[x]) PROVE x = d /\ curCpu[p.fg] = d
        <4>1. CASE x = d  BY <1>1, <1>2, <1>7, <2>1, <4>1 DEF Placed, PlacedRemote
        <4>2. CASE x # d  BY <1>7, <2>1, <4>2 DEF Placed, PlacedWalk
        <4> QED BY <4>1, <4>2
      <3> QED BY <1>3, <3>1 DEF PlacedWalk
    <2>4. PlacedRemote(s, d)'
      BY <1>3, <1>7, <1>9, <1>10, <2>1 DEF Placed, PlacedRemote
    <2>5. PlacedReg(s, d)'  BY <1>2, <1>3, <1>10, <2>1 DEF Placed, PlacedReg
    <2> QED BY <2>2, <2>3, <2>4, <2>5 DEF Placed
  <1>19. Losses(s, d)'
    <2>1. \A x \in Cpus : /\ mode[x] = "early" => mode'[x] = "early"
                          /\ mode'[x] = "oops" => mode[x] = "oops"
      BY <1>1, <1>2, <1>4, <1>6
    <2>2. Losses(s, d)  BY <1>2 DEF Packets
    <2> QED BY <1>3, <1>9, <2>1, <2>2, LossesSame
  <1> QED BY <1>5, <1>13, <1>14, <1>15, <1>16, <1>17, <1>18, <1>19 DEF Packets

\* The groups are handed over: their packets stay where they are, and those
\* that another CPU than d has are stranded.
LEMMA PacketsTarget ==
    ASSUME TypeOK, NEW s \in Cpu, NEW d \in Cpu, Migration(s, d), NEW c \in Cpus, NEW k,
           transition_handler_target(c, k)
    PROVE  Control(s, d)' /\ Packets(s, d)'
  <1>0. Control(s, d) /\ Packets(s, d)  BY DEF Migration
  <1>1. c = d /\ s # d /\ s \in Cpus /\ d \in Cpus /\ cmds # 0 /\ Asked(d) /\ ~Asked(d)' /\ Control(s, d)'
    BY <1>0, ControlTarget
  <1>2. mode[d] = "loop" /\ mode'[d] = "readHead" /\ \A x \in Cpus : x # d => mode'[x] = mode[x]
    BY <1>0, ControlTarget
  <1>3. \A g \in Fgs : ~inTransition'[g] /\ curCpu'[g] = IF inTransition[g] THEN d ELSE curCpu[g]
    BY <1>0, ControlTarget
  <1>4. UNCHANGED <<hwq, reta, rxq, localq, remoteq, tail, walk, log, reg, enq, sent, lost, cause, cmds,
                    timerArmed>>
    BY DEF transition_handler_target, nicVars, queueVars, infoVars, cpVars, regVars
  <1>5. \A g \in Fgs : inTransition[g] => targetCpu[g] = d  BY <1>0 DEF Control, Groups
  <1>6. inbox[c][k].info = s
    <2>1. Takes(c, k, "target")  BY DEF transition_handler_target
    <2>2. inbox[c][k] \in Range(inbox[c]) /\ inbox[c][k].f = "target"  BY <2>1, TakeTypes
    <2> QED BY <1>0, <2>2 DEF Control, Calls
  <1>7. Busy(s, d) /\ infoFgs[s] = {g \in Fgs : inTransition[g]} /\ ~timerArmed[s] /\ mode[s] # "early"
    BY <1>0, <1>1 DEF Control, Tokens, Busy, Waiting
  <1>8. stranded' = stranded \cup UNION {Behind(g) : g \in infoFgs[s]}
    BY <1>6 DEF transition_handler_target
  <1>9. ~Busy(s, d)' /\ mode'[s] = mode[s]
    <2>1. mode'[d] \in HandlerModes /\ cmds' # 0  BY <1>1, <1>2, <1>4 DEF HandlerModes
    <2>2. mode'[s] = mode[s]  BY <1>1, <1>2
    <2> QED BY <1>1, <2>1, <2>2 DEF Control, Assigning, Tokens, Busy
  <1>10. \A x \in Cpus : \A p \in Range(remoteq[x]) : x = d /\ inTransition[p.fg]
    BY <1>0, <1>7 DEF Packets, Placed, PlacedRemote
  <1>11. \A x \in Cpus : reg[x] # None => inTransition[reg[x].fg]
    BY <1>0, <1>7 DEF Packets, Placed, PlacedReg
  <1>12. Chain'
    <2>1. ASSUME NEW p \in Pkt
          PROVE  /\ Processed(p)' => Processed(p)
                 /\ Parked(p)' => Parked(p)
                 /\ Queued(p)' => Queued(p)
      BY <1>4, StageFrame
    <2>2. ASSUME NEW p \in Pkt PROVE ~AtPrev(p)'  BY <1>3, PktType DEF AtPrev
    <2>3. ASSUME NEW p \in Pkt, Coming(p)' PROVE Coming(p)
      <3>1. Owner(p.fg)' = Owner(p.fg)  BY <1>3, <1>5, PktType DEF Owner
      <3> QED BY <1>4, <2>3, <3>1 DEF Coming
    <2>4. ASSUME NEW p \in Pkt, Pending(p)' PROVE Pending(p)
      <3>1. PICK x \in Cpus : p \in Range(walk[x]) \/ p \in Range(remoteq[x])
        BY <1>4, <2>4 DEF Pending
      <3> QED BY <1>10, <3>1 DEF Pending
    <2>5. ASSUME NEW p \in Pkt, Held(p)' PROVE Held(p)
      BY <1>4, <1>11, <2>5 DEF Held
    <2>6. Stays  BY <2>1, <2>2, <2>3, <2>4, <2>5 DEF Stays, Live
    <2> QED BY <1>0, <1>4, <2>6, ChainStays DEF Packets
  <1>13. Queues'  BY <1>0, <1>4 DEF Packets, Queues
  <1>14. LogInOrder'  BY <1>0, <1>4 DEF Packets, LogInOrder
  <1>15. Positions'  BY <1>0, <1>1, <1>2, <1>4 DEF Packets, Positions
  <1>16. Tailed(s, d)'
    <2>1. Whole(s, d)  BY <1>7 DEF Whole
    <2> QED BY <1>0, <1>4, <2>1, TailedSame DEF Packets
  <1>17. ASSUME NEW g \in Fgs, inTransition[g], NEW p \in Pkt, p.fg = g,
                \/ \E x \in Cpus : x # d /\ p \in Range(hwq[x])
                \/ \E x \in Cpus : reg[x] # None /\ p = reg[x]
         PROVE  p \in stranded'
    <2>1. p \in Behind(g)  BY <1>5, <1>17, BehindIs
    <2>2. g \in infoFgs[s]  BY <1>7, <1>17
    <2> QED BY <1>8, <2>1, <2>2
  <1>18. Placed(s, d)'
    <2>1. mode'[d] \in HandlerModes /\ mode[d] \notin HandlerModes  BY <1>2 DEF HandlerModes
    <2>2. ASSUME NEW x \in Cpus, NEW p \in Range(rxq[x]) PROVE ~inTransition'[p.fg] /\ curCpu'[p.fg] = x
      BY <1>0, <1>3, QueueTypes DEF Packets, Placed, PlacedRx
    <2>3. ASSUME NEW x \in Cpus, NEW p \in Range(localq[x])
          PROVE  x = d /\ reta[p.fg] = d /\ curCpu'[p.fg] = d
      BY <1>0, <1>3, QueueTypes DEF Packets, Placed, PlacedLocal
    <2>4. ASSUME NEW x \in Cpus, NEW p \in Range(walk[x]) PROVE x = d /\ curCpu'[p.fg] = d
      BY <1>0, <1>3, QueueTypes DEF Packets, Placed, PlacedWalk
    <2>5. ASSUME NEW x \in Cpus, NEW p \in Range(remoteq[x]) PROVE x = d /\ curCpu'[p.fg] = d
      BY <1>3, <1>10, QueueTypes
    <2>6. ASSUME NEW x \in Cpus, NEW p \in Range(hwq[x]) PROVE ~inTransition'[p.fg]
      BY <1>3, QueueTypes
    <2>7. ASSUME NEW x \in Cpus, reg[x] # None PROVE curCpu'[reg[x].fg] = d /\ reg[x] \in stranded'
      BY <1>3, <1>11, <1>17, <2>7, QueueTypes
    <2>8. PlacedRx' /\ PlacedLocal(d)' /\ PlacedWalk(d)' /\ PlacedHw(d)'
      BY <1>4, <2>1, <2>2, <2>3, <2>4, <2>6 DEF PlacedRx, PlacedLocal, PlacedWalk, PlacedHw
    <2>9. PlacedRemote(s, d)'  BY <1>2, <1>4, <1>9, <2>5 DEF PlacedRemote
    <2>10. PlacedReg(s, d)'  BY <1>4, <1>9, <2>7 DEF PlacedReg
    <2> QED BY <2>8, <2>9, <2>10 DEF Placed
  <1>19. Losses(s, d)'
    <2>1. Losses(s, d)  BY <1>0 DEF Packets
    <2>2. stranded \subseteq stranded'  BY <1>8
    <2>3. cause = {} => stranded' = {}
      <3> SUFFICES ASSUME cause = {} PROVE stranded' = {}
        OBVIOUS
      <3>1. stranded = {} /\ Drained(s)  BY <1>1, <2>1 DEF Losses, LossNeedsCause
      <3>2. ASSUME NEW g \in infoFgs[s], NEW p \in Behind(g) PROVE FALSE
        <4>1. g \in Fgs /\ inTransition[g] /\ p.fg = g  BY <1>7, <3>2, BehindIs
        <4>2. ASSUME NEW x \in Cpus, x # d, p \in Range(hwq[x]) PROVE FALSE
          <5>1. x \in {s, d}  BY <2>1, <4>1, <4>2 DEF Losses
          <5> QED BY <3>1, <4>1, <4>2, <5>1 DEF Drained
        <4>3. ASSUME NEW x \in Cpus, p = reg[x], p # None PROVE FALSE
          BY <3>1, <4>1, <4>3 DEF Drained
        <4> QED BY <1>5, <3>2, <4>1, <4>2, <4>3, BehindIs
      <3> QED BY <1>8, <3>1, <3>2
    <2>4. LossNeedsCause'
      <3>1. \A x \in Cpus : mode'[x] = "oops" => mode[x] = "oops"  BY <1>1, <1>2
      <3> QED BY <1>4, <2>1, <2>2, <2>3, <3>1 DEF Losses, LossNeedsCause, Raced
    <2>5. ASSUME NEW x \in Cpus, NEW p \in Range(hwq[x])
          PROVE  ~inTransition'[p.fg] /\ (x = curCpu'[p.fg] \/ p \in stranded')
      <3>1. p.fg \in Fgs /\ p \in Pkt  BY QueueTypes
      <3>2. CASE inTransition[p.fg]
        <4>1. x # d => p \in stranded'  BY <1>17, <3>1, <3>2
        <4> QED BY <1>3, <3>1, <3>2, <4>1
      <3>3. CASE ~inTransition[p.fg]  BY <1>3, <2>1, <2>2, <3>1, <3>3 DEF Losses
      <3> QED BY <3>2, <3>3
    <2>6. ASSUME cause = {}, NEW g \in Fgs, reta[g] # curCpu'[g] PROVE reta[g] = None
      BY <1>1, <1>3, <2>1, <2>6 DEF Losses
    <2>7. cause = {} => \A x \in Cpus : enq[x].at # "no" => timerArmed[x] \/ mode'[x] = "early"
      BY <1>2, <2>1 DEF Losses
    <2> QED BY <1>1, <1>4, <1>9, <2>1, <2>4, <2>5, <2>6, <2>7 DEF Losses
  <1> QED BY <1>1, <1>12, <1>13, <1>14, <1>15, <1>16, <1>18, <1>19 DEF Packets

\* The command changes the roles, and no packet is where it would matter.
LEMMA PacketsCommand ==
    ASSUME TypeOK, NEW s \in Cpu, NEW d \in Cpu, Migration(s, d), cmds = 0,
           NEW c \in Cpus, NEW cpu \in Cpus, NEW fgs \in SUBSET Fgs, Command(c, fgs, cpu)
    PROVE  Control(c, cpu)' /\ Packets(c, cpu)'
  <1>0. Control(s, d) /\ Packets(s, d) /\ Before /\ d = None
    <2>1. Control(s, d)  BY DEF Migration
    <2>2. Before  BY <2>1, BeforeCommand
    <2> QED BY <2>1, <2>2 DEF Migration, Control, Roles
  <1>1. Control(c, cpu)'  BY <1>0, ControlCommand
  <1>2. mode'[c] = "assign" /\ \A x \in Cpus : x # c => mode'[x] = "loop"  BY <1>0, ControlCommand
  <1>3. UNCHANGED <<inTransition, curCpu, targetCpu, prevCpu, hwq, reta, rxq, localq, remoteq, tail, walk,
                    inbox, log, reg, enq, sent, lost, stranded, cause>>
    BY DEF Command, fgVars, nicVars, queueVars, regVars, endVars
  <1>4. cause = {} /\ \A x \in Cpus : enq[x].at = "no" /\ reg[x] = None
    BY <1>0 DEF Packets, Losses, Before
  <1>5. \A x \in Cpus : mode[x] = "loop"  BY <1>0 DEF Before
  <1>6. WalksKept
    <2>1. \A x \in Cpus : mode'[x] \in {"assign", "loop"}  BY <1>2
    <2> QED BY <1>5, <2>1 DEF WalksKept, Walking
  <1>7. ASSUME NEW x \in Cpus
        PROVE  Range(localq[x]) = {} /\ Range(remoteq[x]) = {} /\ walk[x] = << >> /\ remoteq[x] = << >>
    <2>1. Range(localq[x]) = {} /\ Range(remoteq[x]) = {}
      BY <1>0, BoundAssumption DEF Packets, Placed, PlacedLocal, PlacedRemote
    <2>2. walk[x] = << >>  BY <1>0, <1>5 DEF Packets, Positions
    <2>3. remoteq[x] = << >>
      <3>1. remoteq[x] \in Seq(Pkt)  BY QueueTypes
      <3> QED BY <2>1, <3>1, RangeNone, EmptySeq
    <2> QED BY <2>1, <2>2, <2>3
  <1>8. Chain'
    <2>1. ASSUME NEW p \in Pkt
          PROVE  /\ Processed(p)' => Processed(p)
                 /\ Pending(p)' => Pending(p)
                 /\ Held(p)' => Held(p)
                 /\ AtPrev(p)' => AtPrev(p)
                 /\ Parked(p)' => Parked(p)
                 /\ Queued(p)' => Queued(p)
                 /\ Coming(p)' => Coming(p)
      BY <1>3, <1>6, StageFrame
    <2>2. Stays  BY <2>1 DEF Stays, Live
    <2> QED BY <1>0, <1>3, <2>2, ChainStays DEF Packets
  <1>9. Queues'  BY <1>0, <1>3 DEF Packets, Queues
  <1>10. LogInOrder'  BY <1>0, <1>3 DEF Packets, LogInOrder
  <1>11. Positions'
    <2>1. \A x \in Cpus : mode'[x] # "drain"  BY <1>2
    <2> QED BY <1>3, <1>7, <2>1 DEF Positions
  <1>12. Tailed(c, cpu)'  BY <1>3, <1>4, <1>7, RangeEmpty DEF Tailed
  <1>13. Placed(c, cpu)'
    <2>1. ASSUME NEW x \in Cpus, NEW p \in Range(hwq[x]) PROVE ~inTransition[p.fg]
      BY <1>0, QueueTypes DEF Before
    <2>2. PlacedRx' /\ PlacedLocal(cpu)' /\ PlacedHw(cpu)'
      BY <1>0, <1>3, <1>7, <2>1 DEF Packets, Placed, PlacedRx, PlacedLocal, PlacedHw
    <2>3. PlacedWalk(cpu)' /\ PlacedRemote(c, cpu)' /\ PlacedReg(c, cpu)'
      BY <1>3, <1>4, <1>7, RangeEmpty DEF PlacedWalk, PlacedRemote, PlacedReg
    <2> QED BY <2>2, <2>3 DEF Placed
  <1>14. Losses(c, cpu)'
    <2>1. LossNeedsCause'
      <3>1. \A x \in Cpus : mode'[x] # "oops"  BY <1>2
      <3> QED BY <1>0, <1>3, <3>1 DEF Packets, Losses, LossNeedsCause, Raced
    <2>2. ~Asked(cpu)'  BY <1>0, <1>3 DEF Before, Asked
    <2>3. ASSUME NEW x \in Cpus, NEW p \in Range(hwq[x])
          PROVE  ~inTransition[p.fg] /\ (x = curCpu[p.fg] \/ p \in stranded)
      <3>1. ~inTransition[p.fg]  BY <1>0, QueueTypes DEF Before
      <3> QED BY <1>0, <3>1 DEF Packets, Losses
    <2>4. \A g \in Fgs : reta[g] = curCpu[g]  BY <1>0 DEF Before
    <2> QED BY <1>3, <1>4, <2>1, <2>2, <2>3, <2>4 DEF Losses
  <1> QED BY <1>1, <1>8, <1>9, <1>10, <1>11, <1>12, <1>13, <1>14 DEF Packets

\* Two packets of a group with the same number are the same.
LEMMA SamePkt == ASSUME NEW p \in Pkt, NEW q \in Pkt, p.fg = q.fg, p.seq = q.seq PROVE p = q
  BY DEF Pkt

\* eth_input puts p at the end of the log, where it belongs.
LEMMA InputLogs ==
    ASSUME TypeOK, NEW c \in Cpus, NEW p \in Pkt, eth_input(c, p)
    PROVE  /\ \A q \in Pkt : Processed(q)' => Processed(q) \/ q = p
           /\ \A q \in Pkt : Processed(q) \/ q = p => Processed(q)'
           /\ LogInOrder /\ (\A q \in Pkt : q.fg = p.fg /\ Processed(q) => q.seq < p.seq) => LogInOrder'
  <1> DEFINE e == [seq |-> p.seq, cpu |-> c]
             R == [seq : 1..MaxPkts, cpu : Cpus]
  <1>1. p.fg \in Fgs /\ p.seq \in 1..MaxPkts /\ p.seq \in Nat  BY PktType
  <1>2. e \in R /\ log[p.fg] \in Seq(R) /\ \A g \in Fgs : log[g] \in Seq(R)  BY <1>1 DEF TypeOK
  <1>3. log'[p.fg] = Append(log[p.fg], e)  BY InputTypes
  <1>4. \A g \in Fgs : g # p.fg => log'[g] = log[g]  BY InputTypes
  <1> DEFINE n == Len(log[p.fg])
  <1>5. n \in Nat /\ DOMAIN log[p.fg] = 1..n  BY <1>2, LenProperties
  <1>6. /\ Append(log[p.fg], e) \in Seq(R) /\ Len(Append(log[p.fg], e)) = n + 1
        /\ \A i \in 1..n : Append(log[p.fg], e)[i] = log[p.fg][i]
        /\ Append(log[p.fg], e)[n + 1] = e
    <2> HIDE DEF e, R
    <2> QED BY <1>2, Appended
  <1>7. DOMAIN log'[p.fg] = 1..n + 1
    <2>1. DOMAIN Append(log[p.fg], e) = 1..Len(Append(log[p.fg], e))
      <3> HIDE DEF e, R
      <3> QED BY <1>6, LenProperties
    <2> QED BY <1>3, <1>6, <2>1
  <1>8. (\A i \in 1..n : log'[p.fg][i] = log[p.fg][i]) /\ log'[p.fg][n + 1].seq = p.seq
    BY <1>3, <1>6
  <1>9. \A i \in 1..n : log[p.fg][i].seq \in 1..MaxPkts
    <2>1. \A i \in 1..n : log[p.fg][i] \in R  BY <1>2, <1>5, ElementOfSeq
    <2> QED BY <2>1
  <1> HIDE DEF e, R, n
  <1>10. ASSUME NEW i \in 1..n + 1 PROVE i \in 1..n \/ i = n + 1  BY <1>5
  <1>11. ASSUME NEW q \in Pkt, Processed(q)', q # p PROVE Processed(q)
    <2>1. CASE q.fg # p.fg
      <3>1. q.fg \in Fgs  BY PktType
      <3> QED BY <1>4, <1>11, <2>1, <3>1 DEF Processed
    <2>2. CASE q.fg = p.fg
      <3>1. PICK i \in 1..n + 1 : log'[p.fg][i].seq = q.seq  BY <1>7, <1>11, <2>2 DEF Processed
      <3>2. i # n + 1  BY <1>8, <1>11, <2>2, <3>1, SamePkt
      <3>3. i \in 1..n  BY <1>10, <3>2
      <3> QED BY <1>5, <1>8, <2>2, <3>1, <3>3 DEF Processed
    <2> QED BY <2>1, <2>2
  <1>12. ASSUME LogInOrder, \A q \in Pkt : q.fg = p.fg /\ Processed(q) => q.seq < p.seq
         PROVE  LogInOrder'
    <2>1. ASSUME NEW i \in 1..n PROVE log[p.fg][i].seq < p.seq
      <3>1. PICK q \in Pkt : q.fg = p.fg /\ q.seq = log[p.fg][i].seq
        <4>1. [fg |-> p.fg, seq |-> log[p.fg][i].seq] \in Pkt  BY <1>1, <1>9 DEF Pkt
        <4> QED BY <4>1
      <3>2. Processed(q)  BY <1>5, <3>1 DEF Processed
      <3> QED BY <1>12, <3>1, <3>2
    <2>2. ASSUME NEW i \in 1..n + 1, NEW j \in 1..n + 1, i < j PROVE log'[p.fg][i].seq < log'[p.fg][j].seq
      <3>1. i \in 1..n  BY <1>5, <2>2
      <3>2. CASE j \in 1..n  BY <1>5, <1>8, <1>12, <1>1, <2>2, <3>1, <3>2 DEF LogInOrder
      <3>3. CASE j = n + 1  BY <1>8, <2>1, <3>1, <3>3
      <3> QED BY <1>10, <3>2, <3>3
    <2>3. ASSUME NEW g \in Fgs, g # p.fg, NEW i \in DOMAIN log'[g], NEW j \in DOMAIN log'[g], i < j
          PROVE  log'[g][i].seq < log'[g][j].seq
      BY <1>4, <1>12, <2>3 DEF LogInOrder
    <2> QED BY <1>7, <2>2, <2>3 DEF LogInOrder
  <1>13. ASSUME NEW q \in Pkt, Processed(q) PROVE Processed(q)'
    <2>1. CASE q.fg # p.fg
      <3>1. q.fg \in Fgs  BY PktType
      <3> QED BY <1>4, <1>13, <2>1, <3>1 DEF Processed
    <2>2. CASE q.fg = p.fg
      <3>1. PICK i \in 1..n : log[p.fg][i].seq = q.seq  BY <1>5, <1>13, <2>2 DEF Processed
      <3>2. i \in 1..n + 1  BY <1>5
      <3> QED BY <1>7, <1>8, <2>2, <3>1, <3>2 DEF Processed
    <2> QED BY <2>1, <2>2
  <1>14. Processed(p)'
    <2>1. n + 1 \in 1..n + 1  BY <1>5
    <2> QED BY <1>7, <1>8, <2>1 DEF Processed
  <1> QED BY <1>11, <1>12, <1>13, <1>14

\* What a packet that is processed was live as.
LEMMA InputMoves ==
    ASSUME TypeOK, Chain, LogInOrder, NEW c \in Cpus, NEW p \in Pkt, eth_input(c, p), NEW n \in 1..6, Live(p, n),
           sent' = sent,
           \A q \in Pkt : \A k \in 1..6 : Live(q, k)' => Live(q, k),
           \A q \in Pkt : \A k \in 1..6 : q.fg = p.fg /\ Live(q, k)' => n <= k,
           \A q \in Pkt : q.fg = p.fg /\ Live(q, n)' => p.seq < q.seq
    PROVE  Chain' /\ LogInOrder'
  <1>1. \A q \in Pkt : q.fg = p.fg /\ Processed(q) => q.seq < p.seq  BY Stages DEF Chain
  <1>2. LogInOrder'  BY <1>1, InputLogs
  <1>3. \A q \in Pkt : Processed(q)' => Processed(q) \/ q = p  BY InputLogs
  <1>4. Moves(p, 0)
    <2> SUFFICES ASSUME NEW q \in Pkt, NEW k \in 0..6, Live(q, k)' PROVE Live(q, k) \/ (q = p /\ k = 0)
      BY DEF Moves
    <2>1. CASE k = 0  BY <1>3, <2>1, Stages
    <2>2. CASE k # 0
      <3>1. k \in 1..6  BY <2>2
      <3> QED BY <3>1
    <2> QED BY <2>1, <2>2
  <1>5. \A q \in Pkt : \A k \in 0..6 : q.fg = p.fg /\ Live(q, k)' /\ 0 < k => n <= k
    <2>1. \A k \in 0..6 : 0 < k => k \in 1..6  OBVIOUS
    <2> QED BY <2>1
  <1>6. 0 \in 0..6 /\ n \in 0..6 /\ 0 < n  OBVIOUS
  <1>7. Chain'  BY <1>4, <1>5, <1>6, ChainForward
  <1> QED BY <1>2, <1>7

\* The target handler runs only when no group is in transition any more.
LEMMA TransitQuiet ==
    ASSUME NEW s \in Cpu, NEW d \in Cpu, Control(s, d), NEW g \in Fgs, inTransition[g]
    PROVE  /\ cmds # 0 /\ s \in Cpus /\ d \in Cpus /\ s # d /\ mode[d] \notin HandlerModes
           /\ prevCpu[g] = s /\ targetCpu[g] = d /\ curCpu[g] = None /\ reta[g] \in {s, d}
  <1>1. /\ cmds # 0 /\ s # d /\ prevCpu[g] = s /\ targetCpu[g] = d /\ curCpu[g] = None
        /\ reta[g] \in {s, d}
    BY DEF Control, Groups
  <1>2. s \in Cpus /\ d \in Cpus  BY <1>1, CommandCpus DEF Control
  <1>3. mode[d] \notin HandlerModes  BY <1>1 DEF Control, Assigning, Tokens
  <1> QED BY <1>1, <1>2, <1>3

\* Where the packets of each stage are.
LEMMA Located ==
    ASSUME TypeOK, NEW s \in Cpu, NEW d \in Cpu, Migration(s, d), NEW p \in Pkt
    PROVE  /\ Parked(p) => /\ d \in Cpus /\ p \in Range(localq[d]) /\ reta[p.fg] = d
                           /\ inTransition[p.fg] \/ (curCpu[p.fg] = d /\ mode[d] \in HandlerModes)
           /\ Pending(p) => /\ d \in Cpus /\ (p \in Range(walk[d]) \/ p \in Range(remoteq[d]))
                            /\ inTransition[p.fg] \/ (curCpu[p.fg] = d /\ Walking(d))
           /\ Held(p) => inTransition[p.fg] \/ (curCpu[p.fg] = d /\ d \in Cpus /\ Walking(d))
           /\ Queued(p) => /\ ~inTransition[p.fg] /\ curCpu[p.fg] \in Cpus
                           /\ p \in Range(rxq[curCpu[p.fg]])
  <1>0. Control(s, d) /\ Placed(s, d) /\ Positions  BY DEF Migration, Packets
  <1>1. Parked(p) => /\ d \in Cpus /\ p \in Range(localq[d]) /\ reta[p.fg] = d
                     /\ inTransition[p.fg] \/ (curCpu[p.fg] = d /\ mode[d] \in HandlerModes)
    BY <1>0 DEF Parked, Placed, PlacedLocal
  <1>2. ASSUME Pending(p)
        PROVE  /\ d \in Cpus /\ (p \in Range(walk[d]) \/ p \in Range(remoteq[d]))
               /\ inTransition[p.fg] \/ (curCpu[p.fg] = d /\ Walking(d))
    <2>1. CASE \E x \in Cpus : p \in Range(walk[x])
      <3>1. PICK x \in Cpus : p \in Range(walk[x])  BY <2>1
      <3>2. x = d /\ curCpu[p.fg] = d  BY <1>0, <3>1 DEF Placed, PlacedWalk
      <3>3. mode[x] = "drain"  BY <1>0, <3>1, RangeEmpty DEF Positions
      <3> QED BY <3>1, <3>2, <3>3 DEF Walking
    <2>2. CASE \E x \in Cpus : p \in Range(remoteq[x]) /\ (inTransition[p.fg] \/ mode[x] = "readHead")
      <3>1. PICK x \in Cpus : p \in Range(remoteq[x]) /\ (inTransition[p.fg] \/ mode[x] = "readHead")
        BY <2>2
      <3>2. x = d  BY <1>0, <3>1 DEF Placed, PlacedRemote
      <3>3. mode[d] = "readHead" => inTransition[p.fg] \/ curCpu[p.fg] = d
        BY <1>0, <3>1, <3>2 DEF Placed, PlacedRemote
      <3> QED BY <3>1, <3>2, <3>3 DEF Walking
    <2> QED BY <1>2, <2>1, <2>2 DEF Pending
  <1>3. ASSUME Held(p), ~inTransition[p.fg]
        PROVE  curCpu[p.fg] = d /\ d \in Cpus /\ Walking(d)
    <2>1. PICK x \in Cpus, t \in Cpus : reg[x] # None /\ reg[x] = p /\ Walking(t)
      BY <1>3 DEF Held
    <2>2. mode[t] \in HandlerModes  BY <2>1 DEF Walking, HandlerModes
    <2>3. t = d  BY <1>0, <2>2 DEF Control, Roles, Place
    <2>4. curCpu[p.fg] = d  BY <1>0, <1>3, <2>1 DEF Placed, PlacedReg
    <2> QED BY <2>1, <2>3, <2>4
  <1>4. Queued(p) => ~inTransition[p.fg] /\ curCpu[p.fg] \in Cpus /\ p \in Range(rxq[curCpu[p.fg]])
    BY <1>0 DEF Queued, Placed, PlacedRx
  <1> QED BY <1>1, <1>2, <1>3, <1>4

\* A packet of the backlog is processed.
LEMMA PacketsProcess ==
    ASSUME TypeOK, NEW s \in Cpu, NEW d \in Cpu, Migration(s, d), NEW c \in Cpus, eth_process_recv(c)
    PROVE  /\ Control(s, d)' /\ Packets(s, d)'
           /\ Head(rxq[c]) \in Pkt /\ curCpu[Head(rxq[c]).fg] = c
  <1> DEFINE p == Head(rxq[c])
  <1>0. rxq \in [Cpus -> Seq(Pkt)] /\ Control(s, d) /\ Packets(s, d)  BY DEF TypeOK, Migration
  <1>1. /\ mode[c] = "loop" /\ rxq[c] # << >> /\ rxq' = [rxq EXCEPT ![c] = Tail(rxq[c])]
        /\ eth_input(c, p)
        /\ UNCHANGED <<inTransition, curCpu, targetCpu, prevCpu, hwq, reta, localq, remoteq, tail, walk,
                       inbox, mode, reg, enq, sent, lost, stranded, cause, cmds, timerArmed>>
        /\ UNCHANGED <<fgVars, reta, infoVars, inbox, mode, cmd, cmds, reg, enq>>
    BY <1>0 DEF eth_process_recv, Idle, fgVars, nicVars, infoVars, cpVars, locVars, regVars
  <1>2. Control(s, d)'  BY <1>0, <1>1, ControlSame
  <1>3. /\ p \in Pkt /\ p \in Range(rxq[c]) /\ Range(Tail(rxq[c])) \subseteq Range(rxq[c])
        /\ Sorted(Tail(rxq[c])) /\ \A q \in Range(Tail(rxq[c])) : q.fg = p.fg => p.seq < q.seq
    BY <1>0, <1>1, Popped DEF Packets, Queues
  <1> HIDE DEF p
  <1>4. rxq'[c] = Tail(rxq[c]) /\ \A x \in Cpus : x # c => rxq'[x] = rxq[x]  BY <1>0, <1>1
  <1>5. \A x \in Cpus : Range(rxq'[x]) \subseteq Range(rxq[x])  BY <1>3, <1>4
  <1>6. p.fg \in Fgs /\ ~inTransition[p.fg] /\ curCpu[p.fg] = c
    BY <1>0, <1>3, PktType DEF Packets, Placed, PlacedRx
  <1>7. mode[c] \notin HandlerModes /\ ~Walking(c)  BY <1>1 DEF HandlerModes, Walking
  <1>8. Live(p, 5)  BY <1>3 DEF Live, Queued
  <1>9. WalksKept  BY <1>1 DEF WalksKept
  <1>10. ASSUME NEW q \in Pkt
        PROVE  /\ Pending(q)' => Pending(q)
               /\ Held(q)' => Held(q)
               /\ AtPrev(q)' => AtPrev(q)
               /\ Parked(q)' => Parked(q)
               /\ Queued(q)' => Queued(q)
               /\ Coming(q)' => Coming(q)
    <2>1. Queued(q)' => Queued(q)  BY <1>5 DEF Queued
    <2> QED BY <1>1, <1>9, <2>1, StageFrame
  <1>11. ASSUME NEW q \in Pkt, q.fg = p.fg
         PROVE  /\ ~Pending(q) /\ ~Held(q) /\ ~AtPrev(q) /\ ~Parked(q)
                /\ Queued(q)' => p.seq < q.seq
    <2>1. ~AtPrev(q)  BY <1>6, <1>11 DEF AtPrev
    <2>2. ~Pending(q) /\ ~Held(q) /\ ~Parked(q)  BY <1>6, <1>7, <1>11, Located
    <2>3. ASSUME Queued(q)' PROVE p.seq < q.seq
      <3>1. PICK x \in Cpus : q \in Range(rxq'[x])  BY <2>3 DEF Queued
      <3>2. x = c  BY <1>0, <1>5, <1>6, <1>11, <3>1 DEF Packets, Placed, PlacedRx
      <3> QED BY <1>3, <1>4, <1>11, <3>1, <3>2
    <2> QED BY <2>1, <2>2, <2>3
  <1>12. \A q \in Pkt : \A k \in 1..6 : Live(q, k)' => Live(q, k)  BY <1>10 DEF Live
  <1>13. \A q \in Pkt : \A k \in 1..6 : q.fg = p.fg /\ Live(q, k)' => 5 <= k
    BY <1>10, <1>11 DEF Live
  <1>14. \A q \in Pkt : q.fg = p.fg /\ Live(q, 5)' => p.seq < q.seq  BY <1>11, Stages
  <1>15. Chain' /\ LogInOrder'
    BY <1>0, <1>1, <1>3, <1>8, <1>12, <1>13, <1>14, InputMoves DEF Packets
  <1>16. Queues'  BY <1>0, <1>1, <1>3, <1>4 DEF Packets, Queues
  <1>17. Positions'  BY <1>0, <1>1 DEF Packets, Positions
  <1>18. (Busy(s, d)' <=> Busy(s, d)) /\ (Whole(s, d)' <=> Whole(s, d))  BY <1>1, BusySame
  <1>19. Tailed(s, d)'  BY <1>0, <1>1, <1>18, TailedSame DEF Packets
  <1>20. Placed(s, d)'
    <2>1. Placed(s, d)  BY <1>0 DEF Packets
    <2>2. \A q \in Pkt : Processed(q) => Processed(q)'  BY <1>1, <1>3, InputLogs
    <2>3. PlacedRx' /\ PlacedLocal(d)' /\ PlacedWalk(d)' /\ PlacedHw(d)'
      BY <1>1, <1>5, <2>1, PlacedFrame
    <2>4. PlacedRemote(s, d)'  BY <1>1, <1>18, <2>1, <2>2, PlacedFrame
    <2>5. PlacedReg(s, d)'  BY <1>1, <1>18, <2>1, PlacedFrame
    <2> QED BY <2>3, <2>4, <2>5 DEF Placed
  <1>21. Losses(s, d)'  BY <1>0, <1>1, LossesSame DEF Packets
  <1> QED BY <1>2, <1>3, <1>6, <1>15, <1>16, <1>17, <1>19, <1>20, <1>21 DEF Packets, p

\* The target processes a packet that it got itself while s had the group.
LEMMA PacketsLocal ==
    ASSUME TypeOK, NEW s \in Cpu, NEW d \in Cpu, Migration(s, d), NEW c \in Cpus, TargetLocal(c)
    PROVE  /\ Control(s, d)' /\ Packets(s, d)'
           /\ Head(localq[c]) \in Pkt /\ curCpu[Head(localq[c]).fg] = c
  <1> DEFINE p == Head(localq[c])
  <1>0. localq \in [Cpus -> Seq(Pkt)] /\ Control(s, d) /\ Packets(s, d)  BY DEF TypeOK, Migration
  <1>1. /\ mode[c] = "local" /\ localq[c] # << >> /\ localq' = [localq EXCEPT ![c] = Tail(localq[c])]
        /\ eth_input(c, p)
        /\ UNCHANGED <<inTransition, curCpu, targetCpu, prevCpu, hwq, reta, rxq, remoteq, tail, walk,
                       inbox, mode, reg, enq, sent, lost, stranded, cause, cmds, timerArmed>>
        /\ UNCHANGED <<fgVars, reta, infoVars, inbox, mode, cmd, cmds, reg, enq>>
    BY <1>0 DEF TargetLocal, fgVars, nicVars, infoVars, cpVars, locVars, regVars
  <1>2. Control(s, d)'  BY <1>0, <1>1, ControlSame
  <1>3. /\ p \in Pkt /\ p \in Range(localq[c]) /\ Range(Tail(localq[c])) \subseteq Range(localq[c])
        /\ Sorted(Tail(localq[c])) /\ \A q \in Range(Tail(localq[c])) : q.fg = p.fg => p.seq < q.seq
    BY <1>0, <1>1, Popped DEF Packets, Queues
  <1> HIDE DEF p
  <1>4. localq'[c] = Tail(localq[c]) /\ \A x \in Cpus : x # c => localq'[x] = localq[x]  BY <1>0, <1>1
  <1>5. \A x \in Cpus : Range(localq'[x]) \subseteq Range(localq[x])  BY <1>3, <1>4
  <1>6. c = d /\ p.fg \in Fgs /\ mode[d] \in HandlerModes /\ ~Walking(d)
    BY <1>0, <1>1, <1>3, PktType DEF Packets, Placed, PlacedLocal, HandlerModes, Walking
  <1>7. ~inTransition[p.fg] /\ curCpu[p.fg] = d
    <2>1. ~inTransition[p.fg]  BY <1>0, <1>6, TransitQuiet
    <2> QED BY <1>0, <1>3, <1>6, <2>1 DEF Packets, Placed, PlacedLocal
  <1>8. Live(p, 4)  BY <1>3 DEF Live, Parked
  <1>9. WalksKept  BY <1>1 DEF WalksKept
  <1>10. ASSUME NEW q \in Pkt
        PROVE  /\ Pending(q)' => Pending(q)
               /\ Held(q)' => Held(q)
               /\ AtPrev(q)' => AtPrev(q)
               /\ Parked(q)' => Parked(q)
               /\ Queued(q)' => Queued(q)
               /\ Coming(q)' => Coming(q)
    <2>1. Parked(q)' => Parked(q)  BY <1>5 DEF Parked
    <2> QED BY <1>1, <1>9, <2>1, StageFrame
  <1>11. ASSUME NEW q \in Pkt, q.fg = p.fg
         PROVE  /\ ~Pending(q) /\ ~Held(q) /\ ~AtPrev(q)
                /\ Parked(q)' => p.seq < q.seq
    <2>1. ~AtPrev(q)  BY <1>7, <1>11 DEF AtPrev
    <2>2. ~Pending(q) /\ ~Held(q)  BY <1>6, <1>7, <1>11, Located
    <2>3. ASSUME Parked(q)' PROVE p.seq < q.seq
      <3>1. PICK x \in Cpus : q \in Range(localq'[x])  BY <2>3 DEF Parked
      <3>2. x = c  BY <1>0, <1>5, <1>6, <3>1 DEF Packets, Placed, PlacedLocal
      <3> QED BY <1>3, <1>4, <1>11, <3>1, <3>2
    <2> QED BY <2>1, <2>2, <2>3
  <1>12. \A q \in Pkt : \A k \in 1..6 : Live(q, k)' => Live(q, k)  BY <1>10 DEF Live
  <1>13. \A q \in Pkt : \A k \in 1..6 : q.fg = p.fg /\ Live(q, k)' => 4 <= k
    BY <1>10, <1>11 DEF Live
  <1>14. \A q \in Pkt : q.fg = p.fg /\ Live(q, 4)' => p.seq < q.seq  BY <1>11, Stages
  <1>15. Chain' /\ LogInOrder'
    BY <1>0, <1>1, <1>3, <1>8, <1>12, <1>13, <1>14, InputMoves DEF Packets
  <1>16. Queues'  BY <1>0, <1>1, <1>3, <1>4 DEF Packets, Queues
  <1>17. Positions'  BY <1>0, <1>1 DEF Packets, Positions
  <1>18. (Busy(s, d)' <=> Busy(s, d)) /\ (Whole(s, d)' <=> Whole(s, d))  BY <1>1, BusySame
  <1>19. Tailed(s, d)'  BY <1>0, <1>1, <1>18, TailedSame DEF Packets
  <1>20. Placed(s, d)'
    <2>1. Placed(s, d)  BY <1>0 DEF Packets
    <2>2. \A q \in Pkt : Processed(q) => Processed(q)'  BY <1>1, <1>3, InputLogs
    <2>3. PlacedRx' /\ PlacedLocal(d)' /\ PlacedWalk(d)' /\ PlacedHw(d)'
      BY <1>1, <1>5, <2>1, PlacedFrame
    <2>4. PlacedRemote(s, d)'  BY <1>1, <1>18, <2>1, <2>2, PlacedFrame
    <2>5. PlacedReg(s, d)'  BY <1>1, <1>18, <2>1, PlacedFrame
    <2> QED BY <2>3, <2>4, <2>5 DEF Placed
  <1>21. Losses(s, d)'  BY <1>0, <1>1, LossesSame DEF Packets
  <1> QED BY <1>2, <1>3, <1>6, <1>7, <1>15, <1>16, <1>17, <1>19, <1>20, <1>21 DEF Packets, p

\* The target processes a packet that s left it.
LEMMA PacketsDrain ==
    ASSUME TypeOK, NEW s \in Cpu, NEW d \in Cpu, Migration(s, d), NEW c \in Cpus, TargetDrain(c)
    PROVE  /\ Control(s, d)' /\ Packets(s, d)'
           /\ Head(walk[c]) \in Pkt /\ curCpu[Head(walk[c]).fg] = c
  <1> DEFINE p == Head(walk[c])
             w == Tail(walk[c])
             m == IF Tail(walk[c]) = << >> THEN "reset" ELSE "drain"
  <1>0. mode[c] = "drain" /\ mode[c] \in HandlerModes /\ m \in HandlerModes
    BY DEF TargetDrain, HandlerModes
  <1>1. /\ c = d /\ s # d /\ s \in Cpus /\ d \in Cpus /\ cmds # 0 /\ Control(s, d) /\ Packets(s, d)
        /\ ~Busy(s, d) /\ walk \in [Cpus -> Seq(Pkt)] /\ walk[c] # << >>
    BY <1>0, EndRole DEF TypeOK
  <1>2. /\ walk' = [walk EXCEPT ![c] = w] /\ mode' = [mode EXCEPT ![c] = m] /\ eth_input(c, p)
        /\ UNCHANGED <<inTransition, curCpu, targetCpu, prevCpu, hwq, reta, rxq, localq, remoteq, tail, inbox,
                       reg, enq, sent, lost, stranded, cause, cmds, timerArmed>>
        /\ UNCHANGED <<fgVars, reta, infoVars, inbox, cmd, cmds, reg, enq>>
    BY <1>1 DEF TargetDrain, Goto, fgVars, nicVars, queueVars, infoVars, cpVars, regVars
  <1>3. /\ p \in Pkt /\ p \in Range(walk[c]) /\ Range(w) \subseteq Range(walk[c])
        /\ Range(walk[c]) = Range(w) \cup {p}
        /\ Sorted(w) /\ \A q \in Range(w) : q.fg = p.fg => p.seq < q.seq
    BY <1>1, Popped DEF Packets, Queues
  <1>4. w # << >> => Last(w) = Last(walk[c])  BY <1>1, LastsOf
  <1>5. IF w = << >> THEN m = "reset" ELSE m = "drain"  OBVIOUS
  <1> HIDE DEF p, w, m
  <1>6. Control(s, d)'  BY <1>0, <1>1, <1>2, ControlHandler
  <1>7. /\ walk'[d] = w /\ (\A x \in Cpus : x # d => walk'[x] = walk[x])
        /\ mode'[d] = m /\ (\A x \in Cpus : x # d => mode'[x] = mode[x])
    BY <1>1, <1>2, ControlTypes
  <1>8. \A x \in Cpus : Range(walk'[x]) \subseteq Range(walk[x])  BY <1>1, <1>3, <1>7
  <1>9. \A x \in Cpus : (Walking(x)' => Walking(x)) /\ (mode'[x] = "readHead" <=> mode[x] = "readHead")
    BY <1>0, <1>1, <1>5, <1>7 DEF Walking
  <1>10. p.fg \in Fgs /\ ~inTransition[p.fg] /\ curCpu[p.fg] = d
    <2>1. p.fg \in Fgs  BY <1>3, PktType
    <2>2. ~inTransition[p.fg]  BY <1>0, <1>1, <2>1, TransitQuiet
    <2> QED BY <1>1, <1>3, <2>1, <2>2 DEF Packets, Placed, PlacedWalk
  <1>11. Live(p, 1)
    <2>1. Pending(p)  BY <1>3 DEF Pending
    <2> QED BY <2>1, Stages
  <1>12. ASSUME NEW q \in Pkt, Pending(q)'
         PROVE  Pending(q) /\ (q.fg = p.fg => p.seq < q.seq)
    <2>1. PICK x \in Cpus : q \in Range(walk'[x]) \/
                            (q \in Range(remoteq[x]) /\ (inTransition[q.fg] \/ mode'[x] = "readHead"))
      BY <1>2, <1>12 DEF Pending
    <2>2. CASE q \in Range(walk'[x])
      <3>1. q \in Range(walk[x])  BY <1>8, <2>2
      <3>2. x = d  BY <1>1, <3>1 DEF Packets, Placed, PlacedWalk
      <3> QED BY <1>3, <1>7, <2>2, <3>1, <3>2 DEF Pending
    <2>3. CASE q \in Range(remoteq[x]) /\ (inTransition[q.fg] \/ mode'[x] = "readHead")
      <3>1. Pending(q)  BY <1>9, <2>3 DEF Pending
      <3>2. x = d  BY <1>1, <2>3 DEF Packets, Placed, PlacedRemote
      <3>3. mode'[d] # "readHead"  BY <1>5, <1>7
      <3> QED BY <1>10, <2>3, <3>1, <3>2, <3>3
    <2> QED BY <2>1, <2>2, <2>3
  <1>13. ASSUME NEW q \in Pkt
         PROVE  /\ Held(q)' => Held(q)
                /\ AtPrev(q)' => AtPrev(q)
                /\ Parked(q)' => Parked(q)
                /\ Queued(q)' => Queued(q)
                /\ Coming(q)' => Coming(q)
    <2>1. Held(q)' => Held(q)  BY <1>2, <1>9 DEF Held
    <2> QED BY <1>2, <2>1, StageFrame
  <1>14. \A q \in Pkt : \A k \in 1..6 : Live(q, k)' => Live(q, k)  BY <1>12, <1>13 DEF Live
  <1>15. \A q \in Pkt : \A k \in 1..6 : q.fg = p.fg /\ Live(q, k)' => 1 <= k  OBVIOUS
  <1>16. \A q \in Pkt : q.fg = p.fg /\ Live(q, 1)' => p.seq < q.seq  BY <1>12, Stages
  <1>17. Chain' /\ LogInOrder'
    BY <1>1, <1>2, <1>3, <1>11, <1>14, <1>15, <1>16, InputMoves DEF Packets
  <1>18. Queues'  BY <1>1, <1>2, <1>3, <1>7 DEF Packets, Queues
  <1>19. Positions'
    <2>1. ASSUME NEW x \in Cpus, x # d
          PROVE  /\ mode'[x] # "drain" => walk'[x] = << >>
                 /\ mode'[x] = "drain" => remoteq[x] # << >> /\ Last(walk'[x]) = Last(remoteq[x])
      BY <1>1, <1>7, <2>1 DEF Packets, Positions
    <2>2. remoteq[d] # << >> /\ Last(walk[d]) = Last(remoteq[d])
      BY <1>0, <1>1 DEF Packets, Positions
    <2>3. /\ mode'[d] # "drain" => walk'[d] = << >>
          /\ mode'[d] = "drain" => remoteq[d] # << >> /\ Last(walk'[d]) = Last(remoteq[d])
      BY <1>1, <1>4, <1>5, <1>7, <2>2
    <2> QED BY <1>2, <2>1, <2>3 DEF Positions
  <1>20. Tailed(s, d)'
    <2>1. Whole(s, d)  BY <1>0, <1>1 DEF Whole, Walking
    <2> QED BY <1>1, <1>2, <2>1, TailedSame DEF Packets
  <1>21. mode'[s] = mode[s] /\ mode'[d] \in HandlerModes /\ mode'[d] # "readHead"
    BY <1>0, <1>1, <1>5, <1>7
  <1>22. Busy(s, d)' <=> Busy(s, d)
    <2>1. Asked(d)' <=> Asked(d)  BY <1>2 DEF Asked
    <2> QED BY <1>2, <1>21, <2>1 DEF Busy, Waiting
  <1>23. Placed(s, d)'
    <2>1. Placed(s, d)  BY <1>1 DEF Packets
    <2>2. \A q \in Pkt : Processed(q) \/ q = p => Processed(q)'  BY <1>2, <1>3, InputLogs
    <2>3. PlacedRx' /\ PlacedLocal(d)' /\ PlacedWalk(d)' /\ PlacedHw(d)'
      BY <1>2, <1>8, <1>21, <2>1, PlacedFrame
    <2>4. PlacedRemote(s, d)'
      <3>1. ASSUME NEW x \in Cpus, NEW q \in Range(remoteq[x])
            PROVE  x = d /\ (q \in Range(walk'[d]) \/ Processed(q)')
        <4>1. x = d /\ (q \in Range(walk[d]) \/ Processed(q)) /\ q \in Pkt
          BY <1>0, <1>1, <2>1, QueueTypes DEF Placed, PlacedRemote
        <4> QED BY <1>1, <1>3, <1>7, <2>2, <4>1
      <3> QED BY <1>1, <1>2, <1>21, <1>22, <3>1 DEF PlacedRemote
    <2>5. PlacedReg(s, d)'  BY <1>2, <1>22, <2>1, PlacedFrame
    <2> QED BY <2>3, <2>4, <2>5 DEF Placed
  <1>24. Losses(s, d)'
    <2>1. \A x \in Cpus : /\ mode[x] = "early" => mode'[x] = "early"
                          /\ mode'[x] = "oops" => mode[x] = "oops"
      BY <1>0, <1>1, <1>5, <1>7
    <2>2. Losses(s, d)  BY <1>1 DEF Packets
    <2> QED BY <1>2, <1>21, <2>1, <2>2, LossesSame
  <1> QED BY <1>1, <1>3, <1>6, <1>10, <1>17, <1>18, <1>19, <1>20, <1>23, <1>24 DEF Packets, p

\* The queue's head is reset: what the walk has not reached was stranded.
LEMMA PacketsReset ==
    ASSUME TypeOK, NEW s \in Cpu, NEW d \in Cpu, Migration(s, d), NEW c \in Cpus, TargetReset(c)
    PROVE  Control(s, d)' /\ Packets(s, d)'
  <1>0. mode[c] = "reset" /\ mode[c] \in HandlerModes /\ "resetTail" \in HandlerModes
    BY DEF TargetReset, HandlerModes
  <1>1. /\ c = d /\ s # d /\ s \in Cpus /\ d \in Cpus /\ cmds # 0 /\ Control(s, d) /\ Packets(s, d)
        /\ ~Busy(s, d) /\ remoteq \in [Cpus -> Seq(Pkt)]
    BY <1>0, EndRole DEF TypeOK
  <1>2. /\ remoteq' = [remoteq EXCEPT ![c] = << >>] /\ mode' = [mode EXCEPT ![c] = "resetTail"]
        /\ Forgets(Range(remoteq[c]), {})
        /\ UNCHANGED <<inTransition, curCpu, targetCpu, prevCpu, hwq, reta, rxq, localq, tail, walk, inbox,
                       log, reg, enq, sent, stranded, cause, cmds, timerArmed>>
        /\ UNCHANGED <<fgVars, reta, infoVars, inbox, cmd, cmds, reg, enq>>
    BY DEF TargetReset, Goto, fgVars, nicVars, infoVars, cpVars, locVars, regVars
  <1>3. Control(s, d)'  BY <1>0, <1>1, <1>2, ControlHandler
  <1>4. /\ remoteq'[d] = << >> /\ (\A x \in Cpus : x # d => remoteq'[x] = remoteq[x])
        /\ mode'[d] = "resetTail" /\ (\A x \in Cpus : x # d => mode'[x] = mode[x])
    BY <1>1, <1>2, ControlTypes
  <1>5. walk[d] = << >>  BY <1>0, <1>1 DEF Packets, Positions
  <1>6. lost' \subseteq lost \cup stranded
    <2>1. ASSUME NEW p \in Range(remoteq[d]) PROVE Processed(p) \/ p \in stranded
      BY <1>0, <1>1, <1>5, RangeEmpty DEF Packets, Placed, PlacedRemote
    <2>2. lost' = lost \cup {p \in Range(remoteq[d]) : ~Processed(p)}
      BY <1>1, <1>2 DEF Forgets
    <2> QED BY <2>1, <2>2
  <1>7. \A x \in Cpus : Range(remoteq'[x]) \subseteq Range(remoteq[x])
    BY <1>4, RangeEmpty
  <1>8. \A x \in Cpus : (Walking(x)' => Walking(x)) /\ (mode'[x] = "readHead" => mode[x] = "readHead")
    BY <1>1, <1>4 DEF Walking
  <1>9. Chain'
    <2>1. ASSUME NEW p \in Pkt
          PROVE  /\ Processed(p)' => Processed(p)
                 /\ AtPrev(p)' => AtPrev(p)
                 /\ Parked(p)' => Parked(p)
                 /\ Queued(p)' => Queued(p)
                 /\ Coming(p)' => Coming(p)
      BY <1>2, StageFrame
    <2>2. ASSUME NEW p \in Pkt, Pending(p)' PROVE Pending(p)
      BY <1>2, <1>7, <1>8, <2>2 DEF Pending
    <2>3. ASSUME NEW p \in Pkt, Held(p)' PROVE Held(p)
      BY <1>2, <1>8, <2>3 DEF Held
    <2>4. Stays  BY <2>1, <2>2, <2>3 DEF Stays, Live
    <2> QED BY <1>1, <1>2, <2>4, ChainStays DEF Packets
  <1>10. Queues'  BY <1>1, <1>2, <1>7 DEF Packets, Queues
  <1>11. LogInOrder'  BY <1>1, <1>2 DEF Packets, LogInOrder
  <1>12. Positions'
    <2>1. ASSUME NEW x \in Cpus, x # d
          PROVE  /\ mode'[x] # "drain" => walk[x] = << >>
                 /\ mode'[x] = "drain" => remoteq'[x] # << >> /\ Last(walk[x]) = Last(remoteq'[x])
      BY <1>1, <1>4, <2>1 DEF Packets, Positions
    <2> QED BY <1>2, <1>4, <1>5, <2>1 DEF Positions
  <1>13. mode'[s] = mode[s] /\ mode'[d] \in HandlerModes  BY <1>0, <1>1, <1>4
  <1>14. Busy(s, d)' <=> Busy(s, d)
    <2>1. Asked(d)' <=> Asked(d)  BY <1>2 DEF Asked
    <2> QED BY <1>2, <1>13, <2>1 DEF Busy, Waiting
  <1>15. Tailed(s, d)'
    <2>1. ~Whole(s, d)'  BY <1>1, <1>4, <1>14 DEF Whole, Walking
    <2>2. \A x \in Cpus : enq[x].at = "head" => remoteq'[enq[x].q] = << >>
      <3>1. \A x \in Cpus : enq[x].at = "head" => enq[x].q = d  BY <1>1 DEF Control, Roles
      <3> QED BY <1>4, <3>1
    <2> QED BY <1>2, <2>1, <2>2 DEF Tailed
  <1>16. Placed(s, d)'
    <2>1. Placed(s, d)  BY <1>1 DEF Packets
    <2>2. PlacedRx' /\ PlacedLocal(d)' /\ PlacedWalk(d)' /\ PlacedHw(d)'
      BY <1>2, <1>13, <2>1, PlacedFrame
    <2>3. PlacedRemote(s, d)'
      <3>1. \A x \in Cpus : Range(remoteq'[x]) = {}
        <4>1. ASSUME NEW x \in Cpus, x # d, NEW q \in Range(remoteq[x]) PROVE FALSE
          BY <2>1, <4>1 DEF Placed, PlacedRemote
        <4> QED BY <1>4, <4>1, RangeEmpty
      <3> QED BY <3>1 DEF PlacedRemote
    <2>4. PlacedReg(s, d)'  BY <1>2, <1>14, <2>1, PlacedFrame
    <2> QED BY <2>2, <2>3, <2>4 DEF Placed
  <1>17. Losses(s, d)'
    <2>1. \A x \in Cpus : /\ mode[x] = "early" => mode'[x] = "early"
                          /\ mode'[x] = "oops" => mode[x] = "oops"
      BY <1>0, <1>1, <1>4
    <2>2. Losses(s, d)  BY <1>1 DEF Packets
    <2> QED BY <1>2, <1>6, <1>13, <2>1, <2>2, LossesSame
  <1> QED BY <1>3, <1>9, <1>10, <1>11, <1>12, <1>15, <1>16, <1>17 DEF Packets

\* What follows the NIC: nothing of g has gone past its queue.
LEMMA ArriveFits ==
    ASSUME TypeOK, NEW s \in Cpu, NEW d \in Cpu, Migration(s, d), NEW g \in Fgs, inTransition[g],
           reta[g] = s, NEW p \in Pkt, p.fg = g
    PROVE  ~Parked(p) /\ ~Queued(p) /\ ~Coming(p)
  <1>1. s # d /\ targetCpu[g] = d /\ d \in Cpus  BY TransitQuiet DEF Migration
  <1>2. ~Parked(p)  BY <1>1, Located DEF Migration, Packets
  <1>3. ~Queued(p)  BY Located DEF Migration, Packets
  <1>4. ~Coming(p)
    <2>1. ASSUME p \in Range(hwq[d]) PROVE FALSE
      BY <1>1, <2>1 DEF Migration, Packets, Placed, PlacedHw
    <2> QED BY <1>1, <2>1 DEF Coming, Owner
  <1> QED BY <1>2, <1>3, <1>4

\* A packet arrives.
LEMMA PacketsArrive ==
    ASSUME TypeOK, NEW s \in Cpu, NEW d \in Cpu, Migration(s, d), NEW g \in Fgs, Arrive(g)
    PROVE  Control(s, d)' /\ Packets(s, d)'
  <1> DEFINE x == [fg |-> g, seq |-> sent[g] + 1]
             c == reta[g]
             r == Append(hwq[c], x)
  <1>0. hwq \in [Cpus -> Seq(Pkt)] /\ sent \in [Fgs -> 0..MaxPkts]  BY DEF TypeOK
  <1>1. /\ c # None /\ sent[g] < MaxPkts /\ sent' = [sent EXCEPT ![g] = sent[g] + 1]
        /\ hwq' = [hwq EXCEPT ![c] = r]
    BY <1>0 DEF Arrive
  <1>2. /\ UNCHANGED <<inTransition, curCpu, targetCpu, prevCpu, reta, rxq, localq, remoteq, tail, walk,
                       inbox, timerArmed, mode, reg, enq, log, lost, cause, cmds>>
        /\ UNCHANGED <<fgVars, reta, infoVars, inbox, mode, cmd, cmds, reg, enq>>
        /\ stranded' = IF inTransition[g] \/ curCpu[g] = c THEN stranded ELSE stranded \cup {x}
    BY DEF Arrive, fgVars, queueVars, infoVars, cpVars, locVars, regVars
  <1>3. sent[g] \in Nat /\ sent[g] + 1 \in 1..MaxPkts /\ \A h \in Fgs : sent[h] \in Nat
    <2>1. MaxPkts \in Nat  BY BoundAssumption
    <2> QED BY <1>0, <1>1, <2>1
  <1>4. x \in Pkt /\ c \in Cpus /\ x.fg = g /\ x.seq = sent[g] + 1  BY <1>1, <1>3 DEF Pkt, TypeOK, Cpu
  <1>5. Control(s, d)'  BY <1>2, ControlSame DEF Migration
  <1>6. ASSUME NEW p \in Pkt, Chain, NEW k \in 0..6, Live(p, k), p.fg = g PROVE p.seq < x.seq
    <2>1. p.seq <= sent[g] /\ p.seq \in Nat  BY <1>6, PktType DEF Chain
    <2> QED BY <1>3, <1>4, <2>1
  <1>7. r \in Seq(Pkt) /\ Range(r) = Range(hwq[c]) \cup {x}
    <2> HIDE DEF x, c
    <2> QED BY <1>0, <1>4, Appended
  <1>8. Sorted(hwq[c]) /\ \A p \in Range(hwq[c]) : p.seq <= sent[p.fg]
    BY <1>4 DEF Migration, Packets, Queues
  <1>9. Sorted(r)
    <2>1. \A p \in Range(hwq[c]) : p.fg = g => p.seq < sent[g] + 1
      BY <1>3, <1>4, <1>8, QueueTypes
    <2> HIDE DEF c
    <2> QED BY <1>0, <1>4, <1>8, <2>1, SortedAppend
  <1> HIDE DEF r
  <1>10. hwq'[c] = r /\ \A y \in Cpus : y # c => hwq'[y] = hwq[y]  BY <1>0, <1>1, <1>4
  <1>11. sent'[g] = sent[g] + 1 /\ \A h \in Fgs : h # g => sent'[h] = sent[h]  BY <1>0, <1>1
  <1>12. \A h \in Fgs : sent[h] \in Nat /\ sent'[h] \in Nat /\ sent[h] <= sent'[h]  BY <1>3, <1>11
  <1> HIDE DEF x, c
  <1>13. \A y \in Cpus : \A p \in Range(hwq'[y]) : p \in Range(hwq[y]) \/ (p = x /\ y = c)
    BY <1>7, <1>10
  <1>24. WalksKept  BY <1>2 DEF WalksKept
  <1>14. ASSUME NEW p \in Pkt
         PROVE  /\ Processed(p)' => Processed(p)
                /\ Pending(p)' => Pending(p)
                /\ Held(p)' => Held(p)
                /\ Parked(p)' => Parked(p)
                /\ Queued(p)' => Queued(p)
    BY <1>2, <1>24, StageFrame
  <1>15. Chain'
    <2>1. CASE inTransition[g] /\ c = s
      <3>0. s # d /\ prevCpu[g] = s /\ targetCpu[g] = d  BY <2>1, TransitQuiet DEF Migration
      <3>1. ASSUME NEW p \in Pkt
            PROVE  (AtPrev(p)' => AtPrev(p) \/ p = x) /\ (Coming(p)' => Coming(p))
        <4>1. AtPrev(p)' => AtPrev(p) \/ p = x  BY <1>2, <1>13 DEF AtPrev
        <4>2. ASSUME Coming(p)' PROVE Coming(p)
          <5>1. Owner(p.fg)' = Owner(p.fg)  BY <1>2 DEF Owner
          <5>2. Owner(p.fg) \in Cpus /\ p \in Range(hwq'[Owner(p.fg)])  BY <4>2, <5>1 DEF Coming
          <5>3. p = x => Owner(p.fg) = d  BY <1>4, <2>1, <3>0 DEF Owner
          <5>4. p \in Range(hwq[Owner(p.fg)])  BY <1>13, <2>1, <3>0, <5>2, <5>3
          <5> QED BY <5>2, <5>4 DEF Coming
        <4> QED BY <4>1, <4>2
      <3>2. Moves(x, 3)  BY <1>14, <3>1 DEF Moves, Live
      <3>3. Fits(x, 3)
        <4>1. ASSUME NEW p \in Pkt, NEW k \in 0..6, p.fg = x.fg, Live(p, k)', k # 3
              PROVE  k < 3 /\ p.seq < x.seq
          <5>1. Live(p, k)  BY <3>2, <4>1 DEF Moves
          <5>2. ~Parked(p) /\ ~Queued(p) /\ ~Coming(p)  BY <1>4, <2>1, <4>1, ArriveFits DEF c
          <5>3. k # 4 /\ k # 5 /\ k # 6  BY <5>1, <5>2, Stages
          <5>4. p.seq < x.seq  BY <1>4, <1>6, <4>1, <5>1 DEF Migration, Packets
          <5> QED BY <4>1, <5>3, <5>4
        <4>2. \A k \in 0..6 : (k < 3 => k # 3) /\ (3 < k => k # 3 /\ ~(k < 3))  OBVIOUS
        <4> QED BY <4>1, <4>2 DEF Fits
      <3>4. 3 \in 0..6 /\ x.seq <= sent'[x.fg]  BY <1>3, <1>4, <1>11
      <3> QED BY <1>4, <1>12, <3>2, <3>3, <3>4, ChainMoves DEF Migration, Packets
    <2>2. CASE ~(inTransition[g] /\ c = s)
      <3>1. ASSUME NEW p \in Pkt
            PROVE  (AtPrev(p)' => AtPrev(p)) /\ (Coming(p)' => Coming(p) \/ p = x)
        <4>1. ASSUME AtPrev(p)' PROVE AtPrev(p)
          <5>1. inTransition[p.fg] /\ prevCpu[p.fg] \in Cpus /\ p \in Range(hwq'[prevCpu[p.fg]])
            BY <1>2, <4>1 DEF AtPrev
          <5>2. prevCpu[p.fg] = s  BY <5>1, PktType, TransitQuiet DEF Migration
          <5>3. p \in Range(hwq[prevCpu[p.fg]])  BY <1>4, <1>13, <2>2, <5>1, <5>2
          <5> QED BY <5>1, <5>3 DEF AtPrev
        <4>2. ASSUME Coming(p)' PROVE Coming(p) \/ p = x
          <5>1. Owner(p.fg)' = Owner(p.fg)  BY <1>2 DEF Owner
          <5> QED BY <1>13, <4>2, <5>1 DEF Coming
        <4> QED BY <4>1, <4>2
      <3>2. Moves(x, 6)  BY <1>14, <3>1 DEF Moves, Live
      <3>3. Fits(x, 6)
        <4>1. ASSUME NEW p \in Pkt, NEW k \in 0..6, p.fg = x.fg, Live(p, k)', k # 6
              PROVE  p.seq < x.seq
          <5>1. Live(p, k)  BY <3>2, <4>1 DEF Moves
          <5> QED BY <1>4, <1>6, <4>1, <5>1 DEF Migration, Packets
        <4>2. \A k \in 0..6 : (k < 6 => k # 6) /\ ~(6 < k)  OBVIOUS
        <4> QED BY <4>1, <4>2 DEF Fits
      <3>4. 6 \in 0..6 /\ x.seq <= sent'[x.fg]  BY <1>3, <1>4, <1>11
      <3> QED BY <1>4, <1>12, <3>2, <3>3, <3>4, ChainMoves DEF Migration, Packets
    <2> QED BY <2>1, <2>2
  <1>16. Queues'
    <2>1. ASSUME NEW y \in Cpus PROVE Sorted(hwq'[y])
      BY <1>9, <1>10 DEF Migration, Packets, Queues
    <2>2. ASSUME NEW y \in Cpus, NEW p \in Range(hwq'[y]) PROVE p.seq <= sent'[p.fg]
      <3>1. CASE p = x  BY <1>3, <1>4, <1>11, <3>1
      <3>2. CASE p \in Range(hwq[y])
        <4>1. p.seq <= sent[p.fg] /\ p.fg \in Fgs /\ p.seq \in Nat
          BY <3>2, QueueTypes DEF Migration, Packets, Queues
        <4>2. sent[p.fg] \in Nat /\ sent'[p.fg] \in Nat /\ sent[p.fg] <= sent'[p.fg]  BY <1>12, <4>1
        <4> QED BY ONLY <4>1, <4>2
      <3> QED BY <1>13, <3>1, <3>2
    <2> QED BY <1>2, <2>1, <2>2 DEF Migration, Packets, Queues
  <1>17. LogInOrder'  BY <1>2 DEF Migration, Packets, LogInOrder
  <1>18. Positions'  BY <1>2 DEF Migration, Packets, Positions
  <1>19. (Busy(s, d)' <=> Busy(s, d)) /\ (Whole(s, d)' <=> Whole(s, d)) /\ (Asked(d)' <=> Asked(d))
    BY <1>2, BusySame
  <1>20. Tailed(s, d)'  BY <1>2, <1>19, TailedSame DEF Migration, Packets
  <1>21. stranded \subseteq stranded'  BY <1>2
  <1>22. Placed(s, d)'
    <2>1. Placed(s, d)  BY DEF Migration, Packets
    <2>2. PlacedRx' /\ PlacedLocal(d)' /\ PlacedWalk(d)'  BY <1>2, <2>1, PlacedFrame
    <2>3. PlacedRemote(s, d)'
      <3>1. \A p \in Pkt : Processed(p) => Processed(p)'  BY <1>2, StageFrame
      <3>2. (mode'[d] = "readHead" <=> mode[d] = "readHead") /\ (mode'[d] = "drain" => mode[d] = "drain")
        BY <1>2
      <3> QED BY <1>2, <1>19, <1>21, <2>1, <3>1, <3>2, PlacedFrame
    <2>4. PlacedReg(s, d)'  BY <1>2, <1>19, <1>21, <2>1, PlacedFrame
    <2>5. ASSUME NEW y \in Cpus, NEW p \in Range(hwq'[y]), inTransition[p.fg], y = d PROVE reta[p.fg] = d
      BY <1>4, <1>13, <2>1, <2>5 DEF Placed, PlacedHw, c
    <2>6. PlacedHw(d)'  BY <1>2, <2>5 DEF PlacedHw
    <2> QED BY <2>2, <2>3, <2>4, <2>6 DEF Placed
  <1>23. Losses(s, d)'
    <2>0. Losses(s, d)  BY DEF Migration, Packets
    <2>1. LossNeedsCause'
      <3>1. ~inTransition[g] /\ curCpu[g] # c => cause # {}  BY <1>1, <2>0 DEF Losses, c
      <3>2. stranded' # {} => cause # {}  BY <1>2, <2>0, <3>1 DEF Losses, LossNeedsCause
      <3> QED BY <1>2, <1>21, <2>0, <3>2 DEF Losses, LossNeedsCause, Raced
    <2>2. ASSUME NEW y \in Cpus, NEW p \in Range(hwq'[y])
          PROVE  IF inTransition[p.fg] THEN y \in {s, d} ELSE y = curCpu[p.fg] \/ p \in stranded'
      <3>1. CASE p \in Range(hwq[y])  BY <1>21, <2>0, <3>1 DEF Losses
      <3>2. CASE p = x /\ y = c
        <4>1. inTransition[g] => c \in {s, d}  BY TransitQuiet DEF Migration, c
        <4> QED BY <1>2, <1>4, <3>2, <4>1
      <3> QED BY <1>13, <3>1, <3>2
    <2>3. ASSUME cause = {}, Asked(d) PROVE Drained(s)' /\ \A h \in Fgs : inTransition[h] => reta[h] = d
      <3>1. Drained(s) /\ \A h \in Fgs : inTransition[h] => reta[h] = d
        BY <2>0, <2>3 DEF Losses
      <3>2. ASSUME NEW h \in Fgs, inTransition[h], NEW p \in Range(hwq'[s]) PROVE p.fg # h
        <4>1. s \in Cpus /\ s # d  BY <3>2, TransitQuiet DEF Migration
        <4>2. p = x /\ s = c => ~inTransition[g]  BY <3>1, <4>1 DEF c
        <4> QED BY <1>4, <1>13, <3>1, <3>2, <4>1, <4>2 DEF Drained
      <3> QED BY <1>2, <3>1, <3>2 DEF Drained
    <2> QED BY <1>2, <1>19, <2>0, <2>1, <2>2, <2>3 DEF Losses
  <1> QED BY <1>5, <1>15, <1>16, <1>17, <1>18, <1>20, <1>22, <1>23 DEF Packets

\* The first packet leaves the NIC's queue of c.
LEMMA PollFrame ==
    ASSUME TypeOK, NEW s \in Cpu, NEW d \in Cpu, Migration(s, d), NEW c \in Cpus, NEW p, Poll(c),
           p = Head(hwq[c])
    PROVE  /\ p \in Pkt /\ p.fg \in Fgs /\ p \in Range(hwq[c]) /\ mode[c] \notin HandlerModes
           /\ reg[c] = None
           /\ UNCHANGED <<inTransition, curCpu, targetCpu, prevCpu, reta, remoteq, tail, walk, mode, cmds,
                          enq, timerArmed, sent, log, stranded, cause>> /\ WalksKept
           /\ \A x \in Cpus : Sorted(hwq'[x]) /\ Range(hwq'[x]) \subseteq Range(hwq[x])
           /\ \A q \in Range(hwq'[c]) : q.fg = p.fg => p.seq < q.seq
           /\ \A q \in Pkt : /\ Processed(q)' => Processed(q)
                             /\ Pending(q)' => Pending(q)
                             /\ AtPrev(q)' => AtPrev(q)
                             /\ Coming(q)' => Coming(q)
  <1>1. hwq \in [Cpus -> Seq(Pkt)]  BY DEF TypeOK
  <1>2. /\ mode[c] \in {"loop", "early"} /\ reg[c] = None /\ hwq[c] # << >> /\ p \in Pkt /\ p \in Range(hwq[c])
        /\ p.fg \in Fgs /\ hwq' = [hwq EXCEPT ![c] = Tail(hwq[c])]
    BY PollCases
  <1>3. UNCHANGED <<inTransition, curCpu, targetCpu, prevCpu, reta, remoteq, tail, walk, mode, cmds,
                    enq, timerArmed, sent, log, stranded, cause>>
    BY DEF Poll, fgVars, infoVars, cpVars, locVars
  <1>9. WalksKept  BY <1>3 DEF WalksKept
  <1>4. /\ Range(Tail(hwq[c])) \subseteq Range(hwq[c]) /\ Sorted(Tail(hwq[c]))
        /\ \A q \in Range(Tail(hwq[c])) : q.fg = p.fg => p.seq < q.seq
    BY <1>1, <1>2, Popped DEF Migration, Packets, Queues
  <1>5. hwq'[c] = Tail(hwq[c]) /\ \A x \in Cpus : x # c => hwq'[x] = hwq[x]  BY <1>1, <1>2
  <1>6. \A x \in Cpus : Sorted(hwq'[x]) /\ Range(hwq'[x]) \subseteq Range(hwq[x])
    BY <1>4, <1>5 DEF Migration, Packets, Queues
  <1>7. ASSUME NEW q \in Pkt
        PROVE  /\ Processed(q)' => Processed(q)
               /\ Pending(q)' => Pending(q)
               /\ AtPrev(q)' => AtPrev(q)
               /\ Coming(q)' => Coming(q)
    <2>1. AtPrev(q)' => AtPrev(q)  BY <1>3, <1>6 DEF AtPrev
    <2>2. Coming(q)' => Coming(q)
      <3>1. Owner(q.fg)' = Owner(q.fg)  BY <1>3 DEF Owner
      <3> QED BY <1>6, <3>1 DEF Coming
    <2> QED BY <1>3, <1>9, <2>1, <2>2, StageFrame
  <1>8. mode[c] \notin HandlerModes  BY <1>2 DEF HandlerModes
  <1> QED BY <1>2, <1>3, <1>4, <1>5, <1>6, <1>7, <1>8, <1>9

\* What follows from what can happen to it.
LEMMA PollRest ==
    ASSUME TypeOK, NEW s \in Cpu, NEW d \in Cpu, Migration(s, d), NEW c \in Cpus, NEW p, Poll(c),
           p = Head(hwq[c]), Chain',
           \A x \in Cpus : Sorted(rxq'[x]) /\ \A q \in Range(rxq'[x]) :
             q \in Range(rxq[x]) \/ (~inTransition[q.fg] /\ curCpu[q.fg] = x),
           \A x \in Cpus : Sorted(localq'[x]) /\ \A q \in Range(localq'[x]) :
             q \in Range(localq[x]) \/ (x = d /\ reta[q.fg] = d /\ inTransition[q.fg]),
           lost' \subseteq lost \cup stranded, Asked(d)' <=> Asked(d),
           \A x \in Cpus : reg'[x] = reg[x] \/ (reg'[x] = p /\ inTransition[p.fg] /\ x = c /\ c = s)
    PROVE  Control(s, d)' /\ Packets(s, d)'
  <1>0. Control(s, d) /\ Control(s, d)' /\ Packets(s, d) /\ Placed(s, d)  BY ControlPoll DEF Migration, Packets
  <1>1. UNCHANGED <<inTransition, curCpu, targetCpu, prevCpu, reta, remoteq, tail, walk, mode, cmds,
                    enq, timerArmed, sent, log, stranded, cause>>
    BY PollFrame
  <1>2. \A x \in Cpus : Sorted(hwq'[x]) /\ Range(hwq'[x]) \subseteq Range(hwq[x])  BY PollFrame
  <1>3. p \in Range(hwq[c]) /\ p.fg \in Fgs  BY PollFrame
  <1>4. Queues'
    <2>1. \A x \in Cpus : \A q \in Range(hwq'[x]) : q.seq <= sent[q.fg]  BY <1>0, <1>2 DEF Packets, Queues
    <2> QED BY <1>0, <1>1, <1>2, <2>1 DEF Packets, Queues
  <1>5. LogInOrder'  BY <1>0, <1>1 DEF Packets, LogInOrder
  <1>6. Positions'  BY <1>0, <1>1 DEF Packets, Positions
  <1>7. (Busy(s, d)' <=> Busy(s, d)) /\ (Whole(s, d)' <=> Whole(s, d))
    BY <1>1 DEF Busy, Waiting, Whole, Walking
  <1>8. Tailed(s, d)'  BY <1>0, <1>1, <1>7, TailedSame DEF Packets
  <1>9. Placed(s, d)'
    <2>1. PlacedRx'  BY <1>0, <1>1 DEF Placed, PlacedRx
    <2>2. PlacedLocal(d)'  BY <1>0, <1>1 DEF Placed, PlacedLocal
    <2>3. PlacedWalk(d)'  BY <1>0, <1>1 DEF Placed, PlacedWalk
    <2>4. PlacedHw(d)'  BY <1>0, <1>1, <1>2, PlacedFrame
    <2>5. PlacedRemote(s, d)'
      <3>1. \A q \in Pkt : Processed(q) => Processed(q)'  BY <1>1, StageFrame
      <3> QED BY <1>0, <1>1, <1>7, <3>1, PlacedFrame
    <2>6. ASSUME NEW x \in Cpus, reg'[x] # None
          PROVE  IF Busy(s, d) THEN inTransition[reg'[x].fg]
                 ELSE curCpu[reg'[x].fg] = d /\ reg'[x] \in stranded
      <3>1. CASE reg'[x] = reg[x]  BY <1>0, <2>6, <3>1 DEF Placed, PlacedReg
      <3>2. CASE reg'[x] = p /\ inTransition[p.fg]
        <4>1. Busy(s, d)  BY <1>0, <1>3, <3>2, TransitBusy
        <4> QED BY <3>2, <4>1
      <3> QED BY <3>1, <3>2
    <2>7. PlacedReg(s, d)'  BY <1>1, <1>7, <2>6 DEF PlacedReg
    <2> QED BY <2>1, <2>2, <2>3, <2>4, <2>5, <2>7 DEF Placed
  <1>10. Losses(s, d)'
    <2>0. Losses(s, d)  BY <1>0 DEF Packets
    <2>1. LossNeedsCause'  BY <1>1, <2>0 DEF Losses, LossNeedsCause, Raced
    <2>2. ASSUME NEW x \in Cpus, NEW q \in Range(hwq'[x])
          PROVE  IF inTransition[q.fg] THEN x \in {s, d} ELSE x = curCpu[q.fg] \/ q \in stranded
      BY <1>2, <2>0, <2>2 DEF Losses
    <2>3. ASSUME cause = {}, Asked(d) PROVE Drained(s)' /\ \A g \in Fgs : inTransition[g] => reta[g] = d
      <3>1. Drained(s) /\ \A g \in Fgs : inTransition[g] => reta[g] = d
        BY <2>0, <2>3 DEF Losses
      <3>2. ASSUME NEW g \in Fgs, inTransition[g], NEW q \in Range(hwq'[s]) PROVE q.fg # g
        <4>1. s \in Cpus  BY <1>0, <3>2, TransitQuiet
        <4> QED BY <1>2, <3>1, <3>2, <4>1 DEF Drained
      <3>3. ASSUME NEW x \in Cpus PROVE reg'[x] = reg[x]
        <4>1. ~(inTransition[p.fg] /\ c = s)  BY <1>3, <3>1 DEF Drained
        <4> QED BY <4>1
      <3> QED BY <1>1, <3>1, <3>2, <3>3 DEF Drained
    <2> QED BY <1>1, <2>0, <2>1, <2>2, <2>3 DEF Losses
  <1> QED BY <1>0, <1>4, <1>5, <1>6, <1>8, <1>9, <1>10 DEF Packets

\* At its owner the packet goes into the backlog.
LEMMA PacketsBacklog ==
    ASSUME TypeOK, NEW s \in Cpu, NEW d \in Cpu, Migration(s, d), NEW c \in Cpus, NEW p, Poll(c),
           p = Head(hwq[c]), ~inTransition[p.fg], curCpu[p.fg] = c, EnqueueBacklog(c, p)
    PROVE  Control(s, d)' /\ Packets(s, d)'
  <1>0. rxq \in [Cpus -> Seq(Pkt)]  BY DEF TypeOK
  <1>1. p \in Pkt /\ p.fg \in Fgs /\ p \in Range(hwq[c])  BY PollFrame
  <1>2. UNCHANGED <<inTransition, localq, inbox, reg, lost, sent>> /\ lost' \subseteq lost \cup stranded
    BY PollFrame DEF EnqueueBacklog
  <1>3. rxq' = rxq \/ rxq' = [rxq EXCEPT ![c] = Append(rxq[c], p)]  BY <1>0 DEF EnqueueBacklog
  <1>4. Live(p, 6)
    <2>1. Coming(p)  BY <1>1 DEF Coming, Owner
    <2> QED BY <2>1, Stages
  <1>5. ASSUME NEW q \in Pkt
        PROVE  /\ Processed(q)' => Processed(q)
               /\ Pending(q)' => Pending(q)
               /\ Held(q)' => Held(q)
               /\ AtPrev(q)' => AtPrev(q)
               /\ Parked(q)' => Parked(q)
               /\ Coming(q)' => Coming(q)
    BY <1>2, PollFrame, StageFrame
  <1>6. \A x \in Cpus : \A q \in Range(rxq'[x]) : q \in Range(rxq[x]) \/ (q = p /\ x = c)
    <2>1. Range(Append(rxq[c], p)) = Range(rxq[c]) \cup {p}  BY <1>0, <1>1, Appended
    <2>2. CASE rxq' = rxq  BY <2>2
    <2>3. CASE rxq' = [rxq EXCEPT ![c] = Append(rxq[c], p)]
      <3>1. rxq'[c] = Append(rxq[c], p) /\ \A x \in Cpus : x # c => rxq'[x] = rxq[x]  BY <1>0, <2>3
      <3> QED BY <2>1, <3>1
    <2> QED BY <1>3, <2>2, <2>3
  <1>7. \A x \in Cpus : Sorted(rxq'[x])
    <2>1. ASSUME NEW q \in Range(rxq[c]), q.fg = p.fg PROVE q.seq < p.seq
      <3>1. q \in Pkt  BY QueueTypes
      <3>2. Live(q, 5)  BY <3>1, Stages DEF Queued
      <3>3. 5 \in 0..6 /\ 6 \in 0..6 /\ 5 < 6  OBVIOUS
      <3> QED BY <1>1, <1>4, <2>1, <3>1, <3>2, <3>3 DEF Migration, Packets, Chain
    <2>2. Sorted(rxq[c]) /\ rxq[c] \in Seq(Pkt)  BY <1>0 DEF Migration, Packets, Queues
    <2>3. Sorted(Append(rxq[c], p))  BY <1>1, <2>1, <2>2, SortedAppend
    <2> QED BY <1>0, <1>3, <2>3 DEF Migration, Packets, Queues
  <1>8. Chain'
    <2>1. Moves(p, 5)
      <3>1. \A q \in Pkt : Queued(q)' => Queued(q) \/ q = p  BY <1>6 DEF Queued
      <3> QED BY <1>5, <3>1 DEF Moves, Live
    <2>2. \A q \in Pkt : \A k \in 0..6 : q.fg = p.fg /\ Live(q, k)' /\ 5 < k => 6 <= k
      OBVIOUS
    <2>3. ASSUME NEW q \in Pkt, q.fg = p.fg, Live(q, 6)' PROVE p.seq < q.seq
      <3>1. Coming(q)'  BY <2>3, Stages
      <3>2. Owner(q.fg)' = c  BY <2>3, PollFrame DEF Owner
      <3>3. q \in Range(hwq'[c])  BY <3>1, <3>2 DEF Coming
      <3> QED BY <2>3, <3>3, PollFrame
    <2>4. 5 \in 0..6 /\ 6 \in 0..6 /\ 5 < 6  OBVIOUS
    <2> QED BY <1>1, <1>2, <1>4, <2>1, <2>2, <2>3, <2>4, ChainForward DEF Migration, Packets
  <1>9. \A x \in Cpus : Sorted(rxq'[x]) /\ \A q \in Range(rxq'[x]) :
             q \in Range(rxq[x]) \/ (~inTransition[q.fg] /\ curCpu[q.fg] = x)
    BY <1>6, <1>7
  <1>10. \A x \in Cpus : Sorted(localq'[x]) /\ \A q \in Range(localq'[x]) :
             q \in Range(localq[x]) \/ (x = d /\ reta[q.fg] = d /\ inTransition[q.fg])
    BY <1>2 DEF Migration, Packets, Queues
  <1>11. Asked(d)' <=> Asked(d)  BY <1>2 DEF Asked
  <1>12. \A x \in Cpus : reg'[x] = reg[x] \/ (reg'[x] = p /\ inTransition[p.fg] /\ x = c /\ c = s)  BY <1>2
  <1> QED BY <1>2, <1>8, <1>9, <1>10, <1>11, <1>12, PollRest

\* At the previous CPU it is held.
LEMMA PacketsHeld ==
    ASSUME TypeOK, NEW s \in Cpu, NEW d \in Cpu, Migration(s, d), NEW c \in Cpus, NEW p, Poll(c),
           p = Head(hwq[c]), inTransition[p.fg], prevCpu[p.fg] = c, reg' = [reg EXCEPT ![c] = p],
           UNCHANGED <<rxq, localq, inbox, refused, lost>>
    PROVE  Control(s, d)' /\ Packets(s, d)'
  <1>1. p \in Pkt /\ p.fg \in Fgs /\ p \in Range(hwq[c])  BY PollFrame
  <1>2. UNCHANGED <<inTransition, prevCpu, sent, mode>>  BY PollFrame
  <1>3. c = s  BY <1>1, TransitQuiet DEF Migration
  <1>4. reg'[c] = p /\ \A x \in Cpus : x # c => reg'[x] = reg[x]  BY ControlTypes
  <1>5. Live(p, 3)
    <2>1. AtPrev(p)  BY <1>1 DEF AtPrev
    <2> QED BY <2>1, Stages
  <1>6. ASSUME NEW q \in Pkt
        PROVE  /\ Processed(q)' => Processed(q)
               /\ Pending(q)' => Pending(q)
               /\ AtPrev(q)' => AtPrev(q)
               /\ Parked(q)' => Parked(q)
               /\ Queued(q)' => Queued(q)
               /\ Coming(q)' => Coming(q)
    BY PollFrame, StageFrame
  <1>7. Chain'
    <2>1. Moves(p, 2)
      <3>1. \A q \in Pkt : Held(q)' => Held(q) \/ q = p  BY <1>2, <1>4 DEF Held, Walking
      <3> QED BY <1>6, <3>1 DEF Moves, Live
    <2>2. \A q \in Pkt : \A k \in 0..6 : q.fg = p.fg /\ Live(q, k)' /\ 2 < k => 3 <= k
      OBVIOUS
    <2>3. ASSUME NEW q \in Pkt, q.fg = p.fg, Live(q, 3)' PROVE p.seq < q.seq
      <3>1. AtPrev(q)'  BY <2>3, Stages
      <3>2. q \in Range(hwq'[c])  BY <1>2, <2>3, <3>1 DEF AtPrev
      <3> QED BY <2>3, <3>2, PollFrame
    <2>4. 2 \in 0..6 /\ 3 \in 0..6 /\ 2 < 3  OBVIOUS
    <2> QED BY <1>1, <1>2, <1>5, <2>1, <2>2, <2>3, <2>4, ChainForward DEF Migration, Packets
  <1>8. \A x \in Cpus : Sorted(rxq'[x]) /\ \A q \in Range(rxq'[x]) :
             q \in Range(rxq[x]) \/ (~inTransition[q.fg] /\ curCpu[q.fg] = x)
    BY DEF Migration, Packets, Queues
  <1>9. \A x \in Cpus : Sorted(localq'[x]) /\ \A q \in Range(localq'[x]) :
             q \in Range(localq[x]) \/ (x = d /\ reta[q.fg] = d /\ inTransition[q.fg])
    BY DEF Migration, Packets, Queues
  <1>10. (Asked(d)' <=> Asked(d)) /\ lost' \subseteq lost \cup stranded  BY DEF Asked
  <1>11. \A x \in Cpus : reg'[x] = reg[x] \/ (reg'[x] = p /\ inTransition[p.fg] /\ x = c /\ c = s)
    BY <1>3, <1>4
  <1> QED BY <1>7, <1>8, <1>9, <1>10, <1>11, PollRest

\* At the target it waits for the group.
LEMMA PacketsAtTarget ==
    ASSUME TypeOK, NEW s \in Cpu, NEW d \in Cpu, Migration(s, d), NEW c \in Cpus, NEW p, Poll(c),
           p = Head(hwq[c]), inTransition[p.fg], targetCpu[p.fg] = c, eth_recv_at_target(c, p)
    PROVE  Control(s, d)' /\ Packets(s, d)'
  <1>0. localq \in [Cpus -> Seq(Pkt)]  BY DEF TypeOK
  <1>1. p \in Pkt /\ p.fg \in Fgs /\ p \in Range(hwq[c])  BY PollFrame
  <1>2. UNCHANGED <<inTransition, rxq, reg, lost, sent>> /\ lost' \subseteq lost \cup stranded
    BY PollFrame DEF eth_recv_at_target
  <1>3. localq' = [localq EXCEPT ![c] = Append(localq[c], p)]  BY <1>0 DEF eth_recv_at_target
  <1>4. c = d /\ s # d /\ reta[p.fg] = d
    <2>1. c = d /\ s # d  BY <1>1, TransitQuiet DEF Migration
    <2> QED BY <1>1, <2>1 DEF Migration, Packets, Placed, PlacedHw
  <1>5. Live(p, 6)
    <2>1. Coming(p)  BY <1>1 DEF Coming, Owner
    <2> QED BY <2>1, Stages
  <1>6. ASSUME NEW q \in Pkt
        PROVE  /\ Processed(q)' => Processed(q)
               /\ Pending(q)' => Pending(q)
               /\ Held(q)' => Held(q)
               /\ AtPrev(q)' => AtPrev(q)
               /\ Queued(q)' => Queued(q)
               /\ Coming(q)' => Coming(q)
    BY <1>2, PollFrame, StageFrame
  <1>7. \A x \in Cpus : \A q \in Range(localq'[x]) : q \in Range(localq[x]) \/ (q = p /\ x = c)
    <2>1. Range(Append(localq[c], p)) = Range(localq[c]) \cup {p}  BY <1>0, <1>1, Appended
    <2> QED BY <1>0, <1>3, <2>1
  <1>8. \A x \in Cpus : Sorted(localq'[x])
    <2>1. ASSUME NEW q \in Range(localq[c]), q.fg = p.fg PROVE q.seq < p.seq
      <3>1. q \in Pkt  BY QueueTypes
      <3>2. Live(q, 4)  BY <3>1, Stages DEF Parked
      <3>3. 4 \in 0..6 /\ 6 \in 0..6 /\ 4 < 6  OBVIOUS
      <3> QED BY <1>1, <1>5, <2>1, <3>1, <3>2, <3>3 DEF Migration, Packets, Chain
    <2>2. Sorted(localq[c]) /\ localq[c] \in Seq(Pkt)  BY <1>0 DEF Migration, Packets, Queues
    <2>3. Sorted(Append(localq[c], p))  BY <1>1, <2>1, <2>2, SortedAppend
    <2> QED BY <1>0, <1>3, <2>3 DEF Migration, Packets, Queues
  <1>9. Chain'
    <2>1. Moves(p, 4)
      <3>1. \A q \in Pkt : Parked(q)' => Parked(q) \/ q = p  BY <1>7 DEF Parked
      <3> QED BY <1>6, <3>1 DEF Moves, Live
    <2>2. ASSUME NEW q \in Pkt, NEW k \in 0..6, q.fg = p.fg, Live(q, k)', 4 < k PROVE 6 <= k
      <3>1. ~Queued(q)'
        <4>1. ~Queued(q)  BY <2>2, Located DEF Migration, Packets
        <4> QED BY <1>6, <4>1
      <3>2. k # 5  BY <2>2, <3>1, Stages
      <3> QED BY <2>2, <3>2
    <2>3. ASSUME NEW q \in Pkt, q.fg = p.fg, Live(q, 6)' PROVE p.seq < q.seq
      <3>1. Coming(q)'  BY <2>3, Stages
      <3>2. Owner(q.fg)' = c  BY <2>3, PollFrame DEF Owner
      <3>3. q \in Range(hwq'[c])  BY <3>1, <3>2 DEF Coming
      <3> QED BY <2>3, <3>3, PollFrame
    <2>4. 4 \in 0..6 /\ 6 \in 0..6 /\ 4 < 6  OBVIOUS
    <2> QED BY <1>1, <1>2, <1>5, <2>1, <2>2, <2>3, <2>4, ChainForward DEF Migration, Packets
  <1>10. \A x \in Cpus : Sorted(rxq'[x]) /\ \A q \in Range(rxq'[x]) :
             q \in Range(rxq[x]) \/ (~inTransition[q.fg] /\ curCpu[q.fg] = x)
    BY <1>2 DEF Migration, Packets, Queues
  <1>11. \A x \in Cpus : Sorted(localq'[x]) /\ \A q \in Range(localq'[x]) :
             q \in Range(localq[x]) \/ (x = d /\ reta[q.fg] = d /\ inTransition[q.fg])
    BY <1>4, <1>7, <1>8
  <1>12. Asked(d)' <=> Asked(d)
    <2>1. CASE localq[c] = << >>
      <3>1. cpu_run_on_one(infoPrev[c], [f |-> "early", info |-> None])
        BY <2>1 DEF eth_recv_at_target
      <3>2. [f |-> "early", info |-> None] \in Request  BY DEF Request, Cpu
      <3>3. infoPrev[c] \in Cpus => infoPrev[c] = s  BY ControlTypes DEF Migration, Control, Roles
      <3>4. \A x \in Cpus : x # infoPrev[c] => inbox'[x] = inbox[x]  BY <3>1, <3>2, SendTypes
      <3>5. inbox'[d] = inbox[d]  BY <1>4, <3>3, <3>4
      <3> QED BY <3>5 DEF Asked
    <2>2. CASE localq[c] # << >>  BY <2>2 DEF eth_recv_at_target, Asked
    <2> QED BY <2>1, <2>2
  <1>13. \A x \in Cpus : reg'[x] = reg[x] \/ (reg'[x] = p /\ inTransition[p.fg] /\ x = c /\ c = s)  BY <1>2
  <1> QED BY <1>2, <1>9, <1>10, <1>11, <1>12, <1>13, PollRest

\* Where it has no owner it is dropped; it was stranded there.
LEMMA PacketsDropped ==
    ASSUME TypeOK, NEW s \in Cpu, NEW d \in Cpu, Migration(s, d), NEW c \in Cpus, NEW p, Poll(c),
           p = Head(hwq[c]),
           IF inTransition[p.fg] THEN c \notin {prevCpu[p.fg], targetCpu[p.fg]} ELSE curCpu[p.fg] # c,
           lost' = lost \cup {p}, UNCHANGED <<rxq, localq, inbox, reg>>
    PROVE  Control(s, d)' /\ Packets(s, d)'
  <1>1. p \in Pkt /\ p.fg \in Fgs /\ p \in Range(hwq[c])  BY PollFrame
  <1>2. UNCHANGED <<inTransition, sent>>  BY PollFrame
  <1>3. lost' \subseteq lost \cup stranded
    <2>1. inTransition[p.fg] => prevCpu[p.fg] = s /\ targetCpu[p.fg] = d
      BY <1>1, TransitQuiet DEF Migration
    <2> QED BY <1>1, <2>1 DEF Migration, Packets, Losses
  <1>4. ASSUME NEW q \in Pkt
        PROVE  /\ Processed(q)' => Processed(q)
               /\ Pending(q)' => Pending(q)
               /\ Held(q)' => Held(q)
               /\ AtPrev(q)' => AtPrev(q)
               /\ Parked(q)' => Parked(q)
               /\ Queued(q)' => Queued(q)
               /\ Coming(q)' => Coming(q)
    BY <1>2, PollFrame, StageFrame
  <1>5. Chain'
    <2>1. Stays  BY <1>4 DEF Stays, Live
    <2> QED BY <1>2, <2>1, ChainStays DEF Migration, Packets
  <1>6. \A x \in Cpus : Sorted(rxq'[x]) /\ Sorted(localq'[x])  BY DEF Migration, Packets, Queues
  <1>7. Asked(d)' <=> Asked(d)  BY DEF Asked
  <1> QED BY <1>3, <1>5, <1>6, <1>7, PollRest

\* Refused for its checksum it is nobody's.
LEMMA PacketsBadSum ==
    ASSUME TypeOK, NEW s \in Cpu, NEW d \in Cpu, Migration(s, d), NEW c \in Cpus, NEW p, Poll(c),
           p = Head(hwq[c]), UNCHANGED <<rxq, localq, inbox, reg, lost>>
    PROVE  Control(s, d)' /\ Packets(s, d)'
  <1>1. UNCHANGED <<inTransition, sent>>  BY PollFrame
  <1>2. ASSUME NEW q \in Pkt
        PROVE  /\ Processed(q)' => Processed(q)
               /\ Pending(q)' => Pending(q)
               /\ Held(q)' => Held(q)
               /\ AtPrev(q)' => AtPrev(q)
               /\ Parked(q)' => Parked(q)
               /\ Queued(q)' => Queued(q)
               /\ Coming(q)' => Coming(q)
    BY <1>1, PollFrame, StageFrame
  <1>3. Chain'
    <2>1. Stays  BY <1>2 DEF Stays, Live
    <2> QED BY <1>1, <2>1, ChainStays DEF Migration, Packets
  <1>4. \A x \in Cpus : Sorted(rxq'[x]) /\ Sorted(localq'[x])  BY DEF Migration, Packets, Queues
  <1>5. (Asked(d)' <=> Asked(d)) /\ lost' \subseteq lost \cup stranded  BY DEF Asked
  <1> QED BY <1>3, <1>4, <1>5, PollRest

\* The driver polls.
LEMMA PacketsPoll ==
    ASSUME TypeOK, NEW s \in Cpu, NEW d \in Cpu, Migration(s, d), NEW c \in Cpus, Poll(c)
    PROVE  Control(s, d)' /\ Packets(s, d)'
  <1>p. PICK p : p = Head(hwq[c])  OBVIOUS
  <1>1. \/ ~inTransition[p.fg] /\ curCpu[p.fg] = c /\ EnqueueBacklog(c, p)
        \/ /\ inTransition[p.fg] /\ prevCpu[p.fg] = c
           /\ reg' = [reg EXCEPT ![c] = p]
           /\ UNCHANGED <<rxq, localq, inbox, refused, lost>>
        \/ inTransition[p.fg] /\ targetCpu[p.fg] = c /\ eth_recv_at_target(c, p)
        \/ /\ IF inTransition[p.fg] THEN c \notin {prevCpu[p.fg], targetCpu[p.fg]} ELSE curCpu[p.fg] # c
           /\ lost' = lost \cup {p}
           /\ UNCHANGED <<rxq, localq, inbox, reg>>
        \/ UNCHANGED <<rxq, localq, inbox, reg, lost>>
    BY <1>p, PollCases
  <1> QED BY <1>p, <1>1, PacketsBacklog, PacketsHeld, PacketsAtTarget, PacketsDropped, PacketsBadSum

\* s finds the target's queue, or none: then the packet was stranded.
LEMMA PacketsAtPrev ==
    ASSUME TypeOK, NEW s \in Cpu, NEW d \in Cpu, Migration(s, d), NEW c \in Cpus, eth_recv_at_prev(c)
    PROVE  Control(s, d)' /\ Packets(s, d)'
  <1> DEFINE x == reg[c]
             t == targetCpu[reg[c].fg]
  <1>0. Control(s, d) /\ Control(s, d)' /\ Packets(s, d)  BY ControlAtPrev DEF Migration
  <1>1. reg[c] # None /\ enq[c] = NoEnq /\ enq[c].at = "no"  BY DEF eth_recv_at_prev, NoEnq
  <1>2. /\ c = s /\ s # d /\ s \in Cpus /\ d \in Cpus /\ cmds # 0
        /\ mode[c] \notin AssignModes \cup {"cancel"} \cup HandlerModes
    BY <1>0, <1>1, AtPrevRole
  <1>3. /\ UNCHANGED <<inTransition, curCpu, targetCpu, prevCpu, hwq, reta, rxq, localq, remoteq, tail, walk,
                       log, sent, stranded, cause, cmds, inbox, timerArmed, mode>>
        /\ IF t \in Cpus THEN /\ enq' = [enq EXCEPT ![c] = [NoEnq EXCEPT !.at = "test", !.q = t]]
                              /\ UNCHANGED <<reg, lost>>
           ELSE /\ reg' = [reg EXCEPT ![c] = None]
                /\ lost' = lost \cup {x}
                /\ UNCHANGED enq
    BY DEF eth_recv_at_prev, fgVars, nicVars, queueVars, infoVars, cpVars, locVars
  <1>4. x \in Pkt /\ x.fg \in Fgs /\ x # None  BY <1>1, QueueTypes
  <1>5. t = IF inTransition[x.fg] THEN d ELSE None  BY <1>0, <1>4 DEF Control, Groups
  <1>6. \A y \in Cpus : y # s => enq[y].at = "no" /\ reg[y] = None  BY <1>0 DEF Control, Roles
  <1>7. WalksKept  BY <1>3 DEF WalksKept
  <1>8. (Busy(s, d)' <=> Busy(s, d)) /\ (Whole(s, d)' <=> Whole(s, d)) /\ (Asked(d)' <=> Asked(d))
    BY <1>3, BusySame
  <1> HIDE DEF x, t
  <1>9. CASE inTransition[x.fg]
    <2>1. t = d  BY <1>5, <1>9
    <2>2. enq' = [enq EXCEPT ![s] = [NoEnq EXCEPT !.at = "test", !.q = d]] /\ UNCHANGED <<reg, lost>>
      BY <1>2, <1>3, <2>1
    <2>3. enq'[s].at = "test" /\ \A y \in Cpus : y # s => enq'[y] = enq[y]
      <3>1. enq \in [Cpus -> EnqType]  BY ControlTypes
      <3> QED BY <1>2, <2>2, <3>1 DEF NoEnq
    <2>4. Tailed(s, d)'
      <3>1. \A y \in Cpus : enq'[y].at # "head"  BY <1>6, <2>3
      <3>2. Whole(s, d) => Sorted(remoteq[d]) /\ (remoteq[d] # << >> => tail[d] = Last(remoteq[d]))
        BY <1>0, <1>1, <1>2 DEF Packets, Tailed
      <3> QED BY <1>3, <1>8, <2>3, <3>1, <3>2 DEF Tailed
    <2>5. cause = {} => \A y \in Cpus : enq'[y].at # "no" => timerArmed[y] \/ mode[y] = "early"
      <3>1. Busy(s, d)  BY <1>0, <1>4, <1>9, TransitBusy
      <3>2. mode[s] # "assign"  BY <1>2 DEF AssignModes
      <3>3. timerArmed[s] \/ mode[s] = "early" \/ Asked(d)  BY <3>1, <3>2 DEF Busy, Waiting
      <3>4. cause = {} /\ Asked(d) => Drained(s)  BY <1>0 DEF Packets, Losses
      <3>5. ~Drained(s)  BY <1>2, <1>4, <1>9 DEF Drained, x
      <3> QED BY <1>6, <2>3, <3>3, <3>4, <3>5
    <2> QED BY <1>0, <1>2, <1>3, <1>7, <1>8, <2>2, <2>4, <2>5, PacketsQuiet
  <1>10. CASE ~inTransition[x.fg]
    <2>1. t \notin Cpus  BY <1>5, <1>10, BoundAssumption
    <2>2. reg' = [reg EXCEPT ![s] = None] /\ lost' = lost \cup {x} /\ UNCHANGED enq
      BY <1>2, <1>3, <2>1
    <2>3. \A y \in Cpus : reg'[y] = None
      <3>1. reg'[s] = None /\ \A y \in Cpus : y # s => reg'[y] = reg[y]  BY <1>2, <2>2, ControlTypes
      <3> QED BY <1>6, <3>1
    <2>4. x \in stranded  BY <1>0, <1>2, <1>4, <1>10 DEF Packets, Placed, PlacedReg, x
    <2>5. Chain'
      <3>1. ASSUME NEW p \in Pkt
            PROVE  /\ Processed(p)' => Processed(p)
                   /\ Pending(p)' => Pending(p)
                   /\ ~Held(p)'
                   /\ AtPrev(p)' => AtPrev(p)
                   /\ Parked(p)' => Parked(p)
                   /\ Queued(p)' => Queued(p)
                   /\ Coming(p)' => Coming(p)
        <4>1. ~Held(p)'  BY <2>3 DEF Held
        <4> QED BY <1>3, <1>7, <4>1, StageFrame
      <3>2. Stays  BY <3>1 DEF Stays, Live
      <3> QED BY <1>0, <1>3, <3>2, ChainStays DEF Packets
    <2>6. Queues'  BY <1>0, <1>3 DEF Packets, Queues
    <2>7. LogInOrder'  BY <1>0, <1>3 DEF Packets, LogInOrder
    <2>8. Positions'  BY <1>0, <1>3 DEF Packets, Positions
    <2>9. Tailed(s, d)'  BY <1>0, <1>3, <1>8, <2>2, TailedSame DEF Packets
    <2>10. Placed(s, d)'
      <3>1. Placed(s, d)  BY <1>0 DEF Packets
      <3>2. PlacedRx' /\ PlacedLocal(d)' /\ PlacedWalk(d)' /\ PlacedHw(d)'  BY <1>3, <3>1, PlacedFrame
      <3>3. PlacedRemote(s, d)'
        <4>1. \A p \in Pkt : Processed(p) => Processed(p)'  BY <1>3, StageFrame
        <4> QED BY <1>3, <1>8, <3>1, <4>1, PlacedFrame
      <3>4. PlacedReg(s, d)'  BY <2>3 DEF PlacedReg
      <3> QED BY <3>2, <3>3, <3>4 DEF Placed
    <2>11. Losses(s, d)'
      <3>0. Losses(s, d)  BY <1>0 DEF Packets
      <3>1. LossNeedsCause'  BY <1>3, <2>2, <2>4, <3>0 DEF Losses, LossNeedsCause, Raced
      <3>2. Drained(s) => Drained(s)'  BY <1>3, <2>3 DEF Drained
      <3> QED BY <1>3, <1>8, <2>2, <3>0, <3>1, <3>2 DEF Losses
    <2> QED BY <1>0, <2>5, <2>6, <2>7, <2>8, <2>9, <2>10, <2>11 DEF Packets
  <1> QED BY <1>9, <1>10

\* The packet goes to the end of a queue nobody has begun to empty.
LEMMA LinkWhole ==
    ASSUME TypeOK, NEW s \in Cpu, NEW d \in Cpu, Migration(s, d), NEW c \in Cpus, EnqueueLink(c),
           UNCHANGED mode, Whole(s, d), NEW x, x = reg[c]
    PROVE  /\ Range(remoteq'[d]) = Range(remoteq[d]) \cup {x} /\ remoteq'[d] # << >>
           /\ Sorted(remoteq'[d]) /\ Last(remoteq'[d]) = x
           /\ IF walk[d] = << >> THEN walk'[d] = << >>
              ELSE /\ Range(walk'[d]) = Range(walk[d]) \cup {x} /\ walk'[d] # << >>
                   /\ Sorted(walk'[d]) /\ Last(walk'[d]) = x
           /\ \A y \in Cpus : y # d => remoteq'[y] = remoteq[y] /\ walk'[y] = walk[y]
           /\ lost' = lost /\ x \in Pkt /\ Held(x) /\ (inTransition[x.fg] \/ curCpu[x.fg] = d)
  <1>0. Control(s, d) /\ Packets(s, d)  BY DEF Migration
  <1>1. enq[c].at \in {"head", "link"} /\ enq[c].at # "no"  BY DEF EnqueueLink
  <1>2. /\ c = s /\ s # d /\ s \in Cpus /\ d \in Cpus /\ cmds # 0
        /\ mode[c] \notin AssignModes \cup {"cancel"} \cup HandlerModes
    BY <1>0, <1>1, AtPrevRole
  <1>3. enq[c].q = d  BY <1>0, <1>1 DEF Control, Roles
  <1>4. reg[c] \in Pkt /\ reg[c] # None /\ x \in Pkt /\ x.fg \in Fgs
    BY LinkCases, PktType, NullAssumption DEF Pkt
  <1>5. Sorted(remoteq[d]) /\ Sorted(walk[d]) /\ remoteq[d] \in Seq(Pkt) /\ walk[d] \in Seq(Pkt)
    BY <1>0, <1>2, QueueTypes DEF Packets, Tailed, Queues
  <1>6. /\ enq[c].at = "head" => remoteq[d] = << >>
        /\ enq[c].at = "link" => remoteq[d] # << >> /\ tail[d] = Last(remoteq[d])
    BY <1>0, <1>2, <1>3 DEF Packets, Tailed
  <1>7. walk[d] # << >> => mode[d] = "drain" /\ remoteq[d] # << >> /\ Last(walk[d]) = Last(remoteq[d])
    BY <1>0, <1>2 DEF Packets, Positions
  <1>8. Held(x) /\ (inTransition[x.fg] \/ (curCpu[x.fg] = d /\ Walking(d) /\ ~Busy(s, d)))
    <2>1. inTransition[x.fg] \/ (curCpu[x.fg] = d /\ Walking(d) /\ ~Busy(s, d))
      BY <1>0, <1>4 DEF Packets, Placed, PlacedReg, Whole
    <2> QED BY <1>2, <1>4, <2>1 DEF Held
  <1>9. ASSUME NEW q \in Range(remoteq[d]) \cup Range(walk[d]), q.fg = x.fg PROVE q.seq < x.seq
    <2>1. q \in Pkt  BY <1>2, QueueTypes
    <2>2. Live(x, 2)  BY <1>8, Stages
    <2>3. Live(q, 0) \/ Live(q, 1)
      <3>1. CASE q \in Range(walk[d])  BY <1>2, <3>1, Stages DEF Pending
      <3>2. CASE q \in Range(remoteq[d]) /\ (inTransition[q.fg] \/ mode[d] = "readHead")
        BY <1>2, <3>2, Stages DEF Pending
      <3>3. CASE q \in Range(remoteq[d]) /\ ~inTransition[q.fg] /\ mode[d] # "readHead"
        <4>1. mode[d] = "drain" /\ ~Busy(s, d)  BY <1>8, <1>9, <3>3 DEF Walking
        <4>2. q \in Range(walk[d]) \/ Processed(q)
          BY <1>0, <1>2, <3>3, <4>1 DEF Packets, Placed, PlacedRemote
        <4> QED BY <3>1, <4>2, Stages
      <3> QED BY <1>9, <3>1, <3>2, <3>3
    <2>4. 0 \in 0..6 /\ 1 \in 0..6 /\ 2 \in 0..6 /\ 0 < 2 /\ 1 < 2  OBVIOUS
    <2> QED BY <1>0, <1>4, <1>9, <2>1, <2>2, <2>3, <2>4 DEF Packets, Chain
  <1> DEFINE r == <<x>>
  <1>10. r \in Seq(Pkt) /\ r # << >> /\ Range(r) = {x} /\ Sorted(r) /\ Last(r) = x  BY <1>4, OneIs
  <1>11. reg' # reg
    <2>1. ~(enq[c].at = "link" /\ tail[enq[c].q] = None)
      <3>1. SUFFICES ASSUME enq[c].at = "link", tail[enq[c].q] = None PROVE FALSE  OBVIOUS
      <3>2. Last(remoteq[d]) \in Pkt  BY <1>5, <1>6, <3>1, LastOf
      <3>3. tail[d] = Last(remoteq[d]) /\ tail[d] = None  BY <1>3, <1>6, <3>1
      <3>4. None \notin Pkt  BY NullAssumption DEF Pkt
      <3> QED BY <3>2, <3>3, <3>4
    <2>2. reg' = [reg EXCEPT ![c] = None]  BY <2>1, LinkCases
    <2>3. reg \in [Cpus -> Pkt \cup {None}]  BY DEF TypeOK
    <2> QED BY <1>4, <2>2, <2>3
  <1>12. \/ enq[c].at = "head" /\ PutHead(d, r)
         \/ enq[c].at = "link" /\ PutNext(d, r)
    <2>1. \/ enq[c].at = "head" /\ PutHead(enq[c].q, <<reg[c]>>)
          \/ enq[c].at = "link" /\ PutNext(enq[c].q, <<reg[c]>>)
          \/ reg' = reg
      BY LinkCases
    <2> QED BY <1>3, <1>11, <2>1
  <1> HIDE DEF r
  <1>13. CASE enq[c].at = "head" /\ PutHead(d, r)
    <2>1. remoteq[d] = << >> /\ Range(remoteq[d]) = {} /\ walk[d] = << >>
      BY <1>6, <1>7, <1>13, RangeEmpty
    <2>2. /\ remoteq'[d] = r /\ \A y \in Cpus : y # d => remoteq'[y] = remoteq[y]
          /\ walk' = walk
          /\ lost' = lost \cup {p \in Range(remoteq[d]) \ Range(walk[d]) : ~Processed(p)}
      BY <1>2, <1>10, <1>13, PutIs
    <2> QED BY <1>4, <1>8, <1>10, <2>1, <2>2
  <1>14. CASE enq[c].at = "link" /\ PutNext(d, r)
    <2>1. remoteq[d] # << >> /\ tail[d] = Last(remoteq[d])  BY <1>6, <1>14
    <2>2. /\ remoteq'[d] = Linked(remoteq[d], tail[d], r)
          /\ walk'[d] = Linked(walk[d], tail[d], r)
          /\ \A y \in Cpus : y # d => remoteq'[y] = remoteq[y] /\ walk'[y] = walk[y]
          /\ lost' = lost \cup {p \in (Range(remoteq[d]) \cup Range(walk[d]) \cup Range(r))
                                      \ (Range(remoteq'[d]) \cup Range(walk'[d])) : ~Processed(p)}
      BY <1>2, <1>10, <1>14, PutIs
    <2>3. remoteq'[d] = remoteq[d] \o r  BY <1>5, <1>10, <2>1, <2>2, LinkedIs
    <2>4. \A y \in Range(remoteq[d]), z \in Range(r) : y.fg = z.fg => y.seq < z.seq  BY <1>9, <1>10
    <2>5. Range(remoteq[d] \o r) = Range(remoteq[d]) \cup Range(r) /\ Sorted(remoteq[d] \o r)
      BY <1>5, <1>10, <2>4, Joined
    <2>6. remoteq[d] \o r # << >> /\ Last(remoteq[d] \o r) = x  BY <1>5, <1>10, LastsOf
    <2>7. CASE walk[d] = << >>
      <3>1. walk'[d] = << >>  BY <2>2, <2>7, RangeEmpty DEF Linked
      <3>2. lost' = lost  BY <2>2, <2>3, <2>5, <2>7, RangeEmpty
      <3> QED BY <1>4, <1>8, <1>10, <2>2, <2>3, <2>5, <2>6, <2>7, <3>1, <3>2
    <2>8. CASE walk[d] # << >>
      <3>0. tail[d] = Last(walk[d])  BY <1>7, <2>1, <2>8
      <3>1. walk'[d] = walk[d] \o r  BY <1>5, <1>10, <2>2, <2>8, <3>0, LinkedIs
      <3>2. \A y \in Range(walk[d]), z \in Range(r) : y.fg = z.fg => y.seq < z.seq  BY <1>9, <1>10
      <3>3. Range(walk[d] \o r) = Range(walk[d]) \cup Range(r) /\ Sorted(walk[d] \o r)
        BY <1>5, <1>10, <3>2, Joined
      <3>4. walk[d] \o r # << >> /\ Last(walk[d] \o r) = x  BY <1>5, <1>10, LastsOf
      <3>5. lost' = lost  BY <2>2, <2>3, <2>5, <3>1, <3>3
      <3> QED BY <1>4, <1>8, <1>10, <2>2, <2>3, <2>5, <2>6, <2>8, <3>1, <3>3, <3>4, <3>5
    <2> QED BY <2>7, <2>8
  <1> QED BY <1>12, <1>13, <1>14

\* To one that is emptied it is added too late: it was stranded.
LEMMA LinkLate ==
    ASSUME TypeOK, NEW s \in Cpu, NEW d \in Cpu, Migration(s, d), NEW c \in Cpus, EnqueueLink(c),
           UNCHANGED mode, ~Whole(s, d), NEW x, x = reg[c]
    PROVE  /\ Range(remoteq'[d]) \subseteq Range(remoteq[d]) \cup {x}
           /\ enq[c].at = "head" => remoteq[d] = << >>
           /\ walk[d] = << >> /\ walk'[d] = << >>
           /\ \A y \in Cpus : y # d => remoteq'[y] = remoteq[y] /\ walk'[y] = walk[y]
           /\ lost' \subseteq lost \cup stranded /\ x \in Pkt /\ x \in stranded
           /\ ~inTransition[x.fg]
  <1>0. Control(s, d) /\ Packets(s, d)  BY DEF Migration
  <1>1. enq[c].at \in {"head", "link"} /\ enq[c].at # "no"  BY DEF EnqueueLink
  <1>2. c = s /\ s # d /\ s \in Cpus /\ d \in Cpus /\ cmds # 0  BY <1>0, <1>1, AtPrevRole
  <1>3. enq[c].q = d /\ (enq[c].at = "head" => remoteq[d] = << >>)
    BY <1>0, <1>1 DEF Control, Roles, Packets, Tailed
  <1>4. reg[c] \in Pkt /\ reg[c] # None /\ x \in Pkt /\ x.fg \in Fgs
    BY LinkCases, PktType, NullAssumption DEF Pkt
  <1>5. ~Busy(s, d) /\ ~Walking(d)  BY DEF Whole
  <1>6. x \in stranded /\ ~inTransition[x.fg]
    <2>1. x \in stranded  BY <1>0, <1>4, <1>5 DEF Packets, Placed, PlacedReg
    <2>2. ~inTransition[x.fg]  BY <1>0, <1>4, <1>5, TransitBusy
    <2> QED BY <2>1, <2>2
  <1>7. walk[d] = << >> /\ remoteq[d] \in Seq(Pkt) /\ walk[d] \in Seq(Pkt)
    BY <1>0, <1>2, <1>5, QueueTypes DEF Packets, Positions, Walking
  <1>8. \A q \in Range(remoteq[d]) : Processed(q) \/ q \in stranded
    BY <1>0, <1>2, <1>5, <1>7, RangeEmpty DEF Packets, Placed, PlacedRemote, Walking
  <1> DEFINE r == <<x>>
  <1>10. r \in Seq(Pkt) /\ r # << >> /\ Range(r) = {x}  BY <1>4, OneIs
  <1>12. PutHead(d, r) \/ PutNext(d, r) \/ (remoteq' = remoteq /\ walk' = walk /\ lost' = lost)
    BY <1>3, LinkCases
  <1> HIDE DEF r
  <1>13. CASE PutHead(d, r)
    <2>1. /\ remoteq'[d] = r /\ \A y \in Cpus : y # d => remoteq'[y] = remoteq[y]
          /\ walk' = walk
          /\ lost' = lost \cup {p \in Range(remoteq[d]) \ Range(walk[d]) : ~Processed(p)}
      BY <1>2, <1>10, <1>13, PutIs
    <2>2. lost' \subseteq lost \cup stranded  BY <1>8, <2>1
    <2> QED BY <1>3, <1>4, <1>6, <1>7, <1>10, <2>1, <2>2
  <1>14. CASE PutNext(d, r)
    <2>1. /\ remoteq'[d] = Linked(remoteq[d], tail[d], r)
          /\ walk'[d] = Linked(walk[d], tail[d], r)
          /\ \A y \in Cpus : y # d => remoteq'[y] = remoteq[y] /\ walk'[y] = walk[y]
          /\ lost' = lost \cup {p \in (Range(remoteq[d]) \cup Range(walk[d]) \cup Range(r))
                                      \ (Range(remoteq'[d]) \cup Range(walk'[d])) : ~Processed(p)}
      BY <1>2, <1>10, <1>14, PutIs
    <2>2. Range(remoteq'[d]) \subseteq Range(remoteq[d]) \cup {x}  BY <1>7, <1>10, <2>1, LinkedIs
    <2>3. walk'[d] = << >>  BY <1>7, <2>1, RangeEmpty DEF Linked
    <2>4. lost' \subseteq lost \cup stranded  BY <1>6, <1>7, <1>8, <1>10, <2>1, RangeEmpty
    <2> QED BY <1>3, <1>4, <1>6, <1>7, <2>1, <2>2, <2>3, <2>4
  <1>15. CASE remoteq' = remoteq /\ walk' = walk /\ lost' = lost
    BY <1>3, <1>4, <1>6, <1>7, <1>15
  <1> QED BY <1>12, <1>13, <1>14, <1>15

\* The packet s holds is linked.
LEMMA PacketsLink ==
    ASSUME TypeOK, NEW s \in Cpu, NEW d \in Cpu, Migration(s, d), NEW c \in Cpus, EnqueueLink(c),
           UNCHANGED mode
    PROVE  Control(s, d)' /\ Packets(s, d)'
  <1>0. Control(s, d) /\ Control(s, d)' /\ Packets(s, d)  BY ControlLink DEF Migration
  <1>1. enq[c].at \in {"head", "link"} /\ enq[c].at # "no"  BY DEF EnqueueLink
  <1>2. c = s /\ s # d /\ s \in Cpus /\ d \in Cpus /\ cmds # 0  BY <1>0, <1>1, AtPrevRole
  <1>3. enq[c].q = d /\ \A y \in Cpus : y # s => enq[y].at = "no" /\ reg[y] = None
    BY <1>0, <1>1 DEF Control, Roles
  <1>x. PICK x : x = reg[c]  OBVIOUS
  <1>4. x \in Pkt /\ x.fg \in Fgs /\ reg[s] = x /\ x # None
    BY <1>2, <1>x, LinkCases, PktType, NullAssumption DEF Pkt
  <1>5. UNCHANGED <<inTransition, curCpu, targetCpu, prevCpu, hwq, reta, rxq, localq, tail, log, sent,
                    stranded, cause, cmds, inbox, timerArmed, mode>>
    BY LinkCases
  <1>6. reg' = [reg EXCEPT ![s] = None] /\ enq' = [enq EXCEPT ![s] = [at |-> "tail", q |-> d, pkt |-> x]]
    <2>1. ~Goto(c, "oops") \/ mode[c] = "oops"  BY ControlTypes DEF Goto
    <2> QED BY <1>2, <1>3, <1>x, <2>1 DEF EnqueueLink
  <1>7. \A y \in Cpus : reg'[y] = None
    <2>1. reg'[s] = None /\ \A y \in Cpus : y # s => reg'[y] = reg[y]  BY <1>2, <1>6, ControlTypes
    <2> QED BY <1>3, <2>1
  <1>8. enq'[s].at = "tail" /\ enq'[s].pkt = x /\ \A y \in Cpus : y # s => enq'[y].at = "no"
    <2>1. enq \in [Cpus -> EnqType]  BY ControlTypes
    <2> QED BY <1>2, <1>3, <1>6, <2>1
  <1>9. WalksKept  BY <1>5 DEF WalksKept
  <1>10. (Busy(s, d)' <=> Busy(s, d)) /\ (Whole(s, d)' <=> Whole(s, d)) /\ (Asked(d)' <=> Asked(d))
    BY <1>5, BusySame
  <1>11. ASSUME NEW p \in Pkt
         PROVE  /\ Processed(p)' <=> Processed(p)
                /\ ~Held(p)'
                /\ AtPrev(p)' => AtPrev(p)
                /\ Parked(p)' => Parked(p)
                /\ Queued(p)' => Queued(p)
                /\ Coming(p)' => Coming(p)
    <2>1. ~Held(p)'  BY <1>7 DEF Held
    <2> QED BY <1>5, <2>1, StageFrame
  <1>12. \A y \in Cpus : y # d => remoteq'[y] = remoteq[y] /\ walk'[y] = walk[y]
    BY <1>x, LinkWhole, LinkLate
  <1>13. (mode[d] = "drain" <=> walk[d] # << >>) /\ (Busy(s, d) => ~Walking(d))
    <2>1. mode[d] = "drain" <=> walk[d] # << >>  BY <1>0, <1>2 DEF Packets, Positions, TypeOK
    <2>2. Busy(s, d) => mode[d] \notin HandlerModes
      BY <1>0, <1>2 DEF Control, Assigning, Tokens, Busy
    <2> QED BY <2>1, <2>2 DEF Walking, HandlerModes
  <1>14. Chain'
    <2>1. CASE Whole(s, d)
      <3>1. /\ Range(remoteq'[d]) \subseteq Range(remoteq[d]) \cup {x}
            /\ Range(walk'[d]) \subseteq Range(walk[d]) \cup {x} /\ Held(x)
        BY <1>x, <2>1, LinkWhole
      <3>2. ASSUME NEW p \in Pkt, Pending(p)' PROVE Pending(p) \/ p = x
        <4>1. PICK y \in Cpus : p \in Range(walk'[y]) \/
                 (p \in Range(remoteq'[y]) /\ (inTransition[p.fg] \/ mode[y] = "readHead"))
          BY <1>5, <3>2 DEF Pending
        <4>2. CASE y = d  BY <1>2, <3>1, <4>1, <4>2 DEF Pending
        <4>3. CASE y # d  BY <1>12, <4>1, <4>3 DEF Pending
        <4> QED BY <4>2, <4>3
      <3>3. Moves(x, 1)  BY <1>11, <3>2 DEF Moves, Live
      <3>4. \A q \in Pkt : \A k \in 0..6 : q.fg = x.fg /\ Live(q, k)' /\ 1 < k => 2 <= k  OBVIOUS
      <3>5. \A q \in Pkt : ~Live(q, 2)'  BY <1>11, Stages
      <3>6. Live(x, 2)  BY <3>1, Stages
      <3>7. 1 \in 0..6 /\ 2 \in 0..6 /\ 1 < 2  OBVIOUS
      <3> QED BY <1>0, <1>4, <1>5, <3>3, <3>4, <3>5, <3>6, <3>7, ChainForward DEF Packets
    <2>2. CASE ~Whole(s, d)
      <3>1. /\ Range(remoteq'[d]) \subseteq Range(remoteq[d]) \cup {x}
            /\ walk[d] = << >> /\ walk'[d] = << >> /\ ~inTransition[x.fg]
        BY <1>x, <2>2, LinkLate
      <3>2. mode[d] # "readHead"  BY <2>2 DEF Whole, Walking
      <3>3. ASSUME NEW p \in Pkt, Pending(p)' PROVE Pending(p)
        <4>1. PICK y \in Cpus : p \in Range(walk'[y]) \/
                 (p \in Range(remoteq'[y]) /\ (inTransition[p.fg] \/ mode[y] = "readHead"))
          BY <1>5, <3>3 DEF Pending
        <4>2. CASE y = d  BY <1>2, <3>1, <3>2, <4>1, <4>2 DEF Pending
        <4>3. CASE y # d  BY <1>12, <4>1, <4>3 DEF Pending
        <4> QED BY <4>2, <4>3
      <3>4. Stays  BY <1>11, <3>3 DEF Stays, Live
      <3> QED BY <1>0, <1>5, <3>4, ChainStays DEF Packets
    <2> QED BY <2>1, <2>2
  <1>15. Sorted(walk'[d])
    <2>1. Whole(s, d) => walk'[d] = << >> \/ Sorted(walk'[d])  BY <1>x, LinkWhole
    <2>2. ~Whole(s, d) => walk'[d] = << >>  BY <1>x, LinkLate
    <2> QED BY <2>1, <2>2, RangeEmpty
  <1>16. Queues'
    <2>1. \A y \in Cpus : Sorted(walk'[y])
      <3>1. \A y \in Cpus : y # d => Sorted(walk'[y])  BY <1>0, <1>12 DEF Packets, Queues
      <3> QED BY <1>15, <3>1
    <2> QED BY <1>0, <1>5, <2>1 DEF Packets, Queues
  <1>17. LogInOrder'  BY <1>0, <1>5 DEF Packets, LogInOrder
  <1>18. Positions'
    <2>1. ASSUME NEW y \in Cpus, y # d
          PROVE  /\ mode[y] # "drain" => walk'[y] = << >>
                 /\ mode[y] = "drain" => remoteq'[y] # << >> /\ Last(walk'[y]) = Last(remoteq'[y])
      BY <1>0, <1>12, <2>1 DEF Packets, Positions
    <2>2. CASE Whole(s, d)
      <3>1. /\ remoteq'[d] # << >> /\ Last(remoteq'[d]) = x
            /\ IF walk[d] = << >> THEN walk'[d] = << >> ELSE Last(walk'[d]) = x
        BY <1>x, <2>2, LinkWhole
      <3> QED BY <1>5, <1>13, <2>1, <3>1 DEF Positions
    <2>3. CASE ~Whole(s, d)
      <3>1. walk[d] = << >> /\ walk'[d] = << >>  BY <1>x, <2>3, LinkLate
      <3> QED BY <1>5, <1>13, <2>1, <3>1 DEF Positions
    <2> QED BY <2>2, <2>3
  <1>19. Tailed(s, d)'
    <2>1. Whole(s, d) => remoteq'[d] # << >> /\ Last(remoteq'[d]) = x /\ Sorted(remoteq'[d])
      BY <1>x, LinkWhole
    <2>2. \A y \in Cpus : enq'[y].at # "head"  BY <1>8
    <2> QED BY <1>8, <1>10, <2>1, <2>2 DEF Tailed
  <1>20. Placed(s, d)'
    <2>1. Placed(s, d)  BY <1>0 DEF Packets
    <2>2. PlacedRx' /\ PlacedLocal(d)' /\ PlacedHw(d)'  BY <1>5, <2>1, PlacedFrame
    <2>3. IF Busy(s, d) THEN inTransition[x.fg] ELSE curCpu[x.fg] = d
      BY <1>2, <1>4, <2>1 DEF Placed, PlacedReg
    <2>4. PlacedWalk(d)'
      <3>1. ASSUME NEW p \in Range(walk'[d]) PROVE curCpu[p.fg] = d
        <4>1. CASE Whole(s, d) /\ walk[d] # << >>
          <5>1. p \in Range(walk[d]) \/ p = x  BY <1>x, <3>1, <4>1, LinkWhole
          <5>2. ~Busy(s, d)  BY <1>13, <4>1 DEF Walking
          <5> QED BY <1>2, <2>1, <2>3, <5>1, <5>2 DEF Placed, PlacedWalk
        <4>2. CASE ~Whole(s, d) \/ walk[d] = << >>
          <5>1. walk'[d] = << >>  BY <1>x, <4>2, LinkWhole, LinkLate
          <5> QED BY <3>1, <5>1, RangeEmpty
        <4> QED BY <4>1, <4>2
      <3>2. ASSUME NEW y \in Cpus, NEW p \in Range(walk'[y]), y # d PROVE FALSE
        BY <1>12, <2>1, <3>2 DEF Placed, PlacedWalk
      <3> QED BY <1>5, <3>1, <3>2 DEF PlacedWalk
    <2>5. PlacedRemote(s, d)'
      <3>1. ASSUME NEW y \in Cpus, NEW p \in Range(remoteq'[y]), y # d PROVE FALSE
        BY <1>12, <2>1, <3>1 DEF Placed, PlacedRemote
      <3>2. ASSUME NEW p \in Range(remoteq'[d])
            PROVE  IF Busy(s, d) THEN inTransition[p.fg]
                   ELSE IF mode[d] = "readHead" THEN curCpu[p.fg] = d
                   ELSE p \in Range(walk'[d]) \/ Processed(p)' \/ (mode[d] # "drain" /\ p \in stranded)
        <4>1. p \in Range(remoteq[d]) => p \in Pkt  BY <1>2, QueueTypes
        <4>2. p \in Range(remoteq[d]) =>
                IF Busy(s, d) THEN inTransition[p.fg]
                ELSE IF mode[d] = "readHead" THEN curCpu[p.fg] = d
                ELSE p \in Range(walk[d]) \/ Processed(p)' \/ (mode[d] # "drain" /\ p \in stranded)
          BY <1>2, <1>11, <2>1, <4>1 DEF Placed, PlacedRemote
        <4>3. CASE Whole(s, d)
          <5>1. /\ p \in Range(remoteq[d]) \/ p = x
                /\ walk[d] # << >> => Range(walk'[d]) = Range(walk[d]) \cup {x}
            BY <1>x, <3>2, <4>3, LinkWhole
          <5>2. ~Busy(s, d) /\ mode[d] # "readHead" => walk[d] # << >>
            BY <1>13, <4>3 DEF Whole, Walking
          <5> QED BY <2>3, <4>2, <5>1, <5>2
        <4>4. CASE ~Whole(s, d)
          <5>1. (p \in Range(remoteq[d]) \/ p = x) /\ x \in stranded /\ walk[d] = << >>
            BY <1>x, <3>2, <4>4, LinkLate
          <5>2. ~Busy(s, d) /\ mode[d] # "readHead" /\ mode[d] # "drain"
            BY <4>4 DEF Whole, Walking
          <5> QED BY <4>2, <5>1, <5>2, RangeEmpty
        <4> QED BY <4>3, <4>4
      <3> QED BY <1>5, <1>10, <3>1, <3>2 DEF PlacedRemote
    <2>6. PlacedReg(s, d)'  BY <1>7 DEF PlacedReg
    <2> QED BY <2>2, <2>4, <2>5, <2>6 DEF Placed
  <1>21. Losses(s, d)'
    <2>0. Losses(s, d)  BY <1>0 DEF Packets
    <2>1. lost' \subseteq lost \cup stranded  BY <1>x, LinkWhole, LinkLate
    <2>2. LossNeedsCause'  BY <1>5, <2>0, <2>1 DEF Losses, LossNeedsCause, Raced
    <2>3. Drained(s) => Drained(s)'  BY <1>5, <1>7 DEF Drained
    <2>4. cause = {} => \A y \in Cpus : enq'[y].at # "no" => timerArmed[y] \/ mode[y] = "early"
      <3>1. cause = {} => timerArmed[s] \/ mode[s] = "early"  BY <1>1, <1>2, <2>0 DEF Losses
      <3> QED BY <1>8, <3>1
    <2> QED BY <1>5, <1>10, <2>0, <2>2, <2>3, <2>4 DEF Losses
  <1> QED BY <1>0, <1>14, <1>16, <1>17, <1>18, <1>19, <1>20, <1>21 DEF Packets

\* The backlog of a group is put at the end of a queue nobody walks.
LEMMA MoveWhole ==
    ASSUME TypeOK, NEW s \in Cpus, NEW d \in Cpus, NEW g, migrate_pkts_to_remote(s, g, d), walk[d] = << >>,
           Sorted(remoteq[d]), Sorted(rxq[s]), remoteq[d] # << >> => tail[d] = Last(remoteq[d])
    PROVE  /\ rxq' = [rxq EXCEPT ![s] = OfOthers(s, g)]
           /\ remoteq' = [remoteq EXCEPT ![d] = remoteq[d] \o OfGroup(s, g)]
           /\ remoteq'[d] # << >> => tail'[d] = Last(remoteq'[d])
           /\ UNCHANGED <<walk, lost, mode>>
  <1> DEFINE r == OfGroup(s, g)
  <1>1. r \in Seq(Pkt) /\ Sorted(r)  BY PartsIs
  <1>2. /\ remoteq \in [Cpus -> Seq(Pkt)] /\ walk \in [Cpus -> Seq(Pkt)] /\ remoteq[d] \in Seq(Pkt)
    BY DEF TypeOK
  <1>3. rxq' = [rxq EXCEPT ![s] = OfOthers(s, g)]  BY DEF migrate_pkts_to_remote
  <1>4. \/ r = << >> /\ UNCHANGED <<remoteq, tail, walk, lost, mode>>
        \/ remoteq[d] # << >> /\ tail[d] = None
        \/ /\ r # << >> /\ tail' = [tail EXCEPT ![d] = Last(r)] /\ mode' = mode
           /\ \/ remoteq[d] = << >> /\ PutHead(d, r)
              \/ remoteq[d] # << >> /\ PutNext(d, r)
    BY DEF migrate_pkts_to_remote
  <1> HIDE DEF r
  <1>5. CASE r = << >> /\ UNCHANGED <<remoteq, tail, walk, lost, mode>>
    <2>1. remoteq[d] \o r = remoteq[d]  BY <1>2, <1>5
    <2> QED BY <1>2, <1>3, <1>5, <2>1 DEF r
  <1>6. CASE remoteq[d] # << >> /\ tail[d] = None
    <2>1. Last(remoteq[d]) \in Pkt  BY <1>2, <1>6, LastOf
    <2> QED BY <1>6, <2>1, NullAssumption DEF Pkt
  <1>7. ASSUME r # << >>, tail' = [tail EXCEPT ![d] = Last(r)], mode' = mode,
               remoteq'[d] = remoteq[d] \o r, \A y \in Cpus : y # d => remoteq'[y] = remoteq[y],
               remoteq' \in [Cpus -> Seq(Pkt)], walk' = walk, lost' = lost
        PROVE  /\ remoteq' = [remoteq EXCEPT ![d] = remoteq[d] \o r]
               /\ remoteq'[d] # << >> => tail'[d] = Last(remoteq'[d])
               /\ UNCHANGED <<walk, lost, mode>>
    <2>1. Last(remoteq[d] \o r) = Last(r)  BY <1>1, <1>2, <1>7, LastsOf
    <2>2. tail'[d] = Last(r)  BY <1>7 DEF TypeOK
    <2> QED BY <1>2, <1>7, <2>1, <2>2
  <1>8. CASE /\ r # << >> /\ tail' = [tail EXCEPT ![d] = Last(r)] /\ mode' = mode
             /\ remoteq[d] = << >> /\ PutHead(d, r)
    <2>1. /\ remoteq' \in [Cpus -> Seq(Pkt)] /\ walk' = walk
          /\ remoteq'[d] = r /\ \A y \in Cpus : y # d => remoteq'[y] = remoteq[y]
          /\ lost' = lost \cup {p \in Range(remoteq[d]) \ Range(walk[d]) : ~Processed(p)}
      BY <1>1, <1>8, PutIs
    <2>2. lost' = lost  BY <1>8, <2>1, RangeEmpty
    <2>3. remoteq[d] \o r = r  BY <1>1, <1>8
    <2> QED BY <1>3, <1>7, <1>8, <2>1, <2>2, <2>3 DEF r
  <1>9. CASE /\ r # << >> /\ tail' = [tail EXCEPT ![d] = Last(r)] /\ mode' = mode
             /\ remoteq[d] # << >> /\ PutNext(d, r)
    <2>1. /\ remoteq' \in [Cpus -> Seq(Pkt)] /\ walk' \in [Cpus -> Seq(Pkt)]
          /\ remoteq'[d] = Linked(remoteq[d], tail[d], r)
          /\ walk'[d] = Linked(walk[d], tail[d], r)
          /\ \A y \in Cpus : y # d => remoteq'[y] = remoteq[y] /\ walk'[y] = walk[y]
          /\ lost' = lost \cup {p \in (Range(remoteq[d]) \cup Range(walk[d]) \cup Range(r))
                                      \ (Range(remoteq'[d]) \cup Range(walk'[d])) : ~Processed(p)}
      BY <1>1, <1>9, PutIs
    <2>2. remoteq'[d] = remoteq[d] \o r  BY <1>1, <1>2, <1>9, <2>1, LinkedIs
    <2>3. Range(remoteq[d] \o r) = Range(remoteq[d]) \cup Range(r)  BY <1>1, <1>2, Joined
    <2>4. walk'[d] = << >>  BY <2>1, RangeEmpty DEF Linked
    <2>5. walk' = walk
      <3>1. \A y \in Cpus : walk'[y] = walk[y]  BY <2>1, <2>4
      <3> QED BY <1>2, <2>1, <3>1
    <2>6. lost' = lost  BY <2>1, <2>2, <2>3, RangeEmpty
    <2> QED BY <1>3, <1>7, <1>9, <2>1, <2>2, <2>5, <2>6 DEF r
  <1> QED BY <1>4, <1>5, <1>6, <1>8, <1>9

\* What holds before the assignment of one group.
LEMMA SingleBefore ==
    ASSUME TypeOK, NEW s \in Cpu, NEW d \in Cpu, Migration(s, d), NEW c \in Cpus, NEW g \in Fgs,
           eth_fg_assign_single_to_cpu(c, g)
    PROVE  /\ c = s /\ s \in Cpus /\ d \in Cpus /\ cmds # 0 /\ cause = {} /\ stranded = {}
           /\ Busy(s, d) /\ mode[s] = "assign" /\ mode[d] \notin HandlerModes /\ walk[d] = << >> /\ ~Asked(d)
           /\ \A x \in Cpus : reg[x] = None /\ enq[x].at = "no"
           /\ ~inTransition[g] /\ reta[g] = curCpu[g] /\ curCpu[g] \in {s, d, None} /\ cmd[s].cpu = d
           /\ Sorted(remoteq[d]) /\ Sorted(rxq[s]) /\ (remoteq[d] # << >> => tail[d] = Last(remoteq[d]))
           /\ UNCHANGED <<hwq, reta, localq, inbox, reg, enq, sent, log, stranded, cause, cmds, timerArmed>>
  <1>0. Control(s, d) /\ Packets(s, d)  BY DEF Migration
  <1>1. mode[c] = "assign" /\ mode[c] \in AssignModes /\ g \in cmd[c].fgs
    BY DEF eth_fg_assign_single_to_cpu, AssignModes
  <1>2. c = s /\ s \in Cpus /\ d \in Cpus /\ cmds # 0 /\ cmd[s].cpu = d  BY <1>0, <1>1, AssignRole
  <1>3. /\ ~Waiting(s, d) /\ mode[d] \notin HandlerModes
        /\ reta[g] = curCpu[g] /\ curCpu[g] \in {s, d, None} /\ ~inTransition[g]
    BY <1>0, <1>1, <1>2 DEF Control, Assigning
  <1>4. ~Asked(d)  BY <1>3 DEF Waiting
  <1>5. cause = {} /\ stranded = {}
    BY <1>0, <1>1, <1>2 DEF Packets, Losses, LossNeedsCause
  <1>6. Busy(s, d) /\ Whole(s, d)  BY <1>1, <1>2 DEF Busy, Whole
  <1>7. walk[d] = << >>  BY <1>0, <1>2, <1>3 DEF Packets, Positions, HandlerModes
  <1>8. \A x \in Cpus : reg[x] = None /\ enq[x].at = "no"
    <2>1. \A x \in Cpus : reg[x] # None \/ enq[x].at # "no" => x = s
      BY <1>0 DEF Control, Roles
    <2>2. reg[s] = None /\ enq[s].at = "no"  BY <1>0, <1>1, <1>2 DEF Control, Roles, Place
    <2> QED BY <2>1, <2>2
  <1>9. Sorted(remoteq[d]) /\ Sorted(rxq[s]) /\ (remoteq[d] # << >> => tail[d] = Last(remoteq[d]))
    BY <1>0, <1>2, <1>6, <1>8 DEF Packets, Queues, Tailed
  <1>10. UNCHANGED <<hwq, reta, localq, inbox, reg, enq, sent, log, stranded, cause, cmds, timerArmed>>
    BY DEF eth_fg_assign_single_to_cpu, nicVars, cpVars, regVars
  <1> QED BY <1>1, <1>2, <1>3, <1>4, <1>5, <1>6, <1>7, <1>8, <1>9, <1>10

\* And what the assignment does.
LEMMA SingleCases ==
    ASSUME TypeOK, NEW s \in Cpu, NEW d \in Cpu, Migration(s, d), NEW c \in Cpus, NEW g \in Fgs,
           eth_fg_assign_single_to_cpu(c, g)
    PROVE  /\ UNCHANGED <<mode, walk, lost>>
           /\ \/ UNCHANGED <<inTransition, curCpu, targetCpu, prevCpu, rxq, remoteq, tail>>
              \/ /\ curCpu[g] = None /\ curCpu' = [curCpu EXCEPT ![g] = d]
                 /\ UNCHANGED <<inTransition, targetCpu, prevCpu, rxq, remoteq, tail>>
              \/ /\ curCpu[g] = s /\ s # d
                 /\ inTransition' = [inTransition EXCEPT ![g] = TRUE]
                 /\ curCpu' = [curCpu EXCEPT ![g] = None]
                 /\ targetCpu' = [targetCpu EXCEPT ![g] = d]
                 /\ prevCpu' = [prevCpu EXCEPT ![g] = s]
                 /\ rxq' = [rxq EXCEPT ![s] = OfOthers(s, g)]
                 /\ remoteq' = [remoteq EXCEPT ![d] = remoteq[d] \o OfGroup(s, g)]
                 /\ remoteq'[d] # << >> => tail'[d] = Last(remoteq'[d])
  <1>2. c = s /\ s \in Cpus /\ d \in Cpus /\ cmd[s].cpu = d /\ curCpu[g] \in {s, d, None}
    BY SingleBefore
  <1>3. /\ walk[d] = << >> /\ Sorted(remoteq[d]) /\ Sorted(rxq[s])
        /\ (remoteq[d] # << >> => tail[d] = Last(remoteq[d]))
    BY SingleBefore
  <1>8. None # s /\ None # d  BY <1>2, BoundAssumption
  <1>9. CASE curCpu[g] = d
    BY <1>2, <1>8, <1>9 DEF eth_fg_assign_single_to_cpu, fgVars
  <1>10. CASE curCpu[g] = None
    BY <1>2, <1>8, <1>10 DEF eth_fg_assign_single_to_cpu, fgVars
  <1>11. CASE curCpu[g] = s /\ s # d
    <2>1. /\ inTransition' = [inTransition EXCEPT ![g] = TRUE]
          /\ curCpu' = [curCpu EXCEPT ![g] = None]
          /\ targetCpu' = [targetCpu EXCEPT ![g] = d]
          /\ prevCpu' = [prevCpu EXCEPT ![g] = s]
          /\ migrate_pkts_to_remote(s, g, d)
      BY <1>2, <1>8, <1>11 DEF eth_fg_assign_single_to_cpu
    <2> QED BY <1>2, <1>3, <1>11, <2>1, MoveWhole
  <1> QED BY <1>2, <1>9, <1>10, <1>11

\* Where packets of a group outside transition can be, while the groups of the
\* command are assigned.
LEMMA GroupPackets ==
    ASSUME TypeOK, NEW s \in Cpu, NEW d \in Cpu, Migration(s, d), stranded = {}, Busy(s, d),
           mode[d] \notin HandlerModes, NEW g \in Fgs, ~inTransition[g], NEW x \in Cpus
    PROVE  /\ \A p \in Range(hwq[x]) : p.fg = g => x = curCpu[g]
           /\ \A p \in Range(rxq[x]) : p.fg = g => x = curCpu[g]
           /\ \A p \in Range(localq[x]) : p.fg # g
           /\ \A p \in Range(remoteq[x]) : p.fg # g
  <1>0. Packets(s, d)  BY DEF Migration
  <1>1. \A p \in Range(hwq[x]) : p.fg = g => x = curCpu[g]  BY <1>0 DEF Packets, Losses
  <1>2. \A p \in Range(rxq[x]) : p.fg = g => x = curCpu[g]  BY <1>0 DEF Packets, Placed, PlacedRx
  <1>3. \A p \in Range(localq[x]) : p.fg # g  BY <1>0 DEF Packets, Placed, PlacedLocal
  <1>4. \A p \in Range(remoteq[x]) : p.fg # g  BY <1>0 DEF Packets, Placed, PlacedRemote
  <1> QED BY <1>1, <1>2, <1>3, <1>4

\* A group without a CPU is given to d: it has no packets.
LEMMA PacketsFirst ==
    ASSUME TypeOK, NEW s \in Cpu, NEW d \in Cpu, Migration(s, d), NEW g \in Fgs, d \in Cpus, cmds # 0,
           cause = {}, stranded = {}, Busy(s, d), mode[d] \notin HandlerModes, ~Asked(d),
           \A x \in Cpus : reg[x] = None /\ enq[x].at = "no",
           ~inTransition[g], reta[g] = curCpu[g],
           curCpu[g] = None, curCpu' = [curCpu EXCEPT ![g] = d],
           UNCHANGED <<hwq, reta, localq, inbox, reg, enq, sent, log, stranded, cause, cmds, timerArmed,
                       mode, walk, lost, inTransition, targetCpu, prevCpu, rxq, remoteq, tail>>
    PROVE  Packets(s, d)'
  <1>0. Packets(s, d)  BY DEF Migration
  <1>1. curCpu'[g] = d /\ \A h \in Fgs : h # g => curCpu'[h] = curCpu[h]  BY ControlTypes
  <1>2. ASSUME NEW x \in Cpus
        PROVE  /\ \A p \in Range(hwq[x]) : p.fg # g
               /\ \A p \in Range(rxq[x]) : p.fg # g
               /\ \A p \in Range(localq[x]) : p.fg # g
               /\ \A p \in Range(remoteq[x]) : p.fg # g
    BY GroupPackets, BoundAssumption
  <1>3. Chain'
    <2>0. WalksKept  BY DEF WalksKept
    <2>1. ASSUME NEW p \in Pkt
          PROVE  /\ Processed(p)' => Processed(p)
                 /\ Pending(p)' => Pending(p)
                 /\ Held(p)' => Held(p)
                 /\ AtPrev(p)' => AtPrev(p)
                 /\ Parked(p)' => Parked(p)
                 /\ Queued(p)' => Queued(p)
      BY <2>0, StageFrame
    <2>2. ASSUME NEW p \in Pkt, Coming(p)' PROVE Coming(p)
      <3>1. CASE p.fg = g
        <4>1. Owner(p.fg)' = d  BY <1>1, <3>1 DEF Owner
        <4> QED BY <1>2, <2>2, <3>1, <4>1 DEF Coming
      <3>2. CASE p.fg # g
        <4>1. Owner(p.fg)' = Owner(p.fg)  BY <1>1, <3>2, PktType DEF Owner
        <4> QED BY <2>2, <4>1 DEF Coming
      <3> QED BY <3>1, <3>2
    <2>3. Stays  BY <2>1, <2>2 DEF Stays, Live
    <2> QED BY <1>0, <2>3, ChainStays DEF Packets
  <1>4. Queues'  BY <1>0 DEF Packets, Queues
  <1>5. LogInOrder'  BY <1>0 DEF Packets, LogInOrder
  <1>6. Positions'  BY <1>0 DEF Packets, Positions
  <1>9. (Busy(s, d)' <=> Busy(s, d)) /\ (Whole(s, d)' <=> Whole(s, d)) /\ (Asked(d)' <=> Asked(d))
    BY BusySame
  <1>10. Tailed(s, d)'  BY <1>0, <1>9, TailedSame DEF Packets
  <1>7. Placed(s, d)'
    <2>0. Placed(s, d)  BY <1>0 DEF Packets
    <2>1. ASSUME NEW x \in Cpus
          PROVE  /\ \A p \in Range(rxq[x]) : curCpu'[p.fg] = curCpu[p.fg]
                 /\ \A p \in Range(localq[x]) : curCpu'[p.fg] = curCpu[p.fg]
      BY <1>1, <1>2, QueueTypes
    <2>2. PlacedRx'  BY <2>0, <2>1 DEF Placed, PlacedRx
    <2>3. PlacedLocal(d)'  BY <2>0, <2>1 DEF Placed, PlacedLocal
    <2>4. PlacedWalk(d)'
      <3>1. \A x \in Cpus : x = d => walk[x] = << >>
        BY <1>0 DEF Packets, Positions, HandlerModes
      <3> QED BY <2>0, <3>1, RangeEmpty DEF Placed, PlacedWalk
    <2>5. PlacedRemote(s, d)'  BY <2>0, <1>9 DEF Placed, PlacedRemote
    <2>6. PlacedReg(s, d)'  BY DEF PlacedReg
    <2>7. PlacedHw(d)'  BY <2>0 DEF Placed, PlacedHw
    <2> QED BY <2>2, <2>3, <2>4, <2>5, <2>6, <2>7 DEF Placed
  <1>8. Losses(s, d)'
    <2>0. Losses(s, d)  BY <1>0 DEF Packets
    <2>2. \A x \in Cpus : \A p \in Range(hwq[x]) : curCpu'[p.fg] = curCpu[p.fg]
      BY <1>1, <1>2, QueueTypes
    <2>3. \A h \in Fgs : ~inTransition[h] /\ reta[h] # curCpu'[h] => reta[h] = None
      BY <1>1, <2>0 DEF Losses
    <2>4. LossNeedsCause'  BY <2>0 DEF Losses, LossNeedsCause, Raced
    <2>5. \A x \in Cpus : \A p \in Range(hwq[x]) :
            IF inTransition[p.fg] THEN x \in {s, d} ELSE x = curCpu'[p.fg] \/ p \in stranded
      BY <2>0, <2>2 DEF Losses
    <2> QED BY <1>9, <2>3, <2>4, <2>5 DEF Losses
  <1> QED BY <1>3, <1>4, <1>5, <1>6, <1>7, <1>8, <1>10 DEF Packets

\* The packets of a group that goes into transition: its backlog becomes what s
\* leaves d, and what the NIC has for it is now a previous owner's.
LEMMA ChainTransit ==
    ASSUME Chain, NEW g, sent' = sent,
           \A p \in Pkt : \A k \in 0..6 : p.fg # g /\ Live(p, k)' => Live(p, k),
           \A p \in Pkt : p.fg = g => ~Live(p, 2)' /\ ~Live(p, 4)' /\ ~Live(p, 5)' /\ ~Live(p, 6)',
           \A p \in Pkt : p.fg = g => (Live(p, 0)' => Live(p, 0)) /\ (Live(p, 1)' => Live(p, 5))
                                      /\ (Live(p, 3)' => Live(p, 6))
    PROVE  Chain'
  <1> DEFINE F(p, k) == IF p.fg # g THEN k ELSE IF k = 0 THEN 0 ELSE IF k = 1 THEN 5 ELSE 6
  <1>1. ASSUME NEW p \in Pkt, NEW k \in 0..6, Live(p, k)'
        PROVE  F(p, k) \in 0..6 /\ Live(p, F(p, k)) /\ (p.fg = g => k \in {0, 1, 3})
    <2>1. CASE p.fg # g  BY <1>1, <2>1
    <2>2. CASE p.fg = g
      <3>1. k = 0 \/ k = 1 \/ k = 3  BY <1>1, <2>2, SevenStages
      <3> QED BY <1>1, <2>2, <3>1
    <2> QED BY <2>1, <2>2
  <1>2. ASSUME NEW p \in Pkt, NEW q \in Pkt, NEW k \in 0..6, NEW l \in 0..6, p.fg = q.fg, k < l,
               Live(p, k)', Live(q, l)'
        PROVE  p.seq < q.seq
    <2>1. F(p, k) < F(q, l)  BY <1>1, <1>2
    <2>2. F(p, k) \in 0..6 /\ Live(p, F(p, k)) /\ F(q, l) \in 0..6 /\ Live(q, F(q, l))  BY <1>1, <1>2
    <2> HIDE DEF F
    <2> QED BY <1>2, <2>1, <2>2 DEF Chain
  <1>3. ASSUME NEW p \in Pkt, NEW k \in 0..6, Live(p, k)' PROVE p.seq <= sent[p.fg]
    <2>1. F(p, k) \in 0..6 /\ Live(p, F(p, k))  BY <1>1, <1>3
    <2> HIDE DEF F
    <2> QED BY <2>1 DEF Chain
  <1> QED BY <1>2, <1>3 DEF Chain

\* A group of s goes into transition.
LEMMA PacketsTransit ==
    ASSUME TypeOK, NEW s \in Cpus, NEW d \in Cpus, s # d, Migration(s, d), NEW g \in Fgs, cmds # 0,
           cause = {}, stranded = {}, Busy(s, d), mode[d] \notin HandlerModes, walk[d] = << >>, ~Asked(d),
           \A x \in Cpus : reg[x] = None /\ enq[x].at = "no",
           ~inTransition[g], curCpu[g] = s, reta[g] = s,
           inTransition' = [inTransition EXCEPT ![g] = TRUE],
           curCpu' = [curCpu EXCEPT ![g] = None],
           targetCpu' = [targetCpu EXCEPT ![g] = d],
           prevCpu' = [prevCpu EXCEPT ![g] = s],
           rxq' = [rxq EXCEPT ![s] = OfOthers(s, g)],
           remoteq' = [remoteq EXCEPT ![d] = remoteq[d] \o OfGroup(s, g)],
           remoteq'[d] # << >> => tail'[d] = Last(remoteq'[d]),
           UNCHANGED <<hwq, reta, localq, inbox, reg, enq, sent, log, stranded, cause, cmds, timerArmed,
                       mode, walk, lost>>
    PROVE  Packets(s, d)'
  <1>x. Packets(s, d) /\ Placed(s, d) /\ Losses(s, d)  BY DEF Migration, Packets
  <1>y. rxq \in [Cpus -> Seq(Pkt)] /\ remoteq \in [Cpus -> Seq(Pkt)]  BY DEF TypeOK
  <1>0. /\ s \in Cpu /\ d \in Cpu
        /\ rxq \in [Cpus -> Seq(Pkt)] /\ remoteq \in [Cpus -> Seq(Pkt)] /\ remoteq[d] \in Seq(Pkt)
    BY <1>y, QueueTypes DEF Cpu
  <1>1. /\ inTransition'[g] /\ curCpu'[g] = None /\ targetCpu'[g] = d /\ prevCpu'[g] = s
        /\ \A h \in Fgs : h # g => /\ inTransition'[h] = inTransition[h] /\ curCpu'[h] = curCpu[h]
                                   /\ targetCpu'[h] = targetCpu[h] /\ prevCpu'[h] = prevCpu[h]
    BY ControlTypes
  <1>2. ASSUME NEW x \in Cpus
        PROVE  /\ \A p \in Range(hwq[x]) : p.fg = g => x = s
               /\ \A p \in Range(localq[x]) : p.fg # g
               /\ \A p \in Range(remoteq[x]) : p.fg # g
    BY <1>0, GroupPackets
  <1>3. /\ OfOthers(s, g) \in Seq(Pkt) /\ OfGroup(s, g) \in Seq(Pkt)
        /\ Sorted(OfOthers(s, g)) /\ Sorted(OfGroup(s, g))
        /\ \A p \in Range(OfOthers(s, g)) : p \in Range(rxq[s]) /\ p.fg # g
        /\ \A p \in Range(OfGroup(s, g)) : p \in Range(rxq[s]) /\ p.fg = g
    <2>1. Sorted(rxq[s])  BY <1>x DEF Packets, Queues
    <2> QED BY <2>1, PartsIs
  <1>4. /\ remoteq[d] \o OfGroup(s, g) \in Seq(Pkt) /\ Sorted(remoteq[d] \o OfGroup(s, g))
        /\ Range(remoteq[d] \o OfGroup(s, g)) = Range(remoteq[d]) \cup Range(OfGroup(s, g))
    <2>1. Sorted(remoteq[d])  BY <1>x DEF Packets, Tailed, Whole
    <2>2. \A x \in Range(remoteq[d]), y \in Range(OfGroup(s, g)) : x.fg # y.fg  BY <1>2, <1>3
    <2> QED BY <1>0, <1>3, <2>1, <2>2, Joined
  <1>5. rxq'[s] = OfOthers(s, g) /\ \A x \in Cpus : x # s => rxq'[x] = rxq[x]  BY <1>0
  <1>6. /\ remoteq'[d] = remoteq[d] \o OfGroup(s, g) /\ \A x \in Cpus : x # d => remoteq'[x] = remoteq[x]
    BY <1>0
  <1>7. \A x \in Cpus : Sorted(rxq'[x]) /\ \A p \in Range(rxq'[x]) : p \in Range(rxq[x]) /\ p.fg # g
    <2>1. ASSUME NEW x \in Cpus, x # s, NEW p \in Range(rxq[x]) PROVE p.fg # g
      BY <1>x, <2>1 DEF Placed, PlacedRx
    <2> QED BY <1>x, <1>3, <1>5, <2>1 DEF Packets, Queues
  <1>9. \A x \in Cpus : \A p \in Range(remoteq'[x]) :
          p \in Range(remoteq[x]) \/ (x = d /\ p.fg = g /\ p \in Range(rxq[s]))
    BY <1>3, <1>4, <1>6
  <1>16. (Busy(s, d)' <=> Busy(s, d)) /\ (Whole(s, d)' <=> Whole(s, d)) /\ (Asked(d)' <=> Asked(d))
    BY BusySame
  <1>10. Chain'
    <2>0. WalksKept  BY DEF WalksKept
    <2>1. ASSUME NEW p \in Pkt
          PROVE  (Processed(p)' => Processed(p)) /\ (Parked(p)' => Parked(p))
      BY StageFrame
    <2>2. ASSUME NEW p \in Pkt, Pending(p)' PROVE (Pending(p) /\ p.fg # g) \/ (p.fg = g /\ Queued(p))
      <3>1. PICK x \in Cpus : p \in Range(walk[x]) \/
                   (p \in Range(remoteq'[x]) /\ (inTransition'[p.fg] \/ mode[x] = "readHead"))
        BY <2>2 DEF Pending
      <3>2. CASE p \in Range(walk[x])
        <4>1. x = d  BY <1>x, <3>2 DEF Placed, PlacedWalk
        <4> QED BY <3>2, <4>1, RangeEmpty
      <3>3. CASE p \in Range(remoteq[x]) /\ (inTransition'[p.fg] \/ mode[x] = "readHead")
        <4>1. p.fg # g /\ p.fg \in Fgs  BY <1>2, <3>3, QueueTypes
        <4>2. Pending(p)  BY <1>1, <3>3, <4>1 DEF Pending
        <4> QED BY <4>1, <4>2
      <3>4. CASE p.fg = g /\ p \in Range(rxq[s])  BY <3>4 DEF Queued
      <3> QED BY <1>9, <3>1, <3>2, <3>3, <3>4
    <2>3. ASSUME NEW p \in Pkt PROVE ~Held(p)'  BY DEF Held
    <2>4. ASSUME NEW p \in Pkt, AtPrev(p)' PROVE IF p.fg = g THEN Coming(p) ELSE AtPrev(p)
      <3>1. CASE p.fg = g
        <4>1. p \in Range(hwq[s])  BY <1>1, <2>4, <3>1 DEF AtPrev
        <4> QED BY <3>1, <4>1 DEF Coming, Owner
      <3>2. CASE p.fg # g  BY <1>1, <2>4, <3>2, PktType DEF AtPrev
      <3> QED BY <3>1, <3>2
    <2>5. ASSUME NEW p \in Pkt, Parked(p)' PROVE p.fg # g  BY <1>2, <2>5 DEF Parked
    <2>6. ASSUME NEW p \in Pkt, Queued(p)' PROVE Queued(p) /\ p.fg # g  BY <1>7, <2>6 DEF Queued
    <2>7. ASSUME NEW p \in Pkt, Coming(p)' PROVE Coming(p) /\ p.fg # g
      <3>1. p.fg # g
        <4>1. p.fg = g => Owner(p.fg)' = d  BY <1>1 DEF Owner
        <4> QED BY <1>2, <2>7, <4>1 DEF Coming
      <3>2. Owner(p.fg)' = Owner(p.fg)  BY <1>1, <3>1, PktType DEF Owner
      <3> QED BY <2>7, <3>1, <3>2 DEF Coming
    <2>8. ASSUME NEW p \in Pkt, NEW k \in 0..6, p.fg # g, Live(p, k)' PROVE Live(p, k)
      BY <2>1, <2>2, <2>3, <2>4, <2>6, <2>7, <2>8 DEF Live
    <2>9. ASSUME NEW p \in Pkt, p.fg = g
          PROVE  ~Live(p, 2)' /\ ~Live(p, 4)' /\ ~Live(p, 5)' /\ ~Live(p, 6)'
      BY <2>3, <2>5, <2>6, <2>7, <2>9, Stages
    <2>10. ASSUME NEW p \in Pkt, p.fg = g
           PROVE  (Live(p, 0)' => Live(p, 0)) /\ (Live(p, 1)' => Live(p, 5)) /\ (Live(p, 3)' => Live(p, 6))
      BY <2>1, <2>2, <2>4, <2>10, Stages
    <2> QED BY <1>x, <2>8, <2>9, <2>10, ChainTransit DEF Packets
  <1>11. Queues'  BY <1>x, <1>7 DEF Packets, Queues
  <1>12. LogInOrder'  BY <1>x DEF Packets, LogInOrder
  <1>13. Positions'
    <2>1. ASSUME NEW x \in Cpus, x # d
          PROVE  /\ mode[x] # "drain" => walk[x] = << >>
                 /\ mode[x] = "drain" => remoteq'[x] # << >> /\ Last(walk[x]) = Last(remoteq'[x])
      BY <1>x, <1>6, <2>1 DEF Packets, Positions
    <2>2. mode[d] # "drain"  BY DEF HandlerModes
    <2> QED BY <2>1, <2>2 DEF Positions
  <1>17. Tailed(s, d)'  BY <1>4, <1>6 DEF Tailed
  <1>14. Placed(s, d)'
    <2>1. ASSUME NEW x \in Cpus, NEW p \in Range(rxq'[x]) PROVE ~inTransition'[p.fg] /\ curCpu'[p.fg] = x
      <3>1. p \in Range(rxq[x]) /\ p.fg # g  BY <1>7
      <3>2. p.fg \in Fgs  BY <3>1, QueueTypes
      <3> QED BY <1>x, <1>1, <3>1, <3>2 DEF Placed, PlacedRx
    <2>2. ASSUME NEW x \in Cpus, NEW p \in Range(localq[x])
          PROVE  x = d /\ reta[p.fg] = d /\ inTransition'[p.fg]
      <3>1. p.fg # g /\ p.fg \in Fgs  BY <1>2, QueueTypes
      <3> QED BY <1>x, <1>1, <3>1 DEF Placed, PlacedLocal
    <2>3. ASSUME NEW x \in Cpus, NEW p \in Range(remoteq'[x]) PROVE x = d /\ inTransition'[p.fg]
      <3>1. CASE p \in Range(remoteq[x])
        <4>1. p.fg # g /\ p.fg \in Fgs  BY <1>2, <3>1, QueueTypes
        <4> QED BY <1>x, <1>1, <3>1, <4>1 DEF Placed, PlacedRemote
      <3>2. CASE x = d /\ p.fg = g  BY <1>1, <3>2
      <3> QED BY <1>9, <3>1, <3>2
    <2>4. ASSUME NEW x \in Cpus, NEW p \in Range(hwq[x]), inTransition'[p.fg], x = d PROVE reta[p.fg] = d
      <3>1. p.fg # g /\ p.fg \in Fgs  BY <1>2, <2>4, QueueTypes
      <3> QED BY <1>x, <1>1, <2>4, <3>1 DEF Placed, PlacedHw
    <2>5. PlacedWalk(d)'
      <3>1. \A x \in Cpus : Range(walk[x]) = {}
        BY <1>x, RangeEmpty DEF Placed, PlacedWalk
      <3> QED BY <3>1 DEF PlacedWalk
    <2>6. PlacedRx'  BY <2>1 DEF PlacedRx
    <2>7. PlacedLocal(d)'  BY <2>2 DEF PlacedLocal
    <2>8. PlacedRemote(s, d)'  BY <1>16, <2>3 DEF PlacedRemote
    <2>9. PlacedReg(s, d)'  BY DEF PlacedReg
    <2>10. PlacedHw(d)'  BY <2>4 DEF PlacedHw
    <2> QED BY <2>5, <2>6, <2>7, <2>8, <2>9, <2>10 DEF Placed
  <1>15. Losses(s, d)'
    <2>2. ASSUME NEW x \in Cpus, NEW p \in Range(hwq[x])
          PROVE  IF inTransition'[p.fg] THEN x \in {s, d} ELSE x = curCpu'[p.fg] \/ p \in stranded
      <3>1. CASE p.fg = g  BY <1>1, <1>2, <3>1
      <3>2. CASE p.fg # g
        <4>1. p.fg \in Fgs  BY QueueTypes
        <4> QED BY <1>x, <1>1, <3>2, <4>1 DEF Losses
      <3> QED BY <3>1, <3>2
    <2>4. \A h \in Fgs : ~inTransition'[h] /\ reta[h] # curCpu'[h] => reta[h] = None
      BY <1>x, <1>1 DEF Losses
    <2>5. LossNeedsCause'  BY <1>x DEF Losses, LossNeedsCause, Raced
    <2> QED BY <1>16, <2>2, <2>4, <2>5 DEF Losses
  <1> QED BY <1>10, <1>11, <1>12, <1>13, <1>14, <1>15, <1>17 DEF Packets

\* One group of the command is assigned.
LEMMA PacketsSingle ==
    ASSUME TypeOK, NEW s \in Cpu, NEW d \in Cpu, Migration(s, d), NEW c \in Cpus, NEW g \in Fgs,
           eth_fg_assign_single_to_cpu(c, g)
    PROVE  Control(s, d)' /\ Packets(s, d)'
  <1>1. /\ c = s /\ s \in Cpus /\ d \in Cpus /\ cmds # 0 /\ cause = {} /\ stranded = {}
        /\ Busy(s, d) /\ mode[s] = "assign" /\ mode[d] \notin HandlerModes /\ walk[d] = << >> /\ ~Asked(d)
        /\ \A x \in Cpus : reg[x] = None /\ enq[x].at = "no"
        /\ ~inTransition[g] /\ reta[g] = curCpu[g]
    BY SingleBefore
  <1>2. UNCHANGED <<hwq, reta, localq, inbox, reg, enq, sent, log, stranded, cause, cmds, timerArmed>>
    BY SingleBefore
  <1>3. UNCHANGED <<mode, walk, lost>>  BY SingleCases
  <1>4. Control(s, d) /\ Control(s, d)' /\ Packets(s, d)  BY <1>3, ControlSingle DEF Migration
  <1>5. CASE UNCHANGED <<inTransition, curCpu, targetCpu, prevCpu, rxq, remoteq, tail>>
    <2>1. WalksKept  BY <1>3 DEF WalksKept
    <2>2. (Busy(s, d)' <=> Busy(s, d)) /\ (Whole(s, d)' <=> Whole(s, d)) /\ (Asked(d)' <=> Asked(d))
      BY <1>2, <1>3, BusySame
    <2>3. Tailed(s, d)'  BY <1>2, <1>4, <1>5, <2>2, TailedSame DEF Packets
    <2> QED BY <1>1, <1>2, <1>3, <1>4, <1>5, <2>1, <2>2, <2>3, PacketsQuiet
  <1>6. CASE curCpu[g] = None /\ curCpu' = [curCpu EXCEPT ![g] = d]
             /\ UNCHANGED <<inTransition, targetCpu, prevCpu, rxq, remoteq, tail>>
    BY <1>1, <1>2, <1>3, <1>4, <1>6, PacketsFirst
  <1>7. CASE /\ curCpu[g] = s /\ s # d
             /\ inTransition' = [inTransition EXCEPT ![g] = TRUE]
             /\ curCpu' = [curCpu EXCEPT ![g] = None]
             /\ targetCpu' = [targetCpu EXCEPT ![g] = d]
             /\ prevCpu' = [prevCpu EXCEPT ![g] = s]
             /\ rxq' = [rxq EXCEPT ![s] = OfOthers(s, g)]
             /\ remoteq' = [remoteq EXCEPT ![d] = remoteq[d] \o OfGroup(s, g)]
             /\ remoteq'[d] # << >> => tail'[d] = Last(remoteq'[d])
    BY <1>1, <1>2, <1>3, <1>4, <1>7, PacketsTransit
  <1> QED BY <1>5, <1>6, <1>7, SingleCases
-----------------------------------------------------------------------------
(* The theorems.                                                           *)

\* At first there is no command and no packet.
LEMMA InitMigration == ASSUME Init, TypeOK PROVE Migration(None, None)
  <1>1. \A c \in Cpus : /\ Range(inbox[c]) = {} /\ Range(hwq[c]) = {} /\ Range(rxq[c]) = {}
                        /\ Range(localq[c]) = {} /\ Range(remoteq[c]) = {} /\ Range(walk[c]) = {}
                        /\ Sorted(hwq[c]) /\ Sorted(rxq[c]) /\ Sorted(localq[c]) /\ Sorted(walk[c])
    BY RangeEmpty DEF Init
  <1>2. \A c \in Cpus : mode[c] = "loop" /\ walk[c] = << >> /\ reg[c] = None /\ enq[c].at = "no"
    BY DEF Init, NoEnq
  <1>3. Roles(None, None)
    BY <1>2 DEF Init, Roles, Place, AssignModes, HandlerModes
  <1>4. Calls(None, None)  BY <1>1 DEF Init, Calls
  <1>5. Groups(None, None)  BY DEF Init, Groups
  <1>6. Control(None, None)  BY <1>3, <1>4, <1>5 DEF Init, Control
  <1>7. Chain
    <2>1. ASSUME NEW p \in Pkt, NEW k \in 0..6 PROVE ~Live(p, k)
      <3>1. ~Processed(p)
        <4>1. log[p.fg] = << >>  BY PktType DEF Init
        <4>2. DOMAIN << >> = {}  OBVIOUS
        <4> QED BY <4>1, <4>2 DEF Processed
      <3>2. ~Pending(p)  BY <1>1 DEF Pending
      <3>3. ~Held(p)  BY <1>2 DEF Held
      <3>4. ~AtPrev(p) /\ ~Parked(p) /\ ~Queued(p) /\ ~Coming(p)
        BY <1>1 DEF AtPrev, Parked, Queued, Coming
      <3> QED BY <3>1, <3>2, <3>3, <3>4 DEF Live
    <2> QED BY <2>1 DEF Chain
  <1>8. Queues  BY <1>1 DEF Queues
  <1>9. LogInOrder
    <2>1. \A g \in Fgs : log[g] = << >>  BY DEF Init
    <2>2. DOMAIN << >> = {}  OBVIOUS
    <2> QED BY <2>1, <2>2 DEF LogInOrder
  <1>10. Positions  BY <1>2 DEF Positions
  <1>11. Placed(None, None)
    BY <1>1, <1>2 DEF Placed, PlacedRx, PlacedLocal, PlacedWalk, PlacedRemote, PlacedReg, PlacedHw
  <1>12. Losses(None, None)
    <2>1. lost = {} /\ stranded = {} /\ cause = {} /\ reta = curCpu /\ cmds = 0  BY DEF Init
    <2>2. ~Asked(None)  BY BoundAssumption DEF Asked
    <2>3. LossNeedsCause  BY <1>2, <2>1 DEF LossNeedsCause
    <2> QED BY <1>1, <1>2, <2>1, <2>2, <2>3 DEF Losses
  <1>13. Tailed(None, None)
    <2>1. cmds = 0  BY DEF Init
    <2> QED BY <1>2, <2>1 DEF Tailed
  <1> QED BY <1>6, <1>7, <1>8, <1>9, <1>10, <1>11, <1>12, <1>13 DEF Migration, Packets

\* A step of a CPU keeps the migration going.
LEMMA StepMigration ==
    ASSUME TypeOK, NEW s \in Cpu, NEW d \in Cpu, Migration(s, d), NEW c \in Cpus, Step(c)
    PROVE  Migration(s, d)'
  <1> SUFFICES Control(s, d)' /\ Packets(s, d)'  BY DEF Migration
  <1>1. CASE Poll(c)  BY <1>1, PacketsPoll
  <1>2. CASE eth_recv_at_prev(c)  BY <1>2, PacketsAtPrev
  <1>3. CASE EnqueueTest(c)  BY <1>3, PacketsTest
  <1>4. CASE EnqueueLink(c)
    <2>1. CASE mode' = mode  BY <1>4, <2>1, PacketsLink
    <2>2. CASE mode' # mode  BY <1>4, <2>2, PacketsOops
    <2> QED BY <2>1, <2>2
  <1>5. CASE EnqueueTail(c)  BY <1>5, PacketsTail
  <1>6. CASE eth_process_recv(c)  BY <1>6, PacketsProcess
  <1>7. ASSUME NEW g \in Fgs, eth_fg_assign_single_to_cpu(c, g) PROVE Control(s, d)' /\ Packets(s, d)'
    BY <1>7, PacketsSingle
  <1>8. CASE AssignInfo(c) \/ AssignCopy(c) \/ AssignReta(c) \/ AssignFdir(c)  BY <1>8, PacketsAssign
  <1>9. ASSUME NEW k, early_transition_handler_prev(c, k) PROVE Control(s, d)' /\ Packets(s, d)'
    BY <1>9, PacketsEarly
  <1>10. ASSUME NEW k, transition_handler_target(c, k) PROVE Control(s, d)' /\ Packets(s, d)'
    BY <1>10, PacketsTarget
  <1>11. CASE EarlyCancel(c)  BY <1>11, PacketsCancel
  <1>12. CASE EarlyDone(c)  BY <1>12, PacketsDone
  <1>13. CASE TargetReadHead(c)  BY <1>13, PacketsReadHead
  <1>14. CASE TargetDrain(c)  BY <1>14, PacketsDrain
  <1>15. CASE TargetReset(c)  BY <1>15, PacketsReset
  <1>16. CASE TargetResetTail(c)  BY <1>16, PacketsResetTail
  <1>17. CASE TargetLocal(c)  BY <1>17, PacketsLocal
  <1>18. CASE TargetFinish(c)  BY <1>18, PacketsFinish
  <1> QED BY <1>1, <1>2, <1>3, <1>4, <1>5, <1>6, <1>7, <1>8, <1>9, <1>10, <1>11, <1>12, <1>13, <1>14,
             <1>15, <1>16, <1>17, <1>18 DEF Step

\* What went wrong stays.
LEMMA CauseGrows == ASSUME [Next]_vars PROVE cause \subseteq cause'
  <1>1. ASSUME NEW g \in Fgs, Arrive(g) PROVE cause' = cause  BY <1>1 DEF Arrive
  <1>2. ASSUME NEW c, NEW cpu, NEW fgs, Command(c, fgs, cpu) PROVE cause' = cause
    BY <1>2 DEF Command, endVars
  <1>3. ASSUME NEW c \in Cpus, transition_handler_prev(c) PROVE cause \subseteq cause'
    BY <1>3 DEF transition_handler_prev
  <1>4. ASSUME NEW c \in Cpus, Step(c) PROVE cause \subseteq cause'
    <2>1. CASE Poll(c) \/ eth_process_recv(c)  BY <2>1 DEF Poll, eth_process_recv
    <2>2. CASE eth_recv_at_prev(c) \/ EnqueueTest(c) \/ EnqueueLink(c) \/ EnqueueTail(c)
      BY <2>2 DEF eth_recv_at_prev, EnqueueTest, EnqueueLink, EnqueueTail, endVars
    <2>3. ASSUME NEW g, eth_fg_assign_single_to_cpu(c, g) PROVE cause' = cause
      BY <2>3 DEF eth_fg_assign_single_to_cpu
    <2>4. CASE AssignInfo(c) \/ AssignCopy(c) \/ AssignReta(c) \/ AssignFdir(c)
      BY <2>4 DEF AssignInfo, AssignCopy, AssignReta, AssignFdir, endVars
    <2>5. ASSUME NEW k, early_transition_handler_prev(c, k) \/ transition_handler_target(c, k)
          PROVE  cause' = cause
      BY <2>5 DEF early_transition_handler_prev, transition_handler_target, endVars
    <2>6. CASE EarlyCancel(c) \/ EarlyDone(c)  BY <2>6 DEF EarlyCancel, EarlyDone, endVars
    <2>7. CASE TargetReadHead(c) \/ TargetDrain(c) \/ TargetReset(c)
      BY <2>7 DEF TargetReadHead, TargetDrain, TargetReset, endVars
    <2>8. CASE TargetResetTail(c) \/ TargetLocal(c) \/ TargetFinish(c)
      BY <2>8 DEF TargetResetTail, TargetLocal, TargetFinish, endVars
    <2> QED BY <1>4, <2>1, <2>2, <2>3, <2>4, <2>5, <2>6, <2>7, <2>8 DEF Step
  <1>5. CASE UNCHANGED vars  BY <1>5 DEF vars
  <1>6. CASE Next
    <2>1. CASE \E g \in Fgs : Arrive(g)  BY <1>1, <2>1
    <2>2. CASE \E c \in Cpus : Step(c) \/ transition_handler_prev(c)  BY <1>3, <1>4, <2>2
    <2>3. CASE \E c, cpu \in Cpus, fgs \in SUBSET Fgs \ {{}} : Command(c, fgs, cpu)  BY <1>2, <2>3
    <2> QED BY <1>6, <2>1, <2>2, <2>3 DEF Next
  <1> QED BY <1>5, <1>6

\* So does every step, and the one command decides where the groups go.
LEMMA NextMigration ==
    ASSUME TypeOK, MaxCmds <= 1, FlowInv, [Next]_vars
    PROVE  FlowInv'
  <1>0. CASE Raced
    <2>1. Raced'  BY <1>0, CauseGrows DEF Raced
    <2> QED BY <2>1 DEF FlowInv
  <1>1. ASSUME ~Raced, ~Raced' PROVE \E x, y \in Cpu : Migration(x, y)'
    <2>1. PICK s \in Cpu, d \in Cpu : Migration(s, d)  BY <1>1 DEF FlowInv
    <2>2. ASSUME NEW g \in Fgs, Arrive(g) PROVE Migration(s, d)'
      BY <2>1, <2>2, PacketsArrive DEF Migration
    <2>3. ASSUME NEW c \in Cpus, Step(c) PROVE Migration(s, d)'
      BY <2>1, <2>3, StepMigration
    <2>4. ASSUME NEW c \in Cpus, transition_handler_prev(c) PROVE Migration(s, d)'
      <3>1. mode[c] # "cancel"  BY <1>1, <2>4 DEF transition_handler_prev, Raced
      <3> QED BY <2>1, <2>4, <3>1, PacketsTimeout DEF Migration
    <2>5. ASSUME NEW c \in Cpus, NEW cpu \in Cpus, NEW fgs \in SUBSET Fgs, Command(c, fgs, cpu)
          PROVE  Migration(c, cpu)' /\ c \in Cpu /\ cpu \in Cpu
      <3>1. cmds < MaxCmds  BY <2>5 DEF Command
      <3>2. cmds = 0
        <4>1. MaxCmds \in Nat /\ cmds \in Nat  BY BoundAssumption, ControlTypes
        <4> QED BY ONLY <3>1, <4>1, MaxCmds <= 1
      <3>3. Control(c, cpu)' /\ Packets(c, cpu)'  BY <2>1, <2>5, <3>2, PacketsCommand
      <3> QED BY <3>3 DEF Migration, Cpu
    <2>6. CASE UNCHANGED vars
      <3>1. Control(s, d)' = Control(s, d)
        BY <2>6 DEF vars, Control, Roles, Place, Calls, Assigning, Tokens, Groups, Waiting, Asked
      <3>2. (Chain /\ Queues /\ LogInOrder /\ Positions)' = (Chain /\ Queues /\ LogInOrder /\ Positions)
        BY <2>6 DEF vars, Chain, Queues, LogInOrder, Positions, Live, Processed, Pending, Held, AtPrev,
                    Parked, Queued, Coming, Owner, Walking
      <3>3. Tailed(s, d)' = Tailed(s, d)
        BY <2>6 DEF vars, Tailed, Whole, Busy, Waiting, Asked, Walking
      <3>4. Placed(s, d)' = Placed(s, d)
        BY <2>6 DEF vars, Placed, PlacedRx, PlacedLocal, PlacedWalk, PlacedRemote, PlacedReg, PlacedHw,
                    Busy, Waiting, Asked, Processed
      <3>5. Losses(s, d)' = Losses(s, d)
        BY <2>6 DEF vars, Losses, LossNeedsCause, Raced, Drained, Asked
      <3> QED BY <2>1, <3>1, <3>2, <3>3, <3>4, <3>5 DEF Migration, Packets
    <2>7. CASE Next
      <3>1. CASE \E g \in Fgs : Arrive(g)  BY <2>2, <3>1
      <3>2. CASE \E c \in Cpus : Step(c) \/ transition_handler_prev(c)  BY <2>3, <2>4, <3>2
      <3>3. CASE \E c, cpu \in Cpus, fgs \in SUBSET Fgs \ {{}} : Command(c, fgs, cpu)
        <4>1. PICK c \in Cpus, cpu \in Cpus, fgs \in SUBSET Fgs \ {{}} : Command(c, fgs, cpu)  BY <3>3
        <4>2. fgs \in SUBSET Fgs  BY <4>1
        <4> QED BY <2>5, <4>1, <4>2
      <3> QED BY <2>7, <3>1, <3>2, <3>3 DEF Next
    <2> QED BY <2>6, <2>7
  <1> QED BY <1>0, <1>1 DEF FlowInv

\* The inductive invariant of one migration, for any number of CPUs, groups and
\* packets, until the timer fires between hrtimer_active and hrtimer_cancel.
THEOREM FlowInvariant == MaxCmds <= 1 => (Spec => []FlowInv)
  <1> SUFFICES ASSUME MaxCmds <= 1 PROVE Spec => []FlowInv
    OBVIOUS
  <1>1. Init => FlowInv
    <2>1. None \in Cpu  BY DEF Cpu
    <2> QED BY <2>1, InitTypes, InitMigration DEF FlowInv
  <1>2. TypeOK /\ FlowInv /\ [Next]_vars => FlowInv'  BY NextMigration
  <1>3. Spec => []TypeOK  BY FlowTypes
  <1> QED BY <1>1, <1>2, <1>3, PTL DEF Spec

\* The packets of a flow group are processed in the order they arrived in, and
\* none twice, while a command moves it and enqueue and the target handler
\* write the queue between the CPUs at once: eth_recv, migrate_pkts_to_remote,
\* eth_recv_at_prev, transition_handler_target.
THEOREM FlowInOrder == MaxCmds <= 1 => (Spec => []InOrder)
  <1>1. FlowInv => InOrder  BY DEF FlowInv, InOrder, Migration, Packets, LogInOrder
  <1> QED BY <1>1, FlowInvariant, PTL

\* Only packets are lost that were not with the new owner when their group was
\* handed over, and there are such only if the timer cut the migration short
\* or the driver ran out of mbufs: eth_recv, enqueue, transition_handler_target.
THEOREM FlowLossNeedsCause == MaxCmds <= 1 => (Spec => []LossNeedsCause)
  <1>1. Raced => LossNeedsCause  BY DEF Raced, LossNeedsCause
  <1>2. FlowInv => LossNeedsCause  BY <1>1 DEF FlowInv, Migration, Packets, Losses
  <1> QED BY <1>2, FlowInvariant, PTL

\* No packet of a group waits in the backlog of a CPU that does not have it:
\* migrate_pkts_to_remote.
THEOREM FlowBacklogOwned == MaxCmds <= 1 => (Spec => []BacklogOwned)
  <1>1. TypeOK /\ FlowInv => BacklogOwned
    <2> SUFFICES ASSUME TypeOK, FlowInv, ~Raced, NEW c \in Cpus, NEW i \in DOMAIN rxq[c]
                 PROVE  curCpu[rxq[c][i].fg] = c
      BY DEF BacklogOwned
    <2>1. rxq[c][i] \in Range(rxq[c])  BY DEF Range
    <2> QED BY <2>1 DEF FlowInv, Migration, Packets, Placed, PlacedRx
  <1> QED BY <1>1, FlowTypes, FlowInvariant, PTL

\* What a step adds to a log is an entry of the CPU that has the group.
LEMMA LogsByOwner ==
    ASSUME TypeOK, NEW c \in Cpus, NEW p \in Pkt, eth_input(c, p), curCpu[p.fg] = c, NEW g \in Fgs,
           log'[g] # log[g]
    PROVE  Last(log'[g]).cpu = curCpu[g]
  <1> DEFINE R == [seq : 1..MaxPkts, cpu : Cpus]
             e == [seq |-> p.seq, cpu |-> c]
  <1>1. log' \in [Fgs -> Seq(R)] /\ log'[p.fg] = Append(log[p.fg], e)
        /\ \A h \in Fgs : h # p.fg => log'[h] = log[h]
    BY InputTypes
  <1>2. g = p.fg  BY <1>1
  <1>3. e \in R /\ log[p.fg] \in Seq(R) /\ e.cpu = c  BY PktType DEF TypeOK
  <1> HIDE DEF R, e
  <1>4. Len(Append(log[p.fg], e)) = Len(log[p.fg]) + 1 /\ Append(log[p.fg], e)[Len(log[p.fg]) + 1] = e
    BY <1>3, Appended
  <1>5. Last(log'[g]) = e  BY <1>1, <1>2, <1>4 DEF Last
  <1> QED BY <1>2, <1>3, <1>5

\* Only the CPU that has a group processes its packets.
LEMMA NextOwner ==
    ASSUME TypeOK, FlowInv, ~Raced, Next, NEW g \in Fgs, log'[g] # log[g]
    PROVE  Last(log'[g]).cpu = curCpu[g]
  <1>1. PICK s \in Cpu, d \in Cpu : Migration(s, d)  BY DEF FlowInv
  <1>2. \E c \in Cpus : eth_process_recv(c) \/ TargetDrain(c) \/ TargetLocal(c)
    <2>0. log' # log  OBVIOUS
    <2>1. ASSUME NEW h \in Fgs, Arrive(h) PROVE FALSE  BY <2>0, <2>1 DEF Arrive, endVars
    <2>2. ASSUME NEW c, NEW cpu, NEW fgs, Command(c, fgs, cpu) PROVE FALSE
      BY <2>0, <2>2 DEF Command, endVars
    <2>3. ASSUME NEW c \in Cpus, transition_handler_prev(c) PROVE FALSE
      BY <2>0, <2>3 DEF transition_handler_prev
    <2>4. ASSUME NEW c \in Cpus, Step(c)
          PROVE  eth_process_recv(c) \/ TargetDrain(c) \/ TargetLocal(c)
      <3>1. ~Poll(c) /\ ~eth_recv_at_prev(c) /\ ~EnqueueTest(c) /\ ~EnqueueLink(c) /\ ~EnqueueTail(c)
        BY <2>0 DEF Poll, eth_recv_at_prev, EnqueueTest, EnqueueLink, EnqueueTail, endVars
      <3>2. ASSUME NEW h, eth_fg_assign_single_to_cpu(c, h) PROVE FALSE
        BY <2>0, <3>2 DEF eth_fg_assign_single_to_cpu
      <3>3. ~AssignInfo(c) /\ ~AssignCopy(c) /\ ~AssignReta(c) /\ ~AssignFdir(c)
        BY <2>0 DEF AssignInfo, AssignCopy, AssignReta, AssignFdir, endVars
      <3>4. ASSUME NEW k, early_transition_handler_prev(c, k) PROVE FALSE
        BY <2>0, <3>4 DEF early_transition_handler_prev, endVars
      <3>5. ASSUME NEW k, transition_handler_target(c, k) PROVE FALSE
        BY <2>0, <3>5 DEF transition_handler_target, endVars
      <3>6. ~EarlyCancel(c) /\ ~EarlyDone(c) /\ ~TargetReadHead(c)
        BY <2>0 DEF EarlyCancel, EarlyDone, TargetReadHead, endVars
      <3>7. ~TargetReset(c) /\ ~TargetResetTail(c) /\ ~TargetFinish(c)
        BY <2>0 DEF TargetReset, TargetResetTail, TargetFinish, endVars
      <3> QED BY <2>4, <3>1, <3>2, <3>3, <3>4, <3>5, <3>6, <3>7 DEF Step
    <2> QED BY <2>1, <2>2, <2>3, <2>4 DEF Next
  <1>3. PICK c \in Cpus : eth_process_recv(c) \/ TargetDrain(c) \/ TargetLocal(c)  BY <1>2
  <1>4. CASE eth_process_recv(c)
    <2>1. Head(rxq[c]) \in Pkt /\ curCpu[Head(rxq[c]).fg] = c  BY <1>1, <1>4, PacketsProcess
    <2>2. eth_input(c, Head(rxq[c]))  BY <1>4 DEF eth_process_recv
    <2> QED BY <2>1, <2>2, LogsByOwner
  <1>5. CASE TargetDrain(c)
    <2>1. Head(walk[c]) \in Pkt /\ curCpu[Head(walk[c]).fg] = c  BY <1>1, <1>5, PacketsDrain
    <2>2. eth_input(c, Head(walk[c]))  BY <1>5 DEF TargetDrain
    <2> QED BY <2>1, <2>2, LogsByOwner
  <1>6. CASE TargetLocal(c)
    <2>1. Head(localq[c]) \in Pkt /\ curCpu[Head(localq[c]).fg] = c  BY <1>1, <1>6, PacketsLocal
    <2>2. eth_input(c, Head(localq[c]))  BY <1>6 DEF TargetLocal
    <2> QED BY <2>1, <2>2, LogsByOwner
  <1> QED BY <1>3, <1>4, <1>5, <1>6

\* A packet is processed by the CPU its group is assigned to at that moment, so
\* two CPUs never work on one group's connections: eth_process_recv,
\* transition_handler_target.
THEOREM FlowProcessedByOwner == MaxCmds <= 1 => (Spec => ProcessedByOwner)
  <1> SUFFICES ASSUME MaxCmds <= 1 PROVE Spec => ProcessedByOwner
    OBVIOUS
  <1>1. TypeOK /\ FlowInv /\ [Next]_vars
        => [Raced \/ \A g \in Fgs : log'[g] # log[g] => Last(log'[g]).cpu = curCpu[g]]_vars
    BY NextOwner
  <1>2. Spec => []TypeOK  BY FlowTypes
  <1>3. Spec => []FlowInv  BY FlowInvariant
  <1> QED BY <1>1, <1>2, <1>3, PTL DEF Spec, ProcessedByOwner
=============================================================================
