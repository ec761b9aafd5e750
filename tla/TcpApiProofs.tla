---------------------------- MODULE TcpApiProofs ----------------------------
(***************************************************************************)
(* The control blocks of net/tcp_api.c and of the stack agree, and the     *)
(* application is given what was received, once and in order: proved for   *)
(* any number of elements, pcbs, pbufs and chains.                         *)
(*                                                                         *)
(* The argument.  The elements that are not on the free list of their      *)
(* mempool are exactly those the application has (FreeList), so a handle   *)
(* it may use never names an element that has been given to another        *)
(* connection.  An element and its pcb point to each other until one of    *)
(* them goes: a lost pcb takes its pointer out of the element, a closed    *)
(* handle takes its pcb with it, and both new blocks of a connection come  *)
(* from a free list (Paired, Listed).  What came before the application    *)
(* accepted waits on the list in one piece (ElemOK).                       *)
(***************************************************************************)
EXTENDS TcpApi, FiniteSetTheorems, SequenceTheorems, TLAPS

\* The free elements are those the application does not have, each once.
FreeList ==
    /\ IsInjective(apiFree)
    /\ Range(apiFree) = Apis \ open

\* A pcb that is in use is on the active list; one that is not is blank.
Listed == \A p \in Pcbs :
    IF Live(p) THEN pcb[p].list = "active" ELSE pcb[p] = FreePcb

\* An element the application has, and its pcb.
Paired ==
    /\ \A a \in open :
         /\ api[a].pcb # NULL => Live(api[a].pcb) /\ pcb[api[a].pcb].arg = a
         /\ api[a].alive => api[a].pcb # NULL
    /\ \A p \in Pcbs : Live(p) => pcb[p].arg \in open /\ api[pcb[p].arg].pcb = p

\* What the application was told of a connection, what waits for it on the
\* list, and what was freed: before it accepts, all that was received waits;
\* what is on the list and what was freed is what was received.
ElemOK(h) ==
    /\ told[h] = [i \in 1..Len(told[h]) |-> i]
    /\ Len(told[h]) = IF api[h].accepted THEN rx[h] ELSE 0
    /\ ~api[h].accepted => rx[h] = Bufs(api[h].recvd)
    /\ freed[h] + Bufs(api[h].recvd) * BufLen = rx[h] * BufLen
    /\ MaxChain = 1 => freed[h] <= acked[h]
Delivered == \A h \in open : ElemOK(h)

ApiInv == TypeOK /\ FreeList /\ Listed /\ Paired /\ Delivered

-----------------------------------------------------------------------------
(* Sequences without repetition: the free list of a mempool.               *)

\* The first element of a free list is taken off it.
LEMMA PopFree ==
    ASSUME NEW S, NEW q \in Seq(S), q # << >>, IsInjective(q)
    PROVE  /\ Head(q) \in Range(q) /\ Head(q) \in S
           /\ Tail(q) \in Seq(S) /\ IsInjective(Tail(q))
           /\ Range(Tail(q)) = Range(q) \ {Head(q)}
  <1>1. Len(q) \in Nat \ {0} /\ DOMAIN q = 1..Len(q)  BY EmptySeq, LenProperties
  <1>2. /\ Tail(q) \in Seq(S) /\ Len(Tail(q)) = Len(q) - 1 /\ Head(q) = q[1] /\ Head(q) \in S
        /\ \A i \in 1..Len(q) - 1 : Tail(q)[i] = q[i + 1]
    BY HeadTailProperties, <1>1
  <1>3. DOMAIN Tail(q) = 1..Len(q) - 1  BY <1>2, LenProperties
  <1>4. Head(q) \in Range(q)  BY <1>1, <1>2 DEF Range
  <1>5. IsInjective(Tail(q))
    <2> SUFFICES ASSUME NEW i \in 1..Len(q) - 1, NEW j \in 1..Len(q) - 1, Tail(q)[i] = Tail(q)[j]
                 PROVE  i = j
      BY <1>3 DEF IsInjective
    <2>1. q[i + 1] = q[j + 1] /\ i + 1 \in DOMAIN q /\ j + 1 \in DOMAIN q  BY <1>1, <1>2
    <2>2. i + 1 = j + 1  BY <2>1 DEF IsInjective
    <2> QED BY <2>2, <1>1
  <1>6. ASSUME NEW x \in Range(Tail(q)) PROVE x \in Range(q) \ {Head(q)}
    <2>1. PICK i \in 1..Len(q) - 1 : x = q[i + 1]  BY <1>2, <1>3 DEF Range
    <2>2. i + 1 \in DOMAIN q /\ 1 \in DOMAIN q /\ i + 1 # 1  BY <1>1
    <2> QED BY <1>2, <2>1, <2>2 DEF Range, IsInjective
  <1>7. ASSUME NEW x \in Range(q) \ {Head(q)} PROVE x \in Range(Tail(q))
    <2>1. PICK i \in 1..Len(q) : x = q[i]  BY <1>1 DEF Range
    <2>2. i # 1 /\ i - 1 \in 1..Len(q) - 1 /\ i - 1 + 1 = i  BY <1>1, <1>2, <2>1
    <2>3. x = Tail(q)[i - 1]  BY <1>2, <2>1, <2>2
    <2> QED BY <1>3, <2>2, <2>3 DEF Range
  <1> QED BY <1>2, <1>4, <1>5, <1>6, <1>7

\* An element that is not on a free list is put at its front.
LEMMA PushFree ==
    ASSUME NEW S, NEW q \in Seq(S), NEW h \in S, IsInjective(q), h \notin Range(q)
    PROVE  /\ <<h>> \o q \in Seq(S) /\ IsInjective(<<h>> \o q)
           /\ Range(<<h>> \o q) = Range(q) \cup {h}
  <1> DEFINE r == <<h>> \o q
  <1>1. Len(q) \in Nat /\ DOMAIN q = 1..Len(q) /\ <<h>> \in Seq(S) /\ Len(<<h>>) = 1 /\ <<h>>[1] = h
    BY LenProperties
  <1>2. /\ r \in Seq(S) /\ Len(r) = 1 + Len(q)
        /\ \A i \in 1..1 + Len(q) : r[i] = IF i <= 1 THEN <<h>>[i] ELSE q[i - 1]
    BY <1>1, ConcatProperties
  <1>3. DOMAIN r = 1..1 + Len(q)  BY <1>2, LenProperties
  <1>4. r[1] = h /\ \A i \in 1..Len(q) : r[i + 1] = q[i]
    <2>1. r[1] = h  BY <1>1, <1>2
    <2>2. ASSUME NEW i \in 1..Len(q) PROVE r[i + 1] = q[i]
      <3>1. i + 1 \in 1..1 + Len(q) /\ ~(i + 1 <= 1) /\ i + 1 - 1 = i  BY <1>1
      <3> QED BY <1>2, <3>1
    <2> QED BY <2>1, <2>2
  <1> HIDE DEF r
  <1>5. ASSUME NEW i \in 1..1 + Len(q)
        PROVE  IF i = 1 THEN r[i] = h ELSE i - 1 \in 1..Len(q) /\ r[i] = q[i - 1]
    <2>1. i # 1 => i - 1 \in 1..Len(q) /\ i - 1 + 1 = i  BY <1>1
    <2> QED BY <1>4, <2>1
  <1>6. IsInjective(r)
    <2> SUFFICES ASSUME NEW i \in 1..1 + Len(q), NEW j \in 1..1 + Len(q), r[i] = r[j]
                 PROVE  i = j
      BY <1>3 DEF IsInjective
    <2>1. \A k \in 1..Len(q) : q[k] # h  BY <1>1 DEF Range
    <2>2. CASE i = 1 \/ j = 1  BY <1>5, <2>1, <2>2
    <2>3. CASE i # 1 /\ j # 1
      <3>1. q[i - 1] = q[j - 1] /\ i - 1 \in DOMAIN q /\ j - 1 \in DOMAIN q  BY <1>1, <1>5, <2>3
      <3>2. i - 1 = j - 1  BY <3>1 DEF IsInjective
      <3> QED BY <3>2, <1>1
    <2> QED BY <2>2, <2>3
  <1>7. ASSUME NEW x \in Range(r) PROVE x \in Range(q) \cup {h}
    <2>1. PICK i \in 1..1 + Len(q) : x = r[i]  BY <1>3 DEF Range
    <2> QED BY <1>1, <1>5, <2>1 DEF Range
  <1>8. ASSUME NEW x \in Range(q) \cup {h} PROVE x \in Range(r)
    <2>1. CASE x = h
      <3>1. 1 \in DOMAIN r  BY <1>1, <1>3
      <3> QED BY <1>4, <2>1, <3>1 DEF Range
    <2>2. CASE x \in Range(q)
      <3>1. PICK i \in 1..Len(q) : x = q[i]  BY <1>1, <2>2 DEF Range
      <3>2. i + 1 \in DOMAIN r /\ x = r[i + 1]  BY <1>1, <1>3, <1>4, <3>1
      <3> QED BY <3>2 DEF Range
    <2> QED BY <2>1, <2>2
  <1> QED BY <1>2, <1>6, <1>7, <1>8 DEF r

\* The list of a new mempool has every element once.
LEMMA NewFree ==
    /\ SetToSeq(Apis) \in Seq(Apis)
    /\ IsInjective(SetToSeq(Apis)) /\ Range(SetToSeq(Apis)) = Apis
  <1> DEFINE k == Cardinality(Apis)
             q == SetToSeq(Apis)
  <1>1. k \in Nat /\ ExistsBijection(1..k, Apis)
    BY BoundAssumption, FS_CardinalityType
  <1>2. PICK f \in Bijection(1..k, Apis) : TRUE
    BY <1>1 DEF ExistsBijection
  <1>3. f \in [1..k -> Apis] /\ IsInjective(f)
    BY <1>2 DEF Bijection, Injection, IsInjective
  <1>4. q \in [1..k -> Apis] /\ IsInjective(q)
    BY <1>3 DEF SetToSeq
  <1>5. q \in Injection(1..k, Apis)
    BY <1>4 DEF Injection, IsInjective
  <1>6. Cardinality(1..k) = k
    <2>1. 1 > k => k = 0  BY <1>1
    <2>2. Cardinality(1..k) = IF 1 > k THEN 0 ELSE k - 1 + 1  BY <1>1, FS_Interval
    <2> HIDE DEF k
    <2> QED BY <1>1, <2>1, <2>2
  <1>7. q \in Surjection(1..k, Apis)
    BY <1>5, <1>6, BoundAssumption, FS_Injection
  <1> HIDE DEF k, q
  <1>8. q \in Seq(Apis)  BY <1>1, <1>4
  <1>9. Range(q) = Apis
    BY <1>4, <1>7 DEF Surjection, Range
  <1> QED BY <1>4, <1>8, <1>9 DEF q

-----------------------------------------------------------------------------
(* The pbufs of a list of chains.                                          *)

\* A list has finitely many pbufs.
LEMMA BufsType ==
    ASSUME NEW q \in Seq(1..MaxChain)
    PROVE  IsFiniteSet(Pbufs(q)) /\ Bufs(q) \in Nat
  <1>1. DOMAIN q = 1..Len(q) /\ Len(q) \in Nat  BY LenProperties
  <1>2. IsFiniteSet(DOMAIN q) /\ IsFiniteSet(1..MaxChain)
    BY <1>1, BoundAssumption, FS_Interval
  <1>3. IsFiniteSet((DOMAIN q) \X (1..MaxChain))  BY <1>2, FS_Product
  <1>4. Pbufs(q) \in SUBSET ((DOMAIN q) \X (1..MaxChain))  BY DEF Pbufs
  <1>5. IsFiniteSet(Pbufs(q))  BY <1>3, <1>4, FS_Subset
  <1> QED BY <1>5, FS_CardinalityType DEF Bufs

\* An empty list has none.
LEMMA BufsEmpty == Bufs(<< >>) = 0
  <1>1. Pbufs(<< >>) = {}  BY DEF Pbufs
  <1> QED BY <1>1, FS_EmptySet DEF Bufs

\* A chain of n pbufs at the end of the list adds n.
LEMMA BufsAppend ==
    ASSUME NEW q \in Seq(1..MaxChain), NEW n \in 1..MaxChain
    PROVE  Bufs(Append(q, n)) = Bufs(q) + n
  <1> DEFINE r == Append(q, n)
             k == Len(q) + 1
             new == {k} \X (1..n)
  <1>0. n \in Nat /\ MaxChain \in Nat /\ n <= MaxChain  BY BoundAssumption
  <1>1. DOMAIN q = 1..Len(q) /\ Len(q) \in Nat  BY LenProperties
  <1>2. /\ r \in Seq(1..MaxChain) /\ Len(r) = k /\ r[k] = n
        /\ \A i \in 1..Len(q) : r[i] = q[i]
    BY AppendProperties
  <1>3. DOMAIN r = 1..k  BY <1>2, LenProperties
  <1>k. k \in Nat /\ k \notin 1..Len(q) /\ 1..k = (1..Len(q)) \cup {k}  BY <1>1
  <1> HIDE DEF r, k
  <1>4. Pbufs(r) = Pbufs(q) \cup new
    <2>1. ASSUME NEW b \in Pbufs(r) PROVE b \in Pbufs(q) \cup new
      <3>0. PICK i \in 1..k, j \in 1..MaxChain : b = <<i, j>> /\ j <= r[i]
        BY <1>3 DEF Pbufs
      <3>1. CASE i = k
        <4>1. j \in 1..n  BY <1>0, <1>2, <3>0, <3>1
        <4> QED BY <3>0, <3>1, <4>1
      <3>2. CASE i # k
        <4>1. i \in 1..Len(q) /\ j <= q[i]  BY <1>k, <1>2, <3>0, <3>2
        <4> QED BY <1>1, <3>0, <4>1 DEF Pbufs
      <3> QED BY <3>1, <3>2
    <2>2. ASSUME NEW b \in Pbufs(q) PROVE b \in Pbufs(r)
      <3>0. PICK i \in 1..Len(q), j \in 1..MaxChain : b = <<i, j>> /\ j <= q[i]
        BY <1>1 DEF Pbufs
      <3>1. i \in 1..k /\ j <= r[i]  BY <1>k, <1>2, <3>0
      <3> QED BY <1>3, <3>0, <3>1 DEF Pbufs
    <2>3. ASSUME NEW b \in new PROVE b \in Pbufs(r)
      <3>0. PICK j \in 1..n : b = <<k, j>>  OBVIOUS
      <3>1. k \in 1..k /\ j \in 1..MaxChain /\ j <= r[k]  BY <1>0, <1>k, <1>2, <3>0
      <3> QED BY <1>3, <3>0, <3>1 DEF Pbufs
    <2> QED BY <2>1, <2>2, <2>3
  <1>5. Pbufs(q) \cap new = {}
    <2> SUFFICES ASSUME NEW b \in Pbufs(q), b \in new PROVE FALSE  OBVIOUS
    <2>1. PICK i \in 1..Len(q), j \in 1..MaxChain : b = <<i, j>>
      BY <1>1 DEF Pbufs
    <2>2. PICK m \in 1..n : b = <<k, m>>  OBVIOUS
    <2> QED BY <1>k, <2>1, <2>2
  <1>6. IsFiniteSet(new) /\ Cardinality(new) = n
    <2>1. IsFiniteSet({k}) /\ Cardinality({k}) = 1  BY FS_Singleton
    <2>2. IsFiniteSet(1..n) /\ Cardinality(1..n) = n  BY <1>0, FS_Interval
    <2>3. IsFiniteSet({k} \X (1..n)) /\ Cardinality({k} \X (1..n)) = Cardinality({k}) * Cardinality(1..n)
      BY <2>1, <2>2, FS_Product
    <2> QED BY <1>0, <2>1, <2>2, <2>3
  <1> HIDE DEF new
  <1>7. Cardinality(Pbufs(q) \cup new) = Cardinality(Pbufs(q)) + Cardinality(new)
    <2>1. IsFiniteSet(Pbufs(q)) /\ Cardinality(Pbufs(q)) \in Nat  BY BufsType DEF Bufs
    <2>2. Cardinality(Pbufs(q) \cup new) =
            Cardinality(Pbufs(q)) + Cardinality(new) - Cardinality(Pbufs(q) \cap new)
      BY <1>6, <2>1, FS_Union
    <2>3. Cardinality(Pbufs(q) \cap new) = 0  BY <1>5, FS_EmptySet
    <2>4. Cardinality(new) \in Nat  BY <1>0, <1>6
    <2> QED BY ONLY <2>1, <2>2, <2>3, <2>4
  <1> QED BY <1>4, <1>6, <1>7 DEF Bufs, r

\* With chains of one pbuf, the chains are the pbufs.
LEMMA BufsLen ==
    ASSUME MaxChain = 1, NEW q \in Seq(1..MaxChain) PROVE Bufs(q) = Len(q)
  <1>1. DOMAIN q = 1..Len(q) /\ Len(q) \in Nat /\ \A i \in 1..Len(q) : q[i] = 1
    <2>1. DOMAIN q = 1..Len(q) /\ Len(q) \in Nat  BY LenProperties
    <2>2. \A i \in 1..Len(q) : q[i] \in 1..1  BY ElementOfSeq
    <2> QED BY <2>1, <2>2
  <1>2. 1..MaxChain = {1}  OBVIOUS
  <1>3. Pbufs(q) = (1..Len(q)) \X {1}
    <2>1. ASSUME NEW b \in Pbufs(q) PROVE b \in (1..Len(q)) \X {1}
      BY <1>1, <1>2 DEF Pbufs
    <2>2. ASSUME NEW b \in (1..Len(q)) \X {1} PROVE b \in Pbufs(q)
      <3>1. PICK i \in 1..Len(q) : b = <<i, 1>>  OBVIOUS
      <3>2. 1 <= q[i]  BY <1>1
      <3> QED BY <1>1, <1>2, <3>1, <3>2 DEF Pbufs
    <2> QED BY <2>1, <2>2
  <1>4. Cardinality(1..Len(q)) = Len(q) /\ IsFiniteSet(1..Len(q))
    BY <1>1, FS_Interval, SMTT(20)
  <1>5. IsFiniteSet({1}) /\ Cardinality({1}) = 1  BY FS_Singleton
  <1>6. Cardinality((1..Len(q)) \X {1}) = Cardinality(1..Len(q)) * Cardinality({1})
    BY <1>4, <1>5, FS_Product
  <1>7. Cardinality((1..Len(q)) \X {1}) = Len(q)  BY <1>1, <1>4, <1>5, <1>6
  <1> QED BY <1>3, <1>7 DEF Bufs

-----------------------------------------------------------------------------
(* What the conjuncts of the invariant need of a step.                     *)

\* The first k pbufs of a connection, in order.
Upto(k) == [i \in 1..k |-> i]

\* n more pbufs, numbered from k + 1, follow the k the application knows.
LEMMA TellMore ==
    ASSUME NEW k \in Nat, NEW n \in Nat, k + n <= MaxBufs, NEW a
    PROVE  /\ Upto(k) \o recv_a_pbuf(a, k + 1, n) = Upto(k + n)
           /\ Upto(k + n) \in Seq(1..MaxBufs) /\ Len(Upto(k + n)) = k + n
  <1> DEFINE s == Upto(k)
             m == [i \in 1..n |-> k + 1 + i - 1]
             w == [i \in 1..k + n |-> i]
  <1>0. MaxBufs \in Nat  BY BoundAssumption
  <1>1. recv_a_pbuf(a, k + 1, n) = m  BY DEF recv_a_pbuf
  <1>2. s \in Seq(1..MaxBufs) /\ Len(s) = k /\ \A i \in 1..k : s[i] = i
    BY <1>0 DEF Upto
  <1>3. m \in Seq(1..MaxBufs) /\ Len(m) = n /\ \A i \in 1..n : m[i] = k + i
    <2>1. \A i \in 1..n : k + 1 + i - 1 \in 1..MaxBufs /\ k + 1 + i - 1 = k + i  BY <1>0
    <2> QED BY <2>1
  <1>4. w \in Seq(1..MaxBufs) /\ Len(w) = k + n /\ \A i \in 1..k + n : w[i] = i  BY <1>0
  <1> HIDE DEF m, w, s
  <1>5. /\ s \o m \in Seq(1..MaxBufs) /\ Len(s \o m) = k + n
        /\ \A i \in 1..k + n : (s \o m)[i] = IF i <= k THEN s[i] ELSE m[i - k]
    <2>1. /\ s \o m \in Seq(1..MaxBufs) /\ Len(s \o m) = Len(s) + Len(m)
          /\ \A i \in 1..Len(s) + Len(m) : (s \o m)[i] = IF i <= Len(s) THEN s[i] ELSE m[i - Len(s)]
      BY <1>2, <1>3, ConcatProperties
    <2>2. Len(s) = k /\ Len(m) = n  BY <1>2, <1>3
    <2> QED BY <2>1, <2>2
  <1>6. ASSUME NEW i \in 1..k + n PROVE (s \o m)[i] = w[i]
    <2>1. CASE i <= k
      <3>1. i \in 1..k  BY <2>1
      <3> QED BY <1>2, <1>4, <1>5, <2>1, <3>1
    <2>2. CASE ~(i <= k)
      <3>1. i - k \in 1..n /\ k + (i - k) = i  BY <2>2
      <3> QED BY <1>3, <1>4, <1>5, <2>2, <3>1
    <2> QED BY <2>1, <2>2
  <1>7. s \o m = w  BY <1>4, <1>5, <1>6, SeqEqual
  <1> QED BY <1>1, <1>4, <1>7 DEF w, s, Upto

\* The blank blocks.
LEMMA Blank ==
    /\ FreePcb \in PcbType /\ FreePcb.state = "FREE"
    /\ << >> \in Seq(1..MaxChain) /\ << >> \in Seq(1..MaxBufs)
  <1>1. 0 \in 0..SndBuf  BY BoundAssumption
  <1> QED BY <1>1 DEF FreePcb, PcbType

\* The fields of a block have their types.
LEMMA Fields ==
    ASSUME TypeOK
    PROVE  /\ \A a \in Apis : /\ api[a] \in ApiType /\ api[a].pcb \in Pcbs \cup {NULL}
                              /\ api[a].id \in Ids \cup {NULL}
                              /\ api[a].recvd \in Seq(1..MaxChain)
                              /\ api[a].alive \in BOOLEAN /\ api[a].accepted \in BOOLEAN
                              /\ rx[a] \in Nat /\ rx[a] <= MaxBufs /\ freed[a] \in Nat
                              /\ acked[a] \in Nat /\ told[a] \in Seq(1..MaxBufs)
           /\ \A p \in Pcbs : /\ pcb[p] \in PcbType /\ pcb[p].arg \in Apis \cup {NULL}
                              /\ pcb[p].queued \in 0..SndBuf
           /\ open \subseteq Apis /\ MaxBufs \in Nat
  BY BoundAssumption DEF TypeOK, ApiType, PcbType

\* A handle the application has is not on the free list, and conversely.
LEMMA OpenAllocated ==
    ASSUME ApiInv PROVE \A a \in Apis : Allocated(a) <=> a \in open
  BY DEF ApiInv, FreeList, Allocated

\* What a live pcb points to.
LEMMA LivePaired ==
    ASSUME ApiInv, NEW p \in Pcbs, Live(p)
    PROVE  /\ pcb[p].arg \in open /\ pcb[p].arg \in Apis /\ api[pcb[p].arg].pcb = p
           /\ pcb[p].list = "active" /\ p # NULL
  BY BoundAssumption, Fields DEF ApiInv, Paired, Listed

\* A pcb with a state other than FREE, or on a list, is live.
LEMMA ActiveLive ==
    ASSUME ApiInv, NEW p \in Pcbs
    PROVE  /\ pcb[p].list = "active" => Live(p)
           /\ pcb[p].queued > 0 => Live(p)
  BY DEF ApiInv, Listed, FreePcb

\* What ElemOK says of a connection stays while its fields do.
SameElem(h) ==
    /\ api'[h].accepted = api[h].accepted /\ api'[h].recvd = api[h].recvd
    /\ told'[h] = told[h] /\ rx'[h] = rx[h] /\ freed'[h] = freed[h] /\ acked'[h] = acked[h]

\* What ElemOK says of a connection stays while its fields do.
LEMMA ElemSame == ASSUME NEW h, ElemOK(h), SameElem(h) PROVE ElemOK(h)'
  BY DEF ElemOK, SameElem

\* A new connection has received nothing.
LEMMA ElemNew ==
    ASSUME NEW h, told'[h] = << >>, rx'[h] = 0, freed'[h] = 0, acked'[h] = 0,
           api'[h].recvd = << >>
    PROVE  ElemOK(h)'
  <1>1. Bufs(api'[h].recvd) = 0  BY BufsEmpty
  <1>2. BufLen \in Nat  BY BoundAssumption
  <1> QED BY <1>1, <1>2 DEF ElemOK

\* The blocks of the connections stay paired when no pointer changes.
LEMMA PairSame ==
    ASSUME TypeOK, Paired, open' = open,
           \A a \in open : api'[a].pcb = api[a].pcb /\ (api'[a].alive => api[a].alive),
           \A p \in Pcbs : /\ Live(p)' <=> Live(p)
                           /\ pcb'[p].arg = pcb[p].arg
    PROVE  Paired'
  <1>1. \A a \in open : api[a].pcb # NULL => api[a].pcb \in Pcbs
    BY Fields
  <1> QED BY <1>1 DEF Paired, Live

\* A free element and a free pcb are paired.
LEMMA PairNew ==
    ASSUME TypeOK, Paired, NEW a \in Apis, a \notin open, NEW p \in Pcbs, ~Live(p),
           open' = open \cup {a}, api'[a].pcb = p, pcb'[p].arg = a, pcb'[p].state # "FREE",
           \A b \in Apis \ {a} : api'[b] = api[b],
           \A q \in Pcbs \ {p} : pcb'[q] = pcb[q]
    PROVE  Paired'
  <1>0. p # NULL  BY BoundAssumption
  <1>1. ASSUME NEW b \in open'
        PROVE  /\ api'[b].pcb # NULL => pcb'[api'[b].pcb].state # "FREE" /\ pcb'[api'[b].pcb].arg = b
               /\ api'[b].alive => api'[b].pcb # NULL
    <2>1. CASE b = a  BY <1>0, <2>1
    <2>2. CASE b # a
      <3>1. b \in open /\ api'[b] = api[b] /\ api[b].pcb \in Pcbs \cup {NULL}
        BY <2>2, Fields
      <3>2. api[b].pcb # NULL => api[b].pcb # p  BY <3>1 DEF Paired
      <3> QED BY <3>1, <3>2 DEF Paired, Live
    <2> QED BY <2>1, <2>2
  <1>2. ASSUME NEW q \in Pcbs, pcb'[q].state # "FREE"
        PROVE  pcb'[q].arg \in open' /\ api'[pcb'[q].arg].pcb = q
    <2>1. CASE q = p  BY <2>1
    <2>2. CASE q # p
      <3>1. Live(q) /\ pcb'[q] = pcb[q]  BY <1>2, <2>2 DEF Live
      <3>2. pcb[q].arg \in open /\ pcb[q].arg \in Apis /\ api[pcb[q].arg].pcb = q
        BY <3>1, Fields DEF Paired
      <3> QED BY <3>1, <3>2
    <2> QED BY <2>1, <2>2
  <1> QED BY <1>1, <1>2 DEF Paired, Live

\* The blocks stay paired when a pcb goes, and its element either forgets it
\* or goes with it.
LEMMA PairGone ==
    ASSUME TypeOK, Paired, NEW p \in Pcbs, NEW a \in Apis, api[a].pcb = p, Live(p), pcb[p].arg = a,
           open' \subseteq open,
           a \in open' => api'[a].pcb = NULL /\ ~api'[a].alive,
           \A b \in open \ {a} : api'[b] = api[b] /\ b \in open',
           pcb'[p].state = "FREE",
           \A q \in Pcbs \ {p} : pcb'[q] = pcb[q]
    PROVE  Paired'
  <1>1. ASSUME NEW b \in open'
        PROVE  /\ api'[b].pcb # NULL => pcb'[api'[b].pcb].state # "FREE" /\ pcb'[api'[b].pcb].arg = b
               /\ api'[b].alive => api'[b].pcb # NULL
    <2>1. CASE b = a  BY <2>1
    <2>2. CASE b # a
      <3>1. b \in open /\ api'[b] = api[b] /\ api[b].pcb \in Pcbs \cup {NULL}
        BY <2>2, Fields
      <3>2. api[b].pcb # p \/ api[b].pcb = NULL  BY <2>2, <3>1 DEF Paired
      <3> QED BY <3>1, <3>2 DEF Paired, Live
    <2> QED BY <2>1, <2>2
  <1>2. ASSUME NEW q \in Pcbs, pcb'[q].state # "FREE"
        PROVE  pcb'[q].arg \in open' /\ api'[pcb'[q].arg].pcb = q
    <2>1. q # p /\ pcb'[q] = pcb[q] /\ Live(q)  BY <1>2 DEF Live
    <2>2. pcb[q].arg \in open /\ api[pcb[q].arg].pcb = q  BY <2>1 DEF Paired
    <2>3. pcb[q].arg # a  BY <2>1, <2>2
    <2> QED BY <2>1, <2>2, <2>3
  <1> QED BY <1>1, <1>2 DEF Paired, Live

\* The list that is left when some chains are given back: no more pbufs than
\* before, and with chains of one pbuf, one less for each that was given back.
LEMMA BufsRest ==
    ASSUME NEW q \in Seq(1..MaxChain), NEW k \in Nat
    PROVE  /\ SubSeq(q, k + 1, Len(q)) \in Seq(1..MaxChain)
           /\ Bufs(SubSeq(q, k + 1, Len(q))) \in Nat
           /\ Bufs(SubSeq(q, k + 1, Len(q))) <= Bufs(q)
           /\ MaxChain = 1 => Bufs(q) - Bufs(SubSeq(q, k + 1, Len(q))) <= k
  <1> DEFINE r == SubSeq(q, k + 1, Len(q))
  <1>1. DOMAIN q = 1..Len(q) /\ Len(q) \in Nat  BY LenProperties
  <1>2. \A i \in k + 1..Len(q) : q[i] \in 1..MaxChain
    <2>1. \A i \in 1..Len(q) : q[i] \in 1..MaxChain  BY ElementOfSeq
    <2>2. \A i \in k + 1..Len(q) : i \in 1..Len(q)  BY <1>1
    <2> QED BY <2>1, <2>2
  <1>3. /\ r \in Seq(1..MaxChain)
        /\ Len(r) = IF k + 1 <= Len(q) THEN Len(q) - (k + 1) + 1 ELSE 0
        /\ \A i \in 1..Len(q) - (k + 1) + 1 : r[i] = q[k + 1 + i - 1]
    <2>1. k + 1 \in Int /\ Len(q) \in Int  BY <1>1
    <2> QED BY <1>2, <2>1, SubSeqProperties
  <1>4. DOMAIN r = 1..Len(r) /\ Len(r) \in Nat  BY <1>3, LenProperties
  <1> HIDE DEF r
  <1>5. ASSUME NEW i \in DOMAIN r PROVE i + k \in DOMAIN q /\ r[i] = q[i + k]
    <2>1. i \in 1..Len(q) - (k + 1) + 1 /\ k + 1 + i - 1 = i + k /\ i + k \in 1..Len(q)
      <3>1. i \in 1..Len(r) /\ Len(q) \in Nat  BY <1>1, <1>4
      <3>2. CASE k + 1 <= Len(q)
        <4>1. Len(r) = Len(q) - (k + 1) + 1  BY <1>3, <3>2
        <4> QED BY ONLY <3>1, <4>1, k \in Nat
      <3>3. CASE ~(k + 1 <= Len(q))
        <4>1. Len(r) = 0  BY <1>3, <3>3
        <4> QED BY ONLY <3>1, <4>1
      <3> QED BY <3>2, <3>3
    <2> QED BY <1>1, <1>3, <2>1
  <1>6. IsFiniteSet(Pbufs(q)) /\ Bufs(q) \in Nat /\ IsFiniteSet(Pbufs(r)) /\ Bufs(r) \in Nat
    BY <1>3, BufsType
  <1> DEFINE f == [b \in Pbufs(r) |-> <<b[1] + k, b[2]>>]
  <1>7. f \in Injection(Pbufs(r), Pbufs(q))
    <2>1. ASSUME NEW b \in Pbufs(r)
          PROVE  /\ <<b[1] + k, b[2]>> \in Pbufs(q) /\ b[1] \in Nat /\ b = <<b[1], b[2]>>
      <3>1. PICK i \in DOMAIN r, j \in 1..MaxChain : b = <<i, j>> /\ j <= r[i]  BY DEF Pbufs
      <3>2. i + k \in DOMAIN q /\ j <= q[i + k]  BY <1>5, <3>1
      <3>3. <<i + k, j>> \in Pbufs(q)  BY <3>1, <3>2 DEF Pbufs
      <3>4. i \in Nat  BY <1>4
      <3> QED BY <3>1, <3>3, <3>4
    <2>2. f \in [Pbufs(r) -> Pbufs(q)]  BY <2>1
    <2>3. ASSUME NEW b \in Pbufs(r), NEW c \in Pbufs(r), f[b] = f[c] PROVE b = c
      <3>1. b[1] + k = c[1] + k /\ b[2] = c[2]  BY <2>3
      <3>2. b[1] \in Nat /\ c[1] \in Nat  BY <2>1
      <3>3. b[1] = c[1]  BY ONLY <3>1, <3>2, k \in Nat
      <3>4. b = <<b[1], b[2]>> /\ c = <<c[1], c[2]>>  BY <2>1
      <3> QED BY <3>1, <3>3, <3>4
    <2> HIDE DEF f
    <2> QED BY <2>2, <2>3 DEF Injection, IsInjective
  <1>8. Bufs(r) <= Bufs(q)
    BY <1>6, <1>7, FS_Injection DEF Bufs
  <1>9. ASSUME MaxChain = 1 PROVE Bufs(q) - Bufs(r) <= k
    <2>1. Bufs(q) = Len(q) /\ Bufs(r) = Len(r)  BY <1>3, <1>9, BufsLen
    <2>2. CASE k + 1 <= Len(q)
      <3>1. Len(r) = Len(q) - (k + 1) + 1  BY <1>3, <2>2
      <3> QED BY ONLY <1>1, <2>1, <3>1, k \in Nat
    <2>3. CASE ~(k + 1 <= Len(q))
      <3>1. Len(r) = 0  BY <1>3, <2>3
      <3> QED BY ONLY <1>1, <2>1, <2>3, <3>1, k \in Nat
    <2> QED BY <2>2, <2>3
  <1> QED BY <1>3, <1>6, <1>8, <1>9 DEF r
-----------------------------------------------------------------------------
(* The steps of the stack.                                                 *)

\* The peer resets the connection: its element forgets the pcb.
LEMMA PcbLostStep ==
    ASSUME ApiInv, NEW p \in Pcbs, PcbLost(p) PROVE ApiInv'
  <1> DEFINE a == pcb[p].arg
  <1>1. Live(p) /\ a \in open /\ a \in Apis /\ api[a].pcb = p
    BY ActiveLive, LivePaired DEF PcbLost
  <1>2. /\ pcb' = [pcb EXCEPT ![p] = FreePcb]
        /\ api' = [api EXCEPT ![a] = [[api[a] EXCEPT !.alive = FALSE] EXCEPT !.pcb = NULL]]
        /\ open' = open
        /\ UNCHANGED <<apiFree, idFree, filters, fault, told, acked, rx, freed>>
    BY <1>1 DEF PcbLost, tcp_abandon, tcp_pcb_remove, on_err, mark_dead, histVars
  <1>3. TypeOK /\ FreeList /\ Listed /\ Paired /\ Delivered  BY DEF ApiInv
  <1> HIDE DEF a
  <1>4. /\ api' \in [Apis -> ApiType] /\ api'[a].pcb = NULL /\ api'[a].alive = FALSE
        /\ api'[a].accepted = api[a].accepted /\ api'[a].recvd = api[a].recvd
        /\ \A b \in Apis \ {a} : api'[b] = api[b]
    BY <1>1, <1>2, <1>3 DEF TypeOK, ApiType
  <1>5. /\ pcb' \in [Pcbs -> PcbType] /\ pcb'[p] = FreePcb
        /\ \A q \in Pcbs \ {p} : pcb'[q] = pcb[q]
    BY <1>2, <1>3, Blank DEF TypeOK
  <1>6. TypeOK'  BY <1>2, <1>3, <1>4, <1>5 DEF TypeOK
  <1>7. FreeList'  BY <1>2, <1>3 DEF FreeList
  <1>8. Listed'
    <2> SUFFICES ASSUME NEW q \in Pcbs
                 PROVE  IF pcb'[q].state # "FREE" THEN pcb'[q].list = "active" ELSE pcb'[q] = FreePcb
      BY DEF Listed, Live
    <2> QED BY <1>3, <1>5, Blank DEF Listed, Live
  <1>9. Paired'
    <2>1. pcb'[p].state = "FREE"  BY <1>5, Blank
    <2>2. open' \subseteq open /\ pcb[p].arg = a  BY <1>2 DEF a
    <2>3. \A b \in open \ {a} : api'[b] = api[b] /\ b \in open'
      BY <1>2, <1>3, <1>4 DEF TypeOK
    <2> QED BY <1>1, <1>3, <1>4, <1>5, <2>1, <2>2, <2>3, PairGone
  <1>10. Delivered'
    <2> SUFFICES ASSUME NEW h \in open' PROVE ElemOK(h)'  BY DEF Delivered
    <2>1. h \in open /\ h \in Apis /\ ElemOK(h)  BY <1>2, <1>3 DEF Delivered, TypeOK
    <2>2. SameElem(h)  BY <1>2, <1>4, <2>1 DEF SameElem
    <2> QED BY <2>1, <2>2, ElemSame
  <1> QED BY <1>6, <1>7, <1>8, <1>9, <1>10 DEF ApiInv

\* What a step that takes an element off the free list and gives it to a new
\* connection does to the free list and to what is delivered.
NewElem(a) ==
    /\ apiFree # << >> /\ a = Head(apiFree) /\ apiFree' = Tail(apiFree)
    /\ open' = open \cup {a}
    /\ told' = [told EXCEPT ![a] = << >>] /\ acked' = [acked EXCEPT ![a] = 0]
    /\ rx' = [rx EXCEPT ![a] = 0] /\ freed' = [freed EXCEPT ![a] = 0]
    /\ api' \in [Apis -> ApiType] /\ api'[a].recvd = << >>
    /\ \A b \in Apis \ {a} : api'[b] = api[b]

\* The new element was free, and nothing has been received on it.
LEMMA NewElemStep ==
    ASSUME ApiInv, NEW a, NewElem(a)
    PROVE  /\ a \in Apis /\ a \notin open /\ FreeList' /\ Delivered'
           /\ apiFree' \in Seq(Apis) /\ open' \subseteq Apis /\ told' \in [Apis -> Seq(1..MaxBufs)]
           /\ acked' \in [Apis -> Nat] /\ rx' \in [Apis -> 0..MaxBufs] /\ freed' \in [Apis -> Nat]
  <1>1. TypeOK /\ FreeList /\ Delivered  BY DEF ApiInv
  <1>2. apiFree \in Seq(Apis) /\ IsInjective(apiFree) /\ Range(apiFree) = Apis \ open
    BY <1>1 DEF TypeOK, FreeList
  <1>3. /\ a \in Range(apiFree) /\ a \in Apis
        /\ apiFree' \in Seq(Apis) /\ IsInjective(apiFree') /\ Range(apiFree') = Range(apiFree) \ {a}
    BY <1>2, PopFree DEF NewElem
  <1>4. a \notin open /\ Range(apiFree') = Apis \ open'  BY <1>2, <1>3 DEF NewElem
  <1>5. FreeList'  BY <1>3, <1>4 DEF FreeList
  <1>6. 0 \in 0..MaxBufs /\ 0 \in Nat  BY BoundAssumption
  <1>7. /\ open' \subseteq Apis /\ told' \in [Apis -> Seq(1..MaxBufs)]
        /\ acked' \in [Apis -> Nat] /\ rx' \in [Apis -> 0..MaxBufs] /\ freed' \in [Apis -> Nat]
    BY <1>1, <1>3, <1>6, Blank DEF TypeOK, NewElem
  <1>8. Delivered'
    <2> SUFFICES ASSUME NEW h \in open' PROVE ElemOK(h)'  BY DEF Delivered
    <2>1. CASE h = a
      <3>1. /\ told'[h] = << >> /\ rx'[h] = 0 /\ freed'[h] = 0 /\ acked'[h] = 0
            /\ api'[h].recvd = << >>
        BY <1>1, <1>3, <2>1 DEF NewElem, TypeOK
      <3> QED BY <3>1, ElemNew
    <2>2. CASE h # a
      <3>1. h \in open /\ h \in Apis /\ ElemOK(h)
        BY <1>1, <2>2 DEF Delivered, TypeOK, NewElem
      <3>2. SameElem(h)  BY <1>1, <2>2, <3>1 DEF SameElem, NewElem, TypeOK
      <3> QED BY <3>1, <3>2, ElemSame
    <2> QED BY <2>1, <2>2
  <1> QED BY <1>3, <1>4, <1>5, <1>7, <1>8

\* A handshake ends: a new element, or nothing.
LEMMA AcceptStep ==
    ASSUME ApiInv, NEW p \in Pcbs, Accept(p) PROVE ApiInv'
  <1>0. TypeOK /\ FreeList /\ Listed /\ Paired /\ Delivered  BY DEF ApiInv
  <1>1. CASE on_accept(p)
    <2> DEFINE a == Head(apiFree)
    <2>0. ~Live(p) /\ UNCHANGED <<filters, fault>>  BY DEF Accept
    <2>1. PICK i \in idFree :
            /\ idFree' = idFree \ {i}
            /\ api' = [api EXCEPT ![a] = [FreeApi EXCEPT !.alive = TRUE, !.pcb = p, !.id = i]]
      BY <1>1 DEF on_accept
    <2>2. /\ apiFree # << >> /\ apiFree' = Tail(apiFree) /\ open' = open \cup {a}
          /\ pcb' = [pcb EXCEPT ![p] = [FreePcb EXCEPT !.state = "ESTABLISHED", !.list = "active", !.arg = a]]
          /\ told' = [told EXCEPT ![a] = << >>] /\ acked' = [acked EXCEPT ![a] = 0]
          /\ rx' = [rx EXCEPT ![a] = 0] /\ freed' = [freed EXCEPT ![a] = 0]
      BY <1>1 DEF on_accept
    <2>3. a \in Apis  BY <1>0, <2>2, PopFree DEF TypeOK, FreeList
    <2>4. i \in Ids /\ idFree' \subseteq Ids  BY <1>0, <2>1 DEF TypeOK
    <2>5. a = Head(apiFree)  OBVIOUS
    <2> HIDE DEF a
    <2>6. /\ api' \in [Apis -> ApiType] /\ api'[a].recvd = << >> /\ api'[a].pcb = p
          /\ \A b \in Apis \ {a} : api'[b] = api[b]
      BY <1>0, <2>1, <2>3, <2>4, Blank DEF TypeOK, ApiType, FreeApi
    <2>7. NewElem(a)  BY <2>2, <2>5, <2>6 DEF NewElem
    <2>8. /\ a \notin open /\ FreeList' /\ Delivered'
          /\ apiFree' \in Seq(Apis) /\ open' \subseteq Apis /\ told' \in [Apis -> Seq(1..MaxBufs)]
          /\ acked' \in [Apis -> Nat] /\ rx' \in [Apis -> 0..MaxBufs] /\ freed' \in [Apis -> Nat]
      BY <2>7, NewElemStep
    <2>9. /\ pcb' \in [Pcbs -> PcbType] /\ pcb'[p].state = "ESTABLISHED"
          /\ pcb'[p].list = "active" /\ pcb'[p].arg = a
          /\ \A q \in Pcbs \ {p} : pcb'[q] = pcb[q]
      <3>1. 0 \in 0..SndBuf  BY BoundAssumption
      <3> QED BY <1>0, <2>2, <2>3, <3>1 DEF TypeOK, PcbType, FreePcb
    <2>10. TypeOK'  BY <1>0, <2>0, <2>4, <2>6, <2>8, <2>9 DEF TypeOK
    <2>11. Listed'
      <3> SUFFICES ASSUME NEW q \in Pcbs
                   PROVE  IF pcb'[q].state # "FREE" THEN pcb'[q].list = "active" ELSE pcb'[q] = FreePcb
        BY DEF Listed, Live
      <3> QED BY <1>0, <2>9 DEF Listed, Live
    <2>12. Paired'
      <3>1. pcb'[p].state # "FREE"  BY <2>9
      <3> QED BY <1>0, <2>0, <2>2, <2>3, <2>6, <2>8, <2>9, <3>1, PairNew
    <2> QED BY <2>8, <2>10, <2>11, <2>12 DEF ApiInv
  <1>2. CASE AcceptFails
    <2>1. UNCHANGED vars  BY <1>2 DEF AcceptFails, Accept, vars, apiVars, appVars, histVars
    <2> QED BY <2>1 DEF ApiInv, TypeOK, FreeList, Listed, Paired, Delivered, ElemOK, Live,
                        vars, apiVars, appVars, histVars
  <1> QED BY <1>1, <1>2 DEF Accept

\* Data comes: it goes to the end of the list, and to an application that has
\* accepted the connection.
LEMMA ReceiveStep ==
    ASSUME ApiInv, NEW p \in Pcbs, NEW n \in 1..MaxChain, Receive(p, n) PROVE ApiInv'
  <1> DEFINE a == pcb[p].arg
             q == api[a].recvd
  <1>0. TypeOK /\ FreeList /\ Listed /\ Paired /\ Delivered  BY DEF ApiInv
  <1>1. Live(p) /\ a \in open /\ a \in Apis /\ api[a].pcb = p
    <2>1. Live(p)  BY DEF Receive, Live
    <2> QED BY <2>1, LivePaired
  <1>2. /\ rx[a] + n <= MaxBufs
        /\ api' = [api EXCEPT ![a].recvd = Append(q, n)]
        /\ rx' = [rx EXCEPT ![a] = rx[a] + n]
        /\ told' = IF api[a].accepted
                   THEN [told EXCEPT ![a] = told[a] \o recv_a_pbuf(a, rx[a] + 1, n)]
                   ELSE told
        /\ UNCHANGED <<apiFree, idFree, pcb, filters, fault, open, acked, freed>>
    <2>1. rx \in [Apis -> 0..MaxBufs] /\ told \in [Apis -> Seq(1..MaxBufs)] /\ api \in [Apis -> ApiType]
      BY <1>0 DEF TypeOK
    <2> QED BY <1>1, <2>1 DEF Receive, on_recv, ApiType
  <1>3. /\ q \in Seq(1..MaxChain) /\ rx[a] \in Nat /\ freed[a] \in Nat /\ n \in Nat /\ n > 0
        /\ MaxBufs \in Nat /\ told[a] \in Seq(1..MaxBufs) /\ api[a].accepted \in BOOLEAN
        /\ acked[a] \in Nat
    BY <1>0, <1>1, Fields, BoundAssumption
  <1>4. Append(q, n) \in Seq(1..MaxChain) /\ Bufs(Append(q, n)) = Bufs(q) + n /\ Bufs(q) \in Nat
    BY <1>3, BufsAppend, BufsType, AppendProperties
  <1>5. ElemOK(a)  BY <1>0, <1>1 DEF Delivered
  <1>t. pcb[p].arg = a  OBVIOUS
  <1> HIDE DEF a
  <1>6. /\ api' \in [Apis -> ApiType] /\ api'[a].recvd = Append(q, n) /\ api'[a].pcb = api[a].pcb
        /\ api'[a].alive = api[a].alive /\ api'[a].accepted = api[a].accepted
        /\ \A b \in Apis \ {a} : api'[b] = api[b]
    BY <1>0, <1>1, <1>2, <1>4 DEF TypeOK, ApiType
  <1>7. rx' \in [Apis -> 0..MaxBufs] /\ rx'[a] = rx[a] + n /\ \A b \in Apis \ {a} : rx'[b] = rx[b]
    <2>1. rx[a] + n \in 0..MaxBufs  BY <1>2, <1>3
    <2> QED BY <1>0, <1>1, <1>2, <2>1 DEF TypeOK
  <1>8. /\ told' \in [Apis -> Seq(1..MaxBufs)] /\ \A b \in Apis \ {a} : told'[b] = told[b]
        /\ told'[a] = [i \in 1..Len(told'[a]) |-> i]
        /\ Len(told'[a]) = IF api[a].accepted THEN rx[a] + n ELSE 0
    <2>1. CASE api[a].accepted
      <3> DEFINE s == told[a] \o recv_a_pbuf(a, rx[a] + 1, n)
      <3>1. told[a] = [i \in 1..rx[a] |-> i]  BY <1>5, <2>1 DEF ElemOK
      <3>2. /\ s \in Seq(1..MaxBufs) /\ Len(s) = rx[a] + n /\ s = [i \in 1..rx[a] + n |-> i]
        <4>1. /\ Upto(rx[a]) \o recv_a_pbuf(a, rx[a] + 1, n) = Upto(rx[a] + n)
              /\ Upto(rx[a] + n) \in Seq(1..MaxBufs) /\ Len(Upto(rx[a] + n)) = rx[a] + n
          BY <1>2, <1>3, TellMore
        <4>2. s = Upto(rx[a] + n)  BY <3>1, <4>1 DEF Upto
        <4> QED BY <4>1, <4>2 DEF Upto
      <3>3. told' = [told EXCEPT ![a] = s]  BY <1>2, <2>1
      <3> HIDE DEF s
      <3>4. told' \in [Apis -> Seq(1..MaxBufs)] /\ told'[a] = s /\ \A b \in Apis \ {a} : told'[b] = told[b]
        BY <1>0, <1>1, <3>2, <3>3 DEF TypeOK
      <3> QED BY <2>1, <3>2, <3>4
    <2>2. CASE ~api[a].accepted
      BY <1>0, <1>2, <1>5, <2>2 DEF TypeOK, ElemOK
    <2> QED BY <2>1, <2>2
  <1>9. TypeOK'  BY <1>0, <1>2, <1>6, <1>7, <1>8 DEF TypeOK
  <1>10. FreeList'  BY <1>0, <1>2 DEF FreeList
  <1>11. Listed'  BY <1>0, <1>2 DEF Listed, Live
  <1>12. Paired'
    <2>1. \A b \in open : api'[b].pcb = api[b].pcb /\ (api'[b].alive => api[b].alive)
      BY <1>0, <1>6 DEF TypeOK
    <2>2. \A r \in Pcbs : (Live(r)' <=> Live(r)) /\ pcb'[r].arg = pcb[r].arg  BY <1>2 DEF Live
    <2>3. open' = open  BY <1>2
    <2> QED BY <1>0, <2>1, <2>2, <2>3, PairSame
  <1>13. Delivered'
    <2> SUFFICES ASSUME NEW h \in open' PROVE ElemOK(h)'  BY DEF Delivered
    <2>1. CASE h # a
      <3>1. h \in open /\ h \in Apis /\ ElemOK(h)  BY <1>0, <1>2 DEF Delivered, TypeOK
      <3>2. SameElem(h)  BY <1>2, <1>6, <1>7, <1>8, <2>1, <3>1 DEF SameElem
      <3> QED BY <3>1, <3>2, ElemSame
    <2>2. CASE h = a
      <3>1. Bufs(api'[a].recvd) = Bufs(q) + n  BY <1>4, <1>6
      <3>2. ~api[a].accepted => rx[a] = Bufs(q)  BY <1>5 DEF ElemOK
      <3>3. freed[a] + Bufs(q) * BufLen = rx[a] * BufLen  BY <1>5 DEF ElemOK
      <3>4. freed[a] + (Bufs(q) + n) * BufLen = (rx[a] + n) * BufLen
        <4>1. BufLen \in Nat  BY BoundAssumption
        <4>2. (Bufs(q) + n) * BufLen = Bufs(q) * BufLen + n * BufLen
          BY ONLY <1>3, <1>4, <4>1, SMT
        <4>3. (rx[a] + n) * BufLen = rx[a] * BufLen + n * BufLen
          BY ONLY <1>3, <4>1, SMT
        <4>4. n * BufLen \in Nat /\ Bufs(q) * BufLen \in Nat /\ rx[a] * BufLen \in Nat
          BY ONLY <1>3, <1>4, <4>1, SMT
        <4> QED BY ONLY <1>3, <3>3, <4>2, <4>3, <4>4, SMT
      <3>5. MaxChain = 1 => freed'[a] <= acked'[a]  BY <1>2, <1>5 DEF ElemOK
      <3> QED BY <1>2, <1>6, <1>7, <1>8, <2>2, <3>1, <3>2, <3>4, <3>5 DEF ElemOK
    <2> QED BY <2>1, <2>2
  <1> QED BY <1>9, <1>10, <1>11, <1>12, <1>13 DEF ApiInv

\* A step that changes neither the elements nor what was delivered, and keeps
\* every pcb live with its argument, keeps the invariant.
LEMMA PcbOnlyStep ==
    ASSUME ApiInv, UNCHANGED <<apiVars, filters, appVars, histVars>>, fault' \in BOOLEAN,
           pcb' \in [Pcbs -> PcbType],
           \A p \in Pcbs : /\ Live(p)' <=> Live(p)
                           /\ pcb'[p].arg = pcb[p].arg
                           /\ pcb'[p].list = pcb[p].list
                           /\ ~Live(p) => pcb'[p] = pcb[p]
    PROVE  ApiInv'
  <1>0. TypeOK /\ FreeList /\ Listed /\ Paired /\ Delivered  BY DEF ApiInv
  <1>1. UNCHANGED <<apiFree, idFree, api, filters, open, told, acked, rx, freed>>
    BY DEF apiVars, appVars, histVars
  <1>2. TypeOK'  BY <1>0, <1>1 DEF TypeOK
  <1>3. FreeList'  BY <1>0, <1>1 DEF FreeList
  <1>4. Listed'  BY <1>0 DEF Listed
  <1>5. Paired'  BY <1>0, <1>1, PairSame
  <1>6. Delivered'  BY <1>0, <1>1 DEF Delivered, ElemOK
  <1> QED BY <1>2, <1>3, <1>4, <1>5, <1>6 DEF ApiInv

\* A fault stops the kernel where it is.
LEMMA CrashStep ==
    ASSUME ApiInv, fault' = TRUE, UNCHANGED <<apiVars, pcb, filters, appVars, histVars>>
    PROVE  ApiInv'
  <1>1. TypeOK  BY DEF ApiInv
  <1>2. pcb' \in [Pcbs -> PcbType]  BY <1>1 DEF TypeOK
  <1> QED BY <1>2, PcbOnlyStep DEF Live

\* The peer closes its side: the handle is dead, the pcb is still there.
LEMMA RecvClosedStep ==
    ASSUME ApiInv, NEW p \in Pcbs, on_recv_closed(p) PROVE ApiInv'
  <1> DEFINE a == pcb[p].arg
  <1>0. TypeOK /\ FreeList /\ Listed /\ Paired /\ Delivered  BY DEF ApiInv
  <1>1. Live(p) /\ a \in open /\ a \in Apis /\ api[a].pcb = p
    <2>1. Live(p)  BY DEF on_recv_closed, Live
    <2> QED BY <2>1, LivePaired
  <1>2. /\ api' = [api EXCEPT ![a] = [api[a] EXCEPT !.alive = FALSE]]
        /\ pcb' = [pcb EXCEPT ![p].state = "CLOSE_WAIT"]
        /\ UNCHANGED <<apiFree, idFree, filters, fault, open, told, acked, rx, freed>>
    BY DEF on_recv_closed, mark_dead, appVars, histVars
  <1> HIDE DEF a
  <1>3. /\ api' \in [Apis -> ApiType] /\ api'[a].pcb = api[a].pcb /\ ~api'[a].alive
        /\ api'[a].accepted = api[a].accepted /\ api'[a].recvd = api[a].recvd
        /\ \A b \in Apis \ {a} : api'[b] = api[b]
    BY <1>0, <1>1, <1>2 DEF TypeOK, ApiType
  <1>4. /\ pcb' \in [Pcbs -> PcbType] /\ pcb'[p].state = "CLOSE_WAIT" /\ pcb'[p].arg = pcb[p].arg
        /\ pcb'[p].list = pcb[p].list /\ \A q \in Pcbs \ {p} : pcb'[q] = pcb[q]
    BY <1>0, <1>2 DEF TypeOK, PcbType
  <1>5. TypeOK'  BY <1>0, <1>2, <1>3, <1>4 DEF TypeOK
  <1>6. FreeList'  BY <1>0, <1>2 DEF FreeList
  <1>7. \A q \in Pcbs : (Live(q)' <=> Live(q)) /\ pcb'[q].arg = pcb[q].arg
    BY <1>1, <1>4 DEF Live
  <1>8. Listed'
    <2> SUFFICES ASSUME NEW q \in Pcbs
                 PROVE  IF pcb'[q].state # "FREE" THEN pcb'[q].list = "active" ELSE pcb'[q] = FreePcb
      BY DEF Listed, Live
    <2> QED BY <1>0, <1>1, <1>4 DEF Listed, Live
  <1>9. Paired'
    <2>1. \A b \in open : api'[b].pcb = api[b].pcb /\ (api'[b].alive => api[b].alive)
      BY <1>0, <1>3 DEF TypeOK
    <2>2. open' = open  BY <1>2
    <2> QED BY <1>0, <1>7, <2>1, <2>2, PairSame
  <1>10. Delivered'
    <2> SUFFICES ASSUME NEW h \in open' PROVE ElemOK(h)'  BY DEF Delivered
    <2>1. h \in open /\ h \in Apis /\ ElemOK(h)  BY <1>0, <1>2 DEF Delivered, TypeOK
    <2>2. SameElem(h)  BY <1>2, <1>3, <2>1 DEF SameElem
    <2> QED BY <2>1, <2>2, ElemSame
  <1> QED BY <1>5, <1>6, <1>8, <1>9, <1>10 DEF ApiInv

\* The handshake of an outgoing connection ends.
LEMMA ConnectedStep ==
    ASSUME ApiInv, NEW p \in Pcbs, on_connected(p) PROVE ApiInv'
  <1>0. TypeOK  BY DEF ApiInv
  <1>1. /\ pcb[p].state = "SYN_SENT" /\ pcb' = [pcb EXCEPT ![p].state = "ESTABLISHED"]
        /\ UNCHANGED <<apiVars, filters, fault, appVars, histVars>>
    BY DEF on_connected
  <1>2. pcb' \in [Pcbs -> PcbType] /\ fault' \in BOOLEAN  BY <1>0, <1>1, ZenonT(40) DEF TypeOK, PcbType
  <1>3. \A q \in Pcbs : /\ Live(q)' <=> Live(q)
                        /\ pcb'[q].arg = pcb[q].arg /\ pcb'[q].list = pcb[q].list
                        /\ ~Live(q) => pcb'[q] = pcb[q]
    BY <1>0, <1>1 DEF TypeOK, PcbType, Live
  <1> QED BY <1>1, <1>2, <1>3, PcbOnlyStep

\* The peer has acknowledged data.
LEMMA SentStep ==
    ASSUME ApiInv, NEW p \in Pcbs, NEW len \in 1..SndBuf, on_sent(p, len) PROVE ApiInv'
  <1>0. TypeOK /\ Listed  BY DEF ApiInv
  <1>1. /\ len <= pcb[p].queued /\ pcb' = [pcb EXCEPT ![p].queued = pcb[p].queued - len]
        /\ UNCHANGED <<apiVars, filters, fault, appVars, histVars>>
    BY <1>0 DEF on_sent, TypeOK
  <1>2. pcb[p].queued \in 0..SndBuf  BY <1>0, Fields
  <1>3. pcb[p].queued - len \in 0..SndBuf /\ pcb[p].queued > 0  BY <1>1, <1>2, BoundAssumption
  <1>4. Live(p)  BY <1>3, ActiveLive
  <1>5. pcb' \in [Pcbs -> PcbType] /\ fault' \in BOOLEAN
    BY <1>0, <1>1, <1>3, ZenonT(40) DEF TypeOK, PcbType
  <1>6. \A q \in Pcbs : /\ Live(q)' <=> Live(q)
                        /\ pcb'[q].arg = pcb[q].arg /\ pcb'[q].list = pcb[q].list
                        /\ ~Live(q) => pcb'[q] = pcb[q]
    BY <1>0, <1>1, <1>4 DEF TypeOK, PcbType, Live
  <1> QED BY <1>1, <1>5, <1>6, PcbOnlyStep
-----------------------------------------------------------------------------
(* The calls of the application.                                           *)

\* The application accepts a connection, and is given what waits.
LEMMA AcceptCallStep ==
    ASSUME ApiInv, NEW h \in Apis, bsys_tcp_accept(h) PROVE ApiInv'
  <1> DEFINE n == Bufs(api[h].recvd)
             s == told[h] \o recv_a_pbuf(h, rx[h] - n + 1, n)
  <1>0. TypeOK /\ FreeList /\ Listed /\ Paired /\ Delivered  BY DEF ApiInv
  <1>1. /\ h \in open /\ ~api[h].accepted
        /\ idFree' = IF api[h].id = NULL THEN idFree ELSE idFree \cup {api[h].id}
        /\ api' = [api EXCEPT ![h].id = NULL, ![h].accepted = TRUE]
        /\ told' = [told EXCEPT ![h] = s]
        /\ UNCHANGED <<apiFree, pcb, filters, fault, open, acked, rx, freed>>
    BY <1>0 DEF bsys_tcp_accept, histVars, TypeOK
  <1>2. /\ api[h].recvd \in Seq(1..MaxChain) /\ rx[h] \in Nat /\ rx[h] <= MaxBufs /\ n \in Nat
        /\ api[h].id \in Ids \cup {NULL}
    BY <1>0, Fields, BufsType
  <1>3. ElemOK(h)  BY <1>0, <1>1 DEF Delivered
  <1>4. told[h] = Upto(0) /\ rx[h] = n  BY <1>1, <1>3 DEF ElemOK, Upto
  <1>5. s \in Seq(1..MaxBufs) /\ Len(s) = n /\ s = [i \in 1..n |-> i]
    <2> HIDE DEF n
    <2>1. 0 + n = n /\ rx[h] - n + 1 = 0 + 1 /\ n <= MaxBufs  BY <1>2, <1>4
    <2>2. /\ Upto(0) \o recv_a_pbuf(h, 0 + 1, n) = Upto(0 + n)
          /\ Upto(0 + n) \in Seq(1..MaxBufs) /\ Len(Upto(0 + n)) = 0 + n
      BY <1>2, <2>1, TellMore
    <2>3. s = Upto(n)  BY <1>4, <2>1, <2>2
    <2> QED BY <2>1, <2>2, <2>3 DEF Upto
  <1>n. n = Bufs(api[h].recvd)  OBVIOUS
  <1> HIDE DEF n, s
  <1>6. /\ api' \in [Apis -> ApiType] /\ api'[h].pcb = api[h].pcb /\ api'[h].alive = api[h].alive
        /\ api'[h].accepted = TRUE /\ api'[h].recvd = api[h].recvd
        /\ \A b \in Apis \ {h} : api'[b] = api[b]
    BY <1>0, <1>1, ZenonT(40) DEF TypeOK, ApiType
  <1>7. told' \in [Apis -> Seq(1..MaxBufs)] /\ told'[h] = s /\ \A b \in Apis \ {h} : told'[b] = told[b]
    BY <1>0, <1>1, <1>5 DEF TypeOK
  <1>8. idFree' \subseteq Ids  BY <1>0, <1>1, <1>2 DEF TypeOK
  <1>9. TypeOK'  BY <1>0, <1>1, <1>6, <1>7, <1>8 DEF TypeOK
  <1>10. FreeList'  BY <1>0, <1>1 DEF FreeList
  <1>11. Listed'  BY <1>0, <1>1 DEF Listed, Live
  <1>12. Paired'
    <2>1. \A b \in open : api'[b].pcb = api[b].pcb /\ (api'[b].alive => api[b].alive)
      BY <1>0, <1>6 DEF TypeOK
    <2>2. \A q \in Pcbs : (Live(q)' <=> Live(q)) /\ pcb'[q].arg = pcb[q].arg  BY <1>1 DEF Live
    <2>3. open' = open  BY <1>1
    <2> QED BY <1>0, <2>1, <2>2, <2>3, PairSame
  <1>13. Delivered'
    <2> SUFFICES ASSUME NEW g \in open' PROVE ElemOK(g)'  BY DEF Delivered
    <2>1. CASE g # h
      <3>1. g \in open /\ g \in Apis /\ ElemOK(g)  BY <1>0, <1>1 DEF Delivered, TypeOK
      <3>2. SameElem(g)  BY <1>1, <1>6, <1>7, <2>1, <3>1 DEF SameElem
      <3> QED BY <3>1, <3>2, ElemSame
    <2>2. CASE g = h
      <3>1. told'[h] = [i \in 1..Len(told'[h]) |-> i] /\ Len(told'[h]) = rx'[h]
        BY <1>1, <1>4, <1>5, <1>7
      <3>2. freed'[h] + Bufs(api'[h].recvd) * BufLen = rx'[h] * BufLen
        BY <1>1, <1>3, <1>6 DEF ElemOK
      <3>3. MaxChain = 1 => freed'[h] <= acked'[h]  BY <1>1, <1>3 DEF ElemOK
      <3> QED BY <1>6, <2>2, <3>1, <3>2, <3>3 DEF ElemOK
    <2> QED BY <2>1, <2>2
  <1> QED BY <1>9, <1>10, <1>11, <1>12, <1>13 DEF ApiInv

\* A handle that is alive has a pcb: bsys_tcp_sendv writes to it.
LEMMA SendStep ==
    ASSUME ApiInv, NEW h \in Apis, NEW len \in 1..SndBuf, bsys_tcp_sendv(h, len)
    PROVE  ApiInv' /\ fault' = fault
  <1> DEFINE p == api[h].pcb
             m == Min({pcb[p].queued + len, SndBuf})
  <1>0. TypeOK /\ Paired  BY DEF ApiInv
  <1>1. h \in open /\ api[h].alive  BY DEF bsys_tcp_sendv
  <1>2. p \in Pcbs /\ p # NULL /\ Live(p)
    <2>1. p \in Pcbs \cup {NULL}  BY <1>0, Fields
    <2>2. p # NULL /\ Live(p)  BY <1>0, <1>1 DEF Paired
    <2> QED BY <2>1, <2>2
  <1>3. /\ pcb' = [pcb EXCEPT ![p].queued = m]
        /\ UNCHANGED <<apiVars, filters, fault, appVars, histVars>>
    BY <1>0, <1>2 DEF bsys_tcp_sendv, TypeOK
  <1>4. m \in 0..SndBuf
    <2> DEFINE x == pcb[p].queued + len
    <2>1. x \in Nat /\ SndBuf \in Nat
      <3>1. pcb[p].queued \in 0..SndBuf  BY <1>0, <1>2, Fields
      <3> QED BY <3>1, BoundAssumption
    <2>2. m = Min({x, SndBuf})  OBVIOUS
    <2> HIDE DEF x, m
    <2>3. \E y \in {x, SndBuf} : \A z \in {x, SndBuf} : y <= z  BY <2>1
    <2>4. m \in {x, SndBuf} /\ \A z \in {x, SndBuf} : m <= z  BY <2>2, <2>3 DEF Min
    <2> QED BY <2>1, <2>4
  <1> HIDE DEF p, m
  <1>5. pcb' \in [Pcbs -> PcbType] /\ fault' \in BOOLEAN
    BY <1>0, <1>2, <1>3, <1>4, ZenonT(40) DEF TypeOK, PcbType
  <1>6. \A q \in Pcbs : /\ Live(q)' <=> Live(q)
                        /\ pcb'[q].arg = pcb[q].arg /\ pcb'[q].list = pcb[q].list
                        /\ ~Live(q) => pcb'[q] = pcb[q]
    BY <1>0, <1>2, <1>3 DEF TypeOK, PcbType, Live
  <1> QED BY <1>3, <1>5, <1>6, PcbOnlyStep

\* The application gives back len bytes: the chains they cover are freed.
LEMMA RecvDoneStep ==
    ASSUME ApiInv, NEW h \in Apis, NEW len \in Nat, bsys_tcp_recv_done(h, len)
    PROVE  ApiInv' /\ fault' = fault
  <1> DEFINE q == api[h].recvd
             k == len \div BufLen
             r == SubSeq(q, k + 1, Len(q))
             d == (Bufs(q) - Bufs(r)) * BufLen
  <1>0. TypeOK /\ FreeList /\ Listed /\ Paired /\ Delivered  BY DEF ApiInv
  <1>1. /\ h \in open /\ fault = FALSE
        /\ api' = [api EXCEPT ![h].recvd = r]
        /\ freed' = [freed EXCEPT ![h] = freed[h] + d]
        /\ acked' = [acked EXCEPT ![h] = acked[h] + len]
        /\ fault' = (api[h].pcb # NULL /\ ~Live(api[h].pcb))
        /\ UNCHANGED <<apiFree, idFree, pcb, filters, open, told, rx>>
    BY <1>0 DEF bsys_tcp_recv_done, recv_done_rest, TypeOK
  <1>2. fault' = FALSE  BY <1>0, <1>1 DEF Paired
  <1>3. /\ q \in Seq(1..MaxChain) /\ rx[h] \in Nat /\ freed[h] \in Nat /\ acked[h] \in Nat
        /\ BufLen \in Nat \ {0}
    BY <1>0, Fields, BoundAssumption
  <1>4. k \in Nat /\ k * BufLen <= len  BY <1>3
  <1>5. /\ r \in Seq(1..MaxChain) /\ Bufs(r) \in Nat /\ Bufs(r) <= Bufs(q)
        /\ MaxChain = 1 => Bufs(q) - Bufs(r) <= k
    <2> HIDE DEF k
    <2> QED BY <1>3, <1>4, BufsRest
  <1>6. Bufs(q) \in Nat  BY <1>3, BufsType
  <1> HIDE DEF q, k, r
  <1>7. d \in Nat /\ (MaxChain = 1 => d <= len)
    <2>1. d \in Nat  BY ONLY <1>3, <1>5, <1>6, SMT
    <2>2. ASSUME MaxChain = 1 PROVE d <= len
      <3>1. Bufs(q) - Bufs(r) <= k /\ Bufs(q) - Bufs(r) \in Nat  BY <1>5, <1>6, <2>2
      <3>2. (Bufs(q) - Bufs(r)) * BufLen <= k * BufLen  BY ONLY <1>3, <1>4, <3>1, SMT
      <3> QED BY <1>3, <1>4, <2>1, <3>2
    <2> QED BY <2>1, <2>2
  <1>8. ElemOK(h)  BY <1>0, <1>1 DEF Delivered
  <1>9. freed[h] + d + Bufs(r) * BufLen = rx[h] * BufLen
    <2>1. freed[h] + Bufs(q) * BufLen = rx[h] * BufLen  BY <1>8 DEF ElemOK, q
    <2>2. d + Bufs(r) * BufLen = Bufs(q) * BufLen  BY ONLY <1>3, <1>5, <1>6, SMT
    <2>3. Bufs(r) * BufLen \in Nat /\ Bufs(q) * BufLen \in Nat  BY ONLY <1>3, <1>5, <1>6, SMT
    <2> HIDE DEF d
    <2> QED BY ONLY <1>3, <1>7, <2>1, <2>2, <2>3, SMT
  <1> HIDE DEF d
  <1>10. /\ api' \in [Apis -> ApiType] /\ api'[h].pcb = api[h].pcb /\ api'[h].alive = api[h].alive
         /\ api'[h].accepted = api[h].accepted /\ api'[h].recvd = r
         /\ \A b \in Apis \ {h} : api'[b] = api[b]
    BY <1>0, <1>1, <1>5 DEF TypeOK, ApiType
  <1>11. /\ freed' \in [Apis -> Nat] /\ freed'[h] = freed[h] + d
         /\ \A b \in Apis \ {h} : freed'[b] = freed[b]
         /\ acked' \in [Apis -> Nat] /\ acked'[h] = acked[h] + len
         /\ \A b \in Apis \ {h} : acked'[b] = acked[b]
    BY <1>0, <1>1, <1>3, <1>7 DEF TypeOK
  <1>12. TypeOK'  BY <1>0, <1>1, <1>2, <1>10, <1>11 DEF TypeOK
  <1>13. FreeList'  BY <1>0, <1>1 DEF FreeList
  <1>14. Listed'  BY <1>0, <1>1 DEF Listed, Live
  <1>15. Paired'
    <2>1. \A b \in open : api'[b].pcb = api[b].pcb /\ (api'[b].alive => api[b].alive)
      BY <1>0, <1>10 DEF TypeOK
    <2>2. \A p \in Pcbs : (Live(p)' <=> Live(p)) /\ pcb'[p].arg = pcb[p].arg  BY <1>1 DEF Live
    <2>3. open' = open  BY <1>1
    <2> QED BY <1>0, <2>1, <2>2, <2>3, PairSame
  <1>16. api[h].accepted
    <2>1. len \in 1..(Len(told[h]) * BufLen - acked[h])  BY DEF bsys_tcp_recv_done
    <2>2. ASSUME Len(told[h]) = 0 PROVE FALSE
      <3>1. len <= 0 * BufLen - acked[h] /\ len >= 1  BY <1>3, <2>1, <2>2
      <3> QED BY <1>3, <3>1
    <2>3. api[h].accepted \in BOOLEAN  BY <1>0, Fields
    <2> QED BY <1>8, <2>2, <2>3 DEF ElemOK
  <1>17. Delivered'
    <2> SUFFICES ASSUME NEW g \in open' PROVE ElemOK(g)'  BY DEF Delivered
    <2>1. CASE g # h
      <3>1. g \in open /\ g \in Apis /\ ElemOK(g)  BY <1>0, <1>1 DEF Delivered, TypeOK
      <3>2. SameElem(g)  BY <1>1, <1>10, <1>11, <2>1, <3>1 DEF SameElem
      <3> QED BY <3>1, <3>2, ElemSame
    <2>2. CASE g = h
      <3>1. told'[h] = [i \in 1..Len(told'[h]) |-> i] /\ Len(told'[h]) = rx'[h]
        BY <1>1, <1>8, <1>16 DEF ElemOK
      <3>2. freed'[h] + Bufs(api'[h].recvd) * BufLen = rx'[h] * BufLen
        BY <1>1, <1>9, <1>10, <1>11
      <3>3. MaxChain = 1 => freed'[h] <= acked'[h]
        <4>1. MaxChain = 1 => freed[h] <= acked[h]  BY <1>8 DEF ElemOK
        <4> QED BY <1>3, <1>7, <1>11, <4>1
      <3>4. api'[h].accepted  BY <1>10, <1>16
      <3> QED BY <2>2, <3>1, <3>2, <3>3, <3>4 DEF ElemOK
    <2> QED BY <2>1, <2>2
  <1> QED BY <1>1, <1>2, <1>12, <1>13, <1>14, <1>15, <1>17 DEF ApiInv

\* The application closes a handle: the element goes back to the free list,
\* and its pcb, if it still has one, goes with it.
LEMMA CloseStep ==
    ASSUME ApiInv, NEW h \in Apis, bsys_tcp_close(h) PROVE ApiInv'
  <1> DEFINE p == api[h].pcb
             bad == \/ p # NULL /\ ~Removable(p)
                    \/ api[h].id # NULL /\ api[h].id \in idFree
  <1>0. TypeOK /\ FreeList /\ Listed /\ Paired /\ Delivered  BY DEF ApiInv
  <1>1. CASE bad
    <2>1. Crash  BY <1>1 DEF bsys_tcp_close
    <2> QED BY <2>1, CrashStep DEF Crash
  <1>2. CASE ~bad
    <2>1. /\ h \in open
          /\ IF p = NULL THEN UNCHANGED pcb ELSE pcb' = [pcb EXCEPT ![p] = FreePcb]
          /\ freed' = [freed EXCEPT ![h] = rx[h] * BufLen]
          /\ idFree' = IF api[h].id = NULL THEN idFree ELSE idFree \cup {api[h].id}
          /\ apiFree' = <<h>> \o apiFree
          /\ open' = open \ {h}
          /\ UNCHANGED <<api, filters, fault, told, acked, rx>>
      BY <1>2 DEF bsys_tcp_close, tcp_close_with_reset, tcp_pcb_remove
    <2>2. /\ p \in Pcbs \cup {NULL} /\ api[h].id \in Ids \cup {NULL} /\ rx[h] * BufLen \in Nat
      <3>1. rx[h] \in Nat /\ BufLen \in Nat  BY <1>0, Fields, BoundAssumption
      <3>2. rx[h] * BufLen \in Nat  BY ONLY <3>1, SMT
      <3> QED BY <1>0, <3>2, Fields
    <2>3. p # NULL => p \in Pcbs /\ Live(p) /\ pcb[p].arg = h  BY <1>0, <2>1, <2>2 DEF Paired
    <2>p. api[h].pcb = p  OBVIOUS
    <2> HIDE DEF p, bad
    <2>4. /\ p # NULL => pcb'[p] = FreePcb /\ pcb'[p].state = "FREE"
          /\ \A q \in Pcbs : q # p => pcb'[q] = pcb[q]
          /\ pcb' \in [Pcbs -> PcbType]
      BY <1>0, <2>1, <2>3, Blank DEF TypeOK
    <2>5. FreeList' /\ apiFree' \in Seq(Apis)
      <3>1. apiFree \in Seq(Apis) /\ IsInjective(apiFree) /\ Range(apiFree) = Apis \ open
        BY <1>0 DEF TypeOK, FreeList
      <3>2. h \notin Range(apiFree)  BY <2>1, <3>1
      <3>3. /\ <<h>> \o apiFree \in Seq(Apis) /\ IsInjective(<<h>> \o apiFree)
            /\ Range(<<h>> \o apiFree) = Range(apiFree) \cup {h}
        BY <3>1, <3>2, PushFree
      <3>4. Range(apiFree) \cup {h} = Apis \ (open \ {h})  BY <2>1, <3>1
      <3> QED BY <2>1, <3>3, <3>4 DEF FreeList
    <2>6. TypeOK'
      <3>1. idFree' \subseteq Ids  BY <1>0, <2>1, <2>2 DEF TypeOK
      <3>2. freed' \in [Apis -> Nat]  BY <1>0, <2>1, <2>2 DEF TypeOK
      <3> QED BY <1>0, <2>1, <2>4, <2>5, <3>1, <3>2 DEF TypeOK
    <2>7. Listed'
      <3> SUFFICES ASSUME NEW q \in Pcbs
                   PROVE  IF pcb'[q].state # "FREE" THEN pcb'[q].list = "active" ELSE pcb'[q] = FreePcb
        BY DEF Listed, Live
      <3>1. q = p => p # NULL  BY BoundAssumption
      <3> QED BY <1>0, <2>4, <3>1 DEF Listed, Live
    <2>8. Paired'
      <3>1. CASE p = NULL
        <4>1. pcb' = pcb /\ api' = api  BY <2>1, <3>1
        <4>2. \A q \in Pcbs : Live(q) => pcb[q].arg # h
          BY <1>0, <2>p, <3>1, BoundAssumption DEF Paired
        <4> QED BY <1>0, <2>1, <4>1, <4>2 DEF Paired, Live
      <3>2. CASE p # NULL
        <4>1. p \in Pcbs /\ Live(p) /\ pcb[p].arg = h /\ pcb'[p].state = "FREE"
          BY <2>3, <2>4, <3>2
        <4>2. open' \subseteq open /\ h \notin open' /\ \A b \in open \ {h} : api'[b] = api[b] /\ b \in open'
          BY <2>1
        <4>3. \A q \in Pcbs \ {p} : pcb'[q] = pcb[q]  BY <2>4
        <4> QED BY <1>0, <2>p, <4>1, <4>2, <4>3, PairGone
      <3> QED BY <3>1, <3>2
    <2>9. Delivered'
      <3> SUFFICES ASSUME NEW g \in open' PROVE ElemOK(g)'  BY DEF Delivered
      <3>1. g # h /\ g \in open /\ g \in Apis /\ ElemOK(g)
        BY <1>0, <2>1 DEF Delivered, TypeOK
      <3>2. SameElem(g)  BY <1>0, <2>1, <3>1 DEF SameElem, TypeOK
      <3> QED BY <3>1, <3>2, ElemSame
    <2> QED BY <2>5, <2>6, <2>7, <2>8, <2>9 DEF ApiInv
  <1> QED BY <1>1, <1>2

\* An outgoing connection: a new element and a new pcb, a new element that is
\* dead already, or panic.
LEMMA ConnectStep ==
    ASSUME ApiInv, bsys_tcp_connect PROVE ApiInv'
  <1> DEFINE a == Head(apiFree)
  <1>0. TypeOK /\ FreeList /\ Listed /\ Paired /\ Delivered  BY DEF ApiInv
  <1>1. filters' \in 0..MaxFilters
    <2>1. filters \in 0..MaxFilters /\ MaxFilters \in Nat  BY <1>0, BoundAssumption DEF TypeOK
    <2>2. filters' = IF filters < MaxFilters THEN filters + 1 ELSE filters
      BY DEF bsys_tcp_connect, get_local_port_and_set_queue
    <2> QED BY <2>1, <2>2
  <1>2. ASSUME apiFree # << >>,
               \E p \in Pcbs : ~Live(p) /\ (Connect(a, p) \/ ConnectFails(a, p)),
               apiFree' = Tail(apiFree) /\ open' = open \cup {a},
               told' = [told EXCEPT ![a] = << >>] /\ acked' = [acked EXCEPT ![a] = 0],
               rx' = [rx EXCEPT ![a] = 0] /\ freed' = [freed EXCEPT ![a] = 0],
               UNCHANGED <<idFree, fault>>
        PROVE  ApiInv'
    <2>1. PICK p \in Pcbs : ~Live(p) /\ (Connect(a, p) \/ ConnectFails(a, p))  BY <1>2
    <2>2. a \in Apis  BY <1>0, <1>2, PopFree DEF TypeOK, FreeList
    <2>3. a = Head(apiFree)  OBVIOUS
    <2> HIDE DEF a
    <2>4. api[a].id \in Ids \cup {NULL}  BY <1>0, <2>2, Fields
    <2>5. CASE Connect(a, p)
      <3>1. api' = [api EXCEPT ![a] = [FreeApi EXCEPT !.alive = TRUE, !.pcb = p, !.id = api[a].id, !.accepted = TRUE]]
        BY <2>5 DEF Connect, NewApi
      <3>2. pcb' = [pcb EXCEPT ![p] = [FreePcb EXCEPT !.state = "SYN_SENT", !.list = "active", !.arg = a]]
        BY <2>5 DEF Connect
      <3>3. /\ api' \in [Apis -> ApiType] /\ api'[a].recvd = << >> /\ api'[a].pcb = p
            /\ \A b \in Apis \ {a} : api'[b] = api[b]
        BY <1>0, <2>2, <2>4, <3>1, Blank DEF TypeOK, ApiType, FreeApi
      <3>4. NewElem(a)  BY <1>2, <2>3, <3>3 DEF NewElem
      <3>5. /\ a \notin open /\ FreeList' /\ Delivered'
            /\ apiFree' \in Seq(Apis) /\ open' \subseteq Apis /\ told' \in [Apis -> Seq(1..MaxBufs)]
            /\ acked' \in [Apis -> Nat] /\ rx' \in [Apis -> 0..MaxBufs] /\ freed' \in [Apis -> Nat]
        BY <3>4, NewElemStep
      <3>6. /\ pcb' \in [Pcbs -> PcbType] /\ pcb'[p].state = "SYN_SENT"
            /\ pcb'[p].list = "active" /\ pcb'[p].arg = a
            /\ \A q \in Pcbs \ {p} : pcb'[q] = pcb[q]
        <4>1. 0 \in 0..SndBuf  BY BoundAssumption
        <4> QED BY <1>0, <2>2, <3>2, <4>1 DEF TypeOK, PcbType, FreePcb
      <3>7. TypeOK'  BY <1>0, <1>1, <1>2, <3>3, <3>5, <3>6 DEF TypeOK
      <3>8. Listed'
        <4> SUFFICES ASSUME NEW q \in Pcbs
                     PROVE  IF pcb'[q].state # "FREE" THEN pcb'[q].list = "active" ELSE pcb'[q] = FreePcb
          BY DEF Listed, Live
        <4> QED BY <1>0, <3>6 DEF Listed, Live
      <3>9. Paired'
        <4>1. pcb'[p].state # "FREE" /\ open' = open \cup {a}  BY <1>2, <3>6
        <4> QED BY <1>0, <2>1, <2>2, <3>3, <3>5, <3>6, <4>1, PairNew
      <3> QED BY <3>5, <3>7, <3>8, <3>9 DEF ApiInv
    <2>6. CASE ConnectFails(a, p)
      <3>1. /\ api' = [api EXCEPT ![a] = [NewApi(a, p)[a] EXCEPT !.alive = FALSE, !.pcb = NULL]]
            /\ pcb' = pcb
        BY <2>6 DEF ConnectFails
      <3>2. NewApi(a, p)[a] = [FreeApi EXCEPT !.alive = TRUE, !.pcb = p, !.id = api[a].id, !.accepted = TRUE]
        BY <1>0, <2>2 DEF NewApi, TypeOK
      <3>3. /\ api' \in [Apis -> ApiType] /\ api'[a].recvd = << >> /\ api'[a].pcb = NULL
            /\ ~api'[a].alive
            /\ \A b \in Apis \ {a} : api'[b] = api[b]
        BY <1>0, <2>2, <2>4, <3>1, <3>2, Blank DEF TypeOK, ApiType, FreeApi
      <3>4. NewElem(a)  BY <1>2, <2>3, <3>3 DEF NewElem
      <3>5. /\ a \notin open /\ FreeList' /\ Delivered'
            /\ apiFree' \in Seq(Apis) /\ open' \subseteq Apis /\ told' \in [Apis -> Seq(1..MaxBufs)]
            /\ acked' \in [Apis -> Nat] /\ rx' \in [Apis -> 0..MaxBufs] /\ freed' \in [Apis -> Nat]
        BY <3>4, NewElemStep
      <3>6. TypeOK'  BY <1>0, <1>1, <1>2, <3>1, <3>3, <3>5 DEF TypeOK
      <3>7. Listed'  BY <1>0, <3>1 DEF Listed, Live
      <3>8. Paired'
        <4>1. \A b \in open : b \in Apis /\ b # a /\ api'[b] = api[b]
          BY <1>0, <3>3, <3>5 DEF TypeOK
        <4>2. \A q \in Pcbs : Live(q) => pcb[q].arg \in open  BY <1>0 DEF Paired
        <4>3. open' = open \cup {a}  BY <1>2
        <4> QED BY <1>0, <3>1, <3>3, <4>1, <4>2, <4>3 DEF Paired, Live
      <3> QED BY <3>5, <3>6, <3>7, <3>8 DEF ApiInv
    <2> QED BY <2>1, <2>5, <2>6
  <1>3. ASSUME fault' = TRUE, UNCHANGED <<apiVars, pcb, appVars, histVars>>
        PROVE  ApiInv'
    <2>1. UNCHANGED <<apiFree, idFree, api, pcb, open, told, acked, rx, freed>>
      BY <1>3 DEF apiVars, appVars, histVars
    <2>2. TypeOK'  BY <1>0, <1>1, <1>3, <2>1 DEF TypeOK
    <2> QED BY <1>0, <2>1, <2>2 DEF ApiInv, FreeList, Listed, Paired, Live, Delivered, ElemOK
  <1> HIDE DEF a
  <1> QED BY <1>2, <1>3 DEF bsys_tcp_connect, a
-----------------------------------------------------------------------------
\* The blocks of a kernel that has just started agree.
LEMMA ApiInit == Init => ApiInv
  <1> SUFFICES ASSUME Init PROVE ApiInv  OBVIOUS
  <1>1. /\ apiFree = SetToSeq(Apis) /\ idFree = Ids /\ api = [a \in Apis |-> FreeApi]
        /\ pcb = [p \in Pcbs |-> FreePcb] /\ filters = 0 /\ fault = FALSE /\ open = {}
        /\ told = [a \in Apis |-> << >>] /\ acked = [a \in Apis |-> 0]
        /\ rx = [a \in Apis |-> 0] /\ freed = [a \in Apis |-> 0]
    BY DEF Init
  <1>2. FreeApi \in ApiType  BY Blank DEF FreeApi, ApiType
  <1>3. 0 \in 0..MaxFilters /\ 0 \in 0..MaxBufs  BY BoundAssumption
  <1>4. TypeOK  BY <1>1, <1>2, <1>3, NewFree, Blank DEF TypeOK
  <1>5. FreeList  BY <1>1, NewFree DEF FreeList
  <1>6. \A p \in Pcbs : pcb[p] = FreePcb /\ ~Live(p)  BY <1>1, Blank DEF Live
  <1>7. Listed /\ Paired /\ Delivered  BY <1>1, <1>6 DEF Listed, Paired, Delivered
  <1> QED BY <1>4, <1>5, <1>7 DEF ApiInv

\* Every step keeps the invariant.
LEMMA ApiStep == ApiInv /\ [Next]_vars => ApiInv'
  <1> SUFFICES ASSUME ApiInv, [Next]_vars PROVE ApiInv'  OBVIOUS
  <1>1. ASSUME NEW p \in Pcbs, PcbLost(p) \/ Accept(p) \/ on_recv_closed(p) \/ on_connected(p)
        PROVE  ApiInv'
    BY <1>1, PcbLostStep, AcceptStep, RecvClosedStep, ConnectedStep
  <1>2. ASSUME NEW p \in Pcbs, NEW n \in 1..MaxChain, Receive(p, n) PROVE ApiInv'
    BY <1>2, ReceiveStep
  <1>3. ASSUME NEW h \in Apis, bsys_tcp_accept(h) \/ bsys_tcp_close(h) PROVE ApiInv'
    BY <1>3, AcceptCallStep, CloseStep
  <1>4. ASSUME NEW h \in Apis, NEW len \in 1..(MaxBufs * BufLen), bsys_tcp_recv_done(h, len)
        PROVE  ApiInv'
    <2>1. len \in Nat  BY BoundAssumption
    <2> QED BY <1>4, <2>1, RecvDoneStep
  <1>5. ASSUME NEW p \in Pcbs, NEW len \in 1..SndBuf, on_sent(p, len) PROVE ApiInv'
    BY <1>5, SentStep
  <1>6. ASSUME NEW h \in Apis, NEW len \in 1..SndBuf, bsys_tcp_sendv(h, len) PROVE ApiInv'
    BY <1>6, SendStep
  <1>7. CASE bsys_tcp_connect  BY <1>7, ConnectStep
  <1>8. CASE UNCHANGED vars
    BY <1>8 DEF ApiInv, TypeOK, FreeList, Listed, Paired, Live, Delivered, ElemOK,
                vars, apiVars, appVars, histVars
  <1> QED BY <1>1, <1>2, <1>3, <1>4, <1>5, <1>6, <1>7, <1>8 DEF Next

\* The inductive invariant holds in every reachable state.
THEOREM ApiInvariant == Spec => []ApiInv
  BY ApiInit, ApiStep, PTL DEF Spec

\* Every variable of tcp_api.c keeps its type.
THEOREM ApiTypes == Spec => []TypeOK
  <1>1. ApiInv => TypeOK  BY DEF ApiInv
  <1> QED BY <1>1, ApiInvariant, PTL

\* The control blocks of the application and of the stack agree at every
\* moment, for any number of connections: no handle in use leads to a pcb that
\* is gone or belongs to another connection.
THEOREM ApiBlocksAgree == Spec => []BlocksAgree
  <1>1. ApiInv => BlocksAgree
    <2> SUFFICES ASSUME ApiInv PROVE BlocksAgree  OBVIOUS
    <2>1. \A a \in Apis : Allocated(a) <=> a \in open  BY OpenAllocated
    <2>2. \A p \in Pcbs : Live(p) => pcb[p].arg \in Apis  BY LivePaired
    <2> QED BY <2>1, <2>2 DEF ApiInv, Paired, BlocksAgree
  <1> QED BY <1>1, ApiInvariant, PTL

\* The application is given what was received, each pbuf once and in order,
\* and all of it once it has accepted, for chains of any length.
THEOREM ApiGivenInOrder == Spec => []GivenInOrder
  <1>1. ApiInv => GivenInOrder  BY DEF ApiInv, Delivered, ElemOK, GivenInOrder
  <1> QED BY <1>1, ApiInvariant, PTL

\* While every chain handed to on_recv is one pbuf (segments that came in
\* order), bsys_tcp_recv_done frees no more than the application has given
\* back; it counts only the first pbuf of a longer one.
THEOREM ApiFreedOnlyGivenBack == MaxChain = 1 => (Spec => []FreedOnlyGivenBack)
  <1> SUFFICES ASSUME MaxChain = 1 PROVE Spec => []FreedOnlyGivenBack  OBVIOUS
  <1>1. ApiInv => FreedOnlyGivenBack
    BY DEF ApiInv, Delivered, ElemOK, FreedOnlyGivenBack
  <1> QED BY <1>1, ApiInvariant, PTL

\* Where the kernel can stop: bsys_tcp_close of an element that holds a name
\* which is free already, and bsys_tcp_connect with no element or no pcb left.
StopsOnly ==
    \/ \E h \in open : api[h].id # NULL /\ api[h].id \in idFree
    \/ apiFree = << >> \/ \A p \in Pcbs : Live(p)

\* An application that keeps to its handles makes the kernel stop in no other
\* way: no call ever follows a pointer to a pcb that is freed or unlinked.
THEOREM ApiStopsOnly == Spec => [][fault' # fault => StopsOnly]_vars
  <1>1. ApiInv /\ [Next]_vars => [fault' # fault => StopsOnly]_vars
    <2> SUFFICES ASSUME ApiInv, Next, fault' # fault PROVE StopsOnly
      BY DEF vars
    <2>1. ASSUME NEW p \in Pcbs, PcbLost(p) \/ Accept(p) \/ on_recv_closed(p) \/ on_connected(p)
          PROVE  FALSE
      BY <2>1 DEF PcbLost, Accept, on_recv_closed, on_connected
    <2>2. ASSUME NEW p \in Pcbs, NEW n \in 1..MaxChain, Receive(p, n) PROVE FALSE
      BY <2>2 DEF Receive
    <2>3. ASSUME NEW h \in Apis, bsys_tcp_accept(h) PROVE FALSE
      BY <2>3 DEF bsys_tcp_accept
    <2>4. ASSUME NEW h \in Apis, bsys_tcp_close(h) PROVE StopsOnly
      <3>1. h \in open  BY <2>4 DEF bsys_tcp_close
      <3>2. api[h].pcb \in Pcbs \cup {NULL} /\ TypeOK /\ Paired /\ Listed  BY Fields DEF ApiInv
      <3>3. api[h].pcb # NULL => Removable(api[h].pcb)
        BY <3>1, <3>2 DEF Paired, Listed, Removable
      <3>4. api[h].id # NULL /\ api[h].id \in idFree
        BY <2>4, <3>3 DEF bsys_tcp_close
      <3> QED BY <3>1, <3>4 DEF StopsOnly
    <2>5. ASSUME NEW h \in Apis, NEW len \in 1..(MaxBufs * BufLen), bsys_tcp_recv_done(h, len)
          PROVE  FALSE
      <3>1. len \in Nat  BY BoundAssumption
      <3> QED BY <2>5, <3>1, RecvDoneStep
    <2>6. ASSUME NEW p \in Pcbs, NEW len \in 1..SndBuf, on_sent(p, len) PROVE FALSE
      BY <2>6 DEF on_sent
    <2>7. ASSUME NEW h \in Apis, NEW len \in 1..SndBuf, bsys_tcp_sendv(h, len) PROVE FALSE
      BY <2>7, SendStep
    <2>8. CASE bsys_tcp_connect  BY <2>8 DEF bsys_tcp_connect, StopsOnly
    <2> QED BY <2>1, <2>2, <2>3, <2>4, <2>5, <2>6, <2>7, <2>8 DEF Next
  <1> QED BY <1>1, ApiInvariant, PTL DEF Spec
=============================================================================
