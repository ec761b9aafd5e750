---------------------------- MODULE RingProofs ----------------------------
(***************************************************************************)
(* The inductive invariant RingInv of the ring (inc/kns/ring.h), and that  *)
(* the ring implements the bounded queue of BoundedFifo, proved for every  *)
(* size, index range, number of threads and burst.                         *)
(*                                                                         *)
(* The argument.  A producer may compute its room from an old consumer     *)
(* tail and an old producer head.  If the head it read is still the head   *)
(* when it stores the new one (the compare-and-set, or there is one        *)
(* producer), nothing was reserved since, the consumer tail can only have  *)
(* moved up, and so the room is still there (ProdRoom).  Its range         *)
(* [head, head + n) then lies behind every earlier range and inside the    *)
(* ring (SideInv), and ranges are given back at the tail in the order they *)
(* were taken.  The consumers are the mirror image, with the entries       *)
(* published instead of the room.                                          *)
(***************************************************************************)
EXTENDS Ring, SequenceTheorems, TLAPS

\* The size and the index range as the steps use them (no division).
LEMMA SizeFacts ==
    /\ Size \in Nat /\ Size >= 1 /\ IndexMod \in Nat /\ IndexMod >= Size
  BY SizeAssumption

\* uint32_t indexes are the naturals below IndexMod.
LEMMA IndexFacts ==
    /\ 0 \in Index /\ mask \in Index
    /\ \A i \in Index : i \in Nat /\ i < IndexMod
    /\ \A i \in Nat : i < IndexMod => i \in Index
  BY SizeFacts DEF Index, mask

\* A number below an index is an index.
LEMMA BelowIndex == \A m \in Index : \A k \in 0..m : k \in Index
  BY SizeFacts DEF Index

\* uint32_t addition stays in range.
LEMMA AddType == \A a, b \in Index : Add(a, b) \in Index
  BY SizeFacts DEF Add, Index

\* uint32_t subtraction stays in range.
LEMMA SubType == \A a, b \in Index : Sub(a, b) \in Index
  BY SizeFacts DEF Sub, Index

\* idx & mask is a slot of the ring.
LEMMA SlotType == \A i \in Index : Slot(i) \in 0..mask
  BY SizeFacts DEF Slot, Index, mask

\* Moving an index forward moves its distance to another one, if no wrap.
LEMMA SubAdd == \A a, b, k \in Index :
    Sub(a, b) + k < IndexMod => Sub(Add(a, k), b) = Sub(a, b) + k
  BY SizeFacts DEF Add, Sub, Index

\* The distance from an index to itself is 0.
LEMMA SubSelf == \A a \in Index : Sub(a, a) = 0
  BY SizeFacts DEF Sub, Index

\* mask + tail - head, the code's free_entries, is mask less the used entries,
\* whatever the indexes wrapped to.
LEMMA FreeUsed == \A h, t \in Index :
    Sub(h, t) <= mask => Sub(Add(mask, t), h) = mask - Sub(h, t)
  BY SizeFacts DEF Add, Sub, Index, mask

\* Moving the lower index up shortens the distance.
LEMMA SubShift == \A a, b, k \in Index :
    k <= Sub(a, b) => Sub(a, Add(b, k)) = Sub(a, b) - k
  BY SizeFacts DEF Add, Sub, Index

\* Distances add up while they stay below a full turn.
LEMMA SubSum == \A a, b, c \in Index :
    Sub(a, b) + Sub(b, c) < IndexMod => Sub(a, c) = Sub(a, b) + Sub(b, c)
  BY SizeFacts DEF Sub, Index

\* A step that moves neither index of a side, and neither opens nor closes a
\* window or a reservation wrongly, keeps SideInv.
LEMMA SideQuiet ==
    ASSUME NEW T, NEW single, NEW head, NEW tail,
           NEW pcs, NEW ns, NEW lh, NEW lg, NEW pcs2, NEW ns2, NEW lh2, NEW lg2,
           SideInv(T, single, head, tail, pcs, ns, lh, lg),
           \A t \in T : /\ pcs2[t] \in Window =>
                             pcs[t] \in Window /\ lh2[t] = lh[t] /\ lg2[t] = lg[t]
                        /\ pcs2[t] \in Reservings <=> pcs[t] \in Reservings
                        /\ pcs2[t] \in Reservings => lh2[t] = lh[t] /\ ns2[t] = ns[t]
    PROVE  SideInv(T, single, head, tail, pcs2, ns2, lh2, lg2)
  BY DEF SideInv

\* SideInv is kept when a thread reads the head (top of the reserve loops).
LEMMA SideReadHead ==
    ASSUME NEW T, NEW single, NEW head \in Index, NEW tail, NEW p \in T,
           NEW pcs, NEW ns, NEW lh, NEW lg, NEW pcs2, NEW ns2, NEW lh2, NEW lg2,
           SideInv(T, single, head, tail, pcs, ns, lh, lg),
           pcs[p] \notin Reservings, pcs2[p] = "readTail", lh2[p] = head, lg2[p] = 0,
           \A t \in T \ {p} : pcs2[t] = pcs[t] /\ lh2[t] = lh[t] /\ lg2[t] = lg[t]
                              /\ ns2[t] = ns[t]
    PROVE  SideInv(T, single, head, tail, pcs2, ns2, lh2, lg2)
  <1>1. "readTail" \notin Reservings  BY DEF Reservings
  <1> QED BY <1>1, SubSelf DEF SideInv

\* SideInv is kept when a thread moves the head by k (the compare-and-set, or
\* the plain store of the single-thread paths).
LEMMA SideReserve ==
    ASSUME NEW T, NEW single, NEW head \in Index, NEW tail \in Index, NEW p \in T,
           NEW k \in Index,
           NEW pcs, NEW ns, NEW lh, NEW lg, NEW pcs2, NEW ns2, NEW lg2,
           \A t \in T : ns[t] \in Index /\ lh[t] \in Index /\ lg[t] \in Index,
           \A t, u \in T : single => t = u,
           SideInv(T, single, head, tail, pcs, ns, lh, lg),
           pcs[p] = "reserve", pcs2[p] = "copy", lh[p] = head, ns2[p] = k,
           Sub(head, tail) + k < IndexMod, ~single => k > 0,
           \A t \in T \ {p} : pcs2[t] = pcs[t] /\ ns2[t] = ns[t],
           \A t \in T \ {p} : pcs[t] \in Window =>
                                 lg[t] + k < IndexMod /\ lg2[t] = lg[t] + k
    PROVE  SideInv(T, single, Add(head, k), tail, pcs2, ns2, lh, lg2)
  <1> DEFINE head2 == Add(head, k)
  <1>0. "reserve" \notin Reservings /\ "copy" \in Reservings /\ "copy" \notin Window
    BY DEF Reservings, Window
  <1>1. Sub(head2, tail) = Sub(head, tail) + k /\ Sub(head, tail) \in Nat /\ k \in Nat
    BY SubAdd, SubType, IndexFacts
  <1>2. ASSUME NEW t \in T, pcs2[t] \in Window
        PROVE  Sub(head2, lh[t]) = lg2[t] /\ (single => lh[t] = head2)
    <2>1. t # p BY <1>0, <1>2
    <2>2. Sub(head, lh[t]) = lg[t] /\ lg2[t] = lg[t] + k /\ lg[t] + k < IndexMod
      BY <1>2, <2>1 DEF SideInv
    <2> QED BY <2>1, <2>2, SubAdd
  <1>3. ASSUME NEW t \in T, pcs2[t] \in Reservings
        PROVE  /\ Sub(lh[t], tail) + ns2[t] <= Sub(head2, tail)
               /\ single => lh[t] = tail /\ Add(lh[t], ns2[t]) = head2
               /\ ~single => ns2[t] > 0
    <2>1. CASE t = p
      <3>1. single => head = tail  BY <1>0 DEF SideInv
      <3> QED BY <2>1, <3>1, <1>1
    <2>2. CASE t # p
      <3>1. Sub(lh[t], tail) + ns[t] <= Sub(head, tail) /\ (~single => ns[t] > 0) /\ ~single
        BY <2>2, <1>3 DEF SideInv
      <3>2. Sub(lh[t], tail) \in Nat /\ ns[t] \in Nat /\ ns2[t] = ns[t]
        BY <2>2, SubType, IndexFacts
      <3> QED BY <3>1, <3>2, <1>1
    <2> QED BY <2>1, <2>2
  <1>4. ASSUME NEW t \in T, single, pcs2[t] \notin Reservings PROVE head2 = tail
    BY <1>0, <1>4
  <1>5. ASSUME NEW t \in T, NEW u \in T, t # u, pcs2[t] \in Reservings, pcs2[u] \in Reservings
        PROVE  \/ Sub(lh[t], tail) + ns2[t] <= Sub(lh[u], tail)
               \/ Sub(lh[u], tail) + ns2[u] <= Sub(lh[t], tail)
    <2>1. CASE t # p /\ u # p
      BY <2>1, <1>5 DEF SideInv
    <2>2. CASE t = p
      <3>1. Sub(lh[u], tail) + ns[u] <= Sub(head, tail) BY <2>2, <1>5 DEF SideInv
      <3> QED BY <2>2, <3>1, <1>5
    <2>3. CASE u = p
      <3>1. Sub(lh[t], tail) + ns[t] <= Sub(head, tail) BY <2>3, <1>5 DEF SideInv
      <3> QED BY <2>3, <3>1, <1>5
    <2> QED BY <2>1, <2>2, <2>3
  <1> QED BY <1>2, <1>3, <1>4, <1>5 DEF SideInv

\* SideInv is kept when the thread whose turn it is moves the tail past its
\* entries, and the entries were all below the head.
LEMMA SidePublish ==
    ASSUME NEW T, NEW single, NEW head \in Index, NEW tail \in Index, NEW p \in T,
           NEW pcs, NEW ns, NEW lh, NEW lg, NEW pcs2, NEW ns2, NEW lh2, NEW lg2,
           \A t \in T : ns[t] \in Index /\ lh[t] \in Index,
           \A t, u \in T : single => t = u,
           SideInv(T, single, head, tail, pcs, ns, lh, lg),
           pcs[p] \in Reservings, pcs2[p] = "idle", lh[p] = tail,
           \A t \in T \ {p} : pcs2[t] = pcs[t] /\ lh2[t] = lh[t] /\ lg2[t] = lg[t]
                              /\ ns2[t] = ns[t]
    PROVE  /\ SideInv(T, single, head, Add(tail, ns[p]), pcs2, ns2, lh2, lg2)
           /\ ns[p] <= Sub(head, tail)
  <1> DEFINE tail2 == Add(tail, ns[p])
  <1>0. "idle" \notin Reservings /\ "idle" \notin Window BY DEF Reservings, Window
  <1>1. ns[p] <= Sub(head, tail) /\ Sub(head, tail2) = Sub(head, tail) - ns[p]
        /\ ns[p] \in Nat /\ Sub(head, tail) \in Nat
    <2>1. Sub(tail, tail) + ns[p] <= Sub(head, tail) BY DEF SideInv
    <2>2. ns[p] <= Sub(head, tail) /\ ns[p] \in Nat /\ Sub(head, tail) \in Nat
       BY <2>1, SubSelf, SubType, IndexFacts
    <2> QED BY <2>2, SubShift
  <1>2. ASSUME NEW t \in T, t # p, pcs[t] \in Reservings
        PROVE  /\ ~single
               /\ Sub(lh[t], tail2) = Sub(lh[t], tail) - ns[p]
               /\ Sub(lh[t], tail) >= ns[p]
               /\ Sub(lh[t], tail) \in Nat
    <2>1. ~single BY <1>2
    <2>2. ns[t] > 0 /\ ns[p] > 0 /\ ns[t] \in Nat BY <2>1, <1>2, IndexFacts DEF SideInv
    <2>3. Sub(tail, tail) = 0 /\ Sub(lh[t], tail) \in Nat BY SubSelf, SubType, IndexFacts
    <2>4. \/ Sub(lh[t], tail) + ns[t] <= Sub(tail, tail)
          \/ Sub(tail, tail) + ns[p] <= Sub(lh[t], tail)
      BY <1>2 DEF SideInv
    <2>5. ns[p] <= Sub(lh[t], tail) BY <2>2, <2>3, <2>4, <1>1
    <2> QED BY <2>1, <2>3, <2>5, SubShift
  <1>3. ASSUME NEW t \in T, pcs2[t] \in Reservings
        PROVE  /\ Sub(lh2[t], tail2) + ns2[t] <= Sub(head, tail2)
               /\ single => lh2[t] = tail2 /\ Add(lh2[t], ns2[t]) = head
               /\ ~single => ns2[t] > 0
    <2>1. t # p /\ pcs[t] \in Reservings /\ lh2[t] = lh[t] /\ ns2[t] = ns[t] /\ ns[t] \in Nat
      BY <1>0, <1>3, IndexFacts
    <2>2. Sub(lh[t], tail) + ns[t] <= Sub(head, tail) /\ (~single => ns[t] > 0)
      BY <2>1 DEF SideInv
    <2> QED BY <2>1, <2>2, <1>2, <1>1
  <1>4. ASSUME NEW t \in T, single, pcs2[t] \notin Reservings PROVE head = tail2
    BY <1>4 DEF SideInv
  <1>5. ASSUME NEW t \in T, NEW u \in T, t # u, pcs2[t] \in Reservings, pcs2[u] \in Reservings
        PROVE  \/ Sub(lh2[t], tail2) + ns2[t] <= Sub(lh2[u], tail2)
               \/ Sub(lh2[u], tail2) + ns2[u] <= Sub(lh2[t], tail2)
    <2>1. /\ t # p /\ pcs[t] \in Reservings /\ lh2[t] = lh[t] /\ ns2[t] = ns[t] /\ ns[t] \in Nat
          /\ u # p /\ pcs[u] \in Reservings /\ lh2[u] = lh[u] /\ ns2[u] = ns[u] /\ ns[u] \in Nat
      BY <1>0, <1>5, IndexFacts
    <2>2. \/ Sub(lh[t], tail) + ns[t] <= Sub(lh[u], tail)
          \/ Sub(lh[u], tail) + ns[u] <= Sub(lh[t], tail)
      BY <2>1, <1>5 DEF SideInv
    <2> QED BY <2>1, <2>2, <1>2, <1>1
  <1>6. ASSUME NEW t \in T, pcs2[t] \in Window
        PROVE  Sub(head, lh2[t]) = lg2[t] /\ (single => lh2[t] = head)
    BY <1>0, <1>6 DEF SideInv
  <1> QED BY <1>1, <1>3, <1>4, <1>5, <1>6 DEF SideInv

-----------------------------------------------------------------------------
\* Producers and consumers are different threads.
LEMMA ThreadFacts ==
    /\ \A p \in Producers : p \in Threads
    /\ \A c \in Consumers : c \in Threads
    /\ \A p \in Producers, c \in Consumers : p # c
  BY ThreadAssumption DEF Threads

\* A burst is a table of objects whose length fits the unsigned n.
LEMMA BurstFacts ==
    \A objs \in Bursts : objs \in Seq(Objs \cup {NoObj}) /\ Len(objs) \in Index
  <1>1. ASSUME NEW k \in BurstSizes, NEW objs \in [1..k -> Objs]
        PROVE  objs \in Seq(Objs \cup {NoObj}) /\ Len(objs) \in Index
    <2>1. k \in Nat /\ k \in Index  BY CallAssumption, IndexFacts
    <2> QED BY <2>1
  <1> QED BY <1>1 DEF Bursts

\* A return leaves the locals well typed.
LEMMA ReturnType ==
    ASSUME LocalOK, NEW t \in Threads, Return(t) PROVE LocalOK'
  <1> USE IndexFacts DEF LocalOK, Return
  <1>1. pc' \in [Threads -> {"idle", "readHead", "readTail", "reserve", "copy", "publish"}]
    OBVIOUS
  <1>2. behavior' \in [Threads -> {Fixed, Variable}]  OBVIOUS
  <1>3. max' \in [Threads -> Index] /\ n' \in [Threads -> Index]  OBVIOUS
  <1>4. lhead' \in [Threads -> Index] /\ ltail' \in [Threads -> Index]  OBVIOUS
  <1>5. copied' \in [Threads -> Index] /\ lag' \in [Threads -> Index]  OBVIOUS
  <1>6. table' \in [Threads -> Seq(Objs \cup {NoObj})]  BY SMTT(20)
  <1>7. ret' \in [Threads -> {NoResult, Ok, Exceeded}]  OBVIOUS
  <1> QED BY <1>1, <1>2, <1>3, <1>4, <1>5, <1>6, <1>7

\* Counting how far a head moved keeps lag well typed.
LEMMA AdvanceType ==
    ASSUME LocalOK, NEW T, NEW t \in T, NEW k \in Index, Advance(T, t, k)
    PROVE  lag' \in [Threads -> Index]
  BY IndexFacts DEF LocalOK, Advance

\* A call, with any arguments; a thread's steps are EnqStep and DeqStep.
EnqCall(p) == \E objs \in Bursts, b \in Behaviors : ring_enqueue(p, objs, b)
DeqCall(c) == \E k \in BurstSizes, b \in Behaviors : ring_dequeue(c, k, b)

\* Every enqueue step keeps TypeOK: in particular the copy loop stays inside
\* the caller's table and inside the slots.
LEMMA ProdTypes ==
    ASSUME TypeOK, CallInv, NEW p \in Producers,
           EnqCall(p) \/ EnqStep(p)
    PROVE  TypeOK'
  <1> USE IndexFacts, ThreadFacts DEF TypeOK
  <1>1. CASE EnqCall(p)
    <2> PICK objs \in Bursts, b \in Behaviors : ring_enqueue(p, objs, b)
      BY <1>1 DEF EnqCall
    <2>1. CASE Return(p)
      BY <1>1, <2>1, ReturnType DEF SharedOK, ring_enqueue, shared
    <2>2. CASE ~Return(p)
      <3>1. /\ pc' = [pc EXCEPT ![p] = "readHead"]
            /\ behavior' = [behavior EXCEPT ![p] = b]
            /\ max' = [max EXCEPT ![p] = Len(objs)]
            /\ table' = [table EXCEPT ![p] = objs]
            /\ UNCHANGED <<shared, n, lhead, ltail, copied, ret, lag>>
        BY <1>1, <2>2 DEF ring_enqueue
      <3>2. b \in {Fixed, Variable} /\ Len(objs) \in Index /\ objs \in Seq(Objs \cup {NoObj})
        BY BurstFacts, CallAssumption
      <3> QED BY <3>1, <3>2 DEF SharedOK, LocalOK, shared
    <2> QED BY <2>1, <2>2
  <1>2. CASE EnqReadHead(p)
    BY <1>2 DEF SharedOK, LocalOK, EnqReadHead, shared
  <1>3. CASE EnqReadTail(p)
    BY <1>3 DEF SharedOK, LocalOK, EnqReadTail, shared
  <1>4. CASE EnqNoRoom(p)
    BY <1>4, ReturnType DEF SharedOK, EnqNoRoom, shared
  <1>5. CASE EnqReserveSP(p)
    <2> PICK k \in 0..max[p] :
          /\ n' = [n EXCEPT ![p] = k] /\ prodHead' = Add(lhead[p], k) /\ Advance(Producers, p, k)
      BY <1>5 DEF EnqReserveSP
    <2>1. k \in Index  BY BelowIndex DEF LocalOK
    <2>2. lag' \in [Threads -> Index]  BY <2>1, AdvanceType
    <2> QED BY <1>5, <2>1, <2>2, AddType DEF SharedOK, LocalOK, EnqReserveSP
  <1>6. CASE EnqReserveMP(p)
    <2> PICK k \in 0..max[p] :
          /\ n' = [n EXCEPT ![p] = k]
          /\ \/ prodHead' = Add(lhead[p], k) /\ Advance(Producers, p, k)
             \/ UNCHANGED <<prodHead, lag>>
      BY <1>6 DEF EnqReserveMP
    <2>1. k \in Index  BY BelowIndex DEF LocalOK
    <2>2. lag' \in [Threads -> Index]  BY <2>1, AdvanceType DEF LocalOK
    <2> QED BY <1>6, <2>1, <2>2, AddType DEF SharedOK, LocalOK, EnqReserveMP
  <1>7. CASE EnqCopy(p)
    <2>0. copied[p] \in Nat /\ n[p] \in Index /\ max[p] \in Nat /\ Len(table[p]) = max[p]
          /\ copied[p] < n[p] /\ n[p] <= max[p] /\ n[p] \in Nat
      BY <1>7 DEF EnqCopy, CallInv, Reserving, Reservings, LocalOK
    <2>1. copied[p] + 1 \in Index /\ copied[p] + 1 \in 1..Len(table[p])
      BY <2>0, BelowIndex
    <2>2. Slot(Add(lhead[p], copied[p])) \in 0..mask
      BY AddType, SlotType DEF LocalOK
    <2>3. table[p][copied[p] + 1] \in Objs \cup {NoObj}
      BY <2>1 DEF LocalOK
    <2> QED BY <1>7, <2>1, <2>2, <2>3 DEF SharedOK, LocalOK, EnqCopy
  <1>8. CASE EnqWaterMark(p)
    BY <1>8 DEF SharedOK, LocalOK, EnqWaterMark, shared
  <1>9. CASE EnqPublish(p)
    BY <1>9, AddType, ReturnType DEF SharedOK, LocalOK, EnqPublish
  <1> QED
    BY <1>1, <1>2, <1>3, <1>4, <1>5, <1>6, <1>7, <1>8, <1>9 DEF EnqStep

\* Every dequeue step keeps TypeOK.
LEMMA ConsTypes ==
    ASSUME TypeOK, CallInv, NEW c \in Consumers,
           DeqCall(c) \/ DeqStep(c)
    PROVE  TypeOK'
  <1> USE IndexFacts, ThreadFacts DEF TypeOK
  <1>1. CASE DeqCall(c)
    <2> PICK k \in BurstSizes, b \in Behaviors : ring_dequeue(c, k, b)
      BY <1>1 DEF DeqCall
    <2>1. CASE Return(c)
      BY <1>1, <2>1, ReturnType DEF SharedOK, ring_dequeue, shared
    <2>2. CASE ~Return(c)
      <3>1. /\ pc' = [pc EXCEPT ![c] = "readHead"]
            /\ behavior' = [behavior EXCEPT ![c] = b]
            /\ max' = [max EXCEPT ![c] = k]
            /\ UNCHANGED <<shared, n, lhead, ltail, copied, table, ret, lag>>
        BY <1>1, <2>2 DEF ring_dequeue
      <3>2. b \in {Fixed, Variable} /\ k \in Index
        BY CallAssumption
      <3> QED BY <3>1, <3>2 DEF SharedOK, LocalOK, shared
    <2> QED BY <2>1, <2>2
  <1>2. CASE DeqReadHead(c)
    BY <1>2 DEF SharedOK, LocalOK, DeqReadHead, shared
  <1>3. CASE DeqReadTail(c)
    BY <1>3 DEF SharedOK, LocalOK, DeqReadTail, shared
  <1>4. CASE DeqNoEntries(c)
    BY <1>4, ReturnType DEF SharedOK, DeqNoEntries, shared
  <1>5. CASE DeqReserveSC(c)
    <2> PICK m \in 0..max[c] :
          /\ n' = [n EXCEPT ![c] = m] /\ consHead' = Add(lhead[c], m) /\ Advance(Consumers, c, m)
      BY <1>5 DEF DeqReserveSC
    <2>1. m \in Index  BY BelowIndex DEF LocalOK
    <2>2. lag' \in [Threads -> Index]  BY <2>1, AdvanceType
    <2> QED BY <1>5, <2>1, <2>2, AddType DEF SharedOK, LocalOK, DeqReserveSC
  <1>6. CASE DeqReserveMC(c)
    <2> PICK m \in 0..max[c] :
          /\ n' = [n EXCEPT ![c] = m]
          /\ \/ consHead' = Add(lhead[c], m) /\ Advance(Consumers, c, m)
             \/ UNCHANGED <<consHead, lag>>
      BY <1>6 DEF DeqReserveMC
    <2>1. m \in Index  BY BelowIndex DEF LocalOK
    <2>2. lag' \in [Threads -> Index]  BY <2>1, AdvanceType DEF LocalOK
    <2> QED BY <1>6, <2>1, <2>2, AddType DEF SharedOK, LocalOK, DeqReserveMC
  <1>7. CASE DeqCopy(c)
    <2>0. copied[c] \in Nat /\ n[c] \in Index /\ copied[c] < n[c] /\ n[c] \in Nat
      BY <1>7 DEF DeqCopy, LocalOK
    <2>1. copied[c] + 1 \in Index
      BY <2>0, BelowIndex
    <2>2. Slot(Add(lhead[c], copied[c])) \in 0..mask
      BY AddType, SlotType DEF LocalOK
    <2>3. Append(table[c], ring[Slot(Add(lhead[c], copied[c]))]) \in Seq(Objs \cup {NoObj})
      BY <2>2 DEF LocalOK, SharedOK
    <2> QED BY <1>7, <2>1, <2>3 DEF SharedOK, LocalOK, DeqCopy, shared
  <1>8. CASE DeqPublish(c)
    BY <1>8, AddType, ReturnType DEF SharedOK, LocalOK, DeqPublish
  <1> QED
    BY <1>1, <1>2, <1>3, <1>4, <1>5, <1>6, <1>7, <1>8 DEF DeqStep

-----------------------------------------------------------------------------
\* CallInv for one thread.
CallOf(t) ==
    /\ InWindow(t) => n[t] = max[t]
    /\ Reserving(t) => copied[t] <= n[t] /\ n[t] <= max[t]
    /\ t \in Producers => Len(table[t]) = max[t]
    /\ t \in Producers /\ ~SpEnqueue /\ pc[t] # "idle" => max[t] > 0
    /\ t \in Consumers /\ ~ScDequeue /\ pc[t] # "idle" => max[t] > 0

SameLocal(t) ==
    /\ pc'[t] = pc[t] /\ max'[t] = max[t] /\ n'[t] = n[t] /\ lhead'[t] = lhead[t]
    /\ ltail'[t] = ltail[t] /\ copied'[t] = copied[t] /\ table'[t] = table[t]

\* CallInv is preserved when only thread t moves and CallOf(t) holds after.
LEMMA CallFrame ==
    ASSUME CallInv, NEW t \in Threads, CallOf(t)',
           \A u \in Threads \ {t} : SameLocal(u)
    PROVE  CallInv'
  BY DEF CallInv, CallOf, SameLocal, InWindow, Reserving

\* A return touches only the locals of the thread that returns.
LEMMA ReturnFrame ==
    ASSUME LocalOK, NEW t \in Threads, Return(t)
    PROVE  /\ \A u \in Threads \ {t} : SameLocal(u) /\ lag'[u] = lag[u]
           /\ pc'[t] = "idle" /\ table'[t] = << >> /\ max'[t] = 0
  BY DEF LocalOK, Return, SameLocal

\* An enqueue step touches no other thread's locals and no consumer index.
LEMMA ProdFrame ==
    ASSUME LocalOK, NEW p \in Producers,
           EnqCall(p) \/ EnqStep(p)
    PROVE  /\ \A u \in Threads \ {p} : SameLocal(u)
           /\ \A u \in Consumers : lag'[u] = lag[u]
           /\ consHead' = consHead /\ consTail' = consTail
  <1> USE ThreadFacts DEF LocalOK, SameLocal
  <1>1. CASE EnqCall(p)
    <2> PICK objs \in Bursts, b \in Behaviors : ring_enqueue(p, objs, b)
      BY <1>1 DEF EnqCall
    <2>1. CASE Return(p)  BY <1>1, <2>1, ReturnFrame DEF ring_enqueue, shared
    <2>2. CASE ~Return(p)  BY <1>1, <2>2 DEF ring_enqueue, shared
    <2> QED BY <2>1, <2>2
  <1>2. CASE EnqReadHead(p)  BY <1>2 DEF EnqReadHead, shared
  <1>3. CASE EnqReadTail(p)  BY <1>3 DEF EnqReadTail, shared
  <1>4. CASE EnqNoRoom(p)  BY <1>4, ReturnFrame DEF EnqNoRoom, shared
  <1>5. CASE EnqReserveSP(p)  BY <1>5 DEF EnqReserveSP, Advance
  <1>6. CASE EnqReserveMP(p)  BY <1>6 DEF EnqReserveMP, Advance
  <1>7. CASE EnqCopy(p)  BY <1>7 DEF EnqCopy
  <1>8. CASE EnqWaterMark(p)  BY <1>8 DEF EnqWaterMark, shared
  <1>9. CASE EnqPublish(p)  BY <1>9, ReturnFrame DEF EnqPublish
  <1> QED
    BY <1>1, <1>2, <1>3, <1>4, <1>5, <1>6, <1>7, <1>8, <1>9 DEF EnqStep

\* A dequeue step touches no other thread's locals and no producer index.
LEMMA ConsFrame ==
    ASSUME LocalOK, NEW c \in Consumers,
           DeqCall(c) \/ DeqStep(c)
    PROVE  /\ \A u \in Threads \ {c} : SameLocal(u)
           /\ \A u \in Producers : lag'[u] = lag[u]
           /\ prodHead' = prodHead /\ prodTail' = prodTail
  <1> USE ThreadFacts DEF LocalOK, SameLocal
  <1>1. CASE DeqCall(c)
    <2> PICK k \in BurstSizes, b \in Behaviors : ring_dequeue(c, k, b)
      BY <1>1 DEF DeqCall
    <2>1. CASE Return(c)  BY <1>1, <2>1, ReturnFrame DEF ring_dequeue, shared
    <2>2. CASE ~Return(c)  BY <1>1, <2>2 DEF ring_dequeue, shared
    <2> QED BY <2>1, <2>2
  <1>2. CASE DeqReadHead(c)  BY <1>2 DEF DeqReadHead, shared
  <1>3. CASE DeqReadTail(c)  BY <1>3 DEF DeqReadTail, shared
  <1>4. CASE DeqNoEntries(c)  BY <1>4, ReturnFrame DEF DeqNoEntries, shared
  <1>5. CASE DeqReserveSC(c)  BY <1>5 DEF DeqReserveSC, Advance
  <1>6. CASE DeqReserveMC(c)  BY <1>6 DEF DeqReserveMC, Advance
  <1>7. CASE DeqCopy(c)  BY <1>7 DEF DeqCopy, shared
  <1>8. CASE DeqPublish(c)  BY <1>8, ReturnFrame DEF DeqPublish
  <1> QED
    BY <1>1, <1>2, <1>3, <1>4, <1>5, <1>6, <1>7, <1>8 DEF DeqStep

\* Every enqueue step keeps CallInv.
LEMMA ProdCalls ==
    ASSUME TypeOK, CallInv, NEW p \in Producers,
           EnqCall(p) \/ EnqStep(p)
    PROVE  CallInv'
  <1> SUFFICES CallOf(p)'
    BY ProdFrame, CallFrame, ThreadFacts DEF TypeOK
  <1>0. CallOf(p) /\ LocalOK /\ p \in Threads /\ p \notin Consumers
        /\ max[p] \in Nat /\ n[p] \in Nat /\ copied[p] \in Nat
    BY ThreadFacts, IndexFacts DEF TypeOK, CallInv, CallOf, LocalOK
  <1> USE <1>0 DEF LocalOK, CallOf, InWindow, Reserving, Window, Reservings
  <1>1. CASE EnqCall(p)
    <2> PICK objs \in Bursts, b \in Behaviors : ring_enqueue(p, objs, b)
      BY <1>1 DEF EnqCall
    <2>1. CASE Return(p)  BY <2>1, ReturnFrame
    <2>2. CASE ~Return(p)
      <3>1. Len(objs) \in Nat  BY BurstFacts, IndexFacts
      <3> QED BY <1>1, <2>2, <3>1 DEF ring_enqueue
    <2> QED BY <2>1, <2>2
  <1>2. CASE EnqReadHead(p)  BY <1>2 DEF EnqReadHead
  <1>3. CASE EnqReadTail(p)  BY <1>3 DEF EnqReadTail
  <1>4. CASE EnqNoRoom(p)  BY <1>4, ReturnFrame DEF EnqNoRoom
  <1>5. CASE EnqReserveSP(p)  BY <1>5 DEF EnqReserveSP
  <1>6. CASE EnqReserveMP(p)  BY <1>6 DEF EnqReserveMP
  <1>7. CASE EnqCopy(p)  BY <1>7 DEF EnqCopy
  <1>8. CASE EnqWaterMark(p)  BY <1>8 DEF EnqWaterMark
  <1>9. CASE EnqPublish(p)  BY <1>9, ReturnFrame DEF EnqPublish
  <1> QED
    BY <1>1, <1>2, <1>3, <1>4, <1>5, <1>6, <1>7, <1>8, <1>9 DEF EnqStep

\* Every dequeue step keeps CallInv.
LEMMA ConsCalls ==
    ASSUME TypeOK, CallInv, NEW c \in Consumers,
           DeqCall(c) \/ DeqStep(c)
    PROVE  CallInv'
  <1> SUFFICES CallOf(c)'
    BY ConsFrame, CallFrame, ThreadFacts DEF TypeOK
  <1>0. CallOf(c) /\ LocalOK /\ c \in Threads /\ c \notin Producers
        /\ max[c] \in Nat /\ n[c] \in Nat /\ copied[c] \in Nat
    BY ThreadFacts, IndexFacts DEF TypeOK, CallInv, CallOf, LocalOK
  <1> USE <1>0 DEF LocalOK, CallOf, InWindow, Reserving, Window, Reservings
  <1>1. CASE DeqCall(c)
    <2> PICK k \in BurstSizes, b \in Behaviors : ring_dequeue(c, k, b)
      BY <1>1 DEF DeqCall
    <2>1. CASE Return(c)  BY <2>1, ReturnFrame
    <2>2. CASE ~Return(c)
      <3>1. k \in Nat  BY CallAssumption, IndexFacts
      <3> QED BY <1>1, <2>2, <3>1 DEF ring_dequeue
    <2> QED BY <2>1, <2>2
  <1>2. CASE DeqReadHead(c)  BY <1>2 DEF DeqReadHead
  <1>3. CASE DeqReadTail(c)  BY <1>3 DEF DeqReadTail
  <1>4. CASE DeqNoEntries(c)  BY <1>4, ReturnFrame DEF DeqNoEntries
  <1>5. CASE DeqReserveSC(c)  BY <1>5 DEF DeqReserveSC
  <1>6. CASE DeqReserveMC(c)  BY <1>6 DEF DeqReserveMC
  <1>7. CASE DeqCopy(c)  BY <1>7 DEF DeqCopy
  <1>8. CASE DeqPublish(c)  BY <1>8, ReturnFrame DEF DeqPublish
  <1> QED
    BY <1>1, <1>2, <1>3, <1>4, <1>5, <1>6, <1>7, <1>8 DEF DeqStep

-----------------------------------------------------------------------------
\* The compare-and-set reports success, or no path uses one.
CasReportsSuccess == CmpxchgReturnsOld => SpEnqueue /\ ScDequeue

\* The distances between the four indexes are naturals.
LEMMA IndexTypes ==
    ASSUME TypeOK
    PROVE  /\ Sub(consHead, consTail) \in Nat /\ Sub(prodTail, consHead) \in Nat
           /\ Sub(prodHead, prodTail) \in Nat /\ Sub(prodHead, consTail) \in Nat
           /\ mask \in Nat /\ mask < IndexMod /\ IndexMod \in Nat
  BY SubType, IndexFacts, SizeFacts DEF TypeOK, SharedOK

\* The distance from cons.tail to prod.head is the sum of the three parts
\* IndexOrder bounds.
LEMMA UsedBound ==
    ASSUME TypeOK, IndexOrder
    PROVE  Sub(prodHead, consTail) =
             Sub(consHead, consTail) + Sub(prodTail, consHead) + Sub(prodHead, prodTail)
  <1> USE IndexTypes DEF TypeOK, SharedOK, IndexOrder
  <1>1. Sub(prodHead, consHead) = Sub(prodHead, prodTail) + Sub(prodTail, consHead)
    BY SubSum
  <1> QED BY <1>1, SubSum

\* The n a producer reserves fits: the slots in use, plus n, are at most mask,
\* although the consumer tail it was computed from may be old.
LEMMA FitsFacts ==
    ASSUME RingInv, NEW p \in Producers, pc[p] = "reserve", lhead[p] = prodHead,
           NEW k \in 0..max[p], EnqFits(p, k)
    PROVE  /\ k \in Index
           /\ Sub(prodHead, consTail) + k <= mask
           /\ Sub(prodHead, prodTail) + k < IndexMod
           /\ ~SpEnqueue => k > 0
           /\ Sub(prodHead, prodTail) + k + Sub(consHead, consTail) + Sub(prodTail, consHead) <= mask
  <1>1. TypeOK /\ IndexOrder /\ CallInv /\ ProdRoom  BY DEF RingInv
  <1>2. max[p] \in Index /\ n[p] \in Nat /\ lhead[p] \in Index /\ ltail[p] \in Index /\ k \in Nat
        /\ k \in Index /\ max[p] \in Nat
    BY <1>1, ThreadFacts, BelowIndex, IndexFacts DEF TypeOK, LocalOK
  <1>3. free_entries(p) \in Nat
    BY <1>2, AddType, SubType, IndexFacts DEF free_entries
  <1>4. k <= free_entries(p) /\ (n[p] > 0 => k > 0)
    BY <1>2, <1>3 DEF EnqFits
  <1>5. free_entries(p) <= mask - Sub(prodHead, consTail)
    BY <1>1 DEF ProdRoom
  <1>6. Sub(prodHead, consTail) + k <= mask
    BY <1>2, <1>3, <1>4, <1>5, <1>1, IndexTypes
  <1>7. ~SpEnqueue => n[p] > 0
    BY <1>1, ThreadFacts DEF CallInv, InWindow, Window
  <1> QED BY <1>1, <1>2, <1>4, <1>6, <1>7, IndexTypes, UsedBound

\* A producer's step that moves neither prod.head nor prod.tail.
LEMMA ProdQuiet ==
    ASSUME RingInv, NEW p \in Producers, prodHead' = prodHead, prodTail' = prodTail,
           consHead' = consHead, consTail' = consTail,
           \A u \in Producers \ {p} : SameLocal(u) /\ lag'[u] = lag[u],
           pc'[p] \in Window => pc[p] \in Window /\ lhead'[p] = lhead[p] /\ lag'[p] = lag[p],
           pc'[p] = "reserve" => \/ ltail'[p] = consTail
                                 \/ pc[p] = "reserve" /\ ltail'[p] = ltail[p],
           pc'[p] \in Reservings <=> pc[p] \in Reservings,
           pc'[p] \in Reservings => lhead'[p] = lhead[p] /\ n'[p] = n[p]
    PROVE  ProdSide' /\ ProdRoom' /\ IndexOrder'
  <1>1. ProdSide'
    BY SideQuiet DEF RingInv, ProdSide, SameLocal
  <1>2. ProdRoom'
    <2> SUFFICES ASSUME NEW q \in Producers, pc'[q] = "reserve", lhead'[q] = prodHead
                 PROVE  (free_entries(q))' <= mask - Sub(prodHead, consTail)
      BY DEF ProdRoom
    <2>0. TypeOK /\ IndexOrder /\ ProdRoom  BY DEF RingInv
    <2>1. CASE q # p
      BY <2>1, <2>0 DEF ProdRoom, SameLocal, free_entries
    <2>2. CASE q = p
      <3>1. lhead[p] = prodHead /\ lhead'[p] = lhead[p]
        BY <2>2 DEF Window
      <3>2. CASE ltail'[p] = consTail
        <4>1. (free_entries(p))' = Sub(Add(mask, consTail), prodHead)
          BY <3>1, <3>2 DEF free_entries
        <4>2. Sub(prodHead, consTail) <= mask
          BY <2>0, UsedBound, IndexTypes DEF IndexOrder
        <4> QED BY <4>1, <4>2, <2>0, <2>2, FreeUsed, IndexTypes DEF TypeOK, SharedOK
      <3>3. CASE pc[p] = "reserve" /\ ltail'[p] = ltail[p]
        BY <3>1, <3>3, <2>0, <2>2 DEF ProdRoom, free_entries
      <3> QED BY <2>2, <3>2, <3>3 DEF Window
    <2> QED BY <2>1, <2>2
  <1>3. IndexOrder'
    BY DEF RingInv, IndexOrder
  <1> QED BY <1>1, <1>2, <1>3

\* The reservation of k slots by a producer (prod.head moves).
LEMMA ProdReserve ==
    ASSUME RingInv, NEW p \in Producers, NEW k, k \in 0..max[p], pc[p] = "reserve",
           lhead[p] = prodHead, EnqFits(p, k), Advance(Producers, p, k),
           prodHead' = Add(prodHead, k), n' = [n EXCEPT ![p] = k],
           pc' = [pc EXCEPT ![p] = "copy"],
           UNCHANGED <<prodTail, consHead, consTail, lhead, ltail>>
    PROVE  ProdSide' /\ ProdRoom' /\ IndexOrder'
  <1>1. /\ k \in Index /\ k \in Nat
        /\ Sub(prodHead, prodTail) + k < IndexMod
        /\ ~SpEnqueue => k > 0
        /\ Sub(prodHead, prodTail) + k + Sub(consHead, consTail) + Sub(prodTail, consHead) <= mask
    BY FitsFacts, IndexFacts
  <1>2. TypeOK /\ LocalOK /\ SharedOK /\ p \in Threads
    BY ThreadFacts DEF RingInv, TypeOK
  <1>3. /\ pc'[p] = "copy" /\ n'[p] = k
        /\ \A t \in Producers \ {p} : pc'[t] = pc[t] /\ n'[t] = n[t]
        /\ \A t \in Producers \ {p} : pc[t] \in Window =>
                                        lag[t] + k < IndexMod /\ lag'[t] = lag[t] + k
    BY <1>2, ThreadFacts DEF LocalOK, Advance, InWindow
  <1>4. ProdSide'
    <2>1. SideInv(Producers, SpEnqueue, prodHead, prodTail, pc, n, lhead, lag)
      BY DEF RingInv, ProdSide
    <2>2. SpEnqueue \in BOOLEAN /\ (SpEnqueue => \A t, u \in Producers : t = u)
      BY ThreadAssumption
    <2>3. \A t \in Producers : n[t] \in Index /\ lhead[t] \in Index /\ lag[t] \in Index
      BY <1>2, ThreadFacts DEF LocalOK
    <2>4. SideInv(Producers, SpEnqueue, Add(prodHead, k), prodTail, pc', n', lhead, lag')
      <3>1. prodHead \in Index /\ prodTail \in Index  BY <1>2 DEF SharedOK
      <3>2. \A t, u \in Producers : SpEnqueue => t = u  BY <2>2
      <3>3. k \in Index /\ Sub(prodHead, prodTail) + k < IndexMod /\ (~SpEnqueue => k > 0)
        BY <1>1
      <3>4. pc[p] = "reserve" /\ lhead[p] = prodHead  OBVIOUS
      <3> QED BY ONLY p \in Producers, <1>3, <2>1, <2>3, <3>1, <3>2, <3>3, <3>4, SideReserve
    <2> QED BY <2>4 DEF ProdSide
  <1>5. ProdRoom'
    <2> SUFFICES ASSUME NEW q \in Producers, pc'[q] = "reserve", lhead'[q] = prodHead'
                 PROVE  FALSE
      BY DEF ProdRoom
    <2>1. q # p  BY <1>3
    <2>2. ~SpEnqueue  BY <2>1, ThreadAssumption
    <2>3. lag'[q] = lag[q] + k /\ lag[q] \in Nat
      BY <2>1, <1>2, <1>3, ThreadFacts, IndexFacts DEF Window, LocalOK
    <2>4. Sub(prodHead', lhead'[q]) = lag'[q]
      BY <1>4 DEF ProdSide, SideInv, Window
    <2>5. Sub(prodHead', prodHead') = 0
      BY <1>1, <1>2, AddType, SubSelf DEF SharedOK
    <2> QED BY <2>2, <2>3, <2>4, <2>5, <1>1
  <1>6. IndexOrder'
    BY <1>1, <1>2, SubAdd, IndexTypes DEF IndexOrder, SharedOK
  <1> QED BY <1>4, <1>5, <1>6

\* The publish of a producer (prod.tail moves); the consumers only gain.
LEMMA ProdPublish ==
    ASSUME RingInv, NEW p \in Producers, EnqPublish(p)
    PROVE  /\ ProdSide' /\ ProdRoom' /\ IndexOrder'
           /\ Sub(prodTail, consHead) <= Sub(prodTail', consHead)
  <1>1. TypeOK /\ LocalOK /\ SharedOK /\ p \in Threads /\ IndexOrder
    BY ThreadFacts DEF RingInv, TypeOK
  <1>2. SideInv(Producers, SpEnqueue, prodHead, prodTail, pc, n, lhead, lag)
    BY DEF RingInv, ProdSide
  <1>3. pc[p] \in Reservings /\ lhead[p] = prodTail
    BY <1>2 DEF EnqPublish, Reservings, SideInv
  <1>4. prodTail' = Add(prodTail, n[p]) /\ UNCHANGED <<prodHead, consHead, consTail>>
    BY <1>3 DEF EnqPublish
  <1>5. /\ pc'[p] = "idle"
        /\ \A t \in Producers \ {p} : SameLocal(t) /\ lag'[t] = lag[t]
    BY <1>1, ReturnFrame, ThreadFacts DEF EnqPublish
  <1>6. \A t \in Producers : n[t] \in Index /\ lhead[t] \in Index
    BY <1>1, ThreadFacts DEF LocalOK
  <1>7. \A t, u \in Producers : SpEnqueue => t = u
    BY ThreadAssumption
  <1>8. /\ SideInv(Producers, SpEnqueue, prodHead, Add(prodTail, n[p]), pc', n', lhead', lag')
        /\ n[p] <= Sub(prodHead, prodTail)
    <2>1. prodHead \in Index /\ prodTail \in Index  BY <1>1 DEF SharedOK
    <2>2. \A t \in Producers \ {p} : pc'[t] = pc[t] /\ lhead'[t] = lhead[t]
                                     /\ lag'[t] = lag[t] /\ n'[t] = n[t]
      BY <1>5 DEF SameLocal
    <2> QED BY <1>2, <1>3, <1>5, <1>6, <1>7, <2>1, <2>2, SidePublish
  <1>9. /\ Sub(prodHead, prodTail') = Sub(prodHead, prodTail) - n[p]
        /\ Sub(prodTail', consHead) = Sub(prodTail, consHead) + n[p]
        /\ n[p] \in Nat
    BY <1>1, <1>4, <1>6, <1>8, SubShift, SubAdd, IndexTypes, IndexFacts, SMTT(20) DEF IndexOrder, SharedOK
  <1>10. ProdSide'
    BY <1>8, <1>4 DEF ProdSide
  <1>11. ProdRoom'
    BY <1>4, <1>5 DEF RingInv, ProdRoom, SameLocal, free_entries
  <1>12. IndexOrder'
    BY <1>1, <1>4, <1>9, IndexTypes DEF IndexOrder
  <1> QED BY <1>1, <1>9, <1>10, <1>11, <1>12, IndexTypes

\* What a producer's step does to its own side and to the indexes.
\* Every enqueue step keeps the producer side, the room and the index order.
LEMMA ProdOwn ==
    ASSUME CasReportsSuccess, RingInv, NEW p \in Producers,
           EnqCall(p) \/ EnqStep(p)
    PROVE  /\ ProdSide' /\ ProdRoom' /\ IndexOrder'
           /\ Sub(prodTail, consHead) <= Sub(prodTail', consHead)
  <1>0. LocalOK /\ p \in Threads /\ TypeOK /\ ProdSide
    BY ThreadFacts DEF RingInv, TypeOK
  <1>f. \A u \in Producers \ {p} : SameLocal(u)
    BY <1>0, ProdFrame, ThreadFacts
  <1>s. prodTail' = prodTail => Sub(prodTail, consHead) <= Sub(prodTail', consHead)
    BY <1>0, IndexTypes
  <1> USE DEF Window, Reservings
  <1>1. CASE EnqCall(p)
    <2> PICK objs \in Bursts, b \in Behaviors : ring_enqueue(p, objs, b)
      BY <1>1 DEF EnqCall
    <2>1. pc[p] = "idle" /\ pc'[p] \in {"idle", "readHead"} /\ UNCHANGED shared
          /\ \A u \in Producers \ {p} : lag'[u] = lag[u]
      <3>1. CASE Return(p)  BY <1>0, <1>1, <3>1, ReturnFrame, ThreadFacts DEF ring_enqueue
      <3>2. CASE ~Return(p)  BY <1>0, <1>1, <3>2 DEF ring_enqueue, LocalOK
      <3> QED BY <3>1, <3>2
    <2> QED BY <2>1, <1>f, <1>s, ProdQuiet DEF shared
  <1>2. CASE EnqReadHead(p)
    <2>1. /\ pc[p] = "readHead" /\ pc'[p] = "readTail" /\ lhead'[p] = prodHead /\ lag'[p] = 0
          /\ \A u \in Producers \ {p} : lag'[u] = lag[u]
          /\ UNCHANGED shared
      BY <1>0, <1>2 DEF EnqReadHead, LocalOK
    <2>2. SideInv(Producers, SpEnqueue, prodHead, prodTail, pc', n', lhead', lag')
      BY <2>1, <1>f, <1>0, SideReadHead DEF ProdSide, SameLocal, TypeOK, SharedOK
    <2>3. ProdRoom'
      BY <2>1, <1>f DEF RingInv, ProdRoom, SameLocal, free_entries, shared
    <2> QED BY <2>1, <2>2, <2>3, <1>s DEF ProdSide, RingInv, IndexOrder, shared
  <1>3. CASE EnqReadTail(p)
    <2>1. /\ pc[p] = "readTail" /\ pc'[p] = "reserve" /\ ltail'[p] = consTail
          /\ UNCHANGED <<shared, lhead, lag>>
      BY <1>0, <1>3 DEF EnqReadTail, LocalOK
    <2>2. /\ pc[p] \in Window /\ lhead'[p] = lhead[p] /\ lag'[p] = lag[p]
          /\ pc'[p] \notin Reservings /\ pc[p] \notin Reservings
          /\ UNCHANGED <<prodHead, prodTail, consHead, consTail>>
          /\ \A u \in Producers \ {p} : SameLocal(u) /\ lag'[u] = lag[u]
      BY <2>1, <1>f DEF shared
    <2> QED BY <2>1, <2>2, <1>s, ProdQuiet
  <1>4. CASE EnqNoRoom(p)
    <2>1. /\ pc[p] = "reserve" /\ pc'[p] = "idle" /\ UNCHANGED shared
          /\ \A u \in Producers \ {p} : lag'[u] = lag[u]
      BY <1>0, <1>4, ReturnFrame, ThreadFacts DEF EnqNoRoom
    <2> QED BY <2>1, <1>f, <1>s, ProdQuiet DEF shared
  <1>5. CASE EnqReserveSP(p)
    <2>1. lhead[p] = prodHead
      BY <1>0, <1>5 DEF EnqReserveSP, ProdSide, SideInv
    <2> QED BY <1>5, <2>1, <1>s, ProdReserve DEF EnqReserveSP
  <1>6. CASE EnqReserveMP(p)
    <2>1. CASE lhead[p] = prodHead
      BY <1>6, <2>1, <1>s, ProdReserve DEF EnqReserveMP, LoopEnds, CmpxchgStores, CasReportsSuccess
    <2>2. CASE lhead[p] # prodHead
      <3>1. /\ pc[p] = "reserve" /\ pc'[p] = "readHead"
            /\ UNCHANGED <<prodHead, prodTail, consHead, consTail, lag>>
        BY <1>0, <1>6, <2>2 DEF EnqReserveMP, LoopEnds, CmpxchgStores, CasReportsSuccess, LocalOK
      <3> QED BY <3>1, <1>f, <1>s, ProdQuiet
    <2> QED BY <2>1, <2>2
  <1>7. CASE EnqCopy(p)
    <2>1. UNCHANGED <<prodHead, prodTail, consHead, consTail, pc, lhead, n, lag>> /\ pc[p] = "copy"
      BY <1>7 DEF EnqCopy
    <2> QED BY <2>1, <1>f, <1>s, ProdQuiet
  <1>8. CASE EnqWaterMark(p)
    <2>1. /\ UNCHANGED <<prodHead, prodTail, consHead, consTail, lhead, n, lag>>
          /\ pc[p] = "copy" /\ pc'[p] = "publish"
      BY <1>0, <1>8 DEF EnqWaterMark, LocalOK, shared
    <2> QED BY <2>1, <1>f, <1>s, ProdQuiet
  <1>9. CASE EnqPublish(p)
    BY <1>9, ProdPublish
  <1> QED
    BY <1>1, <1>2, <1>3, <1>4, <1>5, <1>6, <1>7, <1>8, <1>9 DEF EnqStep

-----------------------------------------------------------------------------
\* The n a consumer reserves is published.
LEMMA DeqFitsFacts ==
    ASSUME RingInv, NEW c \in Consumers, pc[c] = "reserve", lhead[c] = consHead,
           NEW k \in 0..max[c], DeqFits(c, k)
    PROVE  /\ k \in Index
           /\ k <= Sub(prodTail, consHead)
           /\ Sub(consHead, consTail) + k < IndexMod
           /\ ~ScDequeue => k > 0
  <1>1. TypeOK /\ IndexOrder /\ CallInv /\ ConsRoom  BY DEF RingInv
  <1>2. n[c] \in Nat /\ lhead[c] \in Index /\ ltail[c] \in Index /\ k \in Nat
        /\ k \in Index /\ max[c] \in Nat
    BY <1>1, ThreadFacts, BelowIndex, IndexFacts DEF TypeOK, LocalOK
  <1>3. entries(c) \in Nat
    BY <1>2, SubType, IndexFacts DEF entries
  <1>4. k <= entries(c) /\ (n[c] > 0 => k > 0)
    BY <1>2, <1>3 DEF DeqFits
  <1>5. entries(c) <= Sub(prodTail, consHead)
    BY <1>1 DEF ConsRoom
  <1>6. k <= Sub(prodTail, consHead)
    BY <1>2, <1>3, <1>4, <1>5, <1>1, IndexTypes
  <1>7. ~ScDequeue => n[c] > 0
    BY <1>1, ThreadFacts DEF CallInv, InWindow, Window
  <1> QED BY <1>1, <1>2, <1>4, <1>6, <1>7, IndexTypes DEF IndexOrder

\* A consumer's step that moves neither cons.head nor cons.tail.
LEMMA ConsQuiet ==
    ASSUME RingInv, NEW c \in Consumers, prodHead' = prodHead, prodTail' = prodTail,
           consHead' = consHead, consTail' = consTail,
           \A u \in Consumers \ {c} : SameLocal(u) /\ lag'[u] = lag[u],
           pc'[c] \in Window => pc[c] \in Window /\ lhead'[c] = lhead[c] /\ lag'[c] = lag[c],
           pc'[c] = "reserve" => \/ ltail'[c] = prodTail
                                 \/ pc[c] = "reserve" /\ ltail'[c] = ltail[c],
           pc'[c] \in Reservings <=> pc[c] \in Reservings,
           pc'[c] \in Reservings => lhead'[c] = lhead[c] /\ n'[c] = n[c]
    PROVE  ConsSide' /\ ConsRoom' /\ IndexOrder'
  <1>1. ConsSide'
    BY SideQuiet DEF RingInv, ConsSide, SameLocal
  <1>2. ConsRoom'
    <2> SUFFICES ASSUME NEW q \in Consumers, pc'[q] = "reserve", lhead'[q] = consHead
                 PROVE  (entries(q))' <= Sub(prodTail, consHead)
      BY DEF ConsRoom
    <2>0. TypeOK /\ IndexOrder /\ ConsRoom  BY DEF RingInv
    <2>1. CASE q # c
      BY <2>1, <2>0 DEF ConsRoom, SameLocal, entries
    <2>2. CASE q = c
      <3>1. lhead[c] = consHead /\ lhead'[c] = lhead[c]
        BY <2>2 DEF Window
      <3>2. CASE ltail'[c] = prodTail
        BY <3>1, <3>2, <2>0, <2>2, IndexTypes DEF entries
      <3>3. CASE pc[c] = "reserve" /\ ltail'[c] = ltail[c]
        BY <3>1, <3>3, <2>0, <2>2 DEF ConsRoom, entries
      <3> QED BY <2>2, <3>2, <3>3 DEF Window
    <2> QED BY <2>1, <2>2
  <1>3. IndexOrder'
    BY DEF RingInv, IndexOrder
  <1> QED BY <1>1, <1>2, <1>3

\* The reservation of k entries by a consumer (cons.head moves).
LEMMA ConsReserve ==
    ASSUME RingInv, NEW c \in Consumers, NEW k, k \in 0..max[c], pc[c] = "reserve",
           lhead[c] = consHead, DeqFits(c, k), Advance(Consumers, c, k),
           consHead' = Add(consHead, k), n' = [n EXCEPT ![c] = k],
           pc' = [pc EXCEPT ![c] = "copy"],
           UNCHANGED <<consTail, prodHead, prodTail, lhead, ltail>>
    PROVE  ConsSide' /\ ConsRoom' /\ IndexOrder'
  <1>1. /\ k \in Index /\ k \in Nat
        /\ Sub(consHead, consTail) + k < IndexMod
        /\ ~ScDequeue => k > 0
        /\ k <= Sub(prodTail, consHead)
    BY DeqFitsFacts, IndexFacts
  <1>2. TypeOK /\ LocalOK /\ SharedOK /\ c \in Threads /\ IndexOrder
    BY ThreadFacts DEF RingInv, TypeOK
  <1>3. /\ pc'[c] = "copy" /\ n'[c] = k
        /\ \A t \in Consumers \ {c} : pc'[t] = pc[t] /\ n'[t] = n[t]
        /\ \A t \in Consumers \ {c} : pc[t] \in Window =>
                                        lag[t] + k < IndexMod /\ lag'[t] = lag[t] + k
    BY <1>2, ThreadFacts DEF LocalOK, Advance, InWindow
  <1>4. ConsSide'
    <2>1. SideInv(Consumers, ScDequeue, consHead, consTail, pc, n, lhead, lag)
      BY DEF RingInv, ConsSide
    <2>2. \A t, u \in Consumers : ScDequeue => t = u
      BY ThreadAssumption
    <2>3. \A t \in Consumers : n[t] \in Index /\ lhead[t] \in Index /\ lag[t] \in Index
      BY <1>2, ThreadFacts DEF LocalOK
    <2>4. SideInv(Consumers, ScDequeue, Add(consHead, k), consTail, pc', n', lhead, lag')
      <3>1. consHead \in Index /\ consTail \in Index  BY <1>2 DEF SharedOK
      <3>3. k \in Index /\ Sub(consHead, consTail) + k < IndexMod /\ (~ScDequeue => k > 0)
        BY <1>1
      <3>4. pc[c] = "reserve" /\ lhead[c] = consHead  OBVIOUS
      <3> QED BY ONLY c \in Consumers, <1>3, <2>1, <2>2, <2>3, <3>1, <3>3, <3>4, SideReserve
    <2> QED BY <2>4 DEF ConsSide
  <1>5. ConsRoom'
    <2> SUFFICES ASSUME NEW q \in Consumers, pc'[q] = "reserve", lhead'[q] = consHead'
                 PROVE  FALSE
      BY DEF ConsRoom
    <2>1. q # c  BY <1>3
    <2>2. ~ScDequeue  BY <2>1, ThreadAssumption
    <2>3. lag'[q] = lag[q] + k /\ lag[q] \in Nat
      BY <2>1, <1>2, <1>3, ThreadFacts, IndexFacts DEF Window, LocalOK
    <2>4. Sub(consHead', lhead'[q]) = lag'[q]
      BY <1>4 DEF ConsSide, SideInv, Window
    <2>5. Sub(consHead', consHead') = 0
      BY <1>1, <1>2, AddType, SubSelf DEF SharedOK
    <2> QED BY <2>2, <2>3, <2>4, <2>5, <1>1
  <1>6. IndexOrder'
    <2>1. /\ Sub(Add(consHead, k), consTail) = Sub(consHead, consTail) + k
          /\ Sub(prodTail, Add(consHead, k)) = Sub(prodTail, consHead) - k
      BY <1>1, <1>2, SubAdd, SubShift DEF SharedOK
    <2> QED BY <2>1, <1>1, <1>2, IndexTypes DEF IndexOrder
  <1> QED BY <1>4, <1>5, <1>6

\* The publish of a consumer (cons.tail moves); the producers only gain room.
LEMMA ConsPublish ==
    ASSUME RingInv, NEW c \in Consumers, DeqPublish(c)
    PROVE  /\ ConsSide' /\ ConsRoom' /\ IndexOrder'
           /\ Sub(prodHead, consTail') <= Sub(prodHead, consTail)
  <1>1. TypeOK /\ LocalOK /\ SharedOK /\ c \in Threads /\ IndexOrder
    BY ThreadFacts DEF RingInv, TypeOK
  <1>2. SideInv(Consumers, ScDequeue, consHead, consTail, pc, n, lhead, lag)
    BY DEF RingInv, ConsSide
  <1>3. pc[c] \in Reservings /\ lhead[c] = consTail
    BY <1>2 DEF DeqPublish, Reservings, SideInv
  <1>4. consTail' = Add(consTail, n[c]) /\ UNCHANGED <<prodHead, prodTail, consHead>>
    BY <1>3 DEF DeqPublish
  <1>5. /\ pc'[c] = "idle"
        /\ \A t \in Consumers \ {c} : SameLocal(t) /\ lag'[t] = lag[t]
    BY <1>1, ReturnFrame, ThreadFacts DEF DeqPublish
  <1>6. \A t \in Consumers : n[t] \in Index /\ lhead[t] \in Index
    BY <1>1, ThreadFacts DEF LocalOK
  <1>7. \A t, u \in Consumers : ScDequeue => t = u
    BY ThreadAssumption
  <1>8. /\ SideInv(Consumers, ScDequeue, consHead, Add(consTail, n[c]), pc', n', lhead', lag')
        /\ n[c] <= Sub(consHead, consTail)
    <2>1. consHead \in Index /\ consTail \in Index  BY <1>1 DEF SharedOK
    <2>2. \A t \in Consumers \ {c} : pc'[t] = pc[t] /\ lhead'[t] = lhead[t]
                                     /\ lag'[t] = lag[t] /\ n'[t] = n[t]
      BY <1>5 DEF SameLocal
    <2> QED BY <1>2, <1>3, <1>5, <1>6, <1>7, <2>1, <2>2, SidePublish
  <1>9. Sub(consHead, consTail') = Sub(consHead, consTail) - n[c] /\ n[c] \in Nat
    BY <1>1, <1>4, <1>6, <1>8, SubShift, IndexFacts DEF SharedOK
  <1>10. ConsSide'
    BY <1>8, <1>4 DEF ConsSide
  <1>11. ConsRoom'
    BY <1>4, <1>5 DEF RingInv, ConsRoom, SameLocal, entries
  <1>12. IndexOrder'
    BY <1>1, <1>4, <1>9, IndexTypes DEF IndexOrder
  <1>13. Sub(prodHead, consTail') <= Sub(prodHead, consTail)
    <2>1. n[c] <= Sub(prodHead, consTail)
      BY <1>1, <1>8, <1>9, UsedBound, IndexTypes
    <2>2. Sub(prodHead, Add(consTail, n[c])) = Sub(prodHead, consTail) - n[c]
      BY <2>1, <1>1, <1>6, SubShift DEF SharedOK
    <2> QED BY <2>2, <1>1, <1>4, <1>9, IndexTypes
  <1> QED BY <1>10, <1>11, <1>12, <1>13

\* Every dequeue step keeps the consumer side, the room and the index order.
LEMMA ConsOwn ==
    ASSUME CasReportsSuccess, RingInv, NEW c \in Consumers,
           DeqCall(c) \/ DeqStep(c)
    PROVE  /\ ConsSide' /\ ConsRoom' /\ IndexOrder'
           /\ Sub(prodHead, consTail') <= Sub(prodHead, consTail)
  <1>0. LocalOK /\ c \in Threads /\ TypeOK /\ ConsSide
    BY ThreadFacts DEF RingInv, TypeOK
  <1>f. \A u \in Consumers \ {c} : SameLocal(u)
    BY <1>0, ConsFrame, ThreadFacts
  <1>s. consTail' = consTail => Sub(prodHead, consTail') <= Sub(prodHead, consTail)
    BY <1>0, IndexTypes
  <1> USE DEF Window, Reservings
  <1>1. CASE DeqCall(c)
    <2> PICK k \in BurstSizes, b \in Behaviors : ring_dequeue(c, k, b)
      BY <1>1 DEF DeqCall
    <2>1. pc[c] = "idle" /\ pc'[c] \in {"idle", "readHead"} /\ UNCHANGED shared
          /\ \A u \in Consumers \ {c} : lag'[u] = lag[u]
      <3>1. CASE Return(c)  BY <1>0, <1>1, <3>1, ReturnFrame, ThreadFacts DEF ring_dequeue
      <3>2. CASE ~Return(c)  BY <1>0, <1>1, <3>2 DEF ring_dequeue, LocalOK
      <3> QED BY <3>1, <3>2
    <2> QED BY <2>1, <1>f, <1>s, ConsQuiet DEF shared
  <1>2. CASE DeqReadHead(c)
    <2>1. /\ pc[c] = "readHead" /\ pc'[c] = "readTail" /\ lhead'[c] = consHead /\ lag'[c] = 0
          /\ \A u \in Consumers \ {c} : lag'[u] = lag[u]
          /\ UNCHANGED shared
      BY <1>0, <1>2 DEF DeqReadHead, LocalOK
    <2>2. SideInv(Consumers, ScDequeue, consHead, consTail, pc', n', lhead', lag')
      BY <2>1, <1>f, <1>0, SideReadHead DEF ConsSide, SameLocal, TypeOK, SharedOK
    <2>3. ConsRoom'
      BY <2>1, <1>f DEF RingInv, ConsRoom, SameLocal, entries, shared
    <2> QED BY <2>1, <2>2, <2>3, <1>s DEF ConsSide, RingInv, IndexOrder, shared
  <1>3. CASE DeqReadTail(c)
    <2>1. /\ pc[c] = "readTail" /\ pc'[c] = "reserve" /\ ltail'[c] = prodTail
          /\ UNCHANGED <<shared, lhead, lag>>
      BY <1>0, <1>3 DEF DeqReadTail, LocalOK
    <2>2. /\ pc[c] \in Window /\ lhead'[c] = lhead[c] /\ lag'[c] = lag[c]
          /\ pc'[c] \notin Reservings /\ pc[c] \notin Reservings
          /\ UNCHANGED <<prodHead, prodTail, consHead, consTail>>
          /\ \A u \in Consumers \ {c} : SameLocal(u) /\ lag'[u] = lag[u]
      BY <2>1, <1>f DEF shared
    <2> QED BY <2>1, <2>2, <1>s, ConsQuiet
  <1>4. CASE DeqNoEntries(c)
    <2>1. /\ pc[c] = "reserve" /\ pc'[c] = "idle" /\ UNCHANGED shared
          /\ \A u \in Consumers \ {c} : lag'[u] = lag[u]
      BY <1>0, <1>4, ReturnFrame, ThreadFacts DEF DeqNoEntries
    <2> QED BY <2>1, <1>f, <1>s, ConsQuiet DEF shared
  <1>5. CASE DeqReserveSC(c)
    <2>1. lhead[c] = consHead
      BY <1>0, <1>5 DEF DeqReserveSC, ConsSide, SideInv
    <2> QED BY <1>5, <2>1, <1>s, ConsReserve DEF DeqReserveSC
  <1>6. CASE DeqReserveMC(c)
    <2>1. CASE lhead[c] = consHead
      BY <1>6, <2>1, <1>s, ConsReserve DEF DeqReserveMC, LoopEnds, CmpxchgStores, CasReportsSuccess
    <2>2. CASE lhead[c] # consHead
      <3>1. /\ pc[c] = "reserve" /\ pc'[c] = "readHead"
            /\ UNCHANGED <<prodHead, prodTail, consHead, consTail, lag>>
        BY <1>0, <1>6, <2>2 DEF DeqReserveMC, LoopEnds, CmpxchgStores, CasReportsSuccess, LocalOK
      <3> QED BY <3>1, <1>f, <1>s, ConsQuiet
    <2> QED BY <2>1, <2>2
  <1>7. CASE DeqCopy(c)
    <2>1. UNCHANGED <<prodHead, prodTail, consHead, consTail, pc, lhead, n, lag>> /\ pc[c] = "copy"
      BY <1>7 DEF DeqCopy, shared
    <2> QED BY <2>1, <1>f, <1>s, ConsQuiet
  <1>8. CASE DeqPublish(c)
    BY <1>8, <1>s, ConsPublish
  <1> QED
    BY <1>1, <1>2, <1>3, <1>4, <1>5, <1>6, <1>7, <1>8 DEF DeqStep

-----------------------------------------------------------------------------
\* The consumers' invariants under a producer's step.
LEMMA ConsOther ==
    ASSUME RingInv, consHead' = consHead, consTail' = consTail,
           \A u \in Consumers : SameLocal(u) /\ lag'[u] = lag[u],
           Sub(prodTail, consHead) <= Sub(prodTail', consHead), TypeOK'
    PROVE  ConsSide' /\ ConsRoom'
  <1>1. ConsSide'
    BY SideQuiet DEF RingInv, ConsSide, SameLocal
  <1>2. ConsRoom'
    <2> SUFFICES ASSUME NEW q \in Consumers, pc'[q] = "reserve", lhead'[q] = consHead
                 PROVE  (entries(q))' <= Sub(prodTail', consHead)
      BY DEF ConsRoom
    <2>1. entries(q) <= Sub(prodTail, consHead) /\ (entries(q))' = entries(q)
      BY DEF RingInv, ConsRoom, SameLocal, entries
    <2>2. entries(q) \in Nat /\ Sub(prodTail, consHead) \in Nat /\ Sub(prodTail', consHead) \in Nat
      BY ThreadFacts, SubType, IndexFacts DEF RingInv, TypeOK, SharedOK, LocalOK, entries
    <2> QED BY <2>1, <2>2
  <1> QED BY <1>1, <1>2

\* The producers' invariants under a consumer's step.
LEMMA ProdOther ==
    ASSUME RingInv, prodHead' = prodHead, prodTail' = prodTail,
           \A u \in Producers : SameLocal(u) /\ lag'[u] = lag[u],
           Sub(prodHead, consTail') <= Sub(prodHead, consTail), TypeOK'
    PROVE  ProdSide' /\ ProdRoom'
  <1>1. ProdSide'
    BY SideQuiet DEF RingInv, ProdSide, SameLocal
  <1>2. ProdRoom'
    <2> SUFFICES ASSUME NEW q \in Producers, pc'[q] = "reserve", lhead'[q] = prodHead
                 PROVE  (free_entries(q))' <= mask - Sub(prodHead, consTail')
      BY DEF ProdRoom
    <2>1. free_entries(q) <= mask - Sub(prodHead, consTail) /\ (free_entries(q))' = free_entries(q)
      BY DEF RingInv, ProdRoom, SameLocal, free_entries
    <2>2. /\ free_entries(q) \in Nat /\ mask \in Nat
          /\ Sub(prodHead, consTail) \in Nat /\ Sub(prodHead, consTail') \in Nat
      BY ThreadFacts, AddType, SubType, IndexFacts
         DEF RingInv, TypeOK, SharedOK, LocalOK, free_entries
    <2> QED BY <2>1, <2>2
  <1> QED BY <1>1, <1>2

\* The ring ring_init leaves satisfies the invariant.
LEMMA InitInv == Init => RingInv
  <1> SUFFICES ASSUME Init PROVE RingInv  OBVIOUS
  <1>1. TypeOK
    BY IndexFacts, SizeFacts DEF Init, TypeOK, SharedOK, LocalOK
  <1>2. IndexOrder
    BY SubSelf, IndexFacts DEF Init, IndexOrder
  <1>3. CallInv
    BY ThreadFacts DEF Init, CallInv, InWindow, Reserving, Window, Reservings
  <1>4. ProdSide /\ ConsSide
    BY ThreadFacts DEF Init, ProdSide, ConsSide, SideInv, Window, Reservings
  <1>5. ProdRoom /\ ConsRoom
    BY ThreadFacts DEF Init, ProdRoom, ConsRoom
  <1> QED BY <1>1, <1>2, <1>3, <1>4, <1>5 DEF RingInv

\* Every step of every thread keeps the invariant.
LEMMA NextInv == ASSUME CasReportsSuccess, RingInv, [Next]_vars PROVE RingInv'
  <1>0. TypeOK /\ CallInv /\ LocalOK  BY DEF RingInv, TypeOK
  <1>1. ASSUME NEW p \in Producers, EnqCall(p) \/ EnqStep(p) PROVE RingInv'
    <2>1. TypeOK'  BY <1>1, <1>0, ProdTypes
    <2>2. CallInv'  BY <1>1, <1>0, ProdCalls
    <2>3. /\ ProdSide' /\ ProdRoom' /\ IndexOrder'
          /\ Sub(prodTail, consHead) <= Sub(prodTail', consHead)
      BY <1>1, ProdOwn
    <2>4. /\ consHead' = consHead /\ consTail' = consTail
          /\ \A u \in Consumers : SameLocal(u) /\ lag'[u] = lag[u]
      BY <1>1, <1>0, ProdFrame, ThreadFacts
    <2>5. ConsSide' /\ ConsRoom'  BY <2>1, <2>3, <2>4, ConsOther
    <2> QED BY <2>1, <2>2, <2>3, <2>5 DEF RingInv
  <1>2. ASSUME NEW c \in Consumers, DeqCall(c) \/ DeqStep(c) PROVE RingInv'
    <2>1. TypeOK'  BY <1>2, <1>0, ConsTypes
    <2>2. CallInv'  BY <1>2, <1>0, ConsCalls
    <2>3. /\ ConsSide' /\ ConsRoom' /\ IndexOrder'
          /\ Sub(prodHead, consTail') <= Sub(prodHead, consTail)
      BY <1>2, ConsOwn
    <2>4. /\ prodHead' = prodHead /\ prodTail' = prodTail
          /\ \A u \in Producers : SameLocal(u) /\ lag'[u] = lag[u]
      BY <1>2, <1>0, ConsFrame, ThreadFacts
    <2>5. ProdSide' /\ ProdRoom'  BY <2>1, <2>3, <2>4, ProdOther
    <2> QED BY <2>1, <2>2, <2>3, <2>5 DEF RingInv
  <1>3. ASSUME UNCHANGED <<prodHead, prodTail, consHead, consTail, ring, local>>,
               watermark' \in Nat
        PROVE  RingInv'
    <2>1. TypeOK'  BY <1>0, <1>3 DEF TypeOK, SharedOK, LocalOK, local
    <2>2. CallInv'  BY <1>0, <1>3 DEF CallInv, InWindow, Reserving, local
    <2>3. IndexOrder' /\ ProdSide' /\ ConsSide'
      BY <1>3 DEF RingInv, IndexOrder, ProdSide, ConsSide, local
    <2>4. ProdRoom' /\ ConsRoom'
      BY <1>3 DEF RingInv, ProdRoom, ConsRoom, free_entries, entries, local
    <2> QED BY <2>1, <2>2, <2>3, <2>4 DEF RingInv
  <1>4. ASSUME NEW w \in WaterMarks, ring_set_water_mark(w) PROVE RingInv'
    <2>1. watermark' \in Nat
      BY <1>4, CallAssumption, SizeFacts DEF ring_set_water_mark
    <2> QED BY <1>4, <2>1, <1>3 DEF ring_set_water_mark
  <1>5. ASSUME UNCHANGED vars PROVE RingInv'
    BY <1>5, <1>0, <1>3 DEF vars, local, TypeOK, SharedOK
  <1> QED BY <1>1, <1>2, <1>4, <1>5 DEF Next, Call, EnqCall, DeqCall

\* The inductive invariant of the ring holds in every reachable state, for
\* every size, every index range, any number of threads and any bursts, provided
\* the compare-and-set reports whether it stored (or is not used).
THEOREM RingInvariant == CasReportsSuccess => (Spec => []RingInv)
  <1> SUFFICES ASSUME CasReportsSuccess PROVE Spec => []RingInv
    OBVIOUS
  <1>1. RingInv /\ [Next]_vars => RingInv'
    BY NextInv
  <1> QED BY <1>1, InitInv, PTL DEF Spec

\* No step of an enqueue or a dequeue (ring.h) computes an index out of
\* the uint32_t range, or accesses a slot or a table entry out of bounds.
THEOREM TypeCorrect == CasReportsSuccess => (Spec => []TypeOK)
  <1>1. RingInv => TypeOK
    BY DEF RingInv
  <1> QED BY <1>1, RingInvariant, PTL

\* cons.tail, cons.head, prod.tail and prod.head keep their order around the
\* index circle with at most mask entries between the ends: no enqueue
\* overwrites an entry that is not consumed and no dequeue reads past what is
\* published, however stale the indexes it computed with.
THEOREM IndexOrderHolds == CasReportsSuccess => (Spec => []IndexOrder)
  <1>1. RingInv => IndexOrder
    BY DEF RingInv
  <1> QED BY <1>1, RingInvariant, PTL

-----------------------------------------------------------------------------
\* No multiple of S lies strictly between 0 and S.
LEMMA MulGap ==
    ASSUME NEW S \in Nat, S > 0, NEW k \in Int
    PROVE  ~(0 < S * k /\ S * k < S)
  <1>1. CASE k >= 1
    <2>1. PICK m \in Nat : k = m + 1
      <3>1. k - 1 \in Nat  BY <1>1
      <3> QED BY <3>1
    <2>2. S * k = S * m + S  BY <2>1
    <2>3. S * m \in Nat  BY <2>1
    <2> QED BY <2>2, <2>3
  <1>2. CASE k <= 0
    <2>1. -k \in Nat  BY <1>2
    <2>2. S * (-k) \in Nat  BY <2>1
    <2>3. S * (-k) = -(S * k)  OBVIOUS
    <2> QED BY <2>2, <2>3
  <1> QED BY <1>1, <1>2

\* Division with remainder.
LEMMA DivMod ==
    ASSUME NEW S \in Nat, S > 0, NEW x \in Nat
    PROVE  \E q \in Nat : x = S * q + (x % S) /\ x % S \in 0..S - 1
  <1>1. x \div S \in Nat /\ x % S \in 0..S - 1 /\ x = S * (x \div S) + (x % S)
    OBVIOUS
  <1> QED BY <1>1

\* Equal remainders: the difference is a multiple.
LEMMA ModDiff ==
    ASSUME NEW S \in Nat, S > 0, NEW x \in Nat, NEW y \in Nat, x % S = y % S
    PROVE  \E q \in Int : y - x = S * q
  <1>1. PICK a \in Nat : x = S * a + (x % S) /\ x % S \in 0..S - 1  BY DivMod
  <1>2. PICK b \in Nat : y = S * b + (y % S) /\ y % S \in 0..S - 1  BY DivMod
  <1>3. y - x = S * b - S * a /\ b - a \in Int  BY <1>1, <1>2
  <1>4. S * b - S * a = S * (b - a)  OBVIOUS
  <1> QED BY <1>3, <1>4

\* Remainder 0: a multiple.
LEMMA ModZero ==
    ASSUME NEW S \in Nat, S > 0, NEW x \in Nat, x % S = 0
    PROVE  \E q \in Nat : x = S * q
  <1>1. PICK q \in Nat : x = S * q + (x % S)  BY DivMod
  <1>2. S * q \in Nat  OBVIOUS
  <1> QED BY <1>1, <1>2

\* The index range is a whole number of turns of the ring.
LEMMA WholeTurns == \E q \in Nat : IndexMod = Size * q
  <1>1. IndexMod \in Nat /\ Size \in Nat /\ Size > 0  BY SizeFacts
  <1>2. IndexMod % Size = 0  BY SizeAssumption, Zenon
  <1> QED BY <1>1, <1>2, ModZero, Zenon

\* Two indexes less than a turn of the ring above a third, at different
\* distances, have different slots, also when one has wrapped.
LEMMA SlotsApart ==
    ASSUME NEW i \in Index, NEW j \in Index, NEW base \in Index,
           Sub(i, base) < Sub(j, base), Sub(j, base) <= mask
    PROVE  Slot(i) # Slot(j)
  <1> SUFFICES ASSUME Slot(i) = Slot(j) PROVE FALSE
    OBVIOUS
  <1>1. Size \in Nat /\ Size > 0 /\ i \in Nat /\ j \in Nat
    BY SizeFacts, IndexFacts
  <1>2. PICK q \in Int : j - i = Size * q
    BY <1>1, ModDiff DEF Slot
  <1>3. PICK m \in Nat : IndexMod = Size * m
    BY WholeTurns
  <1>4. 0 < Sub(j, base) - Sub(i, base) /\ Sub(j, base) - Sub(i, base) < Size
    <2>1. Sub(i, base) \in Nat /\ Sub(j, base) \in Nat  BY SubType, IndexFacts
    <2> QED BY <2>1, <1>1 DEF mask
  <1>5. \/ Sub(j, base) - Sub(i, base) = j - i
        \/ Sub(j, base) - Sub(i, base) = j - i + IndexMod
        \/ Sub(j, base) - Sub(i, base) = j - i - IndexMod
    BY <1>1, SizeFacts, IndexFacts DEF Sub
  <1>6. /\ Size * q + IndexMod = Size * (q + m)
        /\ Size * q - IndexMod = Size * (q - m)
    BY <1>1, <1>3
  <1>7. q + m \in Int /\ q - m \in Int  OBVIOUS
  <1> QED BY <1>1, <1>2, <1>4, <1>5, <1>6, <1>7, MulGap

\* Where the entries of a consumer lie, counted from cons.tail.
LEMMA ConsReserved ==
    ASSUME RingInv, NEW c \in Consumers, Reserving(c), NEW a \in 0..n[c] - 1
    PROVE  /\ Add(lhead[c], a) \in Index
           /\ Sub(Add(lhead[c], a), consTail) = Sub(lhead[c], consTail) + a
           /\ Sub(lhead[c], consTail) \in Nat /\ a \in Nat
           /\ Sub(lhead[c], consTail) + n[c] <= Sub(consHead, consTail)
  <1>1. TypeOK /\ lhead[c] \in Index /\ n[c] \in Index /\ n[c] \in Nat /\ consTail \in Index
    BY ThreadFacts, IndexFacts DEF RingInv, TypeOK, SharedOK, LocalOK
  <1>2. Sub(lhead[c], consTail) + n[c] <= Sub(consHead, consTail)
    BY DEF RingInv, ConsSide, SideInv, Reserving
  <1>3. a \in Index /\ a \in Nat /\ a < n[c]
    BY <1>1, IndexFacts, SizeFacts
  <1>4. Sub(lhead[c], consTail) \in Nat /\ Sub(consHead, consTail) < IndexMod
        /\ Sub(consHead, consTail) \in Nat
    BY <1>1, SubType, IndexFacts DEF TypeOK, SharedOK
  <1>5. Sub(lhead[c], consTail) + a < IndexMod
    BY <1>1, <1>2, <1>3, <1>4, SizeFacts
  <1> QED BY <1>1, <1>2, <1>3, <1>4, <1>5, SubAdd, AddType, ZenonT(40)

\* Where the entries of a producer lie, counted from cons.tail: above every
\* published entry and inside the ring.
LEMMA ProdReserved ==
    ASSUME RingInv, NEW p \in Producers, Reserving(p), NEW a \in 0..n[p] - 1
    PROVE  /\ Add(lhead[p], a) \in Index
           /\ Sub(Add(lhead[p], a), consTail) =
                Sub(prodTail, consTail) + Sub(lhead[p], prodTail) + a
           /\ Sub(lhead[p], prodTail) \in Nat /\ Sub(prodTail, consTail) \in Nat /\ a \in Nat
           /\ Sub(Add(lhead[p], a), consTail) <= mask
           /\ Sub(prodTail, consTail) >= Sub(consHead, consTail)
  <1>0. TypeOK /\ IndexOrder  BY DEF RingInv
  <1>1. lhead[p] \in Index /\ n[p] \in Nat /\ SharedOK
    BY <1>0, ThreadFacts, IndexFacts DEF TypeOK, LocalOK
  <1>2. Sub(lhead[p], prodTail) + n[p] <= Sub(prodHead, prodTail)
    BY DEF RingInv, ProdSide, SideInv, Reserving
  <1>3. a \in Index /\ a \in Nat /\ a < n[p]
    <2>1. n[p] \in Index  BY <1>0, ThreadFacts DEF TypeOK, LocalOK
    <2> QED BY <1>1, <2>1, IndexFacts, SizeFacts
  <1>4. Sub(lhead[p], prodTail) \in Nat
    BY <1>1, SubType, IndexFacts DEF SharedOK
  <1>5. Sub(prodTail, consTail) = Sub(prodTail, consHead) + Sub(consHead, consTail)
    BY <1>0, <1>1, IndexTypes, SubSum DEF IndexOrder, SharedOK
  <1>6. /\ Sub(prodTail, consTail) \in Nat
        /\ Sub(prodTail, consTail) >= Sub(consHead, consTail)
        /\ Sub(prodTail, consTail) + Sub(prodHead, prodTail) <= mask
    BY <1>0, <1>5, IndexTypes DEF IndexOrder
  <1>7. Sub(prodTail, consTail) + Sub(lhead[p], prodTail) + a <= mask
    BY <1>0, <1>1, <1>2, <1>3, <1>4, <1>6, IndexTypes
  <1>i. prodTail \in Index /\ consTail \in Index  BY <1>1 DEF SharedOK
  <1>m. mask \in Nat /\ mask < IndexMod /\ IndexMod \in Nat  BY <1>0, IndexTypes
  <1>8. Sub(lhead[p], consTail) = Sub(lhead[p], prodTail) + Sub(prodTail, consTail)
    <2>1. Sub(lhead[p], prodTail) + Sub(prodTail, consTail) < IndexMod
      BY <1>3, <1>4, <1>6, <1>7, <1>m
    <2> QED BY <2>1, <1>1, <1>i, SubSum
  <1>9. Sub(Add(lhead[p], a), consTail) = Sub(lhead[p], consTail) + a
    <2>1. Sub(lhead[p], consTail) + a < IndexMod
      BY <1>3, <1>4, <1>6, <1>7, <1>8, <1>m
    <2> QED BY <2>1, <1>1, <1>3, <1>i, SubAdd
  <1>10. Add(lhead[p], a) \in Index  BY <1>1, <1>3, AddType
  <1>11. Sub(Add(lhead[p], a), consTail) =
           Sub(prodTail, consTail) + Sub(lhead[p], prodTail) + a
    BY <1>3, <1>4, <1>6, <1>8, <1>9
  <1> QED BY <1>3, <1>4, <1>6, <1>7, <1>10, <1>11

\* Two threads with reservations never have a slot in common.
LEMMA ReservedApart ==
    ASSUME RingInv, NEW t \in Threads, NEW u \in Threads, t # u,
           Reserving(t), Reserving(u),
           NEW a \in 0..n[t] - 1, NEW b \in 0..n[u] - 1
    PROVE  Slot(Add(lhead[t], a)) # Slot(Add(lhead[u], b))
  <1> DEFINE i == Add(lhead[t], a)
             j == Add(lhead[u], b)
  <1>0. /\ TypeOK /\ IndexOrder /\ consTail \in Index
        /\ n[t] \in Nat /\ n[u] \in Nat /\ a < n[t] /\ b < n[u]
    <2>1. TypeOK /\ IndexOrder /\ consTail \in Index
      BY DEF RingInv, TypeOK, SharedOK
    <2>2. n[t] \in Nat /\ n[u] \in Nat
      BY <2>1, IndexFacts DEF TypeOK, LocalOK
    <2> QED BY <2>1, <2>2
  <1> SUFFICES /\ i \in Index /\ j \in Index
               /\ Sub(i, consTail) # Sub(j, consTail)
               /\ Sub(i, consTail) <= mask /\ Sub(j, consTail) <= mask
    <2>1. Sub(i, consTail) \in Nat /\ Sub(j, consTail) \in Nat
      BY <1>0, SubType, IndexFacts
    <2>2. Sub(i, consTail) < Sub(j, consTail) \/ Sub(j, consTail) < Sub(i, consTail)
      BY <2>1
    <2>3. i \in Index /\ j \in Index  OBVIOUS
    <2> HIDE DEF i, j
    <2>4. Slot(i) # Slot(j)
      BY <1>0, <2>2, <2>3, SlotsApart
    <2> QED BY <2>4 DEF i, j
  <1>1. CASE t \in Consumers /\ u \in Consumers
    <2>1. \/ Sub(lhead[t], consTail) + n[t] <= Sub(lhead[u], consTail)
          \/ Sub(lhead[u], consTail) + n[u] <= Sub(lhead[t], consTail)
      BY <1>1 DEF RingInv, ConsSide, SideInv, Reserving
    <2> QED BY <1>0, <1>1, <2>1, ConsReserved, IndexTypes DEF IndexOrder
  <1>2. CASE t \in Producers /\ u \in Producers
    <2>1. \/ Sub(lhead[t], prodTail) + n[t] <= Sub(lhead[u], prodTail)
          \/ Sub(lhead[u], prodTail) + n[u] <= Sub(lhead[t], prodTail)
      BY <1>2 DEF RingInv, ProdSide, SideInv, Reserving
    <2> QED BY <1>0, <1>2, <2>1, ProdReserved
  <1>3. CASE t \in Producers /\ u \in Consumers
    BY <1>0, <1>3, ProdReserved, ConsReserved, IndexTypes DEF IndexOrder
  <1>4. CASE t \in Consumers /\ u \in Producers
    BY <1>0, <1>4, ProdReserved, ConsReserved, IndexTypes DEF IndexOrder
  <1> QED BY <1>1, <1>2, <1>3, <1>4 DEF Threads

\* No two threads inside an enqueue or a dequeue ever own the same slot: a
\* producer never writes a slot another producer is writing or a consumer is
\* still reading ("multi-producers safe"), for every size and any number of
\* threads.
THEOREM SlotsExclusive == CasReportsSuccess => (Spec => []ExclusiveSlots)
  <1>1. RingInv => ExclusiveSlots
    BY ReservedApart DEF ExclusiveSlots, Reserved
  <1> QED BY <1>1, RingInvariant, PTL

-----------------------------------------------------------------------------
(***************************************************************************)
(* The ring implements BoundedFifo.                                        *)
(*                                                                         *)
(* The argument.  A publish appends to the queue the slots between the old *)
(* and the new prod.tail.  They hold the first n objects of the producer's *)
(* table, because nobody else wrote them since they were reserved          *)
(* (TableInv with ReservedApart).  A reservation by a consumer takes the   *)
(* slots between the old and the new cons.head out of the queue; they are  *)
(* copied out later, and no producer writes them before cons.tail has      *)
(* passed them.  Every other step leaves the queue, the pending tables and *)
(* what the consumers took as they were.                                   *)
(***************************************************************************)

\* What is in a slot: an object, or nothing was ever written.
Content == Objs \cup {NoObj}

\* What a producer has copied is in its slots, and it publishes only what it
\* has copied; an idle producer has no table.
ProdTable(p) ==
    /\ pc[p] = "idle" => table[p] = << >>
    /\ pc[p] = "publish" => copied[p] = n[p]
    /\ pc[p] \in Reservings =>
          \A i \in 0..copied[p] - 1 : ring[Slot(Add(lhead[p], i))] = table[p][i + 1]

\* A consumer has in its table what it copied since its reservation.
ConsTable(c) ==
    /\ pc[c] # "publish"
    /\ pc[c] # "copy" => table[c] = << >>
    /\ pc[c] = "copy" => Len(table[c]) = copied[c]

TableInv ==
    /\ \A p \in Producers : ProdTable(p)
    /\ \A c \in Consumers : ConsTable(c)

FifoInv == RingInv /\ TableInv

-----------------------------------------------------------------------------
(* The steps of the queue, in terms of the ring.                           *)

FifoStep == [Fifo!Next]_(Fifo!fifoVars)

SameTaken == \A c \in Consumers : TakenBy(c)' = TakenBy(c)
SamePending == \A p \in Producers : table'[p] = table[p]

\* A step that changes nothing the queue sees is a stutter.
LEMMA Stutters ==
    ASSUME Contents' = Contents, SameTaken, SamePending
    PROVE  FifoStep
  <1>1. [p \in Producers |-> table[p]]' = [p \in Producers |-> table[p]]
    BY DEF SamePending
  <1>2. [c \in Consumers |-> TakenBy(c)]' = [c \in Consumers |-> TakenBy(c)]
    BY DEF SameTaken
  <1> QED BY <1>1, <1>2 DEF FifoStep, Fifo!fifoVars

\* A caller starts an enqueue.
LEMMA Offers ==
    ASSUME NEW p \in Producers, NEW k \in BurstSizes \ {0}, NEW objs \in [1..k -> Objs],
           table[p] = << >>, table'[p] = objs,
           \A q \in Producers \ {p} : table'[q] = table[q],
           Contents' = Contents, SameTaken
    PROVE  FifoStep
  <1>1. [q \in Producers |-> table[q]]' = [[q \in Producers |-> table[q]] EXCEPT ![p] = objs]
    OBVIOUS
  <1>2. [c \in Consumers |-> TakenBy(c)]' = [c \in Consumers |-> TakenBy(c)]
    BY DEF SameTaken
  <1>3. Fifo!Offer(p, objs)
    BY <1>1, <1>2 DEF Fifo!Offer
  <1> QED BY <1>3 DEF FifoStep, Fifo!Next

\* The first k objects of a producer's table enter the queue, the others do
\* not.
LEMMA Puts ==
    ASSUME NEW p \in Producers, NEW k \in 0..Len(table[p]),
           Len(Contents) + k <= mask,
           Contents' = Contents \o SubSeq(table[p], 1, k),
           table'[p] = << >>, \A q \in Producers \ {p} : table'[q] = table[q],
           SameTaken
    PROVE  FifoStep
  <1>1. [q \in Producers |-> table[q]]' = [[q \in Producers |-> table[q]] EXCEPT ![p] = << >>]
    OBVIOUS
  <1>2. [c \in Consumers |-> TakenBy(c)]' = [c \in Consumers |-> TakenBy(c)]
    BY DEF SameTaken
  <1>3. Fifo!Put(p, k)
    BY <1>1, <1>2 DEF Fifo!Put
  <1> QED BY <1>3 DEF FifoStep, Fifo!Next

\* A consumer takes the k oldest objects of the queue.
LEMMA Gets ==
    ASSUME NEW c \in Consumers, NEW k \in 1..Len(Contents),
           TakenBy(c) = << >>, TakenBy(c)' = SubSeq(Contents, 1, k),
           \A d \in Consumers \ {c} : TakenBy(d)' = TakenBy(d),
           Contents' = SubSeq(Contents, k + 1, Len(Contents)),
           SamePending
    PROVE  FifoStep
  <1>1. [d \in Consumers |-> TakenBy(d)]' =
          [[d \in Consumers |-> TakenBy(d)] EXCEPT ![c] = SubSeq(Contents, 1, k)]
    OBVIOUS
  <1>2. [p \in Producers |-> table[p]]' = [p \in Producers |-> table[p]]
    BY DEF SamePending
  <1>3. Fifo!Get(c, k)
    BY <1>1, <1>2 DEF Fifo!Get
  <1> QED BY <1>3 DEF FifoStep, Fifo!Next

\* A consumer returns to its caller with what it took.
LEMMA HandsOver ==
    ASSUME NEW c \in Consumers, TakenBy(c) # << >>, TakenBy(c)' = << >>,
           \A d \in Consumers \ {c} : TakenBy(d)' = TakenBy(d),
           Contents' = Contents, SamePending
    PROVE  FifoStep
  <1>1. [d \in Consumers |-> TakenBy(d)]' =
          [[d \in Consumers |-> TakenBy(d)] EXCEPT ![c] = << >>]
    OBVIOUS
  <1>2. [p \in Producers |-> table[p]]' = [p \in Producers |-> table[p]]
    BY DEF SamePending
  <1>3. Fifo!HandOver(c)
    BY <1>1, <1>2 DEF Fifo!HandOver
  <1> QED BY <1>3 DEF FifoStep, Fifo!Next

-----------------------------------------------------------------------------
(* The queue and what the consumers took, as sequences.                    *)

\* The contents are the published entries that no consumer has reserved.
LEMMA ContentsFacts ==
    ASSUME TypeOK
    PROVE  /\ Contents \in Seq(Content)
           /\ Len(Contents) = Sub(prodTail, consHead)
           /\ Sub(prodTail, consHead) \in Nat
           /\ \A i \in 1..Sub(prodTail, consHead) :
                 /\ Contents[i] = ring[Slot(Add(consHead, i - 1))]
                 /\ i - 1 \in Index
  <1>1. Sub(prodTail, consHead) \in Index /\ Sub(prodTail, consHead) \in Nat
    BY SubType, IndexFacts DEF TypeOK, SharedOK
  <1>2. ASSUME NEW i \in 1..Sub(prodTail, consHead)
        PROVE  ring[Slot(Add(consHead, i - 1))] \in Content /\ i - 1 \in Index
    <2>1. i - 1 \in Index  BY <1>1, BelowIndex
    <2>2. Slot(Add(consHead, i - 1)) \in 0..mask
      BY <2>1, AddType, SlotType DEF TypeOK, SharedOK
    <2> QED BY <2>1, <2>2 DEF TypeOK, SharedOK, Content
  <1> DEFINE k == Sub(prodTail, consHead)
             e(i) == ring[Slot(Add(consHead, i - 1))]
  <1>3. Contents = [i \in 1..k |-> e(i)]  BY DEF Contents
  <1>4. k \in Nat /\ \A i \in 1..k : e(i) \in Content  BY <1>1, <1>2
  <1> HIDE DEF k, e
  <1>5. Contents \in Seq(Content) /\ Len(Contents) = k /\ \A i \in 1..k : Contents[i] = e(i)
    BY <1>3, <1>4
  <1> QED BY <1>1, <1>2, <1>5 DEF k, e

\* The contents stay when neither end moves and no slot between them is
\* written.
LEMMA ContentsSame ==
    ASSUME TypeOK, prodTail' = prodTail, consHead' = consHead,
           \A i \in 1..Sub(prodTail, consHead) :
              ring'[Slot(Add(consHead, i - 1))] = ring[Slot(Add(consHead, i - 1))]
    PROVE  Contents' = Contents
  BY DEF Contents

\* What a consumer took stays when it does not move and none of its slots is
\* written.
LEMMA TakenSame ==
    ASSUME NEW c, SameLocal(c),
           pc[c] = "copy" => \A i \in 1..n[c] :
              ring'[Slot(Add(lhead[c], i - 1))] = ring[Slot(Add(lhead[c], i - 1))]
    PROVE  TakenBy(c)' = TakenBy(c)
  <1>1. pc'[c] = pc[c] /\ n'[c] = n[c] /\ lhead'[c] = lhead[c] /\ copied'[c] = copied[c]
        /\ table'[c] = table[c]
    BY DEF SameLocal
  <1>2. CASE pc[c] # "copy"  BY <1>1, <1>2 DEF TakenBy
  <1>3. CASE pc[c] = "copy"
    BY <1>1, <1>3 DEF TakenBy
  <1> QED BY <1>2, <1>3

\* Nothing the queue sees lies in the slot a producer is writing: not an
\* entry of the queue, not an entry of another thread's reservation, not an
\* entry the producer wrote before.
LEMMA WriteApart ==
    ASSUME RingInv, NEW p \in Producers, pc[p] = "copy", copied[p] < n[p]
    PROVE  /\ \A i \in 1..Sub(prodTail, consHead) :
                 Slot(Add(consHead, i - 1)) # Slot(Add(lhead[p], copied[p]))
           /\ \A i \in 0..copied[p] - 1 :
                 Slot(Add(lhead[p], i)) # Slot(Add(lhead[p], copied[p]))
           /\ \A t \in Threads \ {p} : Reserving(t) =>
                 \A i \in 0..n[t] - 1 :
                    Slot(Add(lhead[t], i)) # Slot(Add(lhead[p], copied[p]))
  <1>0. /\ TypeOK /\ IndexOrder /\ consTail \in Index /\ consHead \in Index /\ prodTail \in Index
        /\ copied[p] \in Nat /\ n[p] \in Nat /\ p \in Threads /\ Reserving(p)
    BY ThreadFacts, IndexFacts DEF RingInv, TypeOK, SharedOK, LocalOK, Reserving, Reservings
  <1>1. copied[p] \in 0..n[p] - 1  BY <1>0
  <1> DEFINE w == Add(lhead[p], copied[p])
  <1>2. /\ w \in Index /\ Sub(w, consTail) <= mask
        /\ Sub(w, consTail) = Sub(prodTail, consTail) + Sub(lhead[p], prodTail) + copied[p]
        /\ Sub(lhead[p], prodTail) \in Nat /\ Sub(prodTail, consTail) \in Nat
    BY <1>0, <1>1, ProdReserved
  <1>3. ASSUME NEW i \in 1..Sub(prodTail, consHead)
        PROVE  Slot(Add(consHead, i - 1)) # Slot(w)
    <2>1. i - 1 \in Index /\ i - 1 \in Nat /\ i - 1 < Sub(prodTail, consHead)
      BY <1>0, ContentsFacts, IndexFacts
    <2>2. Sub(prodTail, consTail) = Sub(prodTail, consHead) + Sub(consHead, consTail)
      BY <1>0, IndexTypes, SubSum DEF IndexOrder
    <2>3. Sub(Add(consHead, i - 1), consTail) = Sub(consHead, consTail) + (i - 1)
      <3>1. Sub(consHead, consTail) + (i - 1) < IndexMod
        BY <1>0, <2>1, IndexTypes DEF IndexOrder
      <3> QED BY <1>0, <2>1, <3>1, SubAdd
    <2>4. Sub(Add(consHead, i - 1), consTail) < Sub(w, consTail)
      <3>1. Sub(consHead, consTail) \in Nat /\ Sub(prodTail, consHead) \in Nat
        BY <1>0, IndexTypes
      <3> HIDE DEF w
      <3> QED BY <1>0, <1>2, <2>1, <2>2, <2>3, <3>1
    <2>5. Add(consHead, i - 1) \in Index  BY <1>0, <2>1, AddType
    <2> HIDE DEF w
    <2> QED BY <1>0, <1>2, <2>4, <2>5, SlotsApart
  <1>4. ASSUME NEW i \in 0..copied[p] - 1
        PROVE  Slot(Add(lhead[p], i)) # Slot(w)
    <2>1. i \in 0..n[p] - 1 /\ i \in Nat /\ i < copied[p]  BY <1>0
    <2>2. /\ Add(lhead[p], i) \in Index
          /\ Sub(Add(lhead[p], i), consTail) =
               Sub(prodTail, consTail) + Sub(lhead[p], prodTail) + i
      BY <1>0, <2>1, ProdReserved
    <2>3. Sub(Add(lhead[p], i), consTail) < Sub(w, consTail)
      <3> HIDE DEF w
      <3> QED BY <1>0, <1>2, <2>1, <2>2
    <2> HIDE DEF w
    <2> QED BY <1>0, <1>2, <2>2, <2>3, SlotsApart
  <1>5. ASSUME NEW t \in Threads \ {p}, Reserving(t), NEW i \in 0..n[t] - 1
        PROVE  Slot(Add(lhead[t], i)) # Slot(w)
    BY <1>0, <1>1, <1>5, ReservedApart
  <1> QED BY <1>3, <1>4, <1>5

-----------------------------------------------------------------------------
(* The threads that do not move.                                           *)

\* The slots of every thread but t hold what they held.
SlotsKept(t) ==
    \A u \in Threads \ {t} : Reserving(u) =>
       \A i \in 0..n[u] - 1 : ring'[Slot(Add(lhead[u], i))] = ring[Slot(Add(lhead[u], i))]

\* What holds of the threads other than t, and what the queue sees of them,
\* stays.
OthersKept(t) ==
    /\ \A q \in Producers \ {t} : ProdTable(q)' /\ table'[q] = table[q]
    /\ \A c \in Consumers \ {t} : ConsTable(c)' /\ TakenBy(c)' = TakenBy(c)

\* A step of t that writes in nobody else's slots keeps what is known of the
\* others.
LEMMA OthersStay ==
    ASSUME FifoInv, NEW t \in Threads, \A u \in Threads \ {t} : SameLocal(u),
           SlotsKept(t)
    PROVE  OthersKept(t)
  <1>0. TypeOK /\ CallInv /\ TableInv  BY DEF FifoInv, RingInv
  <1>1. ASSUME NEW q \in Producers \ {t} PROVE ProdTable(q)' /\ table'[q] = table[q]
    <2>1. q \in Threads \ {t} /\ SameLocal(q) /\ ProdTable(q)
      BY <1>0, ThreadFacts DEF TableInv
    <2>2. /\ pc'[q] = pc[q] /\ n'[q] = n[q] /\ lhead'[q] = lhead[q] /\ copied'[q] = copied[q]
          /\ table'[q] = table[q]
      BY <2>1 DEF SameLocal
    <2>3. CASE pc[q] \in Reservings
      <3>1. copied[q] \in Nat /\ n[q] \in Nat /\ copied[q] <= n[q] /\ Reserving(q)
        BY <1>0, <2>1, <2>3, IndexFacts DEF TypeOK, LocalOK, CallInv, Reserving
      <3>2. ASSUME NEW i \in 0..copied[q] - 1
            PROVE  ring'[Slot(Add(lhead[q], i))] = table[q][i + 1]
        <4>1. i \in 0..n[q] - 1  BY <3>1
        <4>2. ring'[Slot(Add(lhead[q], i))] = ring[Slot(Add(lhead[q], i))]
          BY <2>1, <3>1, <4>1 DEF SlotsKept
        <4> QED BY <2>1, <2>3, <4>2 DEF ProdTable
      <3> QED BY <2>1, <2>2, <2>3, <3>2 DEF ProdTable
    <2>4. CASE pc[q] \notin Reservings
      BY <2>1, <2>2, <2>4 DEF ProdTable
    <2> QED BY <2>2, <2>3, <2>4
  <1>2. ASSUME NEW c \in Consumers \ {t} PROVE ConsTable(c)' /\ TakenBy(c)' = TakenBy(c)
    <2>1. c \in Threads \ {t} /\ SameLocal(c) /\ ConsTable(c) /\ n[c] \in Nat
      BY <1>0, ThreadFacts, IndexFacts DEF TableInv, TypeOK, LocalOK
    <2>2. ConsTable(c)'  BY <2>1 DEF ConsTable, SameLocal
    <2>3. ASSUME pc[c] = "copy", NEW i \in 1..n[c]
          PROVE  ring'[Slot(Add(lhead[c], i - 1))] = ring[Slot(Add(lhead[c], i - 1))]
      <3>1. i - 1 \in 0..n[c] - 1  BY <2>1
      <3> QED BY <2>1, <2>3, <3>1 DEF SlotsKept, Reserving, Reservings
    <2> QED BY <2>1, <2>2, <2>3, TakenSame
  <1> QED BY <1>1, <1>2 DEF OthersKept

\* A step that writes no slot at all keeps every slot.
LEMMA SlotsStay == ASSUME NEW t, ring' = ring PROVE SlotsKept(t)
  BY DEF SlotsKept

\* One entry of a producer is written: its table agrees with one slot more,
\* and the queue does not see it.
LEMMA CopyStep ==
    ASSUME FifoInv, NEW p \in Producers, EnqCopy(p)
    PROVE  SlotsKept(p) /\ ProdTable(p)' /\ Contents' = Contents /\ table' = table
  <1>0. /\ RingInv /\ TypeOK /\ CallInv /\ ProdTable(p) /\ p \in Threads
        /\ ring \in [0..mask -> Content]
    BY ThreadFacts DEF FifoInv, RingInv, TableInv, TypeOK, SharedOK, Content
  <1>1. /\ pc[p] = "copy" /\ copied[p] < n[p] /\ copied[p] \in Nat /\ n[p] \in Nat
        /\ lhead[p] \in Index /\ copied[p] \in Index
    BY <1>0, IndexFacts DEF EnqCopy, TypeOK, LocalOK
  <1> DEFINE w == Slot(Add(lhead[p], copied[p]))
  <1>2. /\ ring' = [ring EXCEPT ![w] = table[p][copied[p] + 1]]
        /\ copied' = [copied EXCEPT ![p] = @ + 1]
        /\ UNCHANGED <<prodTail, consHead, pc, n, lhead, table>>
    BY DEF EnqCopy
  <1>3. w \in 0..mask  BY <1>1, AddType, SlotType
  <1>4. /\ ring'[w] = table[p][copied[p] + 1]
        /\ \A s : s # w => ring'[s] = ring[s]
        /\ copied'[p] = copied[p] + 1
    <2>1. copied \in [Threads -> Index]  BY <1>0 DEF TypeOK, LocalOK
    <2> HIDE DEF w
    <2> QED BY <1>0, <1>2, <1>3, <2>1
  <1>5. /\ \A i \in 1..Sub(prodTail, consHead) : Slot(Add(consHead, i - 1)) # w
        /\ \A i \in 0..copied[p] - 1 : Slot(Add(lhead[p], i)) # w
        /\ \A t \in Threads \ {p} : Reserving(t) =>
              \A i \in 0..n[t] - 1 : Slot(Add(lhead[t], i)) # w
    BY <1>0, <1>1, WriteApart
  <1>6. SlotsKept(p)
    <2> HIDE DEF w
    <2> QED BY <1>4, <1>5 DEF SlotsKept
  <1>7. Contents' = Contents
    <2>1. prodTail' = prodTail /\ consHead' = consHead  BY <1>2
    <2> HIDE DEF w
    <2> QED BY <1>0, <1>4, <1>5, <2>1, ContentsSame
  <1>8. ASSUME NEW i \in 0..copied[p] PROVE ring'[Slot(Add(lhead[p], i))] = table[p][i + 1]
    <2>1. CASE i = copied[p]  BY <1>4, <2>1
    <2>2. CASE i # copied[p]
      <3>1. i \in 0..copied[p] - 1  BY <1>1, <2>2
      <3>2. ring'[Slot(Add(lhead[p], i))] = ring[Slot(Add(lhead[p], i))]
        BY <1>4, <1>5, <3>1
      <3> QED BY <1>0, <1>1, <3>1, <3>2 DEF ProdTable, Reservings
    <2> QED BY <2>1, <2>2
  <1>9. ProdTable(p)'
    <2>1. pc'[p] = "copy" /\ lhead'[p] = lhead[p] /\ table'[p] = table[p]
          /\ copied'[p] - 1 = copied[p]
      BY <1>1, <1>2, <1>4
    <2> QED BY <2>1, <1>8 DEF ProdTable
  <1> QED BY <1>2, <1>6, <1>7, <1>9

-----------------------------------------------------------------------------
(* The producers.                                                          *)

\* The entry j places above an index is reached from every index below it.
LEMMA AddSum == \A a, b, j \in Index :
    Sub(a, b) + j < IndexMod => Add(b, Sub(a, b) + j) = Add(a, j)
  BY SizeFacts DEF Add, Sub, Index

\* A producer's step that the queue does not see.
LEMMA ProdStutter ==
    ASSUME TypeOK, NEW p \in Producers, OthersKept(p), ProdTable(p)',
           table'[p] = table[p], ring' = ring, prodTail' = prodTail, consHead' = consHead
    PROVE  TableInv' /\ FifoStep
  <1>1. Contents' = Contents  BY ContentsSame
  <1>2. SameTaken /\ SamePending
    BY ThreadFacts DEF OthersKept, SameTaken, SamePending
  <1>3. TableInv'  BY ThreadFacts DEF OthersKept, TableInv
  <1> QED BY <1>1, <1>2, <1>3, Stutters

\* The call: the table becomes pending, or there is nothing to enqueue.
LEMMA CallStep ==
    ASSUME FifoInv, NEW p \in Producers, NEW objs \in Bursts, NEW b \in Behaviors,
           ring_enqueue(p, objs, b), OthersKept(p)
    PROVE  TableInv' /\ FifoStep
  <1>0. TypeOK /\ LocalOK /\ p \in Threads /\ ProdTable(p) /\ pc[p] = "idle" /\ table[p] = << >>
    BY ThreadFacts DEF FifoInv, RingInv, TypeOK, TableInv, ring_enqueue, ProdTable
  <1>1. ring' = ring /\ prodTail' = prodTail /\ consHead' = consHead
    BY DEF ring_enqueue, shared
  <1>2. Contents' = Contents  BY <1>0, <1>1, ContentsSame
  <1>3. SameTaken /\ \A q \in Producers \ {p} : table'[q] = table[q]
    BY ThreadFacts DEF OthersKept, SameTaken
  <1>4. CASE Return(p)
    <2>1. pc'[p] = "idle" /\ table'[p] = << >>  BY <1>0, <1>4, ReturnFrame
    <2>2. ProdTable(p)'  BY <2>1 DEF ProdTable, Reservings
    <2> QED BY <1>0, <1>1, <2>1, <2>2, ProdStutter
  <1>5. CASE ~Return(p)
    <2>1. pc' = [pc EXCEPT ![p] = "readHead"] /\ table' = [table EXCEPT ![p] = objs]
      BY <1>5 DEF ring_enqueue
    <2>2. pc'[p] = "readHead" /\ table'[p] = objs  BY <1>0, <2>1 DEF LocalOK
    <2>3. ProdTable(p)'  BY <2>2 DEF ProdTable, Reservings
    <2>4. PICK k \in BurstSizes : objs \in [1..k -> Objs]  BY DEF Bursts
    <2>5. CASE k = 0
      <3>1. objs = << >>  BY <2>4, <2>5
      <3> QED BY <1>0, <1>1, <2>2, <2>3, <3>1, ProdStutter
    <2>6. CASE k # 0
      <3>1. FifoStep  BY <1>0, <1>2, <1>3, <2>2, <2>4, <2>6, Offers
      <3>2. TableInv'  BY <2>3, ThreadFacts DEF OthersKept, TableInv
      <3> QED BY <3>1, <3>2
    <2> QED BY <2>5, <2>6
  <1> QED BY <1>4, <1>5

\* No room: everything pending is refused.
LEMMA NoRoomStep ==
    ASSUME FifoInv, NEW p \in Producers, EnqNoRoom(p), OthersKept(p)
    PROVE  TableInv' /\ FifoStep
  <1>0. TypeOK /\ LocalOK /\ p \in Threads /\ IndexOrder
    BY ThreadFacts DEF FifoInv, RingInv, TypeOK
  <1>1. ring' = ring /\ prodTail' = prodTail /\ consHead' = consHead /\ Return(p)
    BY DEF EnqNoRoom, shared
  <1>2. Contents' = Contents  BY <1>0, <1>1, ContentsSame
  <1>3. SameTaken /\ \A q \in Producers \ {p} : table'[q] = table[q]
    BY ThreadFacts DEF OthersKept, SameTaken
  <1>4. pc'[p] = "idle" /\ table'[p] = << >>  BY <1>0, <1>1, ReturnFrame
  <1>5. ProdTable(p)'  BY <1>4 DEF ProdTable, Reservings
  <1>6. TableInv'  BY <1>5, ThreadFacts DEF OthersKept, TableInv
  <1>7. table[p] \in Seq(Content)  BY <1>0 DEF LocalOK, Content
  <1>8. SubSeq(table[p], 1, 0) = << >>  BY SubSeqEmpty
  <1>9. Contents \o << >> = Contents  BY <1>0, ContentsFacts, ConcatEmptySeq
  <1>10. 0 \in 0..Len(table[p])  BY <1>7
  <1>11. Len(Contents) + 0 <= mask
    BY <1>0, ContentsFacts, IndexTypes DEF IndexOrder
  <1>12. Contents' = Contents \o SubSeq(table[p], 1, 0)  BY <1>2, <1>8, <1>9
  <1>13. FifoStep  BY <1>3, <1>4, <1>10, <1>11, <1>12, Puts
  <1> QED BY <1>6, <1>13

\* The publish appends the first n objects of the table to the queue.
LEMMA PublishContents ==
    ASSUME FifoInv, NEW p \in Producers, EnqPublish(p)
    PROVE  /\ n[p] \in 0..Len(table[p])
           /\ Len(Contents) + n[p] <= mask
           /\ Contents' = Contents \o SubSeq(table[p], 1, n[p])
  <1>0. /\ RingInv /\ TypeOK /\ LocalOK /\ SharedOK /\ p \in Threads /\ IndexOrder
        /\ ProdTable(p) /\ CallInv
    BY ThreadFacts DEF FifoInv, RingInv, TypeOK, TableInv
  <1>1. SideInv(Producers, SpEnqueue, prodHead, prodTail, pc, n, lhead, lag)
    BY <1>0 DEF RingInv, ProdSide
  <1>2. pc[p] = "publish" /\ pc[p] \in Reservings /\ Reserving(p) /\ lhead[p] = prodTail
    BY <1>1 DEF EnqPublish, Reservings, SideInv, Reserving
  <1>3. prodTail' = Add(prodTail, n[p]) /\ consHead' = consHead /\ ring' = ring
    BY <1>2 DEF EnqPublish
  <1>4. /\ n[p] \in Index /\ n[p] \in Nat /\ prodTail \in Index /\ consHead \in Index
        /\ prodHead \in Index /\ copied[p] = n[p] /\ n[p] <= max[p] /\ Len(table[p]) = max[p]
        /\ table[p] \in Seq(Content) /\ max[p] \in Nat
    BY <1>0, <1>2, IndexFacts DEF LocalOK, SharedOK, ProdTable, CallInv, Content
  <1>5. n[p] <= Sub(prodHead, prodTail)
    <2>1. Sub(prodTail, prodTail) + n[p] <= Sub(prodHead, prodTail)
      BY <1>1, <1>2 DEF SideInv
    <2> QED BY <1>4, <2>1, SubSelf
  <1> DEFINE k == Sub(prodTail, consHead)
  <1>6. k \in Nat /\ k \in Index /\ Len(Contents) = k /\ Contents \in Seq(Content)
    BY <1>0, <1>4, ContentsFacts, SubType
  <1>7. k + n[p] <= mask /\ mask < IndexMod /\ mask \in Nat /\ IndexMod \in Nat
    <2>1. Sub(consHead, consTail) \in Nat /\ Sub(prodHead, prodTail) \in Nat
          /\ mask < IndexMod /\ mask \in Nat /\ IndexMod \in Nat
      BY <1>0, IndexTypes
    <2>2. Sub(consHead, consTail) + k + Sub(prodHead, prodTail) <= mask
      BY <1>0 DEF IndexOrder
    <2> HIDE DEF k
    <2> QED BY <1>4, <1>5, <1>6, <2>1, <2>2
  <1>8. Sub(prodTail', consHead) = k + n[p]
    BY <1>3, <1>4, <1>6, <1>7, SubAdd
  <1>9. n[p] \in 0..Len(table[p])  BY <1>4
  <1>10. /\ SubSeq(table[p], 1, n[p]) \in Seq(Content)
         /\ Len(SubSeq(table[p], 1, n[p])) = n[p]
         /\ \A i \in 1..n[p] : SubSeq(table[p], 1, n[p])[i] = table[p][i]
    <2>1. \A i \in 1..n[p] : table[p][i] \in Content  BY <1>4
    <2> QED BY <1>4, <2>1, SubSeqProperties
  <1>12. /\ Contents' \in Seq(Content) /\ Len(Contents') = k + n[p]
         /\ \A i \in 1..k + n[p] : Contents'[i] = ring[Slot(Add(consHead, i - 1))]
    <2> DEFINE m == k + n[p]
               e(i) == ring[Slot(Add(consHead, i - 1))]
    <2>1. m \in Nat /\ m \in Index
      BY <1>4, <1>6, <1>7, IndexFacts
    <2>2. Contents' = [i \in 1..m |-> e(i)]
      BY <1>3, <1>8 DEF Contents
    <2>3. ASSUME NEW i \in 1..m PROVE e(i) \in Content
      <3>1. i - 1 \in Index  BY <2>1, BelowIndex
      <3>2. Slot(Add(consHead, i - 1)) \in 0..mask
        BY <1>4, <3>1, AddType, SlotType
      <3> QED BY <1>0, <3>2 DEF SharedOK, Content
    <2> HIDE DEF m, e
    <2>4. Contents' \in Seq(Content) /\ Len(Contents') = m /\ \A i \in 1..m : Contents'[i] = e(i)
      BY <2>1, <2>2, <2>3
    <2> QED BY <2>4 DEF m, e
  <1>13. ASSUME NEW i \in 1..n[p]
         PROVE  ring[Slot(Add(consHead, k + i - 1))] = table[p][i]
    <2>1. i - 1 \in 0..copied[p] - 1 /\ i - 1 \in Nat /\ i - 1 < n[p]  BY <1>4
    <2>2. i - 1 \in Index  BY <1>4, <2>1, BelowIndex
    <2>3. ring[Slot(Add(prodTail, i - 1))] = table[p][i - 1 + 1]
      BY <1>0, <1>2, <2>1 DEF ProdTable
    <2>4. Add(consHead, k + (i - 1)) = Add(prodTail, i - 1)
      <3>1. k + (i - 1) < IndexMod
        <4> HIDE DEF k
        <4> QED BY <1>4, <1>6, <1>7, <2>1
      <3> QED BY <1>4, <2>2, <3>1, AddSum
    <2>5. k + i - 1 = k + (i - 1) /\ i - 1 + 1 = i
      <3> HIDE DEF k
      <3> QED BY <1>6
    <2> QED BY <2>3, <2>4, <2>5
  <1>14. ASSUME NEW i \in 1..k + n[p]
         PROVE  Contents'[i] = (Contents \o SubSeq(table[p], 1, n[p]))[i]
    <2>0. k \in Nat /\ n[p] \in Nat /\ Contents'[i] = ring[Slot(Add(consHead, i - 1))]
      BY <1>4, <1>6, <1>12
    <2>1. (Contents \o SubSeq(table[p], 1, n[p]))[i] =
            IF i <= k THEN Contents[i] ELSE SubSeq(table[p], 1, n[p])[i - k]
      BY <1>6, <1>10, ConcatProperties
    <2>2. CASE i <= k
      <3>1. i \in 1..Sub(prodTail, consHead)  BY <2>0, <2>2
      <3>2. Contents[i] = ring[Slot(Add(consHead, i - 1))]
        BY <1>0, <3>1, ContentsFacts
      <3> QED BY <2>0, <2>1, <2>2, <3>2
    <2>3. CASE ~(i <= k)
      <3> HIDE DEF k
      <3>1. i - k \in 1..n[p] /\ k + (i - k) - 1 = i - 1  BY <2>0, <2>3
      <3>2. ring[Slot(Add(consHead, k + (i - k) - 1))] = table[p][i - k]
        BY <1>13, <3>1
      <3> QED BY <1>10, <2>0, <2>1, <2>3, <3>1, <3>2
    <2> QED BY <2>2, <2>3
  <1>15. /\ Contents \o SubSeq(table[p], 1, n[p]) \in Seq(Content)
         /\ Len(Contents \o SubSeq(table[p], 1, n[p])) = k + n[p]
    BY <1>6, <1>10, ConcatProperties
  <1>16. Contents' = Contents \o SubSeq(table[p], 1, n[p])
    BY <1>12, <1>14, <1>15, SeqEqual
  <1> QED BY <1>6, <1>7, <1>9, <1>16

\* Every step of a producer keeps TableInv and is a step of the queue.
LEMMA ProdStep ==
    ASSUME CasReportsSuccess, FifoInv, NEW p \in Producers, EnqCall(p) \/ EnqStep(p)
    PROVE  TableInv' /\ FifoStep
  <1>0. /\ RingInv /\ TypeOK /\ LocalOK /\ p \in Threads /\ ProdTable(p)
        /\ \A u \in Threads \ {p} : SameLocal(u)
    BY ThreadFacts, ProdFrame DEF FifoInv, RingInv, TypeOK, TableInv
  <1>k. ring' = ring => OthersKept(p)
    BY <1>0, SlotsStay, OthersStay
  <1> USE DEF Reservings
  <1>1. CASE EnqCall(p)
    <2> PICK objs \in Bursts, b \in Behaviors : ring_enqueue(p, objs, b)
      BY <1>1 DEF EnqCall
    <2>1. ring' = ring  BY DEF ring_enqueue, shared
    <2> QED BY <1>k, <2>1, CallStep
  <1>2. CASE EnqReadHead(p)
    <2>1. pc'[p] = "readTail" /\ table' = table /\ UNCHANGED <<ring, prodTail, consHead>>
      BY <1>0, <1>2 DEF EnqReadHead, shared, LocalOK
    <2> QED BY <1>0, <1>k, <2>1, ProdStutter DEF ProdTable
  <1>3. CASE EnqReadTail(p)
    <2>1. pc'[p] = "reserve" /\ table' = table /\ UNCHANGED <<ring, prodTail, consHead>>
      BY <1>0, <1>3 DEF EnqReadTail, shared, LocalOK
    <2> QED BY <1>0, <1>k, <2>1, ProdStutter DEF ProdTable
  <1>4. CASE EnqNoRoom(p)
    <2>1. ring' = ring  BY <1>4 DEF EnqNoRoom, shared
    <2> QED BY <1>4, <1>k, <2>1, NoRoomStep
  <1>5. CASE EnqReserveSP(p)
    <2>1. /\ pc'[p] = "copy" /\ copied'[p] = 0 /\ table' = table
          /\ UNCHANGED <<ring, prodTail, consHead>>
      BY <1>0, <1>5 DEF EnqReserveSP, LocalOK
    <2>2. ProdTable(p)'  BY <2>1 DEF ProdTable
    <2> QED BY <1>0, <1>k, <2>1, <2>2, ProdStutter
  <1>6. CASE EnqReserveMP(p)
    <2>1. /\ pc'[p] \in {"copy", "readHead"} /\ copied'[p] = 0 /\ table' = table
          /\ UNCHANGED <<ring, prodTail, consHead>>
      BY <1>0, <1>6 DEF EnqReserveMP, LocalOK
    <2>2. ProdTable(p)'  BY <2>1 DEF ProdTable
    <2> QED BY <1>0, <1>k, <2>1, <2>2, ProdStutter
  <1>7. CASE EnqCopy(p)
    <2>1. SlotsKept(p) /\ ProdTable(p)' /\ Contents' = Contents /\ table' = table
      BY <1>7, CopyStep
    <2>2. OthersKept(p)  BY <1>0, <2>1, OthersStay
    <2>3. SameTaken /\ SamePending
      BY <2>1, <2>2, ThreadFacts DEF OthersKept, SameTaken, SamePending
    <2>4. TableInv'  BY <2>1, <2>2, ThreadFacts DEF OthersKept, TableInv
    <2> QED BY <2>1, <2>3, <2>4, Stutters
  <1>8. CASE EnqWaterMark(p)
    <2>1. /\ pc[p] = "copy" /\ pc'[p] = "publish" /\ copied[p] = n[p]
          /\ UNCHANGED <<ring, prodTail, consHead, table, copied, n, lhead>>
      BY <1>0, <1>8 DEF EnqWaterMark, shared, LocalOK
    <2>2. ProdTable(p)'  BY <1>0, <2>1 DEF ProdTable
    <2> QED BY <1>0, <1>k, <2>1, <2>2, ProdStutter
  <1>9. CASE EnqPublish(p)
    <2>1. ring' = ring /\ Return(p)  BY <1>9 DEF EnqPublish
    <2>2. OthersKept(p)  BY <1>k, <2>1
    <2>3. pc'[p] = "idle" /\ table'[p] = << >>  BY <1>0, <2>1, ReturnFrame
    <2>4. ProdTable(p)'  BY <2>3 DEF ProdTable
    <2>5. TableInv'  BY <2>2, <2>4, ThreadFacts DEF OthersKept, TableInv
    <2>6. SameTaken /\ \A q \in Producers \ {p} : table'[q] = table[q]
      BY <2>2, ThreadFacts DEF OthersKept, SameTaken
    <2>7. FifoStep  BY <1>9, <2>3, <2>6, PublishContents, Puts
    <2> QED BY <2>5, <2>7
  <1> QED
    BY <1>1, <1>2, <1>3, <1>4, <1>5, <1>6, <1>7, <1>8, <1>9 DEF EnqStep

-----------------------------------------------------------------------------
(* The consumers.                                                          *)

\* A consumer's step that the queue does not see.
LEMMA ConsStutter ==
    ASSUME TypeOK, NEW c \in Consumers, OthersKept(c), ConsTable(c)',
           TakenBy(c)' = TakenBy(c), ring' = ring, prodTail' = prodTail, consHead' = consHead
    PROVE  TableInv' /\ FifoStep
  <1>1. Contents' = Contents  BY ContentsSame
  <1>2. SameTaken /\ SamePending
    BY ThreadFacts DEF OthersKept, SameTaken, SamePending
  <1>3. TableInv'  BY ThreadFacts DEF OthersKept, TableInv
  <1> QED BY <1>1, <1>2, <1>3, Stutters

\* A step between two places where the consumer has taken nothing.
LEMMA ConsEmpty ==
    ASSUME TypeOK, NEW c \in Consumers, OthersKept(c),
           pc[c] # "copy", pc'[c] \notin {"copy", "publish"}, table'[c] = << >>,
           ring' = ring, prodTail' = prodTail, consHead' = consHead
    PROVE  TableInv' /\ FifoStep
  <1>1. ConsTable(c)'  BY DEF ConsTable
  <1>2. TakenBy(c)' = TakenBy(c)  BY DEF TakenBy
  <1> QED BY <1>1, <1>2, ConsStutter

\* The reservation of k entries takes the first k objects of the queue.
LEMMA TakeStep ==
    ASSUME FifoInv, NEW c \in Consumers, NEW k \in 0..max[c], pc[c] = "reserve",
           lhead[c] = consHead, DeqFits(c, k), OthersKept(c),
           pc'[c] = "copy", n'[c] = k, lhead'[c] = lhead[c], copied'[c] = 0,
           table'[c] = table[c],
           ring' = ring, prodTail' = prodTail, consHead' = Add(consHead, k)
    PROVE  TableInv' /\ FifoStep
  <1>0. /\ RingInv /\ TypeOK /\ ConsTable(c) /\ consHead \in Index /\ prodTail \in Index
        /\ ring \in [0..mask -> Content]
    BY DEF FifoInv, RingInv, TypeOK, SharedOK, TableInv, Content
  <1>1. k \in Index /\ k \in Nat /\ k <= Sub(prodTail, consHead)
    BY <1>0, DeqFitsFacts, IndexFacts
  <1> DEFINE m == Sub(prodTail, consHead)
  <1>2. /\ m \in Nat /\ m \in Index /\ Len(Contents) = m /\ Contents \in Seq(Content)
        /\ \A i \in 1..m : Contents[i] = ring[Slot(Add(consHead, i - 1))] /\ i - 1 \in Index
    BY <1>0, ContentsFacts, SubType
  <1>3. Sub(prodTail, Add(consHead, k)) = m - k
    BY <1>0, <1>1, SubShift
  <1>4. ConsTable(c)'  BY <1>0 DEF ConsTable
  <1>5. TableInv'  BY <1>4, ThreadFacts DEF OthersKept, TableInv
  <1>6. TakenBy(c) = << >>  BY DEF TakenBy
  <1>7. TakenBy(c)' = [i \in 1..k |-> ring[Slot(Add(consHead, i - 1))]]
    BY <1>1 DEF TakenBy
  <1>8. Contents' = [i \in 1..m - k |-> ring[Slot(Add(Add(consHead, k), i - 1))]]
    BY <1>3 DEF Contents
  <1>9. SamePending /\ \A d \in Consumers \ {c} : TakenBy(d)' = TakenBy(d)
    BY ThreadFacts DEF OthersKept, SamePending
  <1>10. CASE k = 0
    <2>1. Add(consHead, k) = consHead  BY <1>0, <1>10, SizeFacts, IndexFacts DEF Add
    <2>2. TakenBy(c)' = TakenBy(c)  BY <1>6, <1>7, <1>10
    <2> QED BY <1>0, <1>4, <2>1, <2>2, ConsStutter
  <1>11. CASE k # 0
    <2>1. TakenBy(c)' = SubSeq(Contents, 1, k)
      <3>1. \A i \in 1..k : Contents[i] \in Content  BY <1>1, <1>2
      <3>2. /\ SubSeq(Contents, 1, k) \in Seq(Content)
            /\ Len(SubSeq(Contents, 1, k)) = k
            /\ \A i \in 1..k : SubSeq(Contents, 1, k)[i] = Contents[i]
        BY <1>1, <3>1, SubSeqProperties
      <3>3. \A i \in 1..k : SubSeq(Contents, 1, k)[i] = ring[Slot(Add(consHead, i - 1))]
        <4> HIDE DEF m
        <4> QED BY <1>1, <1>2, <3>2 DEF m
      <3>4. SubSeq(Contents, 1, k) = [i \in 1..k |-> SubSeq(Contents, 1, k)[i]]
        BY <3>2
      <3> QED BY <1>7, <3>3, <3>4
    <2>2. Contents' = SubSeq(Contents, k + 1, Len(Contents))
      <3>1. \A i \in k + 1..m : Contents[i] \in Content  BY <1>1, <1>2
      <3>2. /\ SubSeq(Contents, k + 1, m) \in Seq(Content)
            /\ Len(SubSeq(Contents, k + 1, m)) = m - k
            /\ \A i \in 1..m - k : SubSeq(Contents, k + 1, m)[i] = Contents[k + i]
        <4>1. /\ SubSeq(Contents, k + 1, m) \in Seq(Content)
              /\ Len(SubSeq(Contents, k + 1, m)) = IF k + 1 <= m THEN m - (k + 1) + 1 ELSE 0
              /\ \A i \in 1..m - (k + 1) + 1 : SubSeq(Contents, k + 1, m)[i] = Contents[(k + 1) + i - 1]
          BY <1>1, <1>2, <3>1, SubSeqProperties
        <4> HIDE DEF m
        <4>2. m - (k + 1) + 1 = m - k /\ (~(k + 1 <= m) => m - k = 0)  BY <1>1, <1>2 DEF m
        <4>3. \A i \in 1..m - k : (k + 1) + i - 1 = k + i  BY <1>1, <1>2
        <4> QED BY <4>1, <4>2, <4>3
      <3>3. ASSUME NEW i \in 1..m - k
            PROVE  Contents[k + i] = ring[Slot(Add(Add(consHead, k), i - 1))]
        <4>1. k + i \in 1..m /\ i - 1 \in Nat /\ i - 1 < m - k /\ k + i - 1 = k + (i - 1)
              /\ m - k \in Nat /\ m < IndexMod
          <5>1. m < IndexMod  BY <1>2, IndexFacts
          <5> HIDE DEF m
          <5> QED BY <1>1, <1>2, <5>1 DEF m
        <4>2. i - 1 \in Index
          <5> HIDE DEF m
          <5> QED BY <1>1, <1>2, <4>1, SizeFacts, IndexFacts
        <4>3. Contents[k + i] = ring[Slot(Add(consHead, k + (i - 1)))]
          BY <1>2, <4>1
        <4>4. Add(consHead, k + (i - 1)) = Add(Add(consHead, k), i - 1)
          <5>1. k + (i - 1) < IndexMod
            <6> HIDE DEF m
            <6> QED BY <1>1, <1>2, <4>1, SizeFacts
          <5> QED BY <1>0, <1>1, <4>2, <5>1, SizeFacts, IndexFacts DEF Add
        <4> QED BY <4>3, <4>4
      <3>4. SubSeq(Contents, k + 1, m) = [i \in 1..m - k |-> SubSeq(Contents, k + 1, m)[i]]
        BY <3>2, SMTT(20)
      <3>5. \A i \in 1..m - k : SubSeq(Contents, k + 1, m)[i] =
                                   ring[Slot(Add(Add(consHead, k), i - 1))]
        BY <3>2, <3>3
      <3>6. Contents' = [i \in 1..m - k |-> SubSeq(Contents, k + 1, m)[i]]
        BY <1>8, <3>5
      <3> QED BY <1>2, <3>4, <3>6
    <2>3. k \in 1..Len(Contents)  BY <1>1, <1>2, <1>11
    <2>4. FifoStep  BY <1>6, <1>9, <2>1, <2>2, <2>3, Gets
    <2> QED BY <1>5, <2>4
  <1> QED BY <1>10, <1>11

\* Every step of a consumer keeps TableInv and is a step of the queue.
LEMMA ConsStep ==
    ASSUME CasReportsSuccess, FifoInv, NEW c \in Consumers, DeqCall(c) \/ DeqStep(c)
    PROVE  TableInv' /\ FifoStep
  <1>0. /\ RingInv /\ TypeOK /\ LocalOK /\ c \in Threads /\ ConsTable(c) /\ ConsSide /\ CallInv
        /\ \A u \in Threads \ {c} : SameLocal(u)
    BY ThreadFacts, ConsFrame DEF FifoInv, RingInv, TypeOK, TableInv
  <1>k. ring' = ring => OthersKept(c)
    BY <1>0, SlotsStay, OthersStay
  <1>1. CASE DeqCall(c)
    <2> PICK k \in BurstSizes, b \in Behaviors : ring_dequeue(c, k, b)
      BY <1>1 DEF DeqCall
    <2>1. /\ pc[c] = "idle" /\ pc'[c] \in {"idle", "readHead"} /\ table'[c] = << >>
          /\ UNCHANGED <<ring, prodTail, consHead>>
      <3>0. pc[c] = "idle" /\ table[c] = << >> /\ UNCHANGED <<ring, prodTail, consHead>>
        BY <1>0 DEF ring_dequeue, shared, ConsTable
      <3>1. CASE Return(c)  BY <1>0, <3>0, <3>1, ReturnFrame
      <3>2. CASE ~Return(c)  BY <1>0, <3>0, <3>2 DEF ring_dequeue, LocalOK
      <3> QED BY <3>1, <3>2
    <2> QED BY <1>0, <1>k, <2>1, ConsEmpty
  <1>2. CASE DeqReadHead(c)
    <2>1. /\ pc[c] = "readHead" /\ pc'[c] = "readTail" /\ table' = table
          /\ UNCHANGED <<ring, prodTail, consHead>>
      BY <1>0, <1>2 DEF DeqReadHead, shared, LocalOK
    <2>2. table'[c] = << >>  BY <1>0, <2>1 DEF ConsTable
    <2> QED BY <1>0, <1>k, <2>1, <2>2, ConsEmpty
  <1>3. CASE DeqReadTail(c)
    <2>1. /\ pc[c] = "readTail" /\ pc'[c] = "reserve" /\ table' = table
          /\ UNCHANGED <<ring, prodTail, consHead>>
      BY <1>0, <1>3 DEF DeqReadTail, shared, LocalOK
    <2>2. table'[c] = << >>  BY <1>0, <2>1 DEF ConsTable
    <2> QED BY <1>0, <1>k, <2>1, <2>2, ConsEmpty
  <1>4. CASE DeqNoEntries(c)
    <2>1. /\ pc[c] = "reserve" /\ pc'[c] = "idle" /\ table'[c] = << >>
          /\ UNCHANGED <<ring, prodTail, consHead>>
      BY <1>0, <1>4, ReturnFrame DEF DeqNoEntries, shared
    <2> QED BY <1>0, <1>k, <2>1, ConsEmpty
  <1>5. CASE DeqReserveSC(c)
    <2>1. lhead[c] = consHead
      BY <1>0, <1>5 DEF DeqReserveSC, ConsSide, SideInv, Window
    <2>2. PICK k \in 0..max[c] : /\ DeqFits(c, k) /\ n' = [n EXCEPT ![c] = k]
                                 /\ consHead' = Add(lhead[c], k)
      BY <1>5 DEF DeqReserveSC
    <2>3. /\ pc[c] = "reserve" /\ pc'[c] = "copy" /\ copied'[c] = 0 /\ n'[c] = k
          /\ UNCHANGED <<ring, prodTail, lhead, table>>
      BY <1>0, <1>5, <2>2 DEF DeqReserveSC, LocalOK
    <2> QED BY <1>k, <2>1, <2>2, <2>3, TakeStep
  <1>6. CASE DeqReserveMC(c)
    <2>0. PICK k \in 0..max[c] :
            /\ DeqFits(c, k) /\ n' = [n EXCEPT ![c] = k]
            /\ IF CmpxchgStores(c, consHead)
               THEN consHead' = Add(lhead[c], k) /\ Advance(Consumers, c, k)
               ELSE UNCHANGED <<consHead, lag>>
      BY <1>6 DEF DeqReserveMC
    <2>a. /\ pc[c] = "reserve" /\ copied'[c] = 0 /\ n'[c] = k
          /\ UNCHANGED <<ring, prodTail, lhead, table>>
          /\ pc'[c] = IF lhead[c] = consHead THEN "copy" ELSE "readHead"
      BY <1>0, <1>6, <2>0 DEF DeqReserveMC, LoopEnds, CasReportsSuccess, LocalOK
    <2>1. CASE lhead[c] = consHead
      <3>1. consHead' = Add(consHead, k) /\ pc'[c] = "copy"
        BY <2>0, <2>a, <2>1 DEF CmpxchgStores
      <3> QED BY <1>k, <2>0, <2>1, <2>a, <3>1, TakeStep
    <2>2. CASE lhead[c] # consHead
      <3>1. consHead' = consHead /\ pc'[c] = "readHead"
        BY <2>0, <2>a, <2>2 DEF CmpxchgStores
      <3>2. table'[c] = << >>  BY <1>0, <2>a DEF ConsTable
      <3> QED BY <1>0, <1>k, <2>a, <3>1, <3>2, ConsEmpty
    <2> QED BY <2>1, <2>2
  <1>7. CASE DeqCopy(c)
    <2> DEFINE s == Slot(Add(lhead[c], copied[c]))
    <2>1. /\ pc[c] = "copy" /\ copied[c] < n[c] /\ copied[c] \in Nat /\ n[c] \in Nat
          /\ lhead[c] \in Index /\ copied[c] \in Index /\ Len(table[c]) = copied[c]
          /\ table[c] \in Seq(Content)
      BY <1>0, <1>7, IndexFacts DEF DeqCopy, LocalOK, ConsTable, Content
    <2>2. ring[s] \in Content
      <3>1. s \in 0..mask  BY <2>1, AddType, SlotType
      <3> QED BY <1>0, <3>1 DEF TypeOK, SharedOK, Content
    <2>3. /\ table'[c] = Append(table[c], ring[s]) /\ copied'[c] = copied[c] + 1
          /\ UNCHANGED <<ring, prodTail, consHead, pc, n, lhead>>
      BY <1>0, <1>7 DEF DeqCopy, shared, LocalOK
    <2>4. /\ Len(table'[c]) = copied[c] + 1
          /\ \A i \in 1..copied[c] : table'[c][i] = table[c][i]
          /\ table'[c][copied[c] + 1] = ring[s]
      <3> HIDE DEF s
      <3> QED BY <2>1, <2>2, <2>3, AppendProperties
    <2>5. ConsTable(c)'  BY <2>1, <2>3, <2>4 DEF ConsTable
    <2>6. TakenBy(c)' = TakenBy(c)
      <3>1. ASSUME NEW i \in 1..n[c]
            PROVE  (IF i <= copied'[c] THEN table'[c][i] ELSE ring[Slot(Add(lhead[c], i - 1))])
                   = IF i <= copied[c] THEN table[c][i] ELSE ring[Slot(Add(lhead[c], i - 1))]
        <4>1. CASE i <= copied[c]
          <5>1. i \in 1..copied[c] /\ i <= copied'[c]  BY <2>1, <2>3, <4>1
          <5> QED BY <2>4, <4>1, <5>1
        <4>2. CASE i = copied[c] + 1
          <5>1. i - 1 = copied[c] /\ i <= copied'[c] /\ ~(i <= copied[c])  BY <2>1, <2>3, <4>2
          <5> QED BY <2>4, <4>2, <5>1
        <4>3. CASE i > copied[c] + 1
          <5>1. ~(i <= copied'[c]) /\ ~(i <= copied[c])  BY <2>1, <2>3, <4>3
          <5> QED BY <5>1
        <4> QED BY <2>1, <4>1, <4>2, <4>3
      <3>2. pc'[c] = "copy" /\ n'[c] = n[c] /\ lhead'[c] = lhead[c] /\ ring' = ring
        BY <2>1, <2>3
      <3>3. TakenBy(c)' = [i \in 1..n[c] |-> IF i <= copied'[c] THEN table'[c][i]
                                             ELSE ring[Slot(Add(lhead[c], i - 1))]]
        BY <3>2 DEF TakenBy
      <3>4. TakenBy(c) = [i \in 1..n[c] |-> IF i <= copied[c] THEN table[c][i]
                                            ELSE ring[Slot(Add(lhead[c], i - 1))]]
        BY <2>1 DEF TakenBy
      <3> QED BY <3>1, <3>3, <3>4
    <2> QED BY <1>0, <1>k, <2>3, <2>5, <2>6, ConsStutter
  <1>8. CASE DeqPublish(c)
    <2>1. /\ pc[c] = "copy" /\ pc'[c] = "idle" /\ table'[c] = << >>
          /\ UNCHANGED <<ring, prodTail, consHead>>
      BY <1>0, <1>8, ReturnFrame DEF DeqPublish
    <2>2. OthersKept(c)  BY <1>k, <2>1
    <2>3. ConsTable(c)'  BY <2>1 DEF ConsTable
    <2>4. TableInv'  BY <2>2, <2>3, ThreadFacts DEF OthersKept, TableInv
    <2>5. TakenBy(c)' = << >>  BY <2>1 DEF TakenBy
    <2>6. Contents' = Contents  BY <1>0, <2>1, ContentsSame
    <2>7. SamePending /\ \A d \in Consumers \ {c} : TakenBy(d)' = TakenBy(d)
      BY <2>2, ThreadFacts DEF OthersKept, SamePending
    <2>8. CASE TakenBy(c) = << >>
      BY <1>0, <2>1, <2>2, <2>3, <2>5, <2>8, ConsStutter
    <2>9. CASE TakenBy(c) # << >>
      BY <2>4, <2>5, <2>6, <2>7, <2>9, HandsOver
    <2> QED BY <2>8, <2>9
  <1> QED
    BY <1>1, <1>2, <1>3, <1>4, <1>5, <1>6, <1>7, <1>8 DEF DeqStep

-----------------------------------------------------------------------------
\* A new ring is an empty queue.
LEMMA FifoInit == Init => FifoInv /\ Fifo!Init
  <1> SUFFICES ASSUME Init PROVE FifoInv /\ Fifo!Init  OBVIOUS
  <1>1. RingInv  BY InitInv
  <1>2. TableInv
    BY ThreadFacts DEF Init, TableInv, ProdTable, ConsTable, Reservings
  <1>3. Contents = << >>
    <2>1. Sub(prodTail, consHead) = 0  BY IndexFacts, SubSelf DEF Init
    <2> QED BY <2>1 DEF Contents
  <1>4. [p \in Producers |-> table[p]] = [p \in Producers |-> << >>]
    BY ThreadFacts DEF Init
  <1>5. [c \in Consumers |-> TakenBy(c)] = [c \in Consumers |-> << >>]
    BY ThreadFacts DEF Init, TakenBy
  <1> QED BY <1>1, <1>2, <1>3, <1>4, <1>5 DEF FifoInv, Fifo!Init

\* A step that changes no variable of the ring but the water mark.
LEMMA IdleStep ==
    ASSUME FifoInv, UNCHANGED <<prodTail, consHead, ring, local>>
    PROVE  TableInv' /\ FifoStep
  <1>0. TypeOK /\ TableInv  BY DEF FifoInv, RingInv
  <1>1. UNCHANGED <<pc, n, lhead, copied, table, ring, prodTail, consHead>>  BY DEF local
  <1>2. TableInv'  BY <1>0, <1>1 DEF TableInv, ProdTable, ConsTable
  <1>3. Contents' = Contents  BY <1>1 DEF Contents
  <1>4. SameTaken /\ SamePending  BY <1>1 DEF SameTaken, SamePending, TakenBy
  <1> QED BY <1>2, <1>3, <1>4, Stutters

\* Every step of the ring keeps FifoInv and is a step of the queue.
LEMMA FifoNext ==
    ASSUME CasReportsSuccess, FifoInv, [Next]_vars PROVE FifoInv' /\ FifoStep
  <1>0. RingInv'  BY NextInv DEF FifoInv
  <1>1. ASSUME NEW p \in Producers, EnqCall(p) \/ EnqStep(p) PROVE TableInv' /\ FifoStep
    BY <1>1, ProdStep
  <1>2. ASSUME NEW c \in Consumers, DeqCall(c) \/ DeqStep(c) PROVE TableInv' /\ FifoStep
    BY <1>2, ConsStep
  <1>3. ASSUME NEW count \in WaterMarks, ring_set_water_mark(count)
        PROVE  TableInv' /\ FifoStep
    BY <1>3, IdleStep DEF ring_set_water_mark
  <1>4. ASSUME UNCHANGED vars PROVE TableInv' /\ FifoStep
    BY <1>4, IdleStep DEF vars, local
  <1>5. \/ \E p \in Producers : EnqCall(p) \/ EnqStep(p)
        \/ \E c \in Consumers : DeqCall(c) \/ DeqStep(c)
        \/ \E count \in WaterMarks : ring_set_water_mark(count)
        \/ UNCHANGED vars
    BY DEF Next, Call, EnqCall, DeqCall
  <1>6. TableInv' /\ FifoStep  BY <1>1, <1>2, <1>3, <1>4, <1>5
  <1> QED BY <1>0, <1>6 DEF FifoInv

\* What the producers copied is in their slots and what the consumers took is
\* still there for them, in every state.
THEOREM TablesAgree == CasReportsSuccess => (Spec => []FifoInv)
  <1> SUFFICES ASSUME CasReportsSuccess PROVE Spec => []FifoInv  OBVIOUS
  <1>1. Init => FifoInv  BY FifoInit
  <1>2. FifoInv /\ [Next]_vars => FifoInv'  BY FifoNext
  <1> QED BY <1>1, <1>2, PTL DEF Spec

\* The ring implements the bounded queue: whatever the threads and their
\* interleaving, objects leave in the order of the publishes, none lost,
\* duplicated or overwritten while it is copied in or out, and a call enqueues
\* a prefix of its table in one step or nothing.
THEOREM RingImplementsFifo == CasReportsSuccess => (Spec => ImplementsFifo)
  <1> SUFFICES ASSUME CasReportsSuccess PROVE Spec => ImplementsFifo  OBVIOUS
  <1>1. Init => Fifo!Init  BY FifoInit
  <1>2. FifoInv /\ [Next]_vars => [Fifo!Next]_(Fifo!fifoVars)
    BY FifoNext DEF FifoStep
  <1>3. Spec => []FifoInv  BY TablesAgree
  <1> QED BY <1>1, <1>2, <1>3, PTL DEF Spec, ImplementsFifo, Fifo!Spec
=============================================================================
