------------------------------- MODULE Ring -------------------------------
(***************************************************************************)
(* The lock-free pointer ring of inc/kns/ring.h and core/ring.c.           *)
(*                                                                         *)
(* Every shared access (head, opposite tail, compare-and-set, each slot,   *)
(* tail) is a step of its own, so the steps of any number of producers and *)
(* consumers interleave the way the CPUs interleave them.  The ring is the *)
(* one ring_create returned: RING_F_SP_ENQ / RING_F_SC_DEQ are the         *)
(* constants SpEnqueue / ScDequeue.                                        *)
(***************************************************************************)
EXTENDS Integers, Sequences

CONSTANTS
    Producers,      \* threads that call the enqueue functions
    Consumers,      \* threads that call the dequeue functions
    Size,           \* r->prod.size: slots of the ring
    IndexMod,       \* 2^32 in the code: the range of the head/tail indexes
    BurstSizes,     \* bound: the n callers pass
    Behaviors,      \* bound: bulk (FIXED) and/or burst (VARIABLE) calls
    Objs,           \* object pointers
    NoObj,          \* content of a slot that was never written
    WaterMarks,     \* the values ring_set_water_mark is called with
    SpEnqueue,      \* RING_F_SP_ENQ
    ScDequeue,      \* RING_F_SC_DEQ
    CmpxchgReturnsOld  \* TRUE: Linux atomic_cmpxchg, which returns the value
                       \* it found; FALSE: a compare-and-set that returns
                       \* whether it stored, which the loops test for

ASSUME SizeAssumption ==
    /\ Size \in Nat \ {0}
    /\ IndexMod \in Nat
    /\ IndexMod >= Size
    /\ IndexMod % Size = 0

ASSUME ThreadAssumption ==
    /\ Producers \cap Consumers = {}
    /\ SpEnqueue \in BOOLEAN /\ ScDequeue \in BOOLEAN
    /\ CmpxchgReturnsOld \in BOOLEAN
    /\ SpEnqueue => \A p, q \in Producers : p = q
    /\ ScDequeue => \A c, d \in Consumers : c = d

Index == 0..IndexMod - 1

Fixed    == "RING_QUEUE_FIXED"
Variable == "RING_QUEUE_VARIABLE"

ASSUME CallAssumption ==
    /\ Behaviors \subseteq {Fixed, Variable}
    /\ BurstSizes \subseteq Index
    /\ WaterMarks \subseteq Nat
    /\ NoObj \notin Objs

Threads == Producers \cup Consumers

VARIABLES
    prodHead, prodTail, consHead, consTail,  \* the four shared indexes
    watermark,                               \* prod.watermark
    ring,                                    \* the slots
    pc,        \* pc[t]: where thread t is
    behavior,  \* behavior[t]: RING_QUEUE_FIXED or RING_QUEUE_VARIABLE
    max,       \* max[t]: the n the caller passed
    n,         \* n[t]: the n of this round
    lhead,     \* lhead[t]: local copy of the own head
    ltail,     \* ltail[t]: local copy of the opposite tail
    copied,    \* copied[t]: loop counter i of the copy macros
    table,     \* table[t]: obj_table
    ret,       \* ret[t]: the result an enqueue is about to return
    lag        \* lag[t]: how far the head moved since t read it

shared == <<prodHead, prodTail, consHead, consTail, watermark, ring>>
local  == <<pc, behavior, max, n, lhead, ltail, copied, table, ret, lag>>
vars   == <<prodHead, prodTail, consHead, consTail, watermark, ring,
            pc, behavior, max, n, lhead, ltail, copied, table, ret, lag>>

mask == Size - 1

\* Mutant of Add: the index is not reduced modulo 2^32.
AddNoWrap(a, b) == a + b

\* uint32_t addition and subtraction.
Add(a, b) == IF a + b >= IndexMod THEN a + b - IndexMod ELSE a + b
Sub(a, b) == IF a >= b THEN a - b ELSE a - b + IndexMod

\* idx & mask.
Slot(i) == i % Size

\* ret of an enqueue that succeeded: 0 or the count, or the water mark is
\* exceeded (-EDQUOT, or the count with RING_QUOT_EXCEED).
NoResult == "none"
Ok       == "ok"
Exceeded == "exceeded"

Bursts == UNION {[1..k -> Objs] : k \in BurstSizes}

-----------------------------------------------------------------------------
\* ring_init
Init ==
    /\ prodHead = 0 /\ prodTail = 0 /\ consHead = 0 /\ consTail = 0
    /\ watermark = Size
    /\ ring = [i \in 0..mask |-> NoObj]
    /\ pc = [t \in Threads |-> "idle"]
    /\ behavior = [t \in Threads |-> Fixed]
    /\ max = [t \in Threads |-> 0]
    /\ n = [t \in Threads |-> 0]
    /\ lhead = [t \in Threads |-> 0]
    /\ ltail = [t \in Threads |-> 0]
    /\ copied = [t \in Threads |-> 0]
    /\ table = [t \in Threads |-> << >>]
    /\ ret = [t \in Threads |-> NoResult]
    /\ lag = [t \in Threads |-> 0]

ring_set_water_mark(count) ==
    /\ count < Size
    /\ watermark' = IF count = 0 THEN Size ELSE count
    /\ UNCHANGED <<prodHead, prodTail, consHead, consTail, ring, local>>

\* t returns to its caller; its locals are gone.
Return(t) ==
    /\ pc' = [pc EXCEPT ![t] = "idle"]
    /\ ret' = [ret EXCEPT ![t] = NoResult]
    /\ table' = [table EXCEPT ![t] = << >>]
    /\ behavior' = [behavior EXCEPT ![t] = Fixed]
    /\ max' = [max EXCEPT ![t] = 0]
    /\ n' = [n EXCEPT ![t] = 0]
    /\ lhead' = [lhead EXCEPT ![t] = 0]
    /\ ltail' = [ltail EXCEPT ![t] = 0]
    /\ copied' = [copied EXCEPT ![t] = 0]
    /\ lag' = [lag EXCEPT ![t] = 0]

\* Where a thread is between its read of the head and its reservation, and
\* between its reservation and its publish.
Window     == {"readTail", "reserve"}
Reservings == {"copy", "publish"}

\* prod.head / cons.head moved by k: the other threads of the side (set T)
\* between their read of it and their compare-and-set fall behind.  The guard
\* is the bound on ABA: none of them is passed by a full turn of the index.
InWindow(t) == pc[t] \in Window

Advance(T, t, k) ==
    /\ \A u \in T \ {t} : InWindow(u) => lag[u] + k < IndexMod
    /\ lag' = [u \in Threads |->
                 IF u \in T \ {t} /\ InWindow(u) THEN lag[u] + k ELSE lag[u]]

\* atomic_cmpxchg(&head, lhead[t], next) of a loop that ends when the result
\* is not 0.
CmpxchgStores(t, head) == head = lhead[t]

LoopEnds(t, head) ==
    IF CmpxchgReturnsOld THEN head # 0 ELSE head = lhead[t]

-----------------------------------------------------------------------------
(* Enqueue.                                                                *)

\* ring_enqueue_bulk / ring_enqueue_burst / ring_enqueue: the call itself,
\* with the early return of the multi-producer path for n == 0.
ring_enqueue(p, objs, b) ==
    /\ pc[p] = "idle"
    /\ IF Len(objs) = 0 /\ ~SpEnqueue
       THEN Return(p)
       ELSE /\ pc' = [pc EXCEPT ![p] = "readHead"]
            /\ behavior' = [behavior EXCEPT ![p] = b]
            /\ max' = [max EXCEPT ![p] = Len(objs)]
            /\ table' = [table EXCEPT ![p] = objs]
            /\ UNCHANGED <<n, lhead, ltail, copied, ret, lag>>
    /\ UNCHANGED shared

EnqReadHead(p) ==
    /\ pc[p] = "readHead"
    /\ pc' = [pc EXCEPT ![p] = "readTail"]
    /\ n' = [n EXCEPT ![p] = max[p]]
    /\ lhead' = [lhead EXCEPT ![p] = prodHead]
    /\ lag' = [lag EXCEPT ![p] = 0]
    /\ UNCHANGED <<shared, behavior, max, ltail, copied, table, ret>>

\* Mutant of EnqReadTail: reads cons.head, so slots still being copied count
\* as free.
EnqReadConsHead(p) ==
    /\ pc[p] = "readTail"
    /\ pc' = [pc EXCEPT ![p] = "reserve"]
    /\ ltail' = [ltail EXCEPT ![p] = consHead]
    /\ UNCHANGED <<shared, behavior, max, n, lhead, copied, table, ret, lag>>

EnqReadTail(p) ==
    /\ pc[p] = "readTail"
    /\ pc' = [pc EXCEPT ![p] = "reserve"]
    /\ ltail' = [ltail EXCEPT ![p] = consTail]
    /\ UNCHANGED <<shared, behavior, max, n, lhead, copied, table, ret, lag>>

\* Mutant of free_entries: size instead of mask, as if no slot stayed empty.
FreeEntriesOffByOne(p) == Sub(Add(Size, ltail[p]), lhead[p])

\* free_entries, from the local copies.
free_entries(p) == Sub(Add(mask, ltail[p]), lhead[p])

\* Not enough room: -ENOBUFS (FIXED), or 0 when nothing fits (VARIABLE).
EnqNoRoom(p) ==
    /\ pc[p] = "reserve"
    /\ n[p] > free_entries(p)
    /\ \/ /\ behavior[p] = Fixed
          /\ Return(p)
       \/ /\ behavior[p] = Variable
          /\ free_entries(p) = 0
          /\ Return(p)
    /\ UNCHANGED shared

\* The n that is reserved when there is room, n truncated to the free entries.
EnqFits(p, k) ==
    \/ n[p] <= free_entries(p) /\ k = n[p]
    \/ n[p] > free_entries(p) /\ behavior[p] = Variable
       /\ free_entries(p) # 0 /\ k = free_entries(p)

EnqReserveSP(p) ==
    /\ SpEnqueue
    /\ pc[p] = "reserve"
    /\ \E k \in 0..max[p] :
          /\ EnqFits(p, k)
          /\ n' = [n EXCEPT ![p] = k]
          /\ prodHead' = Add(lhead[p], k)
          /\ Advance(Producers, p, k)
    /\ pc' = [pc EXCEPT ![p] = "copy"]
    /\ copied' = [copied EXCEPT ![p] = 0]
    /\ UNCHANGED <<prodTail, consHead, consTail, watermark, ring,
                   behavior, max, lhead, ltail, table, ret>>

EnqReserveMP(p) ==
    /\ ~SpEnqueue
    /\ pc[p] = "reserve"
    /\ \E k \in 0..max[p] :
          /\ EnqFits(p, k)
          /\ n' = [n EXCEPT ![p] = k]
          /\ IF CmpxchgStores(p, prodHead)
             THEN prodHead' = Add(lhead[p], k) /\ Advance(Producers, p, k)
             ELSE UNCHANGED <<prodHead, lag>>
    /\ pc' = [pc EXCEPT ![p] = IF LoopEnds(p, prodHead) THEN "copy"
                                                       ELSE "readHead"]
    /\ copied' = [copied EXCEPT ![p] = 0]
    /\ UNCHANGED <<prodTail, consHead, consTail, watermark, ring,
                   behavior, max, lhead, ltail, table, ret>>

\* ENQUEUE_PTRS, one slot at a time.
EnqCopy(p) ==
    /\ pc[p] = "copy"
    /\ copied[p] < n[p]
    /\ ring' = [ring EXCEPT ![Slot(Add(lhead[p], copied[p]))]
                              = table[p][copied[p] + 1]]
    /\ copied' = [copied EXCEPT ![p] = @ + 1]
    /\ UNCHANGED <<prodHead, prodTail, consHead, consTail, watermark,
                   pc, behavior, max, n, lhead, ltail, table, ret, lag>>

\* The result, computed from the free entries seen before the reservation.
EnqWaterMark(p) ==
    /\ pc[p] = "copy"
    /\ copied[p] = n[p]
    /\ ret' = [ret EXCEPT ![p] =
         IF Size - free_entries(p) + n[p] > watermark THEN Exceeded ELSE Ok]
    /\ pc' = [pc EXCEPT ![p] = "publish"]
    /\ UNCHANGED <<shared, behavior, max, n, lhead, ltail, copied, table, lag>>

\* Mutant of EnqPublish: does not wait for its turn.
EnqPublishNoWait(p) ==
    /\ pc[p] = "publish"
    /\ prodTail' = Add(lhead[p], n[p])
    /\ Return(p)
    /\ UNCHANGED <<prodHead, consHead, consTail, watermark, ring>>

\* Mutant of EnqPublish: the wait is for prod_next, the end of the own entries.
EnqPublishWaitsNext(p) ==
    /\ pc[p] = "publish"
    /\ SpEnqueue \/ prodTail = Add(lhead[p], n[p])
    /\ prodTail' = Add(lhead[p], n[p])
    /\ Return(p)
    /\ UNCHANGED <<prodHead, consHead, consTail, watermark, ring>>

\* MP waits for the enqueues that reserved before it.
EnqPublish(p) ==
    /\ pc[p] = "publish"
    /\ SpEnqueue \/ prodTail = lhead[p]
    /\ prodTail' = Add(lhead[p], n[p])
    /\ Return(p)
    /\ UNCHANGED <<prodHead, consHead, consTail, watermark, ring>>

-----------------------------------------------------------------------------
(* Dequeue.                                                                *)

\* ring_dequeue_bulk / ring_dequeue_burst / ring_dequeue: the call itself.
ring_dequeue(c, k, b) ==
    /\ pc[c] = "idle"
    /\ IF k = 0 /\ ~ScDequeue
       THEN Return(c)
       ELSE /\ pc' = [pc EXCEPT ![c] = "readHead"]
            /\ behavior' = [behavior EXCEPT ![c] = b]
            /\ max' = [max EXCEPT ![c] = k]
            /\ UNCHANGED <<n, lhead, ltail, copied, table, ret, lag>>
    /\ UNCHANGED shared

DeqReadHead(c) ==
    /\ pc[c] = "readHead"
    /\ pc' = [pc EXCEPT ![c] = "readTail"]
    /\ n' = [n EXCEPT ![c] = max[c]]
    /\ lhead' = [lhead EXCEPT ![c] = consHead]
    /\ lag' = [lag EXCEPT ![c] = 0]
    /\ UNCHANGED <<shared, behavior, max, ltail, copied, table, ret>>

DeqReadTail(c) ==
    /\ pc[c] = "readTail"
    /\ pc' = [pc EXCEPT ![c] = "reserve"]
    /\ ltail' = [ltail EXCEPT ![c] = prodTail]
    /\ UNCHANGED <<shared, behavior, max, n, lhead, copied, table, ret, lag>>

\* entries, from the local copies.
entries(c) == Sub(ltail[c], lhead[c])

\* Mutant of DeqNoEntries: no early return for a burst that finds nothing.
DeqNoEntriesFixedOnly(c) ==
    /\ pc[c] = "reserve"
    /\ n[c] > entries(c)
    /\ behavior[c] = Fixed
    /\ Return(c)
    /\ UNCHANGED shared

DeqNoEntries(c) ==
    /\ pc[c] = "reserve"
    /\ n[c] > entries(c)
    /\ \/ /\ behavior[c] = Fixed
          /\ Return(c)
       \/ /\ behavior[c] = Variable
          /\ entries(c) = 0
          /\ Return(c)
    /\ UNCHANGED shared

DeqFits(c, k) ==
    \/ n[c] <= entries(c) /\ k = n[c]
    \/ n[c] > entries(c) /\ behavior[c] = Variable
       /\ entries(c) # 0 /\ k = entries(c)

DeqReserveSC(c) ==
    /\ ScDequeue
    /\ pc[c] = "reserve"
    /\ \E k \in 0..max[c] :
          /\ DeqFits(c, k)
          /\ n' = [n EXCEPT ![c] = k]
          /\ consHead' = Add(lhead[c], k)
          /\ Advance(Consumers, c, k)
    /\ pc' = [pc EXCEPT ![c] = "copy"]
    /\ copied' = [copied EXCEPT ![c] = 0]
    /\ UNCHANGED <<prodHead, prodTail, consTail, watermark, ring,
                   behavior, max, lhead, ltail, table, ret>>

DeqReserveMC(c) ==
    /\ ~ScDequeue
    /\ pc[c] = "reserve"
    /\ \E k \in 0..max[c] :
          /\ DeqFits(c, k)
          /\ n' = [n EXCEPT ![c] = k]
          /\ IF CmpxchgStores(c, consHead)
             THEN consHead' = Add(lhead[c], k) /\ Advance(Consumers, c, k)
             ELSE UNCHANGED <<consHead, lag>>
    /\ pc' = [pc EXCEPT ![c] = IF LoopEnds(c, consHead) THEN "copy"
                                                       ELSE "readHead"]
    /\ copied' = [copied EXCEPT ![c] = 0]
    /\ UNCHANGED <<prodHead, prodTail, consTail, watermark, ring,
                   behavior, max, lhead, ltail, table, ret>>

\* Mutant of DeqCopy: the slot is not masked with the loop counter.
DeqCopyFirst(c) ==
    /\ pc[c] = "copy"
    /\ copied[c] < n[c]
    /\ table' = [table EXCEPT ![c] = Append(@, ring[Slot(lhead[c])])]
    /\ copied' = [copied EXCEPT ![c] = @ + 1]
    /\ UNCHANGED <<shared, pc, behavior, max, n, lhead, ltail, ret, lag>>

\* DEQUEUE_PTRS, one slot at a time.
DeqCopy(c) ==
    /\ pc[c] = "copy"
    /\ copied[c] < n[c]
    /\ table' = [table EXCEPT ![c] =
                   Append(@, ring[Slot(Add(lhead[c], copied[c]))])]
    /\ copied' = [copied EXCEPT ![c] = @ + 1]
    /\ UNCHANGED <<shared, pc, behavior, max, n, lhead, ltail, ret, lag>>

DeqPublish(c) ==
    /\ pc[c] = "copy"
    /\ copied[c] = n[c]
    /\ ScDequeue \/ consTail = lhead[c]
    /\ consTail' = Add(lhead[c], n[c])
    /\ Return(c)
    /\ UNCHANGED <<prodHead, prodTail, consHead, watermark, ring>>

-----------------------------------------------------------------------------
EnqStep(p) ==
    \/ EnqReadHead(p) \/ EnqReadTail(p) \/ EnqNoRoom(p)
    \/ EnqReserveSP(p) \/ EnqReserveMP(p)
    \/ EnqCopy(p) \/ EnqWaterMark(p) \/ EnqPublish(p)

DeqStep(c) ==
    \/ DeqReadHead(c) \/ DeqReadTail(c) \/ DeqNoEntries(c)
    \/ DeqReserveSC(c) \/ DeqReserveMC(c)
    \/ DeqCopy(c) \/ DeqPublish(c)

Call ==
    \/ \E p \in Producers, objs \in Bursts, b \in Behaviors :
          ring_enqueue(p, objs, b)
    \/ \E c \in Consumers, k \in BurstSizes, b \in Behaviors :
          ring_dequeue(c, k, b)

Next ==
    \/ Call
    \/ \E p \in Producers : EnqStep(p)
    \/ \E c \in Consumers : DeqStep(c)
    \/ \E count \in WaterMarks : ring_set_water_mark(count)

Spec == Init /\ [][Next]_vars

\* A thread inside a ring function keeps running (nothing blocks it but the
\* wait for its turn); no caller is obliged to call.
Fairness ==
    /\ \A p \in Producers : WF_vars(EnqStep(p))
    /\ \A c \in Consumers : WF_vars(DeqStep(c))

FairSpec == Spec /\ Fairness
-----------------------------------------------------------------------------
(* Properties.                                                             *)

SharedOK ==
    /\ prodHead \in Index /\ prodTail \in Index
    /\ consHead \in Index /\ consTail \in Index
    /\ watermark \in Nat
    /\ ring \in [0..mask -> Objs \cup {NoObj}]

LocalOK ==
    /\ pc \in [Threads -> {"idle", "readHead", "readTail", "reserve", "copy",
                           "publish"}]
    /\ behavior \in [Threads -> {Fixed, Variable}]
    /\ max \in [Threads -> Index]
    /\ n \in [Threads -> Index]
    /\ lhead \in [Threads -> Index]
    /\ ltail \in [Threads -> Index]
    /\ copied \in [Threads -> Index]
    /\ table \in [Threads -> Seq(Objs \cup {NoObj})]
    /\ ret \in [Threads -> {NoResult, Ok, Exceeded}]
    /\ lag \in [Threads -> Index]

\* Every variable holds a value of its C type; a slot holds an object or is
\* still unwritten.
TypeOK == SharedOK /\ LocalOK

\* A thread that has reserved slots and not yet published them.
Reserving(t) == pc[t] \in Reservings

\* The indexes keep their order cons.tail, cons.head, prod.tail, prod.head
\* around the 2^32 circle, with at most size - 1 entries between the first and
\* the last, across index wrap-around and stale reads of the opposite tail.
IndexOrder ==
    Sub(consHead, consTail) + Sub(prodTail, consHead) + Sub(prodHead, prodTail)
      <= mask

\* The indexes t has reserved.
Reserved(t) == {Add(lhead[t], i) : i \in 0..n[t] - 1}

\* No two threads of a side own the same slot, and no producer writes a slot
\* a consumer is still to read ("multi-producers safe", "multi-consumers
\* safe").
ExclusiveSlots ==
    \A t, u \in Threads :
       t # u /\ Reserving(t) /\ Reserving(u) =>
          {Slot(i) : i \in Reserved(t)} \cap {Slot(i) : i \in Reserved(u)} = {}

\* Unpublished entries always have an owner that need not wait: whoever
\* reserved the entry at the tail.  Without it everyone waits for a turn that
\* never comes.
TailHasOwner ==
    /\ prodTail # prodHead =>
          \E p \in Producers : Reserving(p) /\ lhead[p] = prodTail
    /\ consTail # consHead =>
          \E c \in Consumers : Reserving(c) /\ lhead[c] = consTail

\* An enqueue reports that the water mark is exceeded only when one is set:
\* with water marking disabled the result never says so, however stale the
\* tail was that the free entries were computed from.
QuotaNeedsWaterMark ==
    [][\A p \in Producers :
         ret[p] # Exceeded /\ ret'[p] = Exceeded => watermark < Size]_vars

\* The ring implements the bounded queue: objects leave in the order of the
\* publishes, none lost, duplicated or overwritten while being copied out.
Contents == [i \in 1..Sub(prodTail, consHead) |-> ring[Slot(Add(consHead, i - 1))]]

TakenBy(c) ==
    IF pc[c] = "copy"
    THEN [i \in 1..n[c] |-> IF i <= copied[c] THEN table[c][i]
                            ELSE ring[Slot(Add(lhead[c], i - 1))]]
    ELSE << >>

Fifo == INSTANCE BoundedFifo WITH
    Capacity <- mask,
    queue    <- Contents,
    pending  <- [p \in Producers |-> table[p]],
    taken    <- [c \in Consumers |-> TakenBy(c)]

ImplementsFifo == Fifo!Spec

\* What makes IndexOrder inductive.  Locals of a thread in a call are bounded
\* by the call's n (a multi-producer call of 0 returns at once).
CallInv ==
    \A t \in Threads :
       /\ InWindow(t) => n[t] = max[t]
       /\ Reserving(t) => copied[t] <= n[t] /\ n[t] <= max[t]
       /\ t \in Producers => Len(table[t]) = max[t]
       /\ t \in Producers /\ ~SpEnqueue /\ pc[t] # "idle" => max[t] > 0
       /\ t \in Consumers /\ ~ScDequeue /\ pc[t] # "idle" => max[t] > 0

\* The threads T of one side: a thread between its read of the head and its
\* reservation knows how far the head moved since; a reserved range lies
\* between tail and head (a single thread's range is all of it) and two of
\* them never overlap.
SideInv(T, single, head, tail, pcs, ns, lheads, lags) ==
    /\ \A t \in T : pcs[t] \in Window =>
          /\ Sub(head, lheads[t]) = lags[t]
          /\ single => lheads[t] = head
    /\ \A t \in T : pcs[t] \in Reservings =>
          /\ Sub(lheads[t], tail) + ns[t] <= Sub(head, tail)
          /\ single => lheads[t] = tail /\ Add(lheads[t], ns[t]) = head
          /\ ~single => ns[t] > 0
    /\ \A t \in T : single /\ pcs[t] \notin Reservings => head = tail
    /\ \A t, u \in T :
          t # u /\ pcs[t] \in Reservings /\ pcs[u] \in Reservings =>
             \/ Sub(lheads[t], tail) + ns[t] <= Sub(lheads[u], tail)
             \/ Sub(lheads[u], tail) + ns[u] <= Sub(lheads[t], tail)

ProdSide == SideInv(Producers, SpEnqueue, prodHead, prodTail, pc, n, lhead, lag)
ConsSide == SideInv(Consumers, ScDequeue, consHead, consTail, pc, n, lhead, lag)

\* If the head did not move since a thread read it, the room (the entries) it
\* computed from the opposite tail is still there.
ProdRoom ==
    \A p \in Producers : pc[p] = "reserve" /\ lhead[p] = prodHead =>
       free_entries(p) <= mask - Sub(prodHead, consTail)
ConsRoom ==
    \A c \in Consumers : pc[c] = "reserve" /\ lhead[c] = consHead =>
       entries(c) <= Sub(prodTail, consHead)

RingInv ==
    /\ TypeOK
    /\ IndexOrder
    /\ CallInv
    /\ ProdSide
    /\ ConsSide
    /\ ProdRoom
    /\ ConsRoom

\* ring_full, ring_empty, ring_count and ring_free_count.
ring_full  == Slot(Sub(Sub(consTail, prodTail), 1)) = 0
ring_empty == consTail = prodTail
ring_count == Slot(Sub(prodTail, consTail))
ring_free_count == Slot(Sub(Sub(consTail, prodTail), 1))

\* In every state the counting functions agree with each other and with the
\* published entries whose slots are not yet free, across the index
\* wrap-around: the masks in them lose nothing.
CountsAgree ==
    /\ ring_count = Sub(prodTail, consTail)
    /\ ring_free_count = mask - ring_count
    /\ ring_full <=> ring_count = mask
    /\ ring_empty <=> ring_count = 0

\* Every call of a thread that is alone on its side returns, whatever the
\* other side does, through the single or the multi path.
CallsReturn ==
    /\ \A p \in Producers : Producers = {p} => (pc[p] # "idle" ~> pc[p] = "idle")
    /\ \A c \in Consumers : Consumers = {c} => (pc[c] # "idle" ~> pc[c] = "idle")

\* A thread that has reserved slots publishes them: it waits only for threads
\* that reserved before it.
ReservationsPublished ==
    \A t \in Threads : Reserving(t) ~> ~Reserving(t)
=============================================================================
