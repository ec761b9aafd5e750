----------------------------- MODULE NetProofs ------------------------------
(***************************************************************************)
(* Proofs about the packet buffers, their pages, the ARP table and the     *)
(* locks of Net, for any CPUs, addresses, pool sizes and queue lengths.    *)
(*                                                                         *)
(* OneEntry is inductive as it stands.  LocksReleased needs where a CPU is *)
(* while it holds a lock.  OneHolder needs most: which places a buffer can *)
(* be in (Owned), who may touch a pending packet between cpu_run_on_one    *)
(* and dispatched = 1 (Posted), and why a look-up that once succeeded      *)
(* succeeds again (Resolved).  PagesPinned counts, CPU by CPU, the iovs of *)
(* the buffers that bsys_udp_send filled and that are still in its hands   *)
(* or on its transmit queue (Pages).                                       *)
(***************************************************************************)
EXTENDS Net, FiniteSetTheorems, TLAPS

\* What a CPU's program counter says about its locals ...
LocalsOk(r) ==
    /\ r.pc = "idle" <=> r.job = "none"
    /\ r.pc \in {"idle", "unlink"} <=> r.mbuf = None
    /\ r.pc = "unlink" => r.job = "pending"
    /\ r.job = "pending" =>
          r.pc \in {"lookup", "lock", "found", "absent", "send", "park", "queue", "unlink"}
    /\ r.pc \in {"walklock", "walk", "mark", "reply"} => r.job = "arp"
    /\ r.pc \in {"found", "queue", "walklock", "walk", "mark"} => r.ent \in Entries
    /\ r.pc \in {"lookup", "lock", "found", "absent", "park", "queue"} => r.addr \in Addrs
    /\ r.job # "arp" \/ r.pc = "lock" => r.create
    /\ r.pc \in {"park", "queue"} => r.job # "udp"

\* ... and about the locks.
Control ==
    /\ \A c \in Cpus : /\ LocalsOk(cpu[c])
                       /\ pending_pkt_lock = c <=> cpu[c].pc \in {"walk", "mark"}
    /\ arp_lock # None => "arp" \in exhausted

\* An element of the mempool of pending packets is empty; a linked one has a
\* packet and the CPU that queued it.
Linked ==
    \A p \in Pendings :
        /\ pend[p].ent = None => pend[p] = NoPending
        /\ pend[p].ent # None => /\ pend[p].mbuf \in Mbufs /\ pend[p].cpu \in Cpus
                                 /\ pend[p].addr \in Addrs

\* CPU c has posted p and has still to mark it.
Marking(p) == \E c \in Cpus : cpu[c].pc = "mark" /\ cpu[c].pend = p

\* A pending packet that is posted or being sent is linked, and marked or
\* about to be; it is posted to one CPU, or sent by one.  What the walk has
\* still to post is linked and not marked.
Posted ==
    /\ \A c \in Cpus : \A p \in inbox[c] :
          /\ pend[p].ent # None /\ pend[p].cpu = c /\ ~Running(p)
          /\ pend[p].dispatched \/ Marking(p)
    /\ \A c \in Cpus : cpu[c].job = "pending" =>
          /\ cpu[c].pend \in Pendings /\ pend[cpu[c].pend].ent # None
          /\ pend[cpu[c].pend].dispatched \/ Marking(cpu[c].pend)
          /\ \A d \in Cpus : cpu[d].job = "pending" /\ cpu[d].pend = cpu[c].pend => d = c
    /\ \A c \in Cpus : cpu[c].pc \in {"walk", "mark"} =>
          \A p \in cpu[c].todo : /\ pend[p].ent # None /\ ~pend[p].dispatched
                                 /\ cpu[c].pc = "mark" => cpu[c].pend # p
    /\ \A c \in Cpus : cpu[c].pc = "mark" =>
          cpu[c].pend \in Pendings /\ pend[cpu[c].pend].ent # None

\* The entry a CPU found is still there when it parks the packet.  The
\* look-up of a packet to send fails only when arp_mempool was empty.
Known(a) == \E e \in Entries : entry[e].addr = a
ResolvedAt(r) ==
    /\ r.pc = "found" => entry[r.ent].addr = r.addr
    /\ r.pc = "absent" /\ r.create => "arp" \in exhausted
    /\ r.pc = "park" => Known(r.addr) \/ "arp" \in exhausted
Resolved == /\ \A c \in Cpus : ResolvedAt(cpu[c])
            /\ dropped # {} => exhausted # {}

\* Where the buffers are: loc[c] is the one CPU c works on, wait[p] the one
\* that waits in p and that nobody is sending yet.
Loc == [c \in Cpus |-> cpu[c].mbuf]
Wait == [p \in Pendings |-> IF Running(p) THEN None ELSE pend[p].mbuf]

\* A buffer is free, or with one CPU, or once in one queue, or with the
\* application, or in one pending packet, or dropped.
OwnedAt(m, fr, loc, tx, ap, wt, dr) ==
    /\ fr[m] \in {0, 1}
    /\ fr[m] = 1 => /\ \A c \in Cpus : loc[c] # m
                    /\ \A c \in Cpus : \A i \in 1..Len(tx[c]) : tx[c][i] # m
                    /\ m \notin ap /\ m \notin dr
                    /\ \A p \in Pendings : wt[p] # m
    /\ \A c \in Cpus : loc[c] = m =>
          /\ \A d \in Cpus : loc[d] = m => d = c
          /\ \A d \in Cpus : \A i \in 1..Len(tx[d]) : tx[d][i] # m
          /\ m \notin ap /\ m \notin dr
          /\ \A p \in Pendings : wt[p] # m
    /\ \A c \in Cpus : \A i \in 1..Len(tx[c]) : tx[c][i] = m =>
          /\ \A d \in Cpus : \A j \in 1..Len(tx[d]) : tx[d][j] = m => d = c /\ j = i
          /\ m \notin ap /\ m \notin dr
          /\ \A p \in Pendings : wt[p] # m
    /\ m \in ap => m \notin dr /\ \A p \in Pendings : wt[p] # m
    /\ \A p \in Pendings : wt[p] = m =>
          m \notin dr /\ \A q \in Pendings : wt[q] = m => q = p
    /\ \/ fr[m] = 1 \/ m \in ap \/ m \in dr
       \/ \E c \in Cpus : loc[c] = m
       \/ \E c \in Cpus : \E i \in 1..Len(tx[c]) : tx[c][i] = m
       \/ \E p \in Pendings : wt[p] = m

Owned(fr, loc, tx, ap, wt, dr) ==
    \A m \in Mbufs : OwnedAt(m, fr, loc, tx, ap, wt, dr)

Buffers == /\ Owned(freed, Loc, txq, app, Wait, dropped)
           /\ \A m \in Mbufs : done[m] = "udp" <=> m \in app

\* Which packets have iovs, and whose page references they are: a packet of
\* bsys_udp_send until its buffer is freed, with the CPU that sends it.
Jobs == [c \in Cpus |-> cpu[c].job]
PinsAt(ni, q, job, m) ==
    {x \in Mbufs \X (1..2) : /\ x[2] <= ni[x[1]]
                             /\ \/ \E i \in 1..Len(q) : q[i] = x[1]
                                \/ job = "udp" /\ m = x[1]}
PagesOk(fr, dn, ni, tx, pr, jobs, loc, wt) ==
    /\ \A m \in Mbufs : (ni[m] # 0 => dn[m] = "sent") /\ (fr[m] > 0 => dn[m] = "null")
    /\ \A c \in Cpus : loc[c] \in Mbufs => (dn[loc[c]] = "sent" <=> jobs[c] = "udp")
    /\ \A p \in Pendings : wt[p] \in Mbufs => dn[wt[p]] # "sent"
    /\ \A c \in Cpus : pr[c] = Cardinality(PinsAt(ni, tx[c], jobs[c], loc[c]))
Pages == PagesOk(freed, done, nr_iov, txq, page_refs, Jobs, Loc, Wait)

NetInv == TypeOK /\ Control /\ Linked /\ Posted /\ Resolved /\ Buffers /\ Pages

-----------------------------------------------------------------------------
(* A buffer changes hands *)

\* No place of any kind lost or got the buffer x.
SamePlace(x, fr, loc, ap, wt, dr, f, l, a, w, e) ==
    /\ f[x] = fr[x]
    /\ x \in a <=> x \in ap
    /\ x \in e <=> x \in dr
    /\ \A d \in Cpus : l[d] = x <=> loc[d] = x
    /\ \A q \in Pendings : w[q] = x <=> wt[q] = x

\* A buffer that no place lost or got keeps its owner, whatever happens to
\* the other buffers.
LEMMA NoPlaceChanged ==
    ASSUME NEW x, NEW fr, NEW loc, NEW tx, NEW ap, NEW wt, NEW dr,
           NEW f, NEW l, NEW a, NEW w, NEW e,
           OwnedAt(x, fr, loc, tx, ap, wt, dr),
           SamePlace(x, fr, loc, ap, wt, dr, f, l, a, w, e)
    PROVE  OwnedAt(x, f, l, tx, a, w, e)
  BY DEF OwnedAt, SamePlace

\* A CPU takes a buffer from the pool: each buffer still has one place.
LEMMA FreeToCpu ==
    ASSUME NEW fr \in [Mbufs -> Nat], NEW loc \in [Cpus -> Mbufs \cup {None}],
           NEW tx \in [Cpus -> Seq(Mbufs)], NEW ap \in SUBSET Mbufs,
           NEW wt \in [Pendings -> Mbufs \cup {None}], NEW dr \in SUBSET Mbufs,
           Owned(fr, loc, tx, ap, wt, dr), 
           NEW c \in Cpus, loc[c] = None, NEW m \in Mbufs, fr[m] > 0
    PROVE  Owned([fr EXCEPT ![m] = @ - 1], [loc EXCEPT ![c] = m], tx, ap, wt, dr)
  <1>1. ASSUME NEW x \in Mbufs, x # m PROVE OwnedAt(x, [fr EXCEPT ![m] = @ - 1], [loc EXCEPT ![c] = m], tx, ap, wt, dr)
    <2>1. OwnedAt(x, fr, loc, tx, ap, wt, dr)  BY DEF Owned
    <2>2. [fr EXCEPT ![m] = @ - 1][x] = fr[x]
      BY <1>1, NetAssumption
    <2>3. \A d \in Cpus : [loc EXCEPT ![c] = m][d] = x <=> loc[d] = x
      BY <1>1, NetAssumption
    <2>4. SamePlace(x, fr, loc, ap, wt, dr, [fr EXCEPT ![m] = @ - 1], [loc EXCEPT ![c] = m], ap, wt, dr)
      BY <2>2, <2>3, Zenon DEF SamePlace
    <2> QED BY <2>1, <2>4, NoPlaceChanged
  <1>2. OwnedAt(m, [fr EXCEPT ![m] = @ - 1], [loc EXCEPT ![c] = m], tx, ap, wt, dr)
    <2>1. OwnedAt(m, fr, loc, tx, ap, wt, dr)  BY DEF Owned
    <2> QED BY <2>1, NetAssumption DEF OwnedAt
  <1>3. ASSUME NEW x \in Mbufs PROVE OwnedAt(x, [fr EXCEPT ![m] = @ - 1], [loc EXCEPT ![c] = m], tx, ap, wt, dr)
    <2>1. CASE x = m  BY <2>1, <1>2
    <2> QED BY <2>1, <1>1
  <1> QED BY <1>3, Zenon DEF Owned

\* A CPU gives its buffer back to the pool.
LEMMA CpuToFree ==
    ASSUME NEW fr \in [Mbufs -> Nat], NEW loc \in [Cpus -> Mbufs \cup {None}],
           NEW tx \in [Cpus -> Seq(Mbufs)], NEW ap \in SUBSET Mbufs,
           NEW wt \in [Pendings -> Mbufs \cup {None}], NEW dr \in SUBSET Mbufs,
           Owned(fr, loc, tx, ap, wt, dr), 
           NEW c \in Cpus, loc[c] \in Mbufs
    PROVE  Owned([fr EXCEPT ![loc[c]] = @ + 1], [loc EXCEPT ![c] = None], tx, ap, wt, dr)
  <1>1. ASSUME NEW x \in Mbufs, x # loc[c] PROVE OwnedAt(x, [fr EXCEPT ![loc[c]] = @ + 1], [loc EXCEPT ![c] = None], tx, ap, wt, dr)
    <2>1. OwnedAt(x, fr, loc, tx, ap, wt, dr)  BY DEF Owned
    <2>2. [fr EXCEPT ![loc[c]] = @ + 1][x] = fr[x]
      BY <1>1, NetAssumption
    <2>3. \A d \in Cpus : [loc EXCEPT ![c] = None][d] = x <=> loc[d] = x
      BY <1>1, NetAssumption
    <2>4. SamePlace(x, fr, loc, ap, wt, dr, [fr EXCEPT ![loc[c]] = @ + 1], [loc EXCEPT ![c] = None], ap, wt, dr)
      BY <2>2, <2>3, Zenon DEF SamePlace
    <2> QED BY <2>1, <2>4, NoPlaceChanged
  <1>2. OwnedAt(loc[c], [fr EXCEPT ![loc[c]] = @ + 1], [loc EXCEPT ![c] = None], tx, ap, wt, dr)
    <2>1. OwnedAt(loc[c], fr, loc, tx, ap, wt, dr)  BY DEF Owned
    <2> QED BY <2>1, NetAssumption DEF OwnedAt
  <1>3. ASSUME NEW x \in Mbufs PROVE OwnedAt(x, [fr EXCEPT ![loc[c]] = @ + 1], [loc EXCEPT ![c] = None], tx, ap, wt, dr)
    <2>1. CASE x = loc[c]  BY <2>1, <1>2
    <2> QED BY <2>1, <1>1
  <1> QED BY <1>3, Zenon DEF Owned

\* A CPU loses its buffer on the path that does not free it.
LEMMA CpuToDropped ==
    ASSUME NEW fr \in [Mbufs -> Nat], NEW loc \in [Cpus -> Mbufs \cup {None}],
           NEW tx \in [Cpus -> Seq(Mbufs)], NEW ap \in SUBSET Mbufs,
           NEW wt \in [Pendings -> Mbufs \cup {None}], NEW dr \in SUBSET Mbufs,
           Owned(fr, loc, tx, ap, wt, dr), 
           NEW c \in Cpus, loc[c] \in Mbufs
    PROVE  Owned(fr, [loc EXCEPT ![c] = None], tx, ap, wt, dr \cup {loc[c]})
  <1>1. ASSUME NEW x \in Mbufs, x # loc[c] PROVE OwnedAt(x, fr, [loc EXCEPT ![c] = None], tx, ap, wt, dr \cup {loc[c]})
    <2>1. OwnedAt(x, fr, loc, tx, ap, wt, dr)  BY DEF Owned
    <2>2. x \in dr \cup {loc[c]} <=> x \in dr
      BY <1>1, NetAssumption
    <2>3. \A d \in Cpus : [loc EXCEPT ![c] = None][d] = x <=> loc[d] = x
      BY <1>1, NetAssumption
    <2>4. SamePlace(x, fr, loc, ap, wt, dr, fr, [loc EXCEPT ![c] = None], ap, wt, dr \cup {loc[c]})
      BY <2>2, <2>3, Zenon DEF SamePlace
    <2> QED BY <2>1, <2>4, NoPlaceChanged
  <1>2. OwnedAt(loc[c], fr, [loc EXCEPT ![c] = None], tx, ap, wt, dr \cup {loc[c]})
    <2>1. OwnedAt(loc[c], fr, loc, tx, ap, wt, dr)  BY DEF Owned
    <2> QED BY <2>1, NetAssumption DEF OwnedAt
  <1>3. ASSUME NEW x \in Mbufs PROVE OwnedAt(x, fr, [loc EXCEPT ![c] = None], tx, ap, wt, dr \cup {loc[c]})
    <2>1. CASE x = loc[c]  BY <2>1, <1>2
    <2> QED BY <2>1, <1>1
  <1> QED BY <1>3, Zenon DEF Owned

\* A CPU parks its buffer in a pending packet.
LEMMA CpuToPending ==
    ASSUME NEW fr \in [Mbufs -> Nat], NEW loc \in [Cpus -> Mbufs \cup {None}],
           NEW tx \in [Cpus -> Seq(Mbufs)], NEW ap \in SUBSET Mbufs,
           NEW wt \in [Pendings -> Mbufs \cup {None}], NEW dr \in SUBSET Mbufs,
           Owned(fr, loc, tx, ap, wt, dr), 
           NEW c \in Cpus, loc[c] \in Mbufs, NEW p \in Pendings, wt[p] = None
    PROVE  Owned(fr, [loc EXCEPT ![c] = None], tx, ap, [wt EXCEPT ![p] = loc[c]], dr)
  <1>1. ASSUME NEW x \in Mbufs, x # loc[c] PROVE OwnedAt(x, fr, [loc EXCEPT ![c] = None], tx, ap, [wt EXCEPT ![p] = loc[c]], dr)
    <2>1. OwnedAt(x, fr, loc, tx, ap, wt, dr)  BY DEF Owned
    <2>2. \A d \in Cpus : [loc EXCEPT ![c] = None][d] = x <=> loc[d] = x
      BY <1>1, NetAssumption
    <2>3. \A q \in Pendings : [wt EXCEPT ![p] = loc[c]][q] = x <=> wt[q] = x
      BY <1>1, NetAssumption
    <2>4. SamePlace(x, fr, loc, ap, wt, dr, fr, [loc EXCEPT ![c] = None], ap, [wt EXCEPT ![p] = loc[c]], dr)
      BY <2>2, <2>3, Zenon DEF SamePlace
    <2> QED BY <2>1, <2>4, NoPlaceChanged
  <1>2. OwnedAt(loc[c], fr, [loc EXCEPT ![c] = None], tx, ap, [wt EXCEPT ![p] = loc[c]], dr)
    <2>1. OwnedAt(loc[c], fr, loc, tx, ap, wt, dr)  BY DEF Owned
    <2> QED BY <2>1, NetAssumption DEF OwnedAt
  <1>3. ASSUME NEW x \in Mbufs PROVE OwnedAt(x, fr, [loc EXCEPT ![c] = None], tx, ap, [wt EXCEPT ![p] = loc[c]], dr)
    <2>1. CASE x = loc[c]  BY <2>1, <1>2
    <2> QED BY <2>1, <1>1
  <1> QED BY <1>3, Zenon DEF Owned

\* A buffer that a CPU holds and no other place does is owned by that CPU.
LEMMA HeldByOne ==
    ASSUME NEW m, NEW fr, NEW l, NEW tx, NEW ap, NEW w, NEW dr, NEW c \in Cpus,
           l[c] = m, fr[m] = 0, m \notin ap, m \notin dr,
           \A d \in Cpus \ {c} : l[d] # m,
           \A d \in Cpus : \A i \in 1..Len(tx[d]) : tx[d][i] # m,
           \A q \in Pendings : w[q] # m
    PROVE  OwnedAt(m, fr, l, tx, ap, w, dr)
  BY DEF OwnedAt

\* A CPU takes the buffer of a pending packet.
LEMMA PendingToCpu ==
    ASSUME NEW fr \in [Mbufs -> Nat], NEW loc \in [Cpus -> Mbufs \cup {None}],
           NEW tx \in [Cpus -> Seq(Mbufs)], NEW ap \in SUBSET Mbufs,
           NEW wt \in [Pendings -> Mbufs \cup {None}], NEW dr \in SUBSET Mbufs,
           Owned(fr, loc, tx, ap, wt, dr), 
           NEW c \in Cpus, loc[c] = None, NEW p \in Pendings, wt[p] \in Mbufs
    PROVE  Owned(fr, [loc EXCEPT ![c] = wt[p]], tx, ap, [wt EXCEPT ![p] = None], dr)
<1> DEFINE m == wt[p]
           l == [loc EXCEPT ![c] = m]
           w == [wt EXCEPT ![p] = None]
<1>1. l[c] = m /\ \A d \in Cpus \ {c} : l[d] = loc[d]
  OBVIOUS
<1>2. w[p] = None /\ \A q \in Pendings \ {p} : w[q] = wt[q]
  OBVIOUS
<1>3. m # None
  BY NetAssumption
<1> HIDE DEF m, l, w
<1>4. ASSUME NEW x \in Mbufs, x # m PROVE OwnedAt(x, fr, l, tx, ap, w, dr)
  <2>1. OwnedAt(x, fr, loc, tx, ap, wt, dr)
    BY DEF Owned
  <2>2. \A d \in Cpus : l[d] = x <=> loc[d] = x
    BY <1>1, <1>4, NetAssumption
  <2>3. \A q \in Pendings : w[q] = x <=> wt[q] = x
    BY <1>2, <1>4, NetAssumption DEF m
  <2>4. SamePlace(x, fr, loc, ap, wt, dr, fr, l, ap, w, dr)
    BY <2>2, <2>3, Zenon DEF SamePlace
  <2> QED BY <2>1, <2>4, NoPlaceChanged
<1>5. OwnedAt(m, fr, l, tx, ap, w, dr)
  <2>1. OwnedAt(m, fr, loc, tx, ap, wt, dr)
    BY DEF Owned, m
  <2>2. \A q \in Pendings : w[q] # m
    BY <1>2, <1>3, <2>1 DEF OwnedAt, m
  <2>3. /\ fr[m] = 0 /\ m \notin ap /\ m \notin dr /\ \A d \in Cpus : loc[d] # m
        /\ \A d \in Cpus : \A i \in 1..Len(tx[d]) : tx[d][i] # m
    BY <2>1 DEF OwnedAt, m
  <2>4. \A d \in Cpus \ {c} : l[d] # m
    BY <1>1, <2>3
  <2> QED BY <1>1, <2>2, <2>3, <2>4, HeldByOne
<1>6. Owned(fr, l, tx, ap, w, dr)  BY <1>4, <1>5 DEF Owned
<1> QED BY <1>6 DEF l, w, m

\* A received buffer is given to the application.
LEMMA FreeToApp ==
    ASSUME NEW fr \in [Mbufs -> Nat], NEW loc \in [Cpus -> Mbufs \cup {None}],
           NEW tx \in [Cpus -> Seq(Mbufs)], NEW ap \in SUBSET Mbufs,
           NEW wt \in [Pendings -> Mbufs \cup {None}], NEW dr \in SUBSET Mbufs,
           Owned(fr, loc, tx, ap, wt, dr), 
           NEW m \in Mbufs, fr[m] > 0
    PROVE  Owned([fr EXCEPT ![m] = @ - 1], loc, tx, ap \cup {m}, wt, dr)
  <1>1. ASSUME NEW x \in Mbufs, x # m PROVE OwnedAt(x, [fr EXCEPT ![m] = @ - 1], loc, tx, ap \cup {m}, wt, dr)
    <2>1. OwnedAt(x, fr, loc, tx, ap, wt, dr)  BY DEF Owned
    <2>2. [fr EXCEPT ![m] = @ - 1][x] = fr[x]
      BY <1>1, NetAssumption
    <2>3. x \in ap \cup {m} <=> x \in ap
      BY <1>1, NetAssumption
    <2>4. SamePlace(x, fr, loc, ap, wt, dr, [fr EXCEPT ![m] = @ - 1], loc, ap \cup {m}, wt, dr)
      BY <2>2, <2>3, Zenon DEF SamePlace
    <2> QED BY <2>1, <2>4, NoPlaceChanged
  <1>2. OwnedAt(m, [fr EXCEPT ![m] = @ - 1], loc, tx, ap \cup {m}, wt, dr)
    <2>1. OwnedAt(m, fr, loc, tx, ap, wt, dr)  BY DEF Owned
    <2>2. fr[m] = 1 /\ [fr EXCEPT ![m] = @ - 1][m] = 0  BY <2>1 DEF OwnedAt
    <2>3. /\ \A d \in Cpus : loc[d] # m
          /\ \A d \in Cpus : \A i \in 1..Len(tx[d]) : tx[d][i] # m
          /\ m \notin dr /\ \A p \in Pendings : wt[p] # m
      BY <2>1, <2>2 DEF OwnedAt
    <2> QED BY <2>2, <2>3 DEF OwnedAt
  <1>3. ASSUME NEW x \in Mbufs PROVE OwnedAt(x, [fr EXCEPT ![m] = @ - 1], loc, tx, ap \cup {m}, wt, dr)
    <2>1. CASE x = m  BY <2>1, <1>2
    <2> QED BY <2>1, <1>1
  <1> QED BY <1>3, Zenon DEF Owned

\* The application gives a buffer back.
LEMMA AppToFree ==
    ASSUME NEW fr \in [Mbufs -> Nat], NEW loc \in [Cpus -> Mbufs \cup {None}],
           NEW tx \in [Cpus -> Seq(Mbufs)], NEW ap \in SUBSET Mbufs,
           NEW wt \in [Pendings -> Mbufs \cup {None}], NEW dr \in SUBSET Mbufs,
           Owned(fr, loc, tx, ap, wt, dr), 
           NEW m \in ap
    PROVE  Owned([fr EXCEPT ![m] = @ + 1], loc, tx, ap \ {m}, wt, dr)
  <1>1. ASSUME NEW x \in Mbufs, x # m PROVE OwnedAt(x, [fr EXCEPT ![m] = @ + 1], loc, tx, ap \ {m}, wt, dr)
    <2>1. OwnedAt(x, fr, loc, tx, ap, wt, dr)  BY DEF Owned
    <2>2. [fr EXCEPT ![m] = @ + 1][x] = fr[x]
      BY <1>1, NetAssumption
    <2>3. x \in ap \ {m} <=> x \in ap
      BY <1>1, NetAssumption
    <2>4. SamePlace(x, fr, loc, ap, wt, dr, [fr EXCEPT ![m] = @ + 1], loc, ap \ {m}, wt, dr)
      BY <2>2, <2>3, Zenon DEF SamePlace
    <2> QED BY <2>1, <2>4, NoPlaceChanged
  <1>2. OwnedAt(m, [fr EXCEPT ![m] = @ + 1], loc, tx, ap \ {m}, wt, dr)
    <2>1. OwnedAt(m, fr, loc, tx, ap, wt, dr)  BY DEF Owned
    <2> QED BY <2>1, NetAssumption DEF OwnedAt
  <1>3. ASSUME NEW x \in Mbufs PROVE OwnedAt(x, [fr EXCEPT ![m] = @ + 1], loc, tx, ap \ {m}, wt, dr)
    <2>1. CASE x = m  BY <2>1, <1>2
    <2> QED BY <2>1, <1>1
  <1> QED BY <1>3, Zenon DEF Owned

\* A buffer other than the one that moves keeps its owner if every queue
\* still holds it as often as before.
KeptFor(x, fr, loc, tx, f, l, t) ==
    /\ f[x] = fr[x]
    /\ \A d \in Cpus : l[d] = x <=> loc[d] = x
    /\ \A d \in Cpus : \A i \in 1..Len(t[d]) : t[d][i] = x => \E j \in 1..Len(tx[d]) : tx[d][j] = x
    /\ \A d \in Cpus : \A i \in 1..Len(tx[d]) : tx[d][i] = x => \E j \in 1..Len(t[d]) : t[d][j] = x
    /\ \A d \in Cpus : \A i, j \in 1..Len(t[d]) : t[d][i] = x /\ t[d][j] = x => i = j

\* A buffer that no place lost or got keeps its one place.
LEMMA Bystander ==
    ASSUME NEW x, NEW fr, NEW loc, NEW tx, NEW f, NEW l, NEW t, NEW ap, NEW wt, NEW dr,
           OwnedAt(x, fr, loc, tx, ap, wt, dr), KeptFor(x, fr, loc, tx, f, l, t)
    PROVE  OwnedAt(x, f, l, t, ap, wt, dr)
<1> USE DEF KeptFor
<1>1. OwnedAt(x, fr, loc, tx, ap, wt, dr)
  OBVIOUS
<1>2. f[x] \in {0, 1}
  BY <1>1 DEF OwnedAt
<1>3. f[x] = 1 => /\ \A c \in Cpus : l[c] # x
                  /\ \A c \in Cpus : \A i \in 1..Len(t[c]) : t[c][i] # x
                  /\ x \notin ap /\ x \notin dr
                  /\ \A p \in Pendings : wt[p] # x
  BY <1>1 DEF OwnedAt
<1>4. \A c \in Cpus : l[c] = x =>
              /\ \A d \in Cpus : l[d] = x => d = c
              /\ \A d \in Cpus : \A i \in 1..Len(t[d]) : t[d][i] # x
              /\ x \notin ap /\ x \notin dr
              /\ \A p \in Pendings : wt[p] # x
  <2> SUFFICES ASSUME NEW c \in Cpus, l[c] = x
               PROVE  /\ \A d \in Cpus : l[d] = x => d = c
                      /\ \A d \in Cpus : \A i \in 1..Len(t[d]) : t[d][i] # x
                      /\ x \notin ap /\ x \notin dr
                      /\ \A p \in Pendings : wt[p] # x
    OBVIOUS
  <2>1. loc[c] = x
    OBVIOUS
  <2>2. \A d \in Cpus : \A i \in 1..Len(tx[d]) : tx[d][i] # x
    BY <1>1, <2>1 DEF OwnedAt
  <2>3. \A d \in Cpus : \A i \in 1..Len(t[d]) : t[d][i] # x
    BY <2>2, Zenon
  <2> QED BY <1>1, <2>1, <2>3 DEF OwnedAt
<1>5. \A c \in Cpus : \A i \in 1..Len(t[c]) : t[c][i] = x =>
              /\ \A d \in Cpus : \A j \in 1..Len(t[d]) : t[d][j] = x => d = c /\ j = i
              /\ x \notin ap /\ x \notin dr
              /\ \A p \in Pendings : wt[p] # x
  <2> SUFFICES ASSUME NEW c \in Cpus, NEW i \in 1..Len(t[c]), t[c][i] = x
               PROVE  /\ \A d \in Cpus : \A j \in 1..Len(t[d]) : t[d][j] = x => d = c /\ j = i
                      /\ x \notin ap /\ x \notin dr
                      /\ \A p \in Pendings : wt[p] # x
    OBVIOUS
  <2>1. PICK k \in 1..Len(tx[c]) : tx[c][k] = x
    OBVIOUS
  <2>2. ASSUME NEW d \in Cpus, NEW j \in 1..Len(t[d]), t[d][j] = x
        PROVE  d = c
    <3>1. PICK n \in 1..Len(tx[d]) : tx[d][n] = x
      BY <2>2
    <3> QED BY <1>1, <2>1, <3>1 DEF OwnedAt
  <2>3. \A d \in Cpus : \A j \in 1..Len(t[d]) : t[d][j] = x => d = c /\ j = i
    BY <2>2
  <2> QED BY <1>1, <2>1, <2>3 DEF OwnedAt
<1>6. x \in ap => x \notin dr /\ \A p \in Pendings : wt[p] # x
  BY <1>1 DEF OwnedAt
<1>7. \A p \in Pendings : wt[p] = x => x \notin dr /\ \A q \in Pendings : wt[q] = x => q = p
  BY <1>1 DEF OwnedAt
<1>8. \/ f[x] = 1 \/ x \in ap \/ x \in dr
      \/ \E c \in Cpus : l[c] = x
      \/ \E c \in Cpus : \E i \in 1..Len(t[c]) : t[c][i] = x
      \/ \E p \in Pendings : wt[p] = x
  BY <1>1, Zenon DEF OwnedAt
<1> QED BY <1>2, <1>3, <1>4, <1>5, <1>6, <1>7, <1>8 DEF OwnedAt

\* A CPU puts its buffer on its transmit queue.
LEMMA CpuToQueue ==
    ASSUME NEW fr \in [Mbufs -> Nat], NEW loc \in [Cpus -> Mbufs \cup {None}],
           NEW tx \in [Cpus -> Seq(Mbufs)], NEW ap \in SUBSET Mbufs,
           NEW wt \in [Pendings -> Mbufs \cup {None}], NEW dr \in SUBSET Mbufs,
           Owned(fr, loc, tx, ap, wt, dr), 
           NEW c \in Cpus, loc[c] \in Mbufs
    PROVE  Owned(fr, [loc EXCEPT ![c] = None], [tx EXCEPT ![c] = Append(@, loc[c])], ap, wt, dr)
<1> DEFINE m == loc[c]
           n == Len(tx[c])
           q == Append(tx[c], m)
           t == [tx EXCEPT ![c] = q]
           l == [loc EXCEPT ![c] = None]
<1>0. OwnedAt(m, fr, loc, tx, ap, wt, dr)
  BY DEF Owned
<1>1. n \in Nat /\ Len(q) = n + 1 /\ q[n + 1] = m /\ \A i \in 1..n : q[i] = tx[c][i]
  OBVIOUS
<1>2. t[c] = q /\ \A d \in Cpus \ {c} : t[d] = tx[d]
  OBVIOUS
<1>3. l[c] = None /\ \A d \in Cpus \ {c} : l[d] = loc[d]
  OBVIOUS
<1>4. \A d \in Cpus \ {c} : loc[d] # m
  BY <1>0 DEF OwnedAt
<1>5. \A d \in Cpus : \A i \in 1..Len(tx[d]) : tx[d][i] # m
  BY <1>0 DEF OwnedAt
<1>6. ASSUME NEW x \in Mbufs, x # m
      PROVE  OwnedAt(x, fr, l, t, ap, wt, dr)
  <2> HIDE DEF q, t, l
  <2>0. OwnedAt(x, fr, loc, tx, ap, wt, dr)
    BY DEF Owned
  <2>1. \A d \in Cpus : l[d] = x <=> loc[d] = x
    BY <1>3, <1>6, NetAssumption
  <2>2. ASSUME NEW d \in Cpus, NEW i \in 1..Len(t[d]), t[d][i] = x
        PROVE  i \in 1..Len(tx[d]) /\ tx[d][i] = x
    <3>1. CASE d = c
      <4>1. i \in 1..(n + 1) /\ i # n + 1
        BY <1>1, <1>2, <1>6, <2>2, <3>1
      <4> QED BY <1>1, <1>2, <2>2, <3>1, <4>1
    <3> QED BY <1>2, <2>2, <3>1
  <2>3. ASSUME NEW d \in Cpus, NEW i \in 1..Len(tx[d]), tx[d][i] = x
        PROVE  i \in 1..Len(t[d]) /\ t[d][i] = x
    <3>1. CASE d = c
      BY <1>1, <1>2, <2>3, <3>1
    <3> QED BY <1>2, <2>3, <3>1
  <2>4. \A d \in Cpus : \A i, j \in 1..Len(t[d]) : t[d][i] = x /\ t[d][j] = x => i = j
    BY <2>0, <2>2 DEF OwnedAt
  <2>5. KeptFor(x, fr, loc, tx, fr, l, t)
    BY <2>1, <2>2, <2>3, <2>4, Zenon DEF KeptFor
  <2> QED BY <2>0, <2>5, Bystander, Zenon
<1>7. OwnedAt(m, fr, l, t, ap, wt, dr)
  <2>1. \A d \in Cpus : \A i \in 1..Len(t[d]) : t[d][i] = m => d = c /\ i = n + 1
    <3> SUFFICES ASSUME NEW d \in Cpus, NEW i \in 1..Len(t[d]), t[d][i] = m
                 PROVE  d = c /\ i = n + 1
      OBVIOUS
    <3> HIDE DEF q, t, m
    <3>1. CASE d # c
      BY <1>2, <1>5, <3>1
    <3>2. CASE d = c /\ i # n + 1
      <4>1. i \in 1..n
        BY <1>1, <1>2, <3>2
      <4> QED BY <1>1, <1>2, <1>5, <3>2, <4>1
    <3> QED BY <3>1, <3>2
  <2>2. (n + 1) \in 1..Len(t[c]) /\ t[c][n + 1] = m
    <3> HIDE DEF q, t, m
    <3> QED BY <1>1, <1>2
  <2>3. fr[m] = 0 /\ m \notin ap /\ m \notin dr /\ \A p \in Pendings : wt[p] # m
    BY <1>0 DEF OwnedAt
  <2>4. \A d \in Cpus : l[d] # m
    BY <1>3, <1>4, NetAssumption
  <2> HIDE DEF q, t, m, l, n
  <2> QED BY <2>1, <2>2, <2>3, <2>4 DEF OwnedAt
<1> QED BY <1>6, <1>7, Zenon DEF Owned

\* The first buffer of a transmit queue has been sent and is freed.
LEMMA QueueToFree ==
    ASSUME NEW fr \in [Mbufs -> Nat], NEW loc \in [Cpus -> Mbufs \cup {None}],
           NEW tx \in [Cpus -> Seq(Mbufs)], NEW ap \in SUBSET Mbufs,
           NEW wt \in [Pendings -> Mbufs \cup {None}], NEW dr \in SUBSET Mbufs,
           Owned(fr, loc, tx, ap, wt, dr), 
           NEW c \in Cpus, tx[c] # << >>
    PROVE  Owned([fr EXCEPT ![Head(tx[c])] = @ + 1], loc, [tx EXCEPT ![c] = Tail(@)], ap, wt, dr)
<1> DEFINE m == Head(tx[c])
           n == Len(tx[c])
           q == Tail(tx[c])
           t == [tx EXCEPT ![c] = q]
           f == [fr EXCEPT ![m] = @ + 1]
<1>1. /\ n \in Nat /\ n > 0 /\ Len(q) = n - 1 /\ m = tx[c][1] /\ m \in Mbufs
      /\ \A i \in 1..(n - 1) : q[i] = tx[c][i + 1]
  OBVIOUS
<1>2. t[c] = q /\ \A d \in Cpus \ {c} : t[d] = tx[d]
  OBVIOUS
<1>3. f[m] = fr[m] + 1 /\ \A x \in Mbufs \ {m} : f[x] = fr[x]
  BY <1>1
<1>4. OwnedAt(m, fr, loc, tx, ap, wt, dr) /\ 1 \in 1..n
  BY <1>1 DEF Owned
<1>5. /\ fr[m] = 0 /\ m \notin ap /\ m \notin dr
      /\ \A d \in Cpus : loc[d] # m
      /\ \A p \in Pendings : wt[p] # m
      /\ \A d \in Cpus : \A i \in 1..Len(tx[d]) : tx[d][i] = m => d = c /\ i = 1
  <2> HIDE DEF m
  <2> QED BY <1>1, <1>4 DEF OwnedAt
<1>6. ASSUME NEW d \in Cpus, NEW i \in 1..Len(t[d])
      PROVE  IF d = c THEN (i + 1) \in 1..Len(tx[d]) /\ t[d][i] = tx[d][i + 1]
                      ELSE i \in 1..Len(tx[d]) /\ t[d][i] = tx[d][i]
  <2> HIDE DEF t, q, m
  <2>1. CASE d = c
    <3>1. i \in 1..(n - 1)
      BY <1>1, <1>2, <2>1
    <3> QED BY <1>1, <1>2, <2>1, <3>1
  <2>2. CASE d # c
    BY <1>2, <2>2
  <2> QED BY <2>1, <2>2
<1>7. ASSUME NEW x \in Mbufs, x # m
      PROVE  OwnedAt(x, f, loc, t, ap, wt, dr)
  <2> HIDE DEF t, q, f
  <2>0. OwnedAt(x, fr, loc, tx, ap, wt, dr)
    BY DEF Owned
  <2>1. f[x] = fr[x]
    BY <1>3, <1>7
  <2>2. \A d \in Cpus : \A i \in 1..Len(t[d]) : t[d][i] = x => \E j \in 1..Len(tx[d]) : tx[d][j] = x
    BY <1>6
  <2>3. ASSUME NEW d \in Cpus, NEW i \in 1..Len(tx[d]), tx[d][i] = x
        PROVE  \E j \in 1..Len(t[d]) : t[d][j] = x
    <3>1. CASE d = c
      <4>1. i # 1 /\ i - 1 \in 1..(n - 1)
        BY <1>1, <1>7, <2>3, <3>1
      <4>2. q[i - 1] = tx[c][(i - 1) + 1]
        BY <1>1, <4>1
      <4> QED BY <1>1, <1>2, <2>3, <3>1, <4>1, <4>2
    <3> QED BY <1>2, <2>3, <3>1
  <2>4. \A d \in Cpus : \A i, j \in 1..Len(t[d]) : t[d][i] = x /\ t[d][j] = x => i = j
    <3> SUFFICES ASSUME NEW d \in Cpus, NEW i \in 1..Len(t[d]), NEW j \in 1..Len(t[d]),
                        t[d][i] = x, t[d][j] = x
                 PROVE  i = j
      OBVIOUS
    <3>1. CASE d = c
      <4>1. /\ (i + 1) \in 1..Len(tx[d]) /\ tx[d][i + 1] = x
            /\ (j + 1) \in 1..Len(tx[d]) /\ tx[d][j + 1] = x
        BY <1>6, <3>1
      <4>2. i + 1 = j + 1
        BY <2>0, <4>1 DEF OwnedAt
      <4> QED BY <4>2
    <3>2. CASE d # c
      <4>1. /\ i \in 1..Len(tx[d]) /\ tx[d][i] = x
            /\ j \in 1..Len(tx[d]) /\ tx[d][j] = x
        BY <1>6, <3>2
      <4> QED BY <2>0, <4>1, SMTT(20) DEF OwnedAt
    <3> QED BY <3>1, <3>2
  <2>5. KeptFor(x, fr, loc, tx, f, loc, t)
    BY <2>1, <2>2, <2>3, <2>4, Zenon DEF KeptFor
  <2> QED BY <2>0, <2>5, Bystander, Zenon
<1>8. OwnedAt(m, f, loc, t, ap, wt, dr)
  <2>1. \A d \in Cpus : \A i \in 1..Len(t[d]) : t[d][i] # m
    <3> SUFFICES ASSUME NEW d \in Cpus, NEW i \in 1..Len(t[d]), t[d][i] = m PROVE FALSE
      OBVIOUS
    <3> HIDE DEF t, q, m
    <3>1. CASE d = c
      <4>1. (i + 1) \in 1..Len(tx[d]) /\ tx[d][i + 1] = m
        BY <1>6, <3>1
      <4>2. i + 1 = 1
        BY <1>5, <4>1
      <4> QED BY <4>2
    <3>2. CASE d # c
      BY <1>5, <1>6, <3>2
    <3> QED BY <3>1, <3>2
  <2>2. f[m] = 1
    BY <1>3, <1>5
  <2> HIDE DEF t, q, m, f, n
  <2> QED BY <1>5, <2>1, <2>2 DEF OwnedAt
<1> QED BY <1>7, <1>8, Zenon DEF Owned

-----------------------------------------------------------------------------
(* Page references *)

JobNames == {"none", "ip", "udp", "arp", "pending"}
PinnedAt(q, job, m, x) == (\E i \in 1..Len(q) : q[i] = x) \/ (job = "udp" /\ m = x)

\* The iovs whose pages are still pinned for a CPU.
LEMMA PinsDef ==
    ASSUME NEW ni, NEW q, NEW job, NEW m
    PROVE  PinsAt(ni, q, job, m) =
             {x \in Mbufs \X (1..2) : x[2] <= ni[x[1]] /\ PinnedAt(q, job, m, x[1])}
  BY DEF PinsAt, PinnedAt

\* They are finitely many, so they can be counted.
LEMMA PinsFinite ==
    ASSUME NEW ni, NEW q, NEW job, NEW m PROVE IsFiniteSet(PinsAt(ni, q, job, m))
<1>1. IsFiniteSet(1..2)
  <2>1. IsFiniteSet({1})
    BY FS_Singleton
  <2>2. IsFiniteSet({1} \cup {2})
    BY <2>1, FS_AddElement
  <2>3. 1..2 = {1} \cup {2}
    OBVIOUS
  <2> QED BY <2>2, <2>3
<1>2. IsFiniteSet(Mbufs \X (1..2))
  BY <1>1, NetAssumption, FS_Product
<1>3. PinsAt(ni, q, job, m) \subseteq Mbufs \X (1..2)
  BY DEF PinsAt
<1> QED BY <1>2, <1>3, FS_Subset

\* The same iovs are pinned before and after.
SamePins(ni, q, job, m, ni2, q2, job2, m2) ==
    \A x \in Mbufs, k \in 1..2 : k <= ni[x] /\ PinnedAt(q, job, m, x)
                                   <=> k <= ni2[x] /\ PinnedAt(q2, job2, m2, x)
\* A step that changes neither the buffer nor its owner keeps them.
LEMMA PinsSame ==
    ASSUME NEW ni, NEW q, NEW job, NEW m, NEW ni2, NEW q2, NEW job2, NEW m2,
           SamePins(ni, q, job, m, ni2, q2, job2, m2)
    PROVE  PinsAt(ni2, q2, job2, m2) = PinsAt(ni, q, job, m)
  BY PinsDef DEF SamePins

IovsOf(m, n) == {<<m, k>> : k \in 1..n}
\* The iovs of one more buffer are that many more.
LEMMA PinsAdded ==
    ASSUME NEW S, IsFiniteSet(S), NEW m, NEW n \in 0..2, \A k \in 1..2 : <<m, k>> \notin S
    PROVE  Cardinality(S \cup IovsOf(m, n)) = Cardinality(S) + n
<1>0. Cardinality(S) \in Nat
  BY FS_CardinalityType
<1>1. CASE n = 0
  <2>1. S \cup IovsOf(m, n) = S
    BY <1>1 DEF IovsOf
  <2> QED BY <1>0, <1>1, <2>1
<1>4. PICK T : T = S \cup {<<m, 1>>}
  OBVIOUS
<1>5. IsFiniteSet(T) /\ Cardinality(T) = Cardinality(S) + 1
  BY <1>4, FS_AddElement
<1>2. CASE n = 1
  <2>1. S \cup IovsOf(m, n) = T
    BY <1>2, <1>4 DEF IovsOf
  <2> QED BY <1>2, <1>5, <2>1
<1>6. PICK U : U = T \cup {<<m, 2>>}
  OBVIOUS
<1>7. Cardinality(U) = Cardinality(T) + 1
  <2>1. <<m, 2>> \notin T
    BY <1>4
  <2> QED BY <1>5, <1>6, <2>1, FS_AddElement
<1>3. CASE n = 2
  <2>1. S \cup IovsOf(m, n) = U
    BY <1>3, <1>4, <1>6 DEF IovsOf
  <2>2. Cardinality(U) = Cardinality(S) + 2
    BY <1>0, <1>5, <1>7
  <2> QED BY <1>3, <2>1, <2>2
<1> QED BY <1>1, <1>2, <1>3

\* Only the iovs of packet b are pinned or released.
MorePins(b, n, ni, q, job, m, ni2, q2, job2, m2) ==
    /\ \A x \in Mbufs, k \in 1..2 : x # b =>
           (k <= ni[x] /\ PinnedAt(q, job, m, x) <=> k <= ni2[x] /\ PinnedAt(q2, job2, m2, x))
    /\ \A k \in 1..2 : ~(k <= ni[b] /\ PinnedAt(q, job, m, b))
    /\ \A k \in 1..2 : k <= ni2[b] /\ PinnedAt(q2, job2, m2, b) <=> k <= n
\* A CPU has got a buffer with n iovs: n more pages are pinned.
LEMMA PinsPlus ==
    ASSUME NEW ni, NEW q, NEW job, NEW m, NEW ni2, NEW q2, NEW job2, NEW m2,
           NEW b \in Mbufs, NEW n \in 0..2,
           MorePins(b, n, ni, q, job, m, ni2, q2, job2, m2)
    PROVE  Cardinality(PinsAt(ni2, q2, job2, m2)) = Cardinality(PinsAt(ni, q, job, m)) + n
<1>1. PinsAt(ni2, q2, job2, m2) = PinsAt(ni, q, job, m) \cup IovsOf(b, n)
  <2>1. ASSUME NEW x \in Mbufs, NEW k \in 1..2
        PROVE  <<x, k>> \in PinsAt(ni2, q2, job2, m2) <=>
                  <<x, k>> \in PinsAt(ni, q, job, m) \/ (x = b /\ k <= n)
    BY PinsDef DEF MorePins
  <2>2. PinsAt(ni2, q2, job2, m2) \subseteq Mbufs \X (1..2) /\ PinsAt(ni, q, job, m) \subseteq Mbufs \X (1..2)
    BY DEF PinsAt
  <2>3. IovsOf(b, n) \subseteq Mbufs \X (1..2)
    BY DEF IovsOf
  <2>4. ASSUME NEW x \in Mbufs, NEW k \in 1..2
        PROVE  <<x, k>> \in IovsOf(b, n) <=> x = b /\ k <= n
    BY DEF IovsOf
  <2>5. ASSUME NEW y \in Mbufs \X (1..2)
        PROVE  y \in PinsAt(ni2, q2, job2, m2) <=>
                  y \in PinsAt(ni, q, job, m) \cup IovsOf(b, n)
    <3>1. PICK x \in Mbufs, k \in 1..2 : y = <<x, k>>
      OBVIOUS
    <3> QED BY <2>1, <2>4, <3>1
  <2> QED BY <2>2, <2>3, <2>5
<1>2. PICK S : S = PinsAt(ni, q, job, m)
  OBVIOUS
<1>3. \A k \in 1..2 : <<b, k>> \notin S
  BY <1>2, PinsDef DEF MorePins
<1>4. IsFiniteSet(S)
  BY <1>2, PinsFinite
<1>5. Cardinality(S \cup IovsOf(b, n)) = Cardinality(S) + n
  BY <1>3, <1>4, PinsAdded
<1> QED BY <1>1, <1>2, <1>5

\* bsys_udp_send, ip_output_hinted and arp_input take a buffer.
LEMMA PagesTake ==
    ASSUME NEW fr \in [Mbufs -> Nat], NEW loc \in [Cpus -> Mbufs \cup {None}],
           NEW tx \in [Cpus -> Seq(Mbufs)], NEW ap \in SUBSET Mbufs,
           NEW wt \in [Pendings -> Mbufs \cup {None}], NEW dr \in SUBSET Mbufs,
           Owned(fr, loc, tx, ap, wt, dr), NEW jobs \in [Cpus -> JobNames],
           NEW dn \in [Mbufs -> {"default", "sent", "udp", "null"}],
           NEW ni \in [Mbufs -> 0..2], NEW pr \in [Cpus -> Int],
           PagesOk(fr, dn, ni, tx, pr, jobs, loc, wt),
           NEW c \in Cpus, loc[c] = None, NEW m \in Mbufs, fr[m] > 0,
           NEW d \in {"default", "sent"}, NEW n \in 0..2, NEW j \in JobNames,
           d = "sent" <=> j = "udp", n # 0 => d = "sent"
    PROVE  PagesOk([fr EXCEPT ![m] = @ - 1], [dn EXCEPT ![m] = d], [ni EXCEPT ![m] = n], tx,
                   [pr EXCEPT ![c] = @ + n], [jobs EXCEPT ![c] = j], [loc EXCEPT ![c] = m], wt)
<1>p1. \A x \in Mbufs : (ni[x] # 0 => dn[x] = "sent") /\ (fr[x] > 0 => dn[x] = "null")
  BY Zenon DEF PagesOk
<1>p2. \A e \in Cpus : loc[e] \in Mbufs => (dn[loc[e]] = "sent" <=> jobs[e] = "udp")
  BY Zenon DEF PagesOk
<1>p3. \A e \in Pendings : wt[e] \in Mbufs => dn[wt[e]] # "sent"
  BY Zenon DEF PagesOk
<1>p4. \A e \in Cpus : pr[e] = Cardinality(PinsAt(ni, tx[e], jobs[e], loc[e]))
  BY Zenon DEF PagesOk
<1> DEFINE f == [fr EXCEPT ![m] = @ - 1]
           dd == [dn EXCEPT ![m] = d]
           nn == [ni EXCEPT ![m] = n]
           p == [pr EXCEPT ![c] = @ + n]
           jj == [jobs EXCEPT ![c] = j]
           l == [loc EXCEPT ![c] = m]
<1>1. /\ f[m] = fr[m] - 1 /\ \A x \in Mbufs : x # m => f[x] = fr[x]
      /\ dd[m] = d /\ \A x \in Mbufs : x # m => dd[x] = dn[x]
      /\ nn[m] = n /\ \A x \in Mbufs : x # m => nn[x] = ni[x]
  OBVIOUS
<1>2. /\ p[c] = pr[c] + n /\ \A e \in Cpus : e # c => p[e] = pr[e]
      /\ jj[c] = j /\ \A e \in Cpus : e # c => jj[e] = jobs[e]
      /\ l[c] = m /\ \A e \in Cpus : e # c => l[e] = loc[e]
  OBVIOUS
<1>3. OwnedAt(m, fr, loc, tx, ap, wt, dr)
  BY DEF Owned
<1>4. /\ fr[m] = 1 /\ \A e \in Cpus : loc[e] # m
      /\ \A e \in Cpus : \A i \in 1..Len(tx[e]) : tx[e][i] # m
      /\ \A e \in Pendings : wt[e] # m
  BY <1>3 DEF OwnedAt
<1>5. ni[m] = 0 /\ \A x \in Mbufs : ni[x] \in 0..2 /\ nn[x] \in 0..2
  BY <1>1, <1>p1, <1>p2
<1> HIDE DEF f, dd, nn, p, jj, l
<1>6. \A x \in Mbufs : (nn[x] # 0 => dd[x] = "sent") /\ (f[x] > 0 => dd[x] = "null")
  <2> SUFFICES ASSUME NEW x \in Mbufs
               PROVE  (nn[x] # 0 => dd[x] = "sent") /\ (f[x] > 0 => dd[x] = "null")
    OBVIOUS
  <2>1. CASE x = m
    BY <1>1, <1>4, <2>1
  <2>2. CASE x # m
    BY <1>1, <1>p1, <2>2
  <2> QED BY <2>1, <2>2
<1>7. \A e \in Cpus : l[e] \in Mbufs => (dd[l[e]] = "sent" <=> jj[e] = "udp")
  <2> SUFFICES ASSUME NEW e \in Cpus, l[e] \in Mbufs
               PROVE  dd[l[e]] = "sent" <=> jj[e] = "udp"
    OBVIOUS
  <2>1. CASE e = c
    BY <1>1, <1>2, <2>1
  <2>2. CASE e # c
    <3>1. l[e] = loc[e] /\ jj[e] = jobs[e] /\ loc[e] # m
      BY <1>2, <1>4, <2>2
    <3>2. dd[loc[e]] = dn[loc[e]]
      BY <1>1, <3>1
    <3> QED BY <1>p2, <3>1, <3>2
  <2> QED BY <2>1, <2>2
<1>8. \A e \in Pendings : wt[e] \in Mbufs => dd[wt[e]] # "sent"
  BY <1>1, <1>4, <1>p3
<1>9. ASSUME NEW e \in Cpus
      PROVE  p[e] = Cardinality(PinsAt(nn, tx[e], jj[e], l[e]))
  <2>0. pr[e] = Cardinality(PinsAt(ni, tx[e], jobs[e], loc[e]))
    BY <1>p4
  <2>1. CASE e = c
    <3>1. \A x \in Mbufs, k \in 1..2 : x # m =>
             (k <= ni[x] /\ PinnedAt(tx[c], jobs[c], loc[c], x) <=> k <= nn[x] /\ PinnedAt(tx[c], j, m, x))
      BY <1>1, NetAssumption DEF PinnedAt
    <3>2. \A k \in 1..2 : ~(k <= ni[m] /\ PinnedAt(tx[c], jobs[c], loc[c], m))
      BY <1>5
    <3>3. \A k \in 1..2 : k <= nn[m] /\ PinnedAt(tx[c], j, m, m) <=> k <= n
      BY <1>1, <1>4 DEF PinnedAt
    <3>5. MorePins(m, n, ni, tx[c], jobs[c], loc[c], nn, tx[c], j, m)
      BY <3>1, <3>2, <3>3 DEF MorePins
    <3>4. Cardinality(PinsAt(nn, tx[c], j, m)) = Cardinality(PinsAt(ni, tx[c], jobs[c], loc[c])) + n
      BY <3>5, PinsPlus
    <3> QED BY <1>2, <2>0, <2>1, <3>4
  <2>2. CASE e # c
    <3>1. SamePins(ni, tx[e], jobs[e], loc[e], nn, tx[e], jobs[e], loc[e])
      BY <1>1, <1>4 DEF SamePins, PinnedAt
    <3>2. PinsAt(nn, tx[e], jobs[e], loc[e]) = PinsAt(ni, tx[e], jobs[e], loc[e])
      BY <3>1, PinsSame
    <3> QED BY <1>2, <2>0, <2>2, <3>2
  <2> QED BY <2>1, <2>2
<1>10. PagesOk(f, dd, nn, tx, p, jj, l, wt)
  BY <1>6, <1>7, <1>8, <1>9 DEF PagesOk
<1> QED BY <1>10 DEF f, dd, nn, p, jj, l

\* A CPU frees its packet, with the references of its iovs if it is a UDP one.
LEMMA PagesFree ==
    ASSUME NEW fr \in [Mbufs -> Nat], NEW loc \in [Cpus -> Mbufs \cup {None}],
           NEW tx \in [Cpus -> Seq(Mbufs)], NEW ap \in SUBSET Mbufs,
           NEW wt \in [Pendings -> Mbufs \cup {None}], NEW dr \in SUBSET Mbufs,
           Owned(fr, loc, tx, ap, wt, dr), NEW jobs \in [Cpus -> JobNames],
           NEW dn \in [Mbufs -> {"default", "sent", "udp", "null"}],
           NEW ni \in [Mbufs -> 0..2], NEW pr \in [Cpus -> Int],
           PagesOk(fr, dn, ni, tx, pr, jobs, loc, wt),
           NEW c \in Cpus, NEW m \in Mbufs, loc[c] = m, NEW j \in JobNames, j # "udp"
    PROVE  PagesOk([fr EXCEPT ![m] = @ + 1], [dn EXCEPT ![m] = "null"], [ni EXCEPT ![m] = 0], tx,
                   IF jobs[c] = "udp" THEN [pr EXCEPT ![c] = @ - ni[m]] ELSE pr,
                   [jobs EXCEPT ![c] = j], [loc EXCEPT ![c] = None], wt)
<1>p1. \A x \in Mbufs : (ni[x] # 0 => dn[x] = "sent") /\ (fr[x] > 0 => dn[x] = "null")
  BY Zenon DEF PagesOk
<1>p2. \A e \in Cpus : loc[e] \in Mbufs => (dn[loc[e]] = "sent" <=> jobs[e] = "udp")
  BY Zenon DEF PagesOk
<1>p3. \A e \in Pendings : wt[e] \in Mbufs => dn[wt[e]] # "sent"
  BY Zenon DEF PagesOk
<1>p4. \A e \in Cpus : pr[e] = Cardinality(PinsAt(ni, tx[e], jobs[e], loc[e]))
  BY Zenon DEF PagesOk
<1> DEFINE f == [fr EXCEPT ![m] = @ + 1]
           dd == [dn EXCEPT ![m] = "null"]
           nn == [ni EXCEPT ![m] = 0]
           p == IF jobs[c] = "udp" THEN [pr EXCEPT ![c] = @ - ni[m]] ELSE pr
           jj == [jobs EXCEPT ![c] = j]
           l == [loc EXCEPT ![c] = None]
<1>1. /\ f[m] = fr[m] + 1 /\ \A x \in Mbufs : x # m => f[x] = fr[x]
      /\ dd[m] = "null" /\ \A x \in Mbufs : x # m => dd[x] = dn[x]
      /\ nn[m] = 0 /\ \A x \in Mbufs : x # m => nn[x] = ni[x]
  OBVIOUS
<1>0. ni[m] \in 0..2 /\ (jobs[c] # "udp" => ni[m] = 0) /\ pr[c] \in Int
  BY <1>p1, <1>p2
<1>2. /\ p[c] = pr[c] - ni[m] /\ \A e \in Cpus : e # c => p[e] = pr[e]
      /\ jj[c] = j /\ \A e \in Cpus : e # c => jj[e] = jobs[e]
      /\ l[c] = None /\ \A e \in Cpus : e # c => l[e] = loc[e]
  BY <1>0
<1>3. OwnedAt(m, fr, loc, tx, ap, wt, dr)
  BY DEF Owned
<1>4. /\ fr[m] = 0 /\ \A e \in Cpus : e # c => loc[e] # m
      /\ \A e \in Cpus : \A i \in 1..Len(tx[e]) : tx[e][i] # m
      /\ \A e \in Pendings : wt[e] # m
  BY <1>3 DEF OwnedAt
<1> HIDE DEF f, dd, nn, p, jj, l
<1>6. \A x \in Mbufs : (nn[x] # 0 => dd[x] = "sent") /\ (f[x] > 0 => dd[x] = "null")
  <2> SUFFICES ASSUME NEW x \in Mbufs
               PROVE  (nn[x] # 0 => dd[x] = "sent") /\ (f[x] > 0 => dd[x] = "null")
    OBVIOUS
  <2>1. CASE x = m
    BY <1>1, <1>4, <2>1
  <2>2. CASE x # m
    BY <1>1, <1>p1, <2>2
  <2> QED BY <2>1, <2>2
<1>7. \A e \in Cpus : l[e] \in Mbufs => (dd[l[e]] = "sent" <=> jj[e] = "udp")
  <2> SUFFICES ASSUME NEW e \in Cpus, l[e] \in Mbufs
               PROVE  dd[l[e]] = "sent" <=> jj[e] = "udp"
    OBVIOUS
  <2>1. CASE e = c
    BY <1>1, <1>2, <2>1, NetAssumption
  <2>2. CASE e # c
    <3>1. l[e] = loc[e] /\ jj[e] = jobs[e] /\ loc[e] # m
      BY <1>2, <1>4, <2>2
    <3>2. dd[loc[e]] = dn[loc[e]]
      BY <1>1, <3>1
    <3> QED BY <1>p2, <3>1, <3>2
  <2> QED BY <2>1, <2>2
<1>8. \A e \in Pendings : wt[e] \in Mbufs => dd[wt[e]] # "sent"
  BY <1>1, <1>4, <1>p3
<1>9. ASSUME NEW e \in Cpus
      PROVE  p[e] = Cardinality(PinsAt(nn, tx[e], jj[e], l[e]))
  <2>0. pr[e] = Cardinality(PinsAt(ni, tx[e], jobs[e], loc[e]))
    BY <1>p4
  <2>1. CASE e = c
    <3>1. \A x \in Mbufs, k \in 1..2 : x # m =>
             (k <= nn[x] /\ PinnedAt(tx[c], j, None, x) <=> k <= ni[x] /\ PinnedAt(tx[c], jobs[c], loc[c], x))
      BY <1>1 DEF PinnedAt
    <3>2. \A k \in 1..2 : ~(k <= nn[m] /\ PinnedAt(tx[c], j, None, m))
      BY <1>1
    <3>3. \A k \in 1..2 : k <= ni[m] /\ PinnedAt(tx[c], jobs[c], loc[c], m) <=> k <= ni[m]
      BY <1>0 DEF PinnedAt
    <3>4. Cardinality(PinsAt(ni, tx[c], jobs[c], loc[c])) = Cardinality(PinsAt(nn, tx[c], j, None)) + ni[m]
      <4>1. MorePins(m, ni[m], nn, tx[c], j, None, ni, tx[c], jobs[c], loc[c])
        BY <3>1, <3>2, <3>3 DEF MorePins
      <4> QED BY <1>0, <4>1, PinsPlus
    <3>5. Cardinality(PinsAt(nn, tx[c], j, None)) \in Nat
      BY PinsFinite, FS_CardinalityType
    <3> QED BY <1>0, <1>2, <2>0, <2>1, <3>4, <3>5
  <2>2. CASE e # c
    <3>1. SamePins(ni, tx[e], jobs[e], loc[e], nn, tx[e], jobs[e], loc[e])
      BY <1>1, <1>4, <2>2 DEF SamePins, PinnedAt
    <3>2. PinsAt(nn, tx[e], jobs[e], loc[e]) = PinsAt(ni, tx[e], jobs[e], loc[e])
      BY <3>1, PinsSame
    <3> QED BY <1>2, <2>0, <2>2, <3>2
  <2> QED BY <2>1, <2>2
<1>10. PagesOk(f, dd, nn, tx, p, jj, l, wt)
  BY <1>6, <1>7, <1>8, <1>9 DEF PagesOk
<1> QED BY <1>10 DEF f, dd, nn, p, jj, l

\* The NIC has sent the oldest packet.
LEMMA PagesXmit ==
    ASSUME NEW fr \in [Mbufs -> Nat], NEW loc \in [Cpus -> Mbufs \cup {None}],
           NEW tx \in [Cpus -> Seq(Mbufs)], NEW ap \in SUBSET Mbufs,
           NEW wt \in [Pendings -> Mbufs \cup {None}], NEW dr \in SUBSET Mbufs,
           Owned(fr, loc, tx, ap, wt, dr), NEW jobs \in [Cpus -> JobNames],
           NEW dn \in [Mbufs -> {"default", "sent", "udp", "null"}],
           NEW ni \in [Mbufs -> 0..2], NEW pr \in [Cpus -> Int],
           PagesOk(fr, dn, ni, tx, pr, jobs, loc, wt),
           NEW c \in Cpus, tx[c] # << >>, NEW m \in Mbufs, m = Head(tx[c])
    PROVE  PagesOk([fr EXCEPT ![m] = @ + 1], [dn EXCEPT ![m] = "null"], [ni EXCEPT ![m] = 0],
                   [tx EXCEPT ![c] = Tail(@)], [pr EXCEPT ![c] = @ - ni[m]], jobs, loc, wt)
<1>p1. \A x \in Mbufs : (ni[x] # 0 => dn[x] = "sent") /\ (fr[x] > 0 => dn[x] = "null")
  BY Zenon DEF PagesOk
<1>p2. \A e \in Cpus : loc[e] \in Mbufs => (dn[loc[e]] = "sent" <=> jobs[e] = "udp")
  BY Zenon DEF PagesOk
<1>p3. \A e \in Pendings : wt[e] \in Mbufs => dn[wt[e]] # "sent"
  BY Zenon DEF PagesOk
<1>p4. \A e \in Cpus : pr[e] = Cardinality(PinsAt(ni, tx[e], jobs[e], loc[e]))
  BY Zenon DEF PagesOk
<1> DEFINE f == [fr EXCEPT ![m] = @ + 1]
           dd == [dn EXCEPT ![m] = "null"]
           nn == [ni EXCEPT ![m] = 0]
           q == Tail(tx[c])
           t == [tx EXCEPT ![c] = q]
           p == [pr EXCEPT ![c] = @ - ni[m]]
           n == Len(tx[c])
<1>0. ni[m] \in 0..2 /\ pr[c] \in Int
  OBVIOUS
<1>1. /\ f[m] = fr[m] + 1 /\ \A x \in Mbufs : x # m => f[x] = fr[x]
      /\ dd[m] = "null" /\ \A x \in Mbufs : x # m => dd[x] = dn[x]
      /\ nn[m] = 0 /\ \A x \in Mbufs : x # m => nn[x] = ni[x]
  OBVIOUS
<1>2. /\ p[c] = pr[c] - ni[m] /\ \A e \in Cpus : e # c => p[e] = pr[e]
      /\ t[c] = q /\ \A e \in Cpus : e # c => t[e] = tx[e]
  BY <1>0
<1>3. /\ n \in Nat /\ n > 0 /\ Len(q) = n - 1 /\ m = tx[c][1]
      /\ \A i \in 1..(n - 1) : q[i] = tx[c][i + 1]
  OBVIOUS
<1>4. OwnedAt(m, fr, loc, tx, ap, wt, dr) /\ 1 \in 1..n
  BY <1>3 DEF Owned
<1>5. /\ fr[m] = 0 /\ \A e \in Cpus : loc[e] # m
      /\ \A e \in Cpus : \A i \in 1..Len(tx[e]) : tx[e][i] = m => e = c
      /\ \A e \in Pendings : wt[e] # m
  BY <1>3, <1>4 DEF OwnedAt
<1> HIDE DEF f, dd, nn, p, q, t
<1>6. \A x \in Mbufs : (nn[x] # 0 => dd[x] = "sent") /\ (f[x] > 0 => dd[x] = "null")
  <2> SUFFICES ASSUME NEW x \in Mbufs
               PROVE  (nn[x] # 0 => dd[x] = "sent") /\ (f[x] > 0 => dd[x] = "null")
    OBVIOUS
  <2>1. CASE x = m
    BY <1>1, <1>5, <2>1
  <2>2. CASE x # m
    BY <1>1, <1>p1, <2>2
  <2> QED BY <2>1, <2>2
<1>7. \A e \in Cpus : loc[e] \in Mbufs => (dd[loc[e]] = "sent" <=> jobs[e] = "udp")
  BY <1>1, <1>5, <1>p2
<1>8. \A e \in Pendings : wt[e] \in Mbufs => dd[wt[e]] # "sent"
  BY <1>1, <1>5, <1>p3
<1>9. ASSUME NEW e \in Cpus
      PROVE  p[e] = Cardinality(PinsAt(nn, t[e], jobs[e], loc[e]))
  <2>0. pr[e] = Cardinality(PinsAt(ni, tx[e], jobs[e], loc[e]))
    BY <1>p4
  <2>1. CASE e = c
    <3>0. ASSUME NEW x \in Mbufs, x # m
          PROVE  (\E i \in 1..Len(q) : q[i] = x) <=> (\E i \in 1..Len(tx[c]) : tx[c][i] = x)
      <4>1. ASSUME NEW i \in 1..Len(q), q[i] = x PROVE \E k \in 1..Len(tx[c]) : tx[c][k] = x
        <5>1. (i + 1) \in 1..n /\ tx[c][i + 1] = x
          BY <1>3, <4>1, SMTT(20)
        <5> QED BY <5>1
      <4>2. ASSUME NEW i \in 1..Len(tx[c]), tx[c][i] = x PROVE \E k \in 1..Len(q) : q[k] = x
        <5>1. i # 1 /\ i - 1 \in 1..(n - 1)
          BY <1>3, <3>0, <4>2
        <5>2. q[i - 1] = tx[c][(i - 1) + 1]
          BY <1>3, <5>1
        <5> QED BY <1>3, <4>2, <5>1, <5>2
      <4> QED BY <4>1, <4>2
    <3>1. \A x \in Mbufs, k \in 1..2 : x # m =>
             (k <= nn[x] /\ PinnedAt(q, jobs[c], loc[c], x) <=> k <= ni[x] /\ PinnedAt(tx[c], jobs[c], loc[c], x))
      BY <1>1, <3>0 DEF PinnedAt
    <3>2. \A k \in 1..2 : ~(k <= nn[m] /\ PinnedAt(q, jobs[c], loc[c], m))
      BY <1>1
    <3>3. \A k \in 1..2 : k <= ni[m] /\ PinnedAt(tx[c], jobs[c], loc[c], m) <=> k <= ni[m]
      BY <1>3, <1>4 DEF PinnedAt
    <3>4. Cardinality(PinsAt(ni, tx[c], jobs[c], loc[c])) = Cardinality(PinsAt(nn, q, jobs[c], loc[c])) + ni[m]
      <4>1. MorePins(m, ni[m], nn, q, jobs[c], loc[c], ni, tx[c], jobs[c], loc[c])
        BY <3>1, <3>2, <3>3 DEF MorePins
      <4> QED BY <1>0, <4>1, PinsPlus
    <3>5. Cardinality(PinsAt(nn, q, jobs[c], loc[c])) \in Nat
      BY PinsFinite, FS_CardinalityType
    <3> QED BY <1>0, <1>2, <2>0, <2>1, <3>4, <3>5
  <2>2. CASE e # c
    <3>1. SamePins(ni, tx[e], jobs[e], loc[e], nn, tx[e], jobs[e], loc[e])
      BY <1>1, <1>5, <2>2 DEF SamePins, PinnedAt
    <3>2. PinsAt(nn, tx[e], jobs[e], loc[e]) = PinsAt(ni, tx[e], jobs[e], loc[e])
      BY <3>1, PinsSame
    <3> QED BY <1>2, <2>0, <2>2, <3>2
  <2> QED BY <2>1, <2>2
<1>10. PagesOk(f, dd, nn, t, p, jobs, loc, wt)
  BY <1>6, <1>7, <1>8, <1>9 DEF PagesOk
<1> QED BY <1>10 DEF f, dd, nn, p, q, t

\* A packet without iovs, or with its iovs still to be sent, changes hands.
SentPins(dn, q, j, l, q0, j0, l0) ==
    \A x \in Mbufs : dn[x] = "sent" => (PinnedAt(q, j, l, x) <=> PinnedAt(q0, j0, l0, x))
UnsentWait(dn, w) == \A p \in Pendings : w[p] \in Mbufs => dn[w[p]] # "sent"
\* A CPU passes its buffer on, and the pages stay with it.
LEMMA PagesPass ==
    ASSUME NEW fr \in [Mbufs -> Nat], NEW loc \in [Cpus -> Mbufs \cup {None}],
           NEW tx \in [Cpus -> Seq(Mbufs)], NEW ap \in SUBSET Mbufs,
           NEW wt \in [Pendings -> Mbufs \cup {None}], NEW dr \in SUBSET Mbufs,
           Owned(fr, loc, tx, ap, wt, dr), NEW jobs \in [Cpus -> JobNames],
           NEW dn \in [Mbufs -> {"default", "sent", "udp", "null"}],
           NEW ni \in [Mbufs -> 0..2], NEW pr \in [Cpus -> Int],
           PagesOk(fr, dn, ni, tx, pr, jobs, loc, wt),
           NEW c \in Cpus, NEW j \in JobNames, NEW l \in Mbufs \cup {None},
           NEW q \in Seq(Mbufs), NEW w \in [Pendings -> Mbufs \cup {None}],
           l \in Mbufs => (dn[l] = "sent" <=> j = "udp"),
           SentPins(dn, q, j, l, tx[c], jobs[c], loc[c]), UnsentWait(dn, w)
    PROVE  PagesOk(fr, dn, ni, [tx EXCEPT ![c] = q], pr, [jobs EXCEPT ![c] = j],
                   [loc EXCEPT ![c] = l], w)
<1>p1. \A x \in Mbufs : (ni[x] # 0 => dn[x] = "sent") /\ (fr[x] > 0 => dn[x] = "null")
  BY Zenon DEF PagesOk
<1>p2. \A e \in Cpus : loc[e] \in Mbufs => (dn[loc[e]] = "sent" <=> jobs[e] = "udp")
  BY Zenon DEF PagesOk
<1>p3. \A e \in Pendings : wt[e] \in Mbufs => dn[wt[e]] # "sent"
  BY Zenon DEF PagesOk
<1>p4. \A e \in Cpus : pr[e] = Cardinality(PinsAt(ni, tx[e], jobs[e], loc[e]))
  BY Zenon DEF PagesOk
<1> DEFINE t == [tx EXCEPT ![c] = q]
           jj == [jobs EXCEPT ![c] = j]
           ll == [loc EXCEPT ![c] = l]
<1>1. /\ t[c] = q /\ \A e \in Cpus : e # c => t[e] = tx[e]
      /\ jj[c] = j /\ \A e \in Cpus : e # c => jj[e] = jobs[e]
      /\ ll[c] = l /\ \A e \in Cpus : e # c => ll[e] = loc[e]
  OBVIOUS
<1> HIDE DEF t, jj, ll
<1>2. \A x \in Mbufs : ni[x] # 0 => dn[x] = "sent"
  BY <1>p1, <1>p2
<1>3. \A x \in Mbufs, k \in 1..2 : k <= ni[x] => dn[x] = "sent"
  BY <1>2
<1>4. PinsAt(ni, q, j, l) = PinsAt(ni, tx[c], jobs[c], loc[c])
  <2>1. SamePins(ni, tx[c], jobs[c], loc[c], ni, q, j, l)
    BY <1>3 DEF SamePins, SentPins
  <2> QED BY <2>1, PinsSame
<1>5. \A e \in Cpus : pr[e] = Cardinality(PinsAt(ni, t[e], jj[e], ll[e]))
  BY <1>1, <1>4, <1>p4
<1>6. \A e \in Cpus : ll[e] \in Mbufs => (dn[ll[e]] = "sent" <=> jj[e] = "udp")
  BY <1>1, <1>p2, ZenonT(40)
<1>7. PagesOk(fr, dn, ni, t, pr, jj, ll, w)
  BY <1>5, <1>6, <1>p1 DEF PagesOk, UnsentWait
<1> QED BY <1>7 DEF t, jj, ll

\* A received UDP packet goes to the application, or comes back.
LEMMA PagesApp ==
    ASSUME NEW fr \in [Mbufs -> Nat], NEW loc \in [Cpus -> Mbufs \cup {None}],
           NEW tx \in [Cpus -> Seq(Mbufs)], NEW ap \in SUBSET Mbufs,
           NEW wt \in [Pendings -> Mbufs \cup {None}], NEW dr \in SUBSET Mbufs,
           Owned(fr, loc, tx, ap, wt, dr), NEW jobs \in [Cpus -> JobNames],
           NEW dn \in [Mbufs -> {"default", "sent", "udp", "null"}],
           NEW ni \in [Mbufs -> 0..2], NEW pr \in [Cpus -> Int],
           PagesOk(fr, dn, ni, tx, pr, jobs, loc, wt),
           NEW m \in Mbufs, NEW f \in [Mbufs -> Nat], NEW d \in {"udp", "null"},
           fr[m] > 0 \/ dn[m] = "udp", f[m] > 0 => d = "null",
           \A x \in Mbufs : x # m => f[x] = fr[x]
    PROVE  PagesOk(f, [dn EXCEPT ![m] = d], ni, tx, pr, jobs, loc, wt)
<1>p1. \A x \in Mbufs : (ni[x] # 0 => dn[x] = "sent") /\ (fr[x] > 0 => dn[x] = "null")
  BY Zenon DEF PagesOk
<1>p2. \A e \in Cpus : loc[e] \in Mbufs => (dn[loc[e]] = "sent" <=> jobs[e] = "udp")
  BY Zenon DEF PagesOk
<1>p3. \A e \in Pendings : wt[e] \in Mbufs => dn[wt[e]] # "sent"
  BY Zenon DEF PagesOk
<1>p4. \A e \in Cpus : pr[e] = Cardinality(PinsAt(ni, tx[e], jobs[e], loc[e]))
  BY Zenon DEF PagesOk
<1> DEFINE dd == [dn EXCEPT ![m] = d]
<1>1. dd[m] = d /\ \A x \in Mbufs : x # m => dd[x] = dn[x]
  OBVIOUS
<1>2. ni[m] = 0 /\ dn[m] # "sent" /\ d # "sent"
  BY <1>p1, <1>p2
<1> HIDE DEF dd
<1>3. \A x \in Mbufs : (ni[x] # 0 => dd[x] = "sent") /\ (f[x] > 0 => dd[x] = "null")
  BY <1>1, <1>2, <1>p1, <1>p2
<1>4. \A e \in Cpus : loc[e] \in Mbufs => (dd[loc[e]] = "sent" <=> jobs[e] = "udp")
  BY <1>1, <1>2, <1>p2
<1>5. \A e \in Pendings : wt[e] \in Mbufs => dd[wt[e]] # "sent"
  BY <1>1, <1>2, <1>p3
<1>6. PagesOk(f, dd, ni, tx, pr, jobs, loc, wt)
  BY <1>3, <1>4, <1>5 DEF PagesOk
<1> QED BY <1>6 DEF dd

-----------------------------------------------------------------------------
(* A CPU's locals change *)

Rec(p, j, m, a, e, q, cr, rp, td) ==
    [pc |-> p, job |-> j, mbuf |-> m, addr |-> a, ent |-> e, pend |-> q,
     create |-> cr, reply |-> rp, todo |-> td]

\* A local record built from typed fields has those fields.
LEMMA RecFields ==
    ASSUME NEW p \in Pcs, NEW j \in {"none", "ip", "udp", "arp", "pending"},
           NEW m \in Mbufs \cup {None}, NEW a \in Addrs \cup {None},
           NEW e \in Entries \cup {None}, NEW q \in Pendings \cup {None},
           NEW cr \in BOOLEAN, NEW rp \in BOOLEAN, NEW td \in SUBSET Pendings
    PROVE  LET r == Rec(p, j, m, a, e, q, cr, rp, td) IN
           /\ r \in CpuType /\ r.pc = p /\ r.job = j /\ r.mbuf = m /\ r.addr = a
           /\ r.ent = e /\ r.pend = q /\ r.create = cr /\ r.reply = rp /\ r.todo = td
  BY DEF Rec, CpuType

\* The locals of an idle CPU.
LEMMA IdleFields ==
    /\ Idle \in CpuType /\ Idle.pc = "idle" /\ Idle.job = "none" /\ Idle.mbuf = None
    /\ LocalsOk(Idle) /\ ResolvedAt(Idle)
<1>1. /\ Idle \in CpuType /\ Idle.pc = "idle" /\ Idle.job = "none" /\ Idle.mbuf = None
      /\ Idle.create = TRUE
  BY DEF Idle, CpuType, Pcs
<1> QED BY <1>1 DEF LocalsOk, ResolvedAt

\* One CPU changes its locals, the others keep theirs.
LEMMA CpuFrame ==
    ASSUME cpu \in [Cpus -> CpuType], NEW c \in Cpus, NEW r \in CpuType, cpu' = [cpu EXCEPT ![c] = r]
    PROVE  /\ cpu' \in [Cpus -> CpuType] /\ cpu'[c] = r
           /\ \A d \in Cpus : d # c => cpu'[d] = cpu[d]
           /\ Loc' = [Loc EXCEPT ![c] = r.mbuf] /\ Jobs' = [Jobs EXCEPT ![c] = r.job]
<1>1. cpu' \in [Cpus -> CpuType] /\ cpu'[c] = r /\ \A d \in Cpus : d # c => cpu'[d] = cpu[d]
  OBVIOUS
<1>2. Loc' = [d \in Cpus |-> cpu'[d].mbuf] /\ [Loc EXCEPT ![c] = r.mbuf] = [d \in Cpus |-> IF d = c THEN r.mbuf ELSE cpu[d].mbuf]
  BY DEF Loc
<1>3. Jobs' = [d \in Cpus |-> cpu'[d].job] /\ [Jobs EXCEPT ![c] = r.job] = [d \in Cpus |-> IF d = c THEN r.job ELSE cpu[d].job]
  BY DEF Jobs
<1>4. Loc' = [Loc EXCEPT ![c] = r.mbuf]
  BY <1>1, <1>2
<1>5. Jobs' = [Jobs EXCEPT ![c] = r.job]
  BY <1>1, <1>3
<1> QED BY <1>1, <1>4, <1>5

InWalk(r) == r.pc \in {"walk", "mark"}

\* A step outside the walk that does not start or end a pending packet.
LEMMA LocalPosted ==
    ASSUME TypeOK, Linked, Posted, NEW c \in Cpus, NEW r \in CpuType, cpu' = [cpu EXCEPT ![c] = r],
           ~InWalk(cpu[c]), ~InWalk(r),
           cpu[c].job = "pending" \/ r.job = "pending" => r.job = cpu[c].job /\ r.pend = cpu[c].pend,
           UNCHANGED <<pend, inbox>>
    PROVE  Linked' /\ Posted' /\ Wait' = Wait
<1>1. cpu'[c] = r /\ \A d \in Cpus : d # c => cpu'[d] = cpu[d]
  BY CpuFrame DEF TypeOK
<1>2. \A d \in Cpus, p \in Pendings :
          cpu'[d].job = "pending" /\ cpu'[d].pend = p <=> cpu[d].job = "pending" /\ cpu[d].pend = p
  BY <1>1
<1>3. \A p \in Pendings : Running(p)' <=> Running(p)
  BY <1>2 DEF Running
<1>4. \A d \in Cpus, p \in Pendings :
          cpu'[d].pc = "mark" /\ cpu'[d].pend = p <=> cpu[d].pc = "mark" /\ cpu[d].pend = p
  BY <1>1 DEF InWalk
<1>5. \A p \in Pendings : Marking(p)' <=> Marking(p)
  BY <1>4 DEF Marking
<1>6. Linked'
  BY DEF Linked
<1>7. Wait' = Wait
  BY <1>3 DEF Wait
<1>8. Posted'
  <2>1. \A d \in Cpus : \A p \in inbox'[d] :
          /\ pend'[p].ent # None /\ pend'[p].cpu = d /\ ~Running(p)'
          /\ pend'[p].dispatched \/ Marking(p)'
    BY <1>3, <1>5 DEF Posted, TypeOK
  <2>2. \A d \in Cpus : cpu'[d].job = "pending" => cpu[d].job = "pending" /\ cpu'[d].pend = cpu[d].pend
    BY <1>1
  <2>3. \A d \in Cpus : cpu'[d].job = "pending" =>
          /\ cpu'[d].pend \in Pendings /\ pend'[cpu'[d].pend].ent # None
          /\ pend'[cpu'[d].pend].dispatched \/ Marking(cpu[d].pend)'
          /\ \A e \in Cpus : cpu'[e].job = "pending" /\ cpu'[e].pend = cpu'[d].pend => e = d
    <3> SUFFICES ASSUME NEW d \in Cpus, cpu'[d].job = "pending"
                 PROVE  /\ cpu'[d].pend \in Pendings /\ pend'[cpu'[d].pend].ent # None
                        /\ pend'[cpu'[d].pend].dispatched \/ Marking(cpu[d].pend)'
                        /\ \A e \in Cpus : cpu'[e].job = "pending" /\ cpu'[e].pend = cpu'[d].pend => e = d
      OBVIOUS
    <3>1. /\ cpu[d].pend \in Pendings /\ pend[cpu[d].pend].ent # None
          /\ pend[cpu[d].pend].dispatched \/ Marking(cpu[d].pend)
          /\ \A e \in Cpus : cpu[e].job = "pending" /\ cpu[e].pend = cpu[d].pend => e = d
      BY <2>2 DEF Posted
    <3>2. Marking(cpu[d].pend)' <=> Marking(cpu[d].pend)
      BY <1>5, <2>2, <3>1
    <3> QED BY <2>2, <3>1, <3>2
  <2>4. \A d \in Cpus : InWalk(cpu'[d]) => d # c /\ cpu'[d] = cpu[d] /\ InWalk(cpu[d])
    BY <1>1
  <2>5. \A d \in Cpus : cpu'[d].pc \in {"walk", "mark"} =>
          \A p \in cpu'[d].todo : /\ pend'[p].ent # None /\ ~pend'[p].dispatched
                                  /\ cpu'[d].pc = "mark" => cpu'[d].pend # p
    BY <2>4 DEF InWalk, Posted
  <2>6. \A d \in Cpus : cpu'[d].pc = "mark" =>
          cpu'[d].pend \in Pendings /\ pend'[cpu'[d].pend].ent # None
    BY <2>4 DEF InWalk, Posted
  <2> QED BY <2>1, <2>3, <2>5, <2>6 DEF Posted
<1> QED BY <1>6, <1>7, <1>8

\* A CPU that takes and releases no lock keeps Control.
LEMMA LocalControl ==
    ASSUME TypeOK, Control, NEW c \in Cpus, NEW r \in CpuType, cpu' = [cpu EXCEPT ![c] = r],
           ~InWalk(cpu[c]), ~InWalk(r), LocalsOk(r), UNCHANGED pending_pkt_lock,
           arp_lock' # None => "arp" \in exhausted'
    PROVE  Control'
<1>1. cpu'[c] = r /\ \A d \in Cpus : d # c => cpu'[d] = cpu[d]
  BY CpuFrame DEF TypeOK
<1> QED BY <1>1 DEF Control, InWalk

\* A step that takes no entry away keeps what was resolved.
LEMMA LocalResolved ==
    ASSUME TypeOK, Resolved, Control, NEW c \in Cpus, NEW r \in CpuType, cpu' = [cpu EXCEPT ![c] = r],
           ResolvedAt(r)', exhausted \subseteq exhausted',
           \A e \in Entries : entry[e].addr # None => entry'[e].addr = entry[e].addr,
           dropped' # {} => exhausted' # {}
    PROVE  Resolved'
<1>1. cpu'[c] = r /\ \A d \in Cpus : d # c => cpu'[d] = cpu[d]
  BY CpuFrame DEF TypeOK
<1>2. ASSUME NEW d \in Cpus, d # c PROVE ResolvedAt(cpu[d])'
  <2>1. ResolvedAt(cpu[d]) /\ LocalsOk(cpu[d]) /\ cpu'[d] = cpu[d]
    BY <1>1, <1>2 DEF Resolved, Control
  <2>2. ASSUME NEW a \in Addrs, Known(a) PROVE Known(a)'
    BY <2>2, NetAssumption DEF Known
  <2> QED BY <2>1, <2>2, NetAssumption DEF ResolvedAt, LocalsOk
<1>3. ResolvedAt(cpu[c])'
  BY <1>1 DEF ResolvedAt, Known
<1> QED BY <1>2, <1>3, Zenon DEF Resolved

\* The fields of a CPU's locals.
LEMMA FieldTypes ==
    ASSUME NEW l \in CpuType
    PROVE  /\ l.job \in {"none", "ip", "udp", "arp", "pending"} /\ l.mbuf \in Mbufs \cup {None}
           /\ l.addr \in Addrs \cup {None} /\ l.ent \in Entries \cup {None}
           /\ l.pend \in Pendings \cup {None} /\ l.create \in BOOLEAN /\ l.reply \in BOOLEAN
           /\ l.todo \in SUBSET Pendings
  BY DEF CpuType

\* The records that Start and Goto write, each given by a lemma on its fields.
StartTo(p, j, m, a) == [[Idle EXCEPT !.mbuf = m, !.addr = a] EXCEPT !.pc = p, !.job = j]
\* A CPU starts a job.
LEMMA StartRec ==
    ASSUME NEW p \in Pcs, NEW j \in {"none", "ip", "udp", "arp", "pending"}, NEW m \in Mbufs \cup {None}, NEW a \in Addrs \cup {None},
           NEW w, w = StartTo(p, j, m, a)
    PROVE  /\ w \in CpuType
           /\ w.pc = p /\ w.job = j /\ w.mbuf = m /\ w.addr = a
           /\ w.ent = None /\ w.pend = None /\ w.create /\ ~w.reply /\ w.todo = {}
<1>1. w = Rec(p, j, m, a, None, None, TRUE, FALSE, {})
  BY Zenon DEF Idle, Rec, StartTo
<1> QED BY <1>1 DEF Rec, CpuType

StartPendTo(p, j, m, a, q) == [[Idle EXCEPT !.pend = q, !.mbuf = m, !.addr = a] EXCEPT !.pc = p, !.job = j]
\* A CPU starts to send a pending packet.
LEMMA StartPendRec ==
    ASSUME NEW p \in Pcs, NEW j \in {"none", "ip", "udp", "arp", "pending"}, NEW m \in Mbufs \cup {None}, NEW a \in Addrs \cup {None}, NEW q \in Pendings \cup {None},
           NEW w, w = StartPendTo(p, j, m, a, q)
    PROVE  /\ w \in CpuType
           /\ w.pc = p /\ w.job = j /\ w.mbuf = m /\ w.addr = a
           /\ w.ent = None /\ w.pend = q /\ w.create /\ ~w.reply /\ w.todo = {}
<1>1. w = Rec(p, j, m, a, None, q, TRUE, FALSE, {})
  BY Zenon DEF Idle, Rec, StartPendTo
<1> QED BY <1>1 DEF Rec, CpuType

StartArpTo(p, j, m, a, cr, rp) == [[Idle EXCEPT !.mbuf = m, !.addr = a, !.create = cr, !.reply = rp] EXCEPT !.pc = p, !.job = j]
\* A CPU starts to handle an ARP packet.
LEMMA StartArpRec ==
    ASSUME NEW p \in Pcs, NEW j \in {"none", "ip", "udp", "arp", "pending"}, NEW m \in Mbufs \cup {None}, NEW a \in Addrs \cup {None}, NEW cr \in BOOLEAN, NEW rp \in BOOLEAN,
           NEW w, w = StartArpTo(p, j, m, a, cr, rp)
    PROVE  /\ w \in CpuType
           /\ w.pc = p /\ w.job = j /\ w.mbuf = m /\ w.addr = a
           /\ w.ent = None /\ w.pend = None /\ w.create = cr /\ w.reply = rp /\ w.todo = {}
<1>1. w = Rec(p, j, m, a, None, None, cr, rp, {})
  BY Zenon DEF Idle, Rec, StartArpTo
<1> QED BY <1>1 DEF Rec, CpuType

PcTo(l, p) == [l EXCEPT !.pc = p]
\* A CPU goes on at another place.
LEMMA PcRec ==
    ASSUME NEW l \in CpuType, NEW p \in Pcs,
           NEW w, w = PcTo(l, p)
    PROVE  /\ w \in CpuType
           /\ w.pc = p /\ w.job = l.job /\ w.mbuf = l.mbuf /\ w.addr = l.addr
           /\ w.ent = l.ent /\ w.pend = l.pend /\ w.create = l.create /\ w.reply = l.reply /\ w.todo = l.todo
<1>1. w = Rec(p, l.job, l.mbuf, l.addr, l.ent, l.pend, l.create, l.reply, l.todo)
  BY Zenon DEF CpuType, Rec, PcTo
<1> QED BY <1>1, FieldTypes DEF Rec, CpuType

EntTo(l, p, e) == [[l EXCEPT !.ent = e] EXCEPT !.pc = p]
\* A CPU has found an entry.
LEMMA EntRec ==
    ASSUME NEW l \in CpuType, NEW p \in Pcs, NEW e \in Entries \cup {None},
           NEW w, w = EntTo(l, p, e)
    PROVE  /\ w \in CpuType
           /\ w.pc = p /\ w.job = l.job /\ w.mbuf = l.mbuf /\ w.addr = l.addr
           /\ w.ent = e /\ w.pend = l.pend /\ w.create = l.create /\ w.reply = l.reply /\ w.todo = l.todo
<1>1. w = Rec(p, l.job, l.mbuf, l.addr, e, l.pend, l.create, l.reply, l.todo)
  BY Zenon DEF CpuType, Rec, EntTo
<1> QED BY <1>1, FieldTypes DEF Rec, CpuType

SendTo(l, p) == [[l EXCEPT !.ent = None, !.addr = None] EXCEPT !.pc = p]
\* A CPU knows the address and is about to send.
LEMMA SendRec ==
    ASSUME NEW l \in CpuType, NEW p \in Pcs,
           NEW w, w = SendTo(l, p)
    PROVE  /\ w \in CpuType
           /\ w.pc = p /\ w.job = l.job /\ w.mbuf = l.mbuf /\ w.addr = None
           /\ w.ent = None /\ w.pend = l.pend /\ w.create = l.create /\ w.reply = l.reply /\ w.todo = l.todo
<1>1. w = Rec(p, l.job, l.mbuf, None, None, l.pend, l.create, l.reply, l.todo)
  BY Zenon DEF CpuType, Rec, SendTo
<1> QED BY <1>1, FieldTypes DEF Rec, CpuType

UnlinkTo(l, p) == [[l EXCEPT !.mbuf = None, !.ent = None, !.addr = None] EXCEPT !.pc = p]
\* A CPU has sent a pending packet and is about to unlink it.
LEMMA UnlinkRec ==
    ASSUME NEW l \in CpuType, NEW p \in Pcs,
           NEW w, w = UnlinkTo(l, p)
    PROVE  /\ w \in CpuType
           /\ w.pc = p /\ w.job = l.job /\ w.mbuf = None /\ w.addr = None
           /\ w.ent = None /\ w.pend = l.pend /\ w.create = l.create /\ w.reply = l.reply /\ w.todo = l.todo
<1>1. w = Rec(p, l.job, None, None, None, l.pend, l.create, l.reply, l.todo)
  BY Zenon DEF CpuType, Rec, UnlinkTo
<1> QED BY <1>1, FieldTypes DEF Rec, CpuType

ReplyTo(l, p) == [[l EXCEPT !.addr = None, !.ent = None, !.create = TRUE] EXCEPT !.pc = p]
\* A CPU is about to answer an ARP request.
LEMMA ReplyRec ==
    ASSUME NEW l \in CpuType, NEW p \in Pcs,
           NEW w, w = ReplyTo(l, p)
    PROVE  /\ w \in CpuType
           /\ w.pc = p /\ w.job = l.job /\ w.mbuf = l.mbuf /\ w.addr = None
           /\ w.ent = None /\ w.pend = l.pend /\ w.create /\ w.reply = l.reply /\ w.todo = l.todo
<1>1. w = Rec(p, l.job, l.mbuf, None, None, l.pend, TRUE, l.reply, l.todo)
  BY Zenon DEF CpuType, Rec, ReplyTo
<1> QED BY <1>1, FieldTypes DEF Rec, CpuType

WalklockTo(l, p) == [[l EXCEPT !.addr = None, !.create = TRUE] EXCEPT !.pc = p]
\* A CPU is about to walk the pending packets of an entry.
LEMMA WalklockRec ==
    ASSUME NEW l \in CpuType, NEW p \in Pcs,
           NEW w, w = WalklockTo(l, p)
    PROVE  /\ w \in CpuType
           /\ w.pc = p /\ w.job = l.job /\ w.mbuf = l.mbuf /\ w.addr = None
           /\ w.ent = l.ent /\ w.pend = l.pend /\ w.create /\ w.reply = l.reply /\ w.todo = l.todo
<1>1. w = Rec(p, l.job, l.mbuf, None, l.ent, l.pend, TRUE, l.reply, l.todo)
  BY Zenon DEF CpuType, Rec, WalklockTo
<1> QED BY <1>1, FieldTypes DEF Rec, CpuType

TodoTo(l, p, td) == [[l EXCEPT !.todo = td] EXCEPT !.pc = p]
\* A CPU goes on along the pending packets of an entry.
LEMMA TodoRec ==
    ASSUME NEW l \in CpuType, NEW p \in Pcs, NEW td \in SUBSET Pendings,
           NEW w, w = TodoTo(l, p, td)
    PROVE  /\ w \in CpuType
           /\ w.pc = p /\ w.job = l.job /\ w.mbuf = l.mbuf /\ w.addr = l.addr
           /\ w.ent = l.ent /\ w.pend = l.pend /\ w.create = l.create /\ w.reply = l.reply /\ w.todo = td
<1>1. w = Rec(p, l.job, l.mbuf, l.addr, l.ent, l.pend, l.create, l.reply, td)
  BY Zenon DEF CpuType, Rec, TodoTo
<1> QED BY <1>1, FieldTypes DEF Rec, CpuType

MarkTo(l, p, q, td) == [[l EXCEPT !.pend = q, !.todo = td] EXCEPT !.pc = p]
\* A CPU has posted a pending packet and is about to mark it.
LEMMA MarkRec ==
    ASSUME NEW l \in CpuType, NEW p \in Pcs, NEW q \in Pendings \cup {None}, NEW td \in SUBSET Pendings,
           NEW w, w = MarkTo(l, p, q, td)
    PROVE  /\ w \in CpuType
           /\ w.pc = p /\ w.job = l.job /\ w.mbuf = l.mbuf /\ w.addr = l.addr
           /\ w.ent = l.ent /\ w.pend = q /\ w.create = l.create /\ w.reply = l.reply /\ w.todo = td
<1>1. w = Rec(p, l.job, l.mbuf, l.addr, l.ent, q, l.create, l.reply, td)
  BY Zenon DEF CpuType, Rec, MarkTo
<1> QED BY <1>1, FieldTypes DEF Rec, CpuType

PendTo(l, p, q) == [[l EXCEPT !.pend = q] EXCEPT !.pc = p]
\* A CPU has taken a pending packet for its buffer.
LEMMA PendRec ==
    ASSUME NEW l \in CpuType, NEW p \in Pcs, NEW q \in Pendings \cup {None},
           NEW w, w = PendTo(l, p, q)
    PROVE  /\ w \in CpuType
           /\ w.pc = p /\ w.job = l.job /\ w.mbuf = l.mbuf /\ w.addr = l.addr
           /\ w.ent = l.ent /\ w.pend = q /\ w.create = l.create /\ w.reply = l.reply /\ w.todo = l.todo
<1>1. w = Rec(p, l.job, l.mbuf, l.addr, l.ent, q, l.create, l.reply, l.todo)
  BY Zenon DEF CpuType, Rec, PendTo
<1> QED BY <1>1, FieldTypes DEF Rec, CpuType

\* A step outside the walk that leaves the buffers where they are.
LEMMA KeepStep ==
    ASSUME NetInv, NEW c \in Cpus, NEW r \in CpuType, cpu' = [cpu EXCEPT ![c] = r],
           ~InWalk(cpu[c]), ~InWalk(r), r.job = cpu[c].job, r.pend = cpu[c].pend,
           r.mbuf = cpu[c].mbuf, LocalsOk(r), ResolvedAt(r)',
           entry' \in [Entries -> EntryType],
           \A e \in Entries : entry[e].addr # None => entry'[e].addr = entry[e].addr,
           arp_lock' \in Cpus \cup {None}, arp_lock' # None => "arp" \in exhausted',
           exhausted \subseteq exhausted', exhausted' \subseteq {"arp", "pend"},
           UNCHANGED <<pend, inbox, pending_pkt_lock, bufVars, booting, dropped>>
    PROVE  NetInv'
<1> USE DEF NetInv
<1>1. Linked' /\ Posted' /\ Wait' = Wait
  BY LocalPosted
<1>2. Control'
  BY LocalControl
<1>3. Resolved'
  <2>1. dropped' # {} => exhausted' # {}
    BY DEF Resolved
  <2> QED BY <2>1, LocalResolved
<1>4. /\ cpu' \in [Cpus -> CpuType] /\ Loc' = [Loc EXCEPT ![c] = r.mbuf]
      /\ Jobs' = [Jobs EXCEPT ![c] = r.job]
  BY CpuFrame DEF TypeOK
<1>5. Loc' = Loc
  BY <1>4 DEF Loc
<1>9. Jobs' = Jobs
  BY <1>4 DEF Jobs
<1>6. UNCHANGED <<freed, done, nr_iov, txq, page_refs, app>>
  BY DEF bufVars
<1>7. TypeOK'
  BY <1>4, <1>6 DEF TypeOK
<1>8. Buffers'
  BY <1>1, <1>5, <1>6 DEF Buffers
<1>10. Pages'
  BY <1>1, <1>5, <1>6, <1>9 DEF Pages
<1> QED BY <1>1, <1>2, <1>3, <1>7, <1>8, <1>10

\* The locals of a CPU are of their type.
LEMMA LocalType ==
    ASSUME NetInv, NEW c \in Cpus
    PROVE  /\ cpu[c] \in CpuType /\ cpu[c].pc \in Pcs /\ cpu[c].mbuf \in Mbufs \cup {None}
           /\ cpu[c].job \in {"none", "ip", "udp", "arp", "pending"}
           /\ cpu[c].addr \in Addrs \cup {None} /\ cpu[c].ent \in Entries \cup {None}
           /\ cpu[c].pend \in Pendings \cup {None} /\ cpu[c].create \in BOOLEAN
           /\ cpu[c].reply \in BOOLEAN /\ cpu[c].todo \in SUBSET Pendings
           /\ LocalsOk(cpu[c]) /\ ResolvedAt(cpu[c])
<1>1. cpu[c] \in CpuType
  BY DEF NetInv, TypeOK
<1> QED BY <1>1 DEF NetInv, CpuType, Control, Resolved

-----------------------------------------------------------------------------
(* The table *)

\* arp_lookup keeps the invariant.
LEMMA LookupStep == ASSUME NetInv, NEW c \in Cpus, arp_lookup(c) PROVE NetInv'
<1>0. cpu[c].pc = "lookup" /\ UNCHANGED <<arpVars, bufVars, inbox, rest>>
  BY DEF arp_lookup
<1>1. UNCHANGED <<entry, pend, arp_lock, pending_pkt_lock, booting, dropped, exhausted>>
  BY <1>0 DEF arpVars, rest
<1>2. /\ entry' \in [Entries -> EntryType] /\ arp_lock' \in Cpus \cup {None}
      /\ arp_lock' # None => "arp" \in exhausted'
      /\ exhausted' \subseteq {"arp", "pend"}
  BY <1>1 DEF NetInv, TypeOK, Control
<1>3. CASE \E e \in __arp_lookup(cpu[c].addr) : Goto(c, "found", [cpu[c] EXCEPT !.ent = e])
  <2>1. PICK e \in Entries : entry[e].addr = cpu[c].addr /\ Goto(c, "found", [cpu[c] EXCEPT !.ent = e])
    BY <1>3 DEF __arp_lookup
  <2>5. PICK r : r = EntTo(cpu[c], "found", e)
    OBVIOUS
  <2>2. /\ r \in CpuType
        /\ r.pc = "found" /\ r.job = cpu[c].job /\ r.mbuf = cpu[c].mbuf /\ r.addr = cpu[c].addr
        /\ r.ent = e /\ r.pend = cpu[c].pend /\ r.create = cpu[c].create
    <3>1. "found" \in Pcs /\ cpu[c] \in CpuType /\ e \in Entries \cup {None}
      BY LocalType DEF Pcs
    <3> QED BY <2>5, <3>1, EntRec
  <2>4. cpu' = [cpu EXCEPT ![c] = r]
    BY <2>1, <2>5, Zenon DEF Goto, EntTo
  <2>3. LocalsOk(r) /\ ResolvedAt(r)' /\ ~InWalk(r) /\ ~InWalk(cpu[c])
    BY <1>0, <1>1, <2>1, <2>2, LocalType DEF LocalsOk, ResolvedAt, InWalk
  <2> QED BY <1>0, <1>1, <1>2, <2>2, <2>3, <2>4, KeepStep
<1>4. CASE Goto(c, IF cpu[c].create THEN "lock" ELSE "absent", cpu[c])
  <2> DEFINE to == IF cpu[c].create THEN "lock" ELSE "absent"
  <2>5. PICK r : r = PcTo(cpu[c], to)
    OBVIOUS
  <2>2. /\ r \in CpuType
        /\ r.pc = to /\ r.job = cpu[c].job /\ r.mbuf = cpu[c].mbuf /\ r.addr = cpu[c].addr
        /\ r.ent = cpu[c].ent /\ r.pend = cpu[c].pend /\ r.create = cpu[c].create
    <3>1. to \in Pcs /\ cpu[c] \in CpuType
      BY LocalType DEF Pcs
    <3> HIDE DEF to
    <3> QED BY <2>5, <3>1, PcRec
  <2>4. cpu' = [cpu EXCEPT ![c] = r]
    BY <1>4, <2>5, Zenon DEF Goto, PcTo
  <2>3. LocalsOk(r) /\ ResolvedAt(r)' /\ ~InWalk(r) /\ ~InWalk(cpu[c])
    BY <1>0, <1>1, <2>2, LocalType DEF LocalsOk, ResolvedAt, InWalk
  <2> QED BY <1>0, <1>1, <1>2, <2>2, <2>3, <2>4, KeepStep
<1> QED BY <1>3, <1>4 DEF arp_lookup

\* What a step does to the table: an entry keeps its address, arp_lock is kept
\* only when arp_mempool is empty.
TableStep ==
    /\ entry' \in [Entries -> EntryType] /\ arp_lock' \in Cpus \cup {None}
    /\ \A e \in Entries : entry[e].addr # None => entry'[e].addr = entry[e].addr
    /\ arp_lock' # None => "arp" \in exhausted'
    /\ exhausted \subseteq exhausted' /\ exhausted' \subseteq {"arp", "pend"}

\* A step that leaves the table alone.
LEMMA TableKept ==
    ASSUME NetInv, UNCHANGED <<entry, arp_lock, exhausted>> PROVE TableStep
  BY DEF NetInv, TypeOK, Control, TableStep

BufType(fr, dn, ni, tx, pr, ap, dr) ==
    /\ fr \in [Mbufs -> Nat] /\ ni \in [Mbufs -> 0..2]
    /\ dn \in [Mbufs -> {"default", "sent", "udp", "null"}]
    /\ tx \in [Cpus -> Seq(Mbufs)] /\ pr \in [Cpus -> Int]
    /\ ap \in SUBSET Mbufs /\ dr \in SUBSET Mbufs
    /\ \A m \in Mbufs : dn[m] = "udp" <=> m \in ap

\* A step outside the walk that hands one buffer on, but starts or ends no
\* pending packet.
LEMMA MoveStep ==
    ASSUME NetInv, NEW c \in Cpus, NEW r \in CpuType, cpu' = [cpu EXCEPT ![c] = r],
           ~InWalk(cpu[c]), ~InWalk(r),
           cpu[c].job = "pending" \/ r.job = "pending" => r.job = cpu[c].job /\ r.pend = cpu[c].pend,
           LocalsOk(r), ResolvedAt(r)', TableStep,
           UNCHANGED <<pend, inbox, pending_pkt_lock, booting>>,
           dropped' # {} => exhausted' # {},
           BufType(freed', done', nr_iov', txq', page_refs', app', dropped'),
           Owned(freed', [Loc EXCEPT ![c] = r.mbuf], txq', app', Wait, dropped'),
           PagesOk(freed', done', nr_iov', txq', page_refs', [Jobs EXCEPT ![c] = r.job],
                   [Loc EXCEPT ![c] = r.mbuf], Wait)
    PROVE  NetInv'
<1> USE DEF NetInv
<1>1. Linked' /\ Posted' /\ Wait' = Wait
  BY LocalPosted
<1>2. Control'
  BY LocalControl DEF TableStep
<1>3. Resolved'
  BY LocalResolved DEF TableStep
<1>4. /\ cpu' \in [Cpus -> CpuType] /\ Loc' = [Loc EXCEPT ![c] = r.mbuf]
      /\ Jobs' = [Jobs EXCEPT ![c] = r.job]
  BY CpuFrame DEF TypeOK
<1>7. TypeOK'
  BY <1>4 DEF TypeOK, TableStep, BufType
<1>8. Buffers'
  <2>1. Owned(freed', Loc', txq', app', Wait', dropped')
    BY <1>1, <1>4
  <2> QED BY <2>1 DEF Buffers, BufType
<1>9. Pages'
  BY <1>1, <1>4 DEF Pages
<1> QED BY <1>1, <1>2, <1>3, <1>7, <1>8, <1>9

\* A step of no CPU's function.
LEMMA QuietStep ==
    ASSUME NetInv, UNCHANGED <<cpu, pend, inbox, pending_pkt_lock, dropped>>, TableStep,
           booting' \in BOOLEAN,
           BufType(freed', done', nr_iov', txq', page_refs', app', dropped'),
           Owned(freed', Loc, txq', app', Wait, dropped'),
           PagesOk(freed', done', nr_iov', txq', page_refs', Jobs, Loc, Wait)
    PROVE  NetInv'
<1> USE DEF NetInv
<1>1. Loc' = Loc /\ Wait' = Wait /\ Jobs' = Jobs
  BY DEF Loc, Wait, Running, Jobs
<1>2. Linked' /\ Posted'
  <2>1. Linked'
    BY DEF Linked
  <2>2. \A p \in Pendings : (Running(p)' <=> Running(p)) /\ (Marking(p)' <=> Marking(p))
    BY DEF Running, Marking
  <2>3. \A d \in Cpus : \A p \in inbox[d] : p \in Pendings
    BY DEF TypeOK
  <2> QED BY <2>1, <2>2, <2>3 DEF Posted
<1>3. Control'
  BY DEF Control, TableStep
<1>4. Resolved'
  <2>1. ASSUME NEW d \in Cpus PROVE ResolvedAt(cpu[d])'
    <3>1. ResolvedAt(cpu[d]) /\ LocalsOk(cpu[d]) /\ cpu'[d] = cpu[d]
      BY DEF Resolved, Control
    <3>2. ASSUME NEW a \in Addrs, Known(a) PROVE Known(a)'
      BY <3>2, NetAssumption DEF Known, TableStep
    <3> QED BY <3>1, <3>2, NetAssumption DEF ResolvedAt, LocalsOk, TableStep
  <2>2. dropped' # {} => exhausted' # {}
    BY DEF Resolved, TableStep
  <2> QED BY <2>1, <2>2, Zenon DEF Resolved
<1>5. TypeOK'
  BY DEF TypeOK, TableStep, BufType
<1>6. Buffers'
  BY <1>1 DEF Buffers, BufType
<1>7. Pages'
  BY <1>1 DEF Pages
<1> QED BY <1>2, <1>3, <1>4, <1>5, <1>6, <1>7

\* What NetInv says of the buffers, in the form the moves need.
LEMMA BufferFacts ==
    ASSUME NetInv
    PROVE  /\ freed \in [Mbufs -> Nat] /\ Loc \in [Cpus -> Mbufs \cup {None}]
           /\ txq \in [Cpus -> Seq(Mbufs)] /\ app \in SUBSET Mbufs
           /\ Wait \in [Pendings -> Mbufs \cup {None}] /\ dropped \in SUBSET Mbufs
           /\ Owned(freed, Loc, txq, app, Wait, dropped)
           /\ BufType(freed, done, nr_iov, txq, page_refs, app, dropped)
           /\ \A c \in Cpus : Loc[c] = cpu[c].mbuf
<1>1. \A c \in Cpus : cpu[c].mbuf \in Mbufs \cup {None}
  BY LocalType
<1>2. Loc \in [Cpus -> Mbufs \cup {None}] /\ \A c \in Cpus : Loc[c] = cpu[c].mbuf
  BY <1>1 DEF Loc
<1>3. \A p \in Pendings : pend[p].mbuf \in Mbufs \cup {None}
  BY DEF NetInv, TypeOK, PendType
<1>4. Wait \in [Pendings -> Mbufs \cup {None}]
  BY <1>3 DEF Wait
<1> QED BY <1>2, <1>4 DEF NetInv, TypeOK, Buffers, BufType

\* ... and of the page references.
LEMMA PageFacts ==
    ASSUME NetInv
    PROVE  /\ Jobs \in [Cpus -> JobNames] /\ \A c \in Cpus : Jobs[c] = cpu[c].job
           /\ done \in [Mbufs -> {"default", "sent", "udp", "null"}]
           /\ nr_iov \in [Mbufs -> 0..2] /\ page_refs \in [Cpus -> Int]
           /\ PagesOk(freed, done, nr_iov, txq, page_refs, Jobs, Loc, Wait)
<1>1. \A c \in Cpus : cpu[c].job \in JobNames
  BY LocalType DEF JobNames
<1>2. Jobs \in [Cpus -> JobNames] /\ \A c \in Cpus : Jobs[c] = cpu[c].job
  BY <1>1 DEF Jobs
<1> QED BY <1>2 DEF NetInv, TypeOK, Pages

-----------------------------------------------------------------------------
(* Buffers come and go outside the functions of a CPU *)

\* mbuf_free keeps the types, and done = "udp" where it was.
LEMMA FreeType ==
    ASSUME NetInv, NEW m \in Mbufs, mbuf_free(m), m \notin app,
           app' = app, txq' \in [Cpus -> Seq(Mbufs)], page_refs' \in [Cpus -> Int],
           dropped' \in SUBSET Mbufs
    PROVE  /\ BufType(freed', done', nr_iov', txq', page_refs', app', dropped')
           /\ freed' = [freed EXCEPT ![m] = @ + 1] /\ nr_iov' = [nr_iov EXCEPT ![m] = 0]
           /\ done' = [done EXCEPT ![m] = "null"]
  BY BufferFacts DEF BufType, mbuf_free

\* page_get and page_put keep the type.
LEMMA PageType ==
    ASSUME NetInv, NEW c \in Cpus, NEW n \in 0..2, page_get(c, n) \/ page_put(c, n)
    PROVE  page_refs' \in [Cpus -> Int]
  BY BufferFacts DEF BufType, page_get, page_put

\* The free buffer that is chosen is one.
LEMMA MbufChosen ==
    ASSUME NetInv, MbufLeft
    PROVE  FreeMbuf \in Mbufs /\ freed[FreeMbuf] > 0 /\ freed[FreeMbuf] = 1 /\ FreeMbuf \notin app
<1>1. FreeMbuf \in Mbufs /\ freed[FreeMbuf] > 0
  BY DEF MbufLeft, FreeMbuf
<1>2. OwnedAt(FreeMbuf, freed, Loc, txq, app, Wait, dropped)
  BY <1>1, BufferFacts DEF Owned
<1> QED BY <1>1, <1>2 DEF OwnedAt

\* ip_input keeps the invariant.
LEMMA InputStep == ASSUME NetInv, NEW c \in Cpus, ip_input(c) PROVE NetInv'
<1>1. FreeMbuf \in Mbufs /\ freed[FreeMbuf] > 0
  BY MbufChosen DEF ip_input
<1>2. PICK m \in Mbufs : m = FreeMbuf /\ freed[m] > 0
  BY <1>1
<1>3. /\ freed' = [freed EXCEPT ![m] = @ - 1] /\ done' = [done EXCEPT ![m] = "udp"]
      /\ app' = app \cup {m}
      /\ UNCHANGED <<entry, pend, arp_lock, pending_pkt_lock, nr_iov, txq, page_refs, inbox, cpu, booting, dropped, exhausted>>
  BY <1>2 DEF ip_input, udp_input, arpVars, rest
<1>4. TableStep
  BY <1>3, TableKept
<1>5. Owned(freed', Loc, txq', app', Wait, dropped')
  BY <1>2, <1>3, BufferFacts, FreeToApp
<1>6. BufType(freed', done', nr_iov', txq', page_refs', app', dropped')
  BY <1>2, <1>3, BufferFacts DEF BufType
<1>7. booting' \in BOOLEAN
  BY <1>3 DEF NetInv, TypeOK
<1>8. PagesOk(freed', done', nr_iov', txq', page_refs', Jobs, Loc, Wait)
  <2>1. OwnedAt(m, freed, Loc, txq, app, Wait, dropped)
    BY BufferFacts DEF Owned
  <2>2. freed' \in [Mbufs -> Nat] /\ freed'[m] = 0 /\ \A x \in Mbufs : x # m => freed'[x] = freed[x]
    BY <1>2, <1>3, <2>1, BufferFacts DEF OwnedAt
  <2>3. "udp" \in {"udp", "null"}
    OBVIOUS
  <2>4. PagesOk(freed', [done EXCEPT ![m] = "udp"], nr_iov, txq, page_refs, Jobs, Loc, Wait)
    <3>1. PICK f \in [Mbufs -> Nat] : f = freed'
      BY <2>2
    <3>2. /\ freed[m] > 0 \/ done[m] = "udp"
          /\ f[m] > 0 => "udp" = "null"
          /\ \A x \in Mbufs : x # m => f[x] = freed[x]
      BY <1>2, <2>2, <3>1
    <3> QED BY <2>3, <3>1, <3>2, BufferFacts, PageFacts, PagesApp
  <2> QED BY <1>3, <2>4
<1> QED BY <1>3, <1>4, <1>5, <1>6, <1>7, <1>8, QuietStep

\* bsys_udp_recv_done keeps the invariant.
LEMMA RecvDoneStep == ASSUME NetInv, NEW c \in Cpus, bsys_udp_recv_done(c) PROVE NetInv'
<1>2. PICK m \in Mbufs : /\ done[m] = "udp" /\ done' = [done EXCEPT ![m] = "null"]
                         /\ freed' = [freed EXCEPT ![m] = @ + 1] /\ app' = app \ {m}
  BY DEF bsys_udp_recv_done
<1>3. UNCHANGED <<entry, pend, arp_lock, pending_pkt_lock, nr_iov, txq, page_refs, inbox, cpu, booting, dropped, exhausted>>
  BY DEF bsys_udp_recv_done, arpVars, rest
<1>4. TableStep
  BY <1>3, TableKept
<1>5. m \in app
  BY <1>2, BufferFacts DEF BufType
<1>6. Owned(freed', Loc, txq', app', Wait, dropped')
  BY <1>2, <1>3, <1>5, BufferFacts, AppToFree
<1>7. BufType(freed', done', nr_iov', txq', page_refs', app', dropped')
  BY <1>2, <1>3, BufferFacts DEF BufType
<1>8. booting' \in BOOLEAN
  BY <1>3 DEF NetInv, TypeOK
<1>9. PagesOk(freed', done', nr_iov', txq', page_refs', Jobs, Loc, Wait)
  <2>1. freed' \in [Mbufs -> Nat] /\ \A x \in Mbufs : x # m => freed'[x] = freed[x]
    BY <1>2, BufferFacts
  <2>2. "null" \in {"udp", "null"}
    OBVIOUS
  <2>3. PagesOk(freed', [done EXCEPT ![m] = "null"], nr_iov, txq, page_refs, Jobs, Loc, Wait)
    BY <1>2, <2>1, <2>2, BufferFacts, PageFacts, PagesApp
  <2> QED BY <1>2, <1>3, <2>3
<1> QED BY <1>3, <1>4, <1>6, <1>7, <1>8, <1>9, QuietStep

\* The completion of a transmission keeps the invariant.
LEMMA XmitStep == ASSUME NetInv, NEW c \in Cpus, XmitDone(c) PROVE NetInv'
<1>1. /\ txq[c] # << >> /\ txq' = [txq EXCEPT ![c] = Tail(@)]
      /\ UNCHANGED <<entry, pend, arp_lock, pending_pkt_lock, app, inbox, cpu, booting, dropped, exhausted>>
  BY DEF XmitDone, arpVars, rest
<1>2. txq[c] \in Seq(Mbufs)
  BY BufferFacts
<1>3. PICK m \in Mbufs : m = Head(txq[c]) /\ m = txq[c][1] /\ 1 \in 1..Len(txq[c])
  BY <1>1, <1>2
<1>4. mbuf_free(m) /\ page_refs' \in [Cpus -> Int]
  <2>1. CASE mbuf_default_done(m)
    BY <2>1, BufferFacts DEF mbuf_default_done, BufType
  <2>2. CASE udp_mbuf_done(c, m)
    <3>1. nr_iov[m] \in 0..2
      BY BufferFacts DEF BufType
    <3> QED BY <2>2, <3>1, PageType DEF udp_mbuf_done
  <2> QED BY <1>3, <2>1, <2>2 DEF XmitDone
<1>5. m \notin app
  <2>1. OwnedAt(m, freed, Loc, txq, app, Wait, dropped)
    BY BufferFacts DEF Owned
  <2> QED BY <1>3, <2>1 DEF OwnedAt
<1>6. txq' \in [Cpus -> Seq(Mbufs)]
  <2>1. Tail(txq[c]) \in Seq(Mbufs)
    BY <1>1, <1>2
  <2> QED BY <1>1, <2>1, BufferFacts
<1>7. /\ BufType(freed', done', nr_iov', txq', page_refs', app', dropped')
      /\ freed' = [freed EXCEPT ![m] = @ + 1] /\ nr_iov' = [nr_iov EXCEPT ![m] = 0]
      /\ done' = [done EXCEPT ![m] = "null"]
  BY <1>1, <1>4, <1>5, <1>6, BufferFacts, FreeType
<1>8. Owned(freed', Loc, txq', app', Wait, dropped')
  BY <1>1, <1>3, <1>7, BufferFacts, QueueToFree
<1>9. TableStep /\ booting' \in BOOLEAN
  BY <1>1, TableKept DEF NetInv, TypeOK
<1>10. page_refs' = [page_refs EXCEPT ![c] = @ - nr_iov[m]]
  <2>1. CASE done[m] = "default" /\ mbuf_default_done(m)
    <3>1. nr_iov[m] = 0
      BY <2>1, PageFacts, Zenon DEF PagesOk
    <3>2. page_refs' = page_refs
      BY <2>1 DEF mbuf_default_done
    <3> QED BY <3>1, <3>2, PageFacts
  <2>2. CASE udp_mbuf_done(c, m)
    BY <2>2 DEF udp_mbuf_done, page_put
  <2> QED BY <1>3, <2>1, <2>2 DEF XmitDone
<1>11. PagesOk(freed', done', nr_iov', txq', page_refs', Jobs, Loc, Wait)
  <2>1. PagesOk([freed EXCEPT ![m] = @ + 1], [done EXCEPT ![m] = "null"], [nr_iov EXCEPT ![m] = 0],
                [txq EXCEPT ![c] = Tail(@)], [page_refs EXCEPT ![c] = @ - nr_iov[m]], Jobs, Loc, Wait)
    BY <1>1, <1>3, BufferFacts, PageFacts, PagesXmit
  <2> QED BY <1>1, <1>7, <1>10, <2>1
<1> QED BY <1>1, <1>7, <1>8, <1>9, <1>11, QuietStep

\* A free element of arp_mempool becomes an entry.
LEMMA EntryTaken ==
    ASSUME NetInv, NEW a \in Addrs, NEW s \in BOOLEAN, NEW e \in Entries, entry[e].addr = None,
           entry' = [entry EXCEPT ![e] = NewEntry(a, s)], UNCHANGED <<arp_lock, exhausted>>
    PROVE  TableStep /\ entry'[e].addr = a
<1>1. NewEntry(a, s) \in EntryType /\ NewEntry(a, s).addr = a
  BY DEF NewEntry, EntryType
<1> QED BY <1>1 DEF NetInv, TypeOK, Control, TableStep

\* arp_insert of the configuration keeps the invariant.
LEMMA InsertStep == ASSUME NetInv, arp_insert PROVE NetInv'
<1>1. UNCHANGED <<cpu, pend, inbox, pending_pkt_lock, arp_lock, freed, done, nr_iov, txq, page_refs, app, booting, dropped, exhausted>>
  BY DEF arp_insert, bufVars, rest
<1>2. TableStep
  <2>1. CASE UNCHANGED entry
    BY <1>1, <2>1, TableKept
  <2>2. CASE entry' # entry
    <3>1. PICK a \in Static : /\ FreeEntries # {}
                              /\ entry' = [entry EXCEPT ![CHOOSE x \in FreeEntries : TRUE] = NewEntry(a, TRUE)]
      BY <2>2 DEF arp_insert
    <3>2. PICK e : e = CHOOSE x \in FreeEntries : TRUE
      OBVIOUS
    <3>3. e \in Entries /\ entry[e].addr = None
      BY <3>1, <3>2 DEF FreeEntries
    <3>4. a \in Addrs
      BY NetAssumption
    <3> QED BY <1>1, <3>1, <3>2, <3>3, <3>4, EntryTaken
  <2> QED BY <2>1, <2>2
<1>3. booting' \in BOOLEAN
  BY <1>1 DEF NetInv, TypeOK
<1> QED BY <1>1, <1>2, <1>3, BufferFacts, PageFacts, QuietStep

\* The end of the start-up keeps the invariant.
LEMMA BootStep == ASSUME NetInv, Boot PROVE NetInv'
<1>1. UNCHANGED <<cpu, pend, inbox, pending_pkt_lock, entry, arp_lock, freed, done, nr_iov, txq, page_refs, app, dropped, exhausted>>
      /\ booting' \in BOOLEAN
  BY DEF Boot, arpVars, bufVars
<1>2. TableStep
  BY <1>1, TableKept
<1> QED BY <1>1, <1>2, BufferFacts, PageFacts, QuietStep

\* A step that changes nothing keeps the invariant.
LEMMA NetStutter == ASSUME NetInv, UNCHANGED vars PROVE NetInv'
<1>1. UNCHANGED <<cpu, pend, inbox, pending_pkt_lock, entry, arp_lock, freed, done, nr_iov, txq, page_refs, app, dropped, exhausted>>
      /\ booting' \in BOOLEAN
  BY DEF vars, NetInv, TypeOK
<1>2. TableStep
  BY <1>1, TableKept
<1> QED BY <1>1, <1>2, BufferFacts, PageFacts, QuietStep

-----------------------------------------------------------------------------
(* The packet leaves the CPU *)

\* A CPU in a function outside the walk that holds a packet.
Busy(c) == /\ cpu[c].mbuf \in Mbufs /\ ~InWalk(cpu[c])
           /\ cpu[c].pc \in {"found", "absent", "send", "park", "queue", "reply"}

\* A buffer passed to a queue, a pending packet or nobody takes its pages along.
LEMMA SentTo ==
    ASSUME NetInv, NEW c \in Cpus, Busy(c), Sent(c)
    PROVE  \E r \in CpuType :
              /\ cpu' = [cpu EXCEPT ![c] = r] /\ r.mbuf = None
              /\ ~InWalk(r) /\ LocalsOk(r) /\ ResolvedAt(r)'
              /\ cpu[c].job = "pending" \/ r.job = "pending" => r.job = cpu[c].job /\ r.pend = cpu[c].pend
              /\ r.job \in JobNames /\ r.job # "udp"
<1>1. CASE cpu[c].job = "pending"
  <2>1. PICK r : r = UnlinkTo(cpu[c], "unlink")
    OBVIOUS
  <2>2. cpu' = [cpu EXCEPT ![c] = r]
    BY <1>1, <2>1, Zenon DEF Sent, Goto, UnlinkTo
  <2>3. /\ r \in CpuType /\ r.pc = "unlink" /\ r.job = cpu[c].job /\ r.mbuf = None
        /\ r.pend = cpu[c].pend /\ r.create = cpu[c].create
    <3>1. "unlink" \in Pcs /\ cpu[c] \in CpuType
      BY LocalType DEF Pcs
    <3> QED BY <2>1, <3>1, UnlinkRec
  <2>4. ~InWalk(r) /\ LocalsOk(r) /\ ResolvedAt(r)' /\ r.job \in JobNames
    BY <1>1, <2>3, LocalType DEF InWalk, LocalsOk, ResolvedAt, JobNames
  <2> QED BY <1>1, <2>2, <2>3, <2>4
<1>2. CASE cpu[c].job # "pending"
  <2>1. cpu' = [cpu EXCEPT ![c] = Idle]
    BY <1>2 DEF Sent
  <2>2. PICK r : r = Idle
    OBVIOUS
  <2>3. r \in CpuType /\ r.pc = "idle" /\ r.job = "none" /\ r.mbuf = None /\ LocalsOk(r)
    BY <2>2, IdleFields
  <2>4. ~InWalk(r) /\ ResolvedAt(r)' /\ r.job \in JobNames
    BY <2>3 DEF InWalk, ResolvedAt, JobNames
  <2> QED BY <1>2, <2>1, <2>2, <2>3, <2>4
<1> QED BY <1>1, <1>2

\* The CPU frees its packet.
LEMMA FreeStep ==
    ASSUME NetInv, NEW c \in Cpus, Busy(c), mbuf_free(cpu[c].mbuf), Sent(c), TableStep,
           page_refs' = IF cpu[c].job = "udp" THEN [page_refs EXCEPT ![c] = @ - nr_iov[cpu[c].mbuf]]
                        ELSE page_refs,
           UNCHANGED <<pend, inbox, pending_pkt_lock, booting, dropped, txq, app>>
    PROVE  NetInv'
<1>0. page_refs' \in [Cpus -> Int]
  <2>1. nr_iov[cpu[c].mbuf] \in Int /\ page_refs \in [Cpus -> Int]
    BY PageFacts DEF Busy
  <2> QED BY <2>1
<1>1. PICK m \in Mbufs : m = cpu[c].mbuf /\ m = Loc[c]
  BY BufferFacts DEF Busy
<1>2. m \notin app
  <2>1. OwnedAt(m, freed, Loc, txq, app, Wait, dropped)
    BY BufferFacts DEF Owned
  <2> QED BY <1>1, <2>1 DEF OwnedAt
<1>3. /\ BufType(freed', done', nr_iov', txq', page_refs', app', dropped')
      /\ freed' = [freed EXCEPT ![m] = @ + 1] /\ nr_iov' = [nr_iov EXCEPT ![m] = 0]
      /\ done' = [done EXCEPT ![m] = "null"]
  BY <1>0, <1>1, <1>2, BufferFacts, FreeType
<1>4. PICK r \in CpuType :
              /\ cpu' = [cpu EXCEPT ![c] = r] /\ r.mbuf = None
              /\ ~InWalk(r) /\ LocalsOk(r) /\ ResolvedAt(r)'
              /\ cpu[c].job = "pending" \/ r.job = "pending" => r.job = cpu[c].job /\ r.pend = cpu[c].pend
              /\ r.job \in JobNames /\ r.job # "udp"
  BY SentTo
<1>5. Owned(freed', [Loc EXCEPT ![c] = r.mbuf], txq', app', Wait, dropped')
  BY <1>1, <1>3, <1>4, BufferFacts, CpuToFree
<1>6. dropped' # {} => exhausted' # {}
  BY DEF NetInv, Resolved, TableStep
<1>7. PagesOk(freed', done', nr_iov', txq', page_refs', [Jobs EXCEPT ![c] = r.job],
              [Loc EXCEPT ![c] = r.mbuf], Wait)
  <2>1. PagesOk([freed EXCEPT ![m] = @ + 1], [done EXCEPT ![m] = "null"], [nr_iov EXCEPT ![m] = 0], txq,
                IF Jobs[c] = "udp" THEN [page_refs EXCEPT ![c] = @ - nr_iov[m]] ELSE page_refs,
                [Jobs EXCEPT ![c] = r.job], [Loc EXCEPT ![c] = None], Wait)
    BY <1>1, <1>4, BufferFacts, PageFacts, PagesFree
  <2>2. page_refs' = IF Jobs[c] = "udp" THEN [page_refs EXCEPT ![c] = @ - nr_iov[m]] ELSE page_refs
    BY <1>1, PageFacts
  <2> QED BY <1>3, <1>4, <2>1, <2>2
<1> QED BY <1>3, <1>4, <1>5, <1>6, <1>7, MoveStep DEF Busy

\* The error path of the callers.
LEMMA FailStep ==
    ASSUME NetInv, NEW c \in Cpus, Busy(c), Fail(c), TableStep,
           UNCHANGED <<pend, inbox, pending_pkt_lock, booting, dropped, txq, app>>
    PROVE  NetInv'
<1>1. page_refs' = IF cpu[c].job = "udp" THEN [page_refs EXCEPT ![c] = @ - nr_iov[cpu[c].mbuf]]
                   ELSE page_refs
  BY DEF Fail, page_put
<1> QED BY <1>1, FreeStep DEF Fail

\* PagesPass in the words of the state.
LEMMA PassedPages ==
    ASSUME NetInv, NEW c \in Cpus, NEW j \in JobNames, NEW l \in Mbufs \cup {None},
           NEW q \in Seq(Mbufs), NEW w \in [Pendings -> Mbufs \cup {None}],
           l \in Mbufs => (done[l] = "sent" <=> j = "udp"),
           SentPins(done, q, j, l, txq[c], Jobs[c], Loc[c]), UnsentWait(done, w)
    PROVE  PagesOk(freed, done, nr_iov, [txq EXCEPT ![c] = q], page_refs, [Jobs EXCEPT ![c] = j],
                   [Loc EXCEPT ![c] = l], w)
  BY BufferFacts, PageFacts, PagesPass

\* No parked buffer has pinned pages.
LEMMA UnsentWaits == ASSUME NetInv PROVE UnsentWait(done, Wait)
  BY PageFacts, Zenon DEF PagesOk, UnsentWait

\* A CPU that sends no UDP packet gives its packet away, or nothing.
LEMMA PagesGiven ==
    ASSUME NetInv, NEW c \in Cpus, cpu[c].job # "udp", NEW j \in JobNames, j # "udp",
           NEW w \in [Pendings -> Mbufs \cup {None}], UnsentWait(done, w)
    PROVE  PagesOk(freed, done, nr_iov, txq, page_refs, [Jobs EXCEPT ![c] = j],
                   [Loc EXCEPT ![c] = None], w)
<1>1. SentPins(done, txq[c], j, None, txq[c], Jobs[c], Loc[c])
  BY PageFacts DEF SentPins, PinnedAt
<1>2. None \notin Mbufs /\ txq[c] \in Seq(Mbufs)
  BY BufferFacts, NetAssumption
<1>3. PagesOk(freed, done, nr_iov, [txq EXCEPT ![c] = txq[c]], page_refs, [Jobs EXCEPT ![c] = j],
              [Loc EXCEPT ![c] = None], w)
  BY <1>1, <1>2, PassedPages
<1>4. [txq EXCEPT ![c] = txq[c]] = txq
  BY BufferFacts
<1> QED BY <1>3, <1>4

\* What is in a queue with one more element.
LEMMA InAppended ==
    ASSUME NEW s \in Seq(Mbufs), NEW m \in Mbufs, NEW x
    PROVE  (\E i \in 1..Len(Append(s, m)) : Append(s, m)[i] = x)
              <=> (\E i \in 1..Len(s) : s[i] = x) \/ x = m
<1> DEFINE q == Append(s, m)
           n == Len(s)
<1>1. n \in Nat /\ Len(q) = n + 1 /\ q[n + 1] = m /\ \A i \in 1..n : q[i] = s[i]
  OBVIOUS
<1> HIDE DEF q, n
<1>2. ASSUME NEW i \in 1..Len(q), q[i] = x PROVE (\E k \in 1..n : s[k] = x) \/ x = m
  <2>1. i \in 1..n \/ i = n + 1
    BY <1>1
  <2> QED BY <1>1, <1>2, <2>1
<1>3. ASSUME NEW i \in 1..n, s[i] = x PROVE \E k \in 1..Len(q) : q[k] = x
  <2>1. i \in 1..Len(q) /\ q[i] = x
    BY <1>1, <1>3
  <2> QED BY <2>1
<1>4. x = m => \E k \in 1..Len(q) : q[k] = x
  <2>1. (n + 1) \in 1..Len(q)
    BY <1>1
  <2> QED BY <1>1, <2>1
<1> QED BY <1>2, <1>3, <1>4 DEF q, n

\* The CPU puts its packet in its transmit queue.
LEMMA QueueStep ==
    ASSUME NetInv, NEW c \in Cpus, Busy(c), eth_send(c, cpu[c].mbuf), Sent(c), keepBufs,
           UNCHANGED <<entry, arp_lock, exhausted, page_refs, pend, inbox, pending_pkt_lock, booting, dropped, app>>
    PROVE  NetInv'
<1>1. PICK m \in Mbufs : m = cpu[c].mbuf /\ m = Loc[c]
  BY BufferFacts DEF Busy
<1>2. txq' = [txq EXCEPT ![c] = Append(@, m)] /\ UNCHANGED <<freed, nr_iov, done>>
  BY <1>1 DEF eth_send, keepBufs
<1>3. txq' \in [Cpus -> Seq(Mbufs)]
  <2>1. Append(txq[c], m) \in Seq(Mbufs)
    BY BufferFacts
  <2> QED BY <1>2, <2>1, BufferFacts
<1>4. BufType(freed', done', nr_iov', txq', page_refs', app', dropped')
  BY <1>2, <1>3, BufferFacts DEF BufType
<1>5. PICK r \in CpuType :
              /\ cpu' = [cpu EXCEPT ![c] = r] /\ r.mbuf = None
              /\ ~InWalk(r) /\ LocalsOk(r) /\ ResolvedAt(r)'
              /\ cpu[c].job = "pending" \/ r.job = "pending" => r.job = cpu[c].job /\ r.pend = cpu[c].pend
              /\ r.job \in JobNames /\ r.job # "udp"
  BY SentTo
<1>6. Owned(freed', [Loc EXCEPT ![c] = r.mbuf], txq', app', Wait, dropped')
  <2>1. Owned(freed, [Loc EXCEPT ![c] = None], [txq EXCEPT ![c] = Append(@, Loc[c])], app, Wait, dropped)
    BY <1>1, BufferFacts, CpuToQueue, ZenonT(40)
  <2>2. txq' = [txq EXCEPT ![c] = Append(@, Loc[c])]
    BY <1>1, <1>2
  <2> QED BY <1>2, <1>5, <2>1, <2>2
<1>7. (dropped' # {} => exhausted' # {}) /\ TableStep
  BY TableKept DEF NetInv, Resolved
<1>8. PagesOk(freed', done', nr_iov', txq', page_refs', [Jobs EXCEPT ![c] = r.job],
              [Loc EXCEPT ![c] = r.mbuf], Wait)
  <2>0. txq[c] \in Seq(Mbufs)
    BY BufferFacts
  <2>1. PICK q \in Seq(Mbufs) : q = Append(txq[c], m)
    <3>1. Append(txq[c], m) \in Seq(Mbufs)
      BY <2>0
    <3> QED BY <3>1, Zenon
  <2>2. \A x \in Mbufs : (\E i \in 1..Len(q) : q[i] = x) <=> (\E i \in 1..Len(txq[c]) : txq[c][i] = x) \/ x = m
    BY <2>0, <2>1, InAppended
  <2>3. done[m] = "sent" <=> Jobs[c] = "udp"
    BY <1>1, PageFacts, Zenon DEF PagesOk
  <2>4. SentPins(done, q, r.job, None, txq[c], Jobs[c], Loc[c])
    BY <1>1, <1>5, <2>2, <2>3 DEF SentPins, PinnedAt
  <2>5. PagesOk(freed, done, nr_iov, [txq EXCEPT ![c] = q], page_refs, [Jobs EXCEPT ![c] = r.job],
                [Loc EXCEPT ![c] = None], Wait)
    BY <1>5, <2>4, PassedPages, UnsentWaits, NetAssumption, BufferFacts
  <2>6. txq' = [txq EXCEPT ![c] = q]
    BY <1>2, <2>1
  <2> QED BY <1>2, <1>5, <2>5, <2>6
<1> QED BY <1>4, <1>5, <1>6, <1>7, <1>8, MoveStep DEF Busy

\* The CPU forgets its packet.
LEMMA DropStep ==
    ASSUME NetInv, NEW c \in Cpus, Busy(c), cpu[c].job # "udp", Drop(c), exhausted' # {}, TableStep,
           UNCHANGED <<freed, done, nr_iov, txq, page_refs, app, pend, inbox, pending_pkt_lock, booting>>
    PROVE  NetInv'
<1>1. PICK m \in Mbufs : m = cpu[c].mbuf /\ m = Loc[c]
  BY BufferFacts DEF Busy
<1>2. dropped' = dropped \cup {m} /\ Sent(c)
  BY <1>1 DEF Drop
<1>3. BufType(freed', done', nr_iov', txq', page_refs', app', dropped')
  BY <1>2, BufferFacts DEF BufType
<1>4. PICK r \in CpuType :
              /\ cpu' = [cpu EXCEPT ![c] = r] /\ r.mbuf = None
              /\ ~InWalk(r) /\ LocalsOk(r) /\ ResolvedAt(r)'
              /\ cpu[c].job = "pending" \/ r.job = "pending" => r.job = cpu[c].job /\ r.pend = cpu[c].pend
              /\ r.job \in JobNames /\ r.job # "udp"
  BY <1>2, SentTo
<1>5. Owned(freed', [Loc EXCEPT ![c] = r.mbuf], txq', app', Wait, dropped')
  <2>1. Owned(freed, [Loc EXCEPT ![c] = None], txq, app, Wait, dropped \cup {Loc[c]})
    BY <1>1, BufferFacts, CpuToDropped
  <2> QED BY <1>1, <1>2, <1>4, <2>1
<1>6. PagesOk(freed', done', nr_iov', txq', page_refs', [Jobs EXCEPT ![c] = r.job],
              [Loc EXCEPT ![c] = r.mbuf], Wait)
  <2>1. PagesOk(freed, done, nr_iov, txq, page_refs, [Jobs EXCEPT ![c] = r.job],
                [Loc EXCEPT ![c] = None], Wait)
    BY <1>4, PagesGiven, UnsentWaits, BufferFacts
  <2> QED BY <1>4, <2>1
<1> QED BY <1>3, <1>4, <1>5, <1>6, MoveStep DEF Busy

\* A packet that goes out on the link keeps the invariant.
LEMMA TransmitStep == ASSUME NetInv, NEW c \in Cpus, Transmit(c) PROVE NetInv'
<1>1. Busy(c)
  BY LocalType, NetAssumption DEF Transmit, Busy, InWalk, LocalsOk
<1>2. UNCHANGED <<entry, pend, arp_lock, pending_pkt_lock, app, inbox, booting, dropped, exhausted>>
  BY DEF Transmit, arpVars, rest
<1>3. CASE eth_send(c, cpu[c].mbuf) /\ Sent(c) /\ keepBufs /\ UNCHANGED page_refs
  BY <1>1, <1>2, <1>3, QueueStep
<1>4. CASE Fail(c) /\ UNCHANGED txq
  BY <1>1, <1>2, <1>4, TableKept, FailStep
<1> QED BY <1>3, <1>4 DEF Transmit

\* An ARP answer that goes out keeps the invariant.
LEMMA RespondStep == ASSUME NetInv, NEW c \in Cpus, Respond(c) PROVE NetInv'
<1>1. Busy(c) /\ cpu[c].job = "arp"
  BY LocalType, NetAssumption DEF Respond, Busy, InWalk, LocalsOk
<1>2. UNCHANGED <<entry, pend, arp_lock, pending_pkt_lock, page_refs, app, inbox, booting, dropped, exhausted>>
  BY DEF Respond, arpVars, rest
<1>3. Sent(c)
  BY <1>1 DEF Respond, Sent
<1>4. CASE eth_send(c, cpu[c].mbuf) /\ keepBufs
  BY <1>1, <1>2, <1>3, <1>4, QueueStep
<1>5. CASE mbuf_free(cpu[c].mbuf) /\ UNCHANGED txq
  <2>1. page_refs' = IF cpu[c].job = "udp" THEN [page_refs EXCEPT ![c] = @ - nr_iov[cpu[c].mbuf]]
                     ELSE page_refs
    BY <1>1, <1>2
  <2> QED BY <1>1, <1>2, <1>3, <1>5, <2>1, TableKept, FreeStep
<1> QED BY <1>4, <1>5 DEF Respond, arp_send_response_reuse

-----------------------------------------------------------------------------
(* The look-up under the lock, and what its callers make of it *)

\* arp_lookup under the table's lock keeps the invariant.
LEMMA LockedStep == ASSUME NetInv, NEW c \in Cpus, arp_lookup_locked(c) PROVE NetInv'
<1>0. cpu[c].pc = "lock" /\ cpu[c] \in CpuType /\ cpu[c].addr \in Addrs /\ ~InWalk(cpu[c])
  BY LocalType DEF arp_lookup_locked, LocalsOk, InWalk
<1>1. UNCHANGED <<pend, inbox, pending_pkt_lock, bufVars, booting, dropped>>
  BY DEF arp_lookup_locked
<1>2. ASSUME NEW e \in Entries, Goto(c, "found", [cpu[c] EXCEPT !.ent = e]),
             entry'[e].addr = cpu[c].addr, TableStep
      PROVE  NetInv'
  <2>1. PICK r : r = EntTo(cpu[c], "found", e)
    OBVIOUS
  <2>2. /\ r \in CpuType
        /\ r.pc = "found" /\ r.job = cpu[c].job /\ r.mbuf = cpu[c].mbuf /\ r.addr = cpu[c].addr
        /\ r.ent = e /\ r.pend = cpu[c].pend /\ r.create = cpu[c].create
    <3>1. "found" \in Pcs /\ cpu[c] \in CpuType /\ e \in Entries \cup {None}
      BY LocalType DEF Pcs
    <3> QED BY <2>1, <3>1, EntRec
  <2>3. cpu' = [cpu EXCEPT ![c] = r]
    BY <1>2, <2>1, Zenon DEF Goto, EntTo
  <2>4. LocalsOk(r) /\ ResolvedAt(r)' /\ ~InWalk(r)
    BY <1>0, <1>2, <2>2, LocalType DEF LocalsOk, ResolvedAt, InWalk
  <2> QED BY <1>0, <1>1, <1>2, <2>2, <2>3, <2>4, KeepStep DEF TableStep
<1>3. CASE \E e \in __arp_lookup(cpu[c].addr) : /\ Goto(c, "found", [cpu[c] EXCEPT !.ent = e])
                                                /\ UNCHANGED <<entry, arp_lock, exhausted>>
  <2>1. PICK e \in Entries : /\ entry[e].addr = cpu[c].addr
                             /\ Goto(c, "found", [cpu[c] EXCEPT !.ent = e])
                             /\ UNCHANGED <<entry, arp_lock, exhausted>>
    BY <1>3 DEF __arp_lookup
  <2>2. TableStep
    BY <2>1, TableKept
  <2> QED BY <1>2, <2>1, <2>2
<1>4. CASE /\ FreeEntries # {}
           /\ LET e == CHOOSE x \in FreeEntries : TRUE IN
             /\ entry' = [entry EXCEPT ![e] = NewEntry(cpu[c].addr, FALSE)]
             /\ Goto(c, "found", [cpu[c] EXCEPT !.ent = e])
           /\ UNCHANGED <<arp_lock, exhausted>>
  <2>1. PICK e : e = CHOOSE x \in FreeEntries : TRUE
    OBVIOUS
  <2>2. e \in Entries /\ entry[e].addr = None
    BY <1>4, <2>1 DEF FreeEntries
  <2>3. /\ entry' = [entry EXCEPT ![e] = NewEntry(cpu[c].addr, FALSE)]
        /\ Goto(c, "found", [cpu[c] EXCEPT !.ent = e]) /\ UNCHANGED <<arp_lock, exhausted>>
    BY <1>4, <2>1
  <2>4. TableStep /\ entry'[e].addr = cpu[c].addr
    BY <1>0, <2>2, <2>3, EntryTaken
  <2> QED BY <1>2, <2>2, <2>3, <2>4
<1>5. CASE /\ arp_lock' = c /\ exhausted' = exhausted \cup {"arp"}
           /\ Goto(c, "absent", cpu[c]) /\ UNCHANGED entry
  <2>1. PICK r : r = PcTo(cpu[c], "absent")
    OBVIOUS
  <2>2. /\ r \in CpuType
        /\ r.pc = "absent" /\ r.job = cpu[c].job /\ r.mbuf = cpu[c].mbuf /\ r.addr = cpu[c].addr
        /\ r.ent = cpu[c].ent /\ r.pend = cpu[c].pend /\ r.create = cpu[c].create
    <3>1. "absent" \in Pcs /\ cpu[c] \in CpuType
      BY LocalType DEF Pcs
    <3> QED BY <2>1, <3>1, PcRec
  <2>3. cpu' = [cpu EXCEPT ![c] = r]
    BY <1>5, <2>1, Zenon DEF Goto, PcTo
  <2>4. LocalsOk(r) /\ ResolvedAt(r)' /\ ~InWalk(r)
    BY <1>0, <1>5, <2>2, LocalType DEF LocalsOk, ResolvedAt, InWalk
  <2>5. TableStep
    BY <1>5 DEF TableStep, NetInv, TypeOK
  <2> QED BY <1>0, <1>1, <2>2, <2>3, <2>4, <2>5, KeepStep DEF TableStep
<1> QED BY <1>3, <1>4, <1>5 DEF arp_lookup_locked

\* Marking an entry as being resolved keeps its address.
LEMMA ActiveNever ==
    ASSUME NetInv, NEW e \in Entries, entry' = entry \/ entry' = [entry EXCEPT ![e].resolving = TRUE],
           UNCHANGED <<arp_lock, exhausted>>
    PROVE  TableStep
<1>1. CASE entry' = entry
  BY <1>1, TableKept
<1>2. CASE entry' = [entry EXCEPT ![e].resolving = TRUE]
  <2>1. entry[e] \in EntryType /\ entry \in [Entries -> EntryType]
    BY DEF NetInv, TypeOK
  <2>2. [entry[e] EXCEPT !.resolving = TRUE] \in EntryType
        /\ [entry[e] EXCEPT !.resolving = TRUE].addr = entry[e].addr
    BY <2>1 DEF EntryType
  <2>3. entry' = [entry EXCEPT ![e] = [entry[e] EXCEPT !.resolving = TRUE]]
    BY <1>2, <2>1, Zenon
  <2>4. entry' \in [Entries -> EntryType] /\ \A x \in Entries : entry'[x].addr = entry[x].addr
    BY <2>1, <2>2, <2>3
  <2> QED BY <2>4 DEF NetInv, TypeOK, Control, TableStep
<1> QED BY <1>1, <1>2

\* arp_lookup_mac keeps the invariant.
LEMMA LookupMacStep == ASSUME NetInv, NEW c \in Cpus, arp_lookup_mac(c) PROVE NetInv'
<1> DEFINE e == cpu[c].ent
           known == cpu[c].pc = "found" /\ entry[e].valid
<1>0. /\ cpu[c].pc \in {"found", "absent"} /\ cpu[c].job # "arp" /\ cpu[c].addr \in Addrs
      /\ ~InWalk(cpu[c]) /\ Busy(c)
      /\ cpu[c].pc = "found" => e \in Entries
  BY LocalType, NetAssumption DEF arp_lookup_mac, LocalsOk, InWalk, Busy
<1>1. UNCHANGED <<pend, arp_lock, pending_pkt_lock, txq, app, inbox, booting, dropped, exhausted>>
  BY DEF arp_lookup_mac, rest
<1>2. TableStep
  <2>1. CASE cpu[c].pc = "found"
    <3>1. entry' = entry \/ entry' = [entry EXCEPT ![e].resolving = TRUE]
      BY Zenon DEF arp_lookup_mac
    <3> QED BY <1>0, <1>1, <2>1, <3>1, ActiveNever
  <2>2. CASE cpu[c].pc # "found"
    BY <1>1, <2>2, TableKept DEF arp_lookup_mac
  <2> QED BY <2>1, <2>2
<1>3. CASE cpu[c].job = "udp" /\ Fail(c)
  BY <1>0, <1>1, <1>2, <1>3, FailStep
<1>4. CASE /\ Goto(c, "send", [cpu[c] EXCEPT !.ent = None, !.addr = None])
           /\ keepBufs /\ UNCHANGED page_refs
  <2>1. PICK r : r = SendTo(cpu[c], "send")
    OBVIOUS
  <2>2. /\ r \in CpuType
        /\ r.pc = "send" /\ r.job = cpu[c].job /\ r.mbuf = cpu[c].mbuf /\ r.addr = None
        /\ r.ent = None /\ r.pend = cpu[c].pend /\ r.create = cpu[c].create
    <3>1. "send" \in Pcs /\ cpu[c] \in CpuType
      BY LocalType DEF Pcs
    <3> QED BY <2>1, <3>1, SendRec
  <2>3. cpu' = [cpu EXCEPT ![c] = r]
    BY <1>4, <2>1, Zenon DEF Goto, SendTo
  <2>4. LocalsOk(r) /\ ResolvedAt(r)' /\ ~InWalk(r)
    BY <1>0, <2>2, LocalType DEF LocalsOk, ResolvedAt, InWalk
  <2>5. UNCHANGED <<pend, inbox, pending_pkt_lock, bufVars, booting, dropped>>
    BY <1>1, <1>4 DEF keepBufs, bufVars
  <2> QED BY <1>0, <1>2, <2>2, <2>3, <2>4, <2>5, KeepStep DEF TableStep
<1>5. CASE /\ cpu[c].job # "udp" /\ Goto(c, "park", [cpu[c] EXCEPT !.ent = None])
           /\ keepBufs /\ UNCHANGED page_refs
  <2>1. PICK r : r = EntTo(cpu[c], "park", None)
    OBVIOUS
  <2>2. /\ r \in CpuType
        /\ r.pc = "park" /\ r.job = cpu[c].job /\ r.mbuf = cpu[c].mbuf /\ r.addr = cpu[c].addr
        /\ r.ent = None /\ r.pend = cpu[c].pend /\ r.create = cpu[c].create
    <3>1. "park" \in Pcs /\ cpu[c] \in CpuType /\ None \in Entries \cup {None}
      BY LocalType DEF Pcs
    <3> QED BY <2>1, <3>1, EntRec
  <2>3. cpu' = [cpu EXCEPT ![c] = r]
    BY <1>5, <2>1, Zenon DEF Goto, EntTo
  <2>4. LocalsOk(r) /\ ~InWalk(r)
    BY <1>0, <1>5, <2>2, LocalType DEF LocalsOk, InWalk
  <2>5. ResolvedAt(r)'
    <3>1. CASE cpu[c].pc = "found"
      <4>1. entry[e].addr = cpu[c].addr /\ e \in Entries
        BY <1>0, <3>1, LocalType DEF ResolvedAt
      <4>2. entry'[e].addr = cpu[c].addr
        BY <1>0, <1>2, <4>1, NetAssumption DEF TableStep
      <4> QED BY <2>2, <4>1, <4>2 DEF ResolvedAt, Known
    <3>2. CASE cpu[c].pc = "absent"
      <4>1. "arp" \in exhausted
        BY <1>0, <3>2, LocalType DEF ResolvedAt, LocalsOk
      <4> QED BY <1>1, <2>2, <4>1 DEF ResolvedAt
    <3> QED BY <1>0, <3>1, <3>2
  <2>6. UNCHANGED <<pend, inbox, pending_pkt_lock, bufVars, booting, dropped>>
    BY <1>1, <1>5 DEF keepBufs, bufVars
  <2> QED BY <1>0, <1>2, <2>2, <2>3, <2>4, <2>5, <2>6, KeepStep DEF TableStep
<1> QED BY <1>3, <1>4, <1>5 DEF arp_lookup_mac

\* The look-up of arp_add_pending_pkt keeps the invariant.
LEMMA AddLookupStep == ASSUME NetInv, NEW c \in Cpus, AddLookup(c) PROVE NetInv'
<1>0. /\ cpu[c].pc = "park" /\ cpu[c].addr \in Addrs /\ ~InWalk(cpu[c]) /\ Busy(c)
      /\ cpu[c].job # "udp"
  BY LocalType, NetAssumption DEF AddLookup, LocalsOk, InWalk, Busy
<1>1. /\ UNCHANGED <<entry, pend, arp_lock, pending_pkt_lock, bufVars, inbox, booting, exhausted>>
      /\ UNCHANGED <<freed, done, nr_iov, txq, page_refs, app>>
  BY DEF AddLookup, arpVars, bufVars
<1>2. TableStep
  BY <1>1, TableKept
<1>3. CASE /\ \E e \in __arp_lookup(cpu[c].addr) : Goto(c, "queue", [cpu[c] EXCEPT !.ent = e])
           /\ UNCHANGED dropped
  <2>1. PICK e \in Entries : Goto(c, "queue", [cpu[c] EXCEPT !.ent = e])
    BY <1>3 DEF __arp_lookup
  <2>2. PICK r : r = EntTo(cpu[c], "queue", e)
    OBVIOUS
  <2>3. /\ r \in CpuType
        /\ r.pc = "queue" /\ r.job = cpu[c].job /\ r.mbuf = cpu[c].mbuf /\ r.addr = cpu[c].addr
        /\ r.ent = e /\ r.pend = cpu[c].pend /\ r.create = cpu[c].create
    <3>1. "queue" \in Pcs /\ cpu[c] \in CpuType /\ e \in Entries \cup {None}
      BY LocalType DEF Pcs
    <3> QED BY <2>2, <3>1, EntRec
  <2>4. cpu' = [cpu EXCEPT ![c] = r]
    BY <2>1, <2>2, Zenon DEF Goto, EntTo
  <2>5. LocalsOk(r) /\ ResolvedAt(r)' /\ ~InWalk(r)
    BY <1>0, <2>3, LocalType DEF LocalsOk, ResolvedAt, InWalk
  <2> QED BY <1>0, <1>1, <1>2, <1>3, <2>3, <2>4, <2>5, KeepStep DEF TableStep
<1>4. CASE __arp_lookup(cpu[c].addr) = {} /\ Drop(c)
  <2>1. exhausted' # {}
    <3>1. Known(cpu[c].addr) \/ "arp" \in exhausted
      BY <1>0, LocalType DEF ResolvedAt
    <3>2. ~Known(cpu[c].addr)
      BY <1>4 DEF Known, __arp_lookup
    <3> QED BY <1>1, <3>1, <3>2
  <2> QED BY <1>0, <1>1, <1>2, <1>4, <2>1, DropStep
<1> QED BY <1>3, <1>4 DEF AddLookup

\* arp_update_mac keeps the invariant.
LEMMA UpdateStep == ASSUME NetInv, NEW c \in Cpus, arp_update_mac(c) PROVE NetInv'
<1>0. /\ cpu[c].pc \in {"found", "absent"} /\ cpu[c].job = "arp" /\ ~InWalk(cpu[c])
      /\ cpu[c].mbuf \in Mbufs
      /\ cpu[c].pc = "found" => cpu[c].ent \in Entries
  BY LocalType, NetAssumption DEF arp_update_mac, LocalsOk, InWalk
<1>1. UNCHANGED <<pend, arp_lock, pending_pkt_lock, bufVars, inbox, booting, dropped, exhausted>>
  BY DEF arp_update_mac, rest
<1>2. CASE ToReply(c) /\ UNCHANGED entry
  <2>1. PICK r : r = ReplyTo(cpu[c], "reply")
    OBVIOUS
  <2>2. /\ r \in CpuType
        /\ r.pc = "reply" /\ r.job = cpu[c].job /\ r.mbuf = cpu[c].mbuf
        /\ r.pend = cpu[c].pend
    <3>1. "reply" \in Pcs /\ cpu[c] \in CpuType
      BY LocalType DEF Pcs
    <3> QED BY <2>1, <3>1, ReplyRec
  <2>3. cpu' = [cpu EXCEPT ![c] = r]
    BY <1>2, <2>1, Zenon DEF ToReply, Goto, ReplyTo
  <2>4. LocalsOk(r) /\ ResolvedAt(r)' /\ ~InWalk(r)
    BY <1>0, <2>2, LocalType, NetAssumption DEF LocalsOk, ResolvedAt, InWalk
  <2>5. TableStep
    BY <1>1, <1>2, TableKept
  <2> QED BY <1>0, <1>1, <2>2, <2>3, <2>4, <2>5, KeepStep DEF TableStep
<1>3. CASE /\ cpu[c].pc = "found"
           /\ entry' = [entry EXCEPT ![cpu[c].ent] = [@ EXCEPT !.valid = TRUE, !.resolving = FALSE]]
           /\ Goto(c, "walklock", [cpu[c] EXCEPT !.addr = None, !.create = TRUE])
  <2>1. PICK r : r = WalklockTo(cpu[c], "walklock")
    OBVIOUS
  <2>2. /\ r \in CpuType
        /\ r.pc = "walklock" /\ r.job = cpu[c].job /\ r.mbuf = cpu[c].mbuf
        /\ r.ent = cpu[c].ent /\ r.pend = cpu[c].pend
    <3>1. "walklock" \in Pcs /\ cpu[c] \in CpuType
      BY LocalType DEF Pcs
    <3> QED BY <2>1, <3>1, WalklockRec
  <2>3. cpu' = [cpu EXCEPT ![c] = r]
    BY <1>3, <2>1, Zenon DEF Goto, WalklockTo
  <2>4. LocalsOk(r) /\ ResolvedAt(r)' /\ ~InWalk(r)
    BY <1>0, <1>3, <2>2, LocalType, NetAssumption DEF LocalsOk, ResolvedAt, InWalk
  <2>5. TableStep
    <3>1. PICK e \in Entries : e = cpu[c].ent
      BY <1>0, <1>3
    <3>2. entry[e] \in EntryType /\ entry \in [Entries -> EntryType]
      BY DEF NetInv, TypeOK
    <3>3. PICK x : x = [entry[e] EXCEPT !.valid = TRUE, !.resolving = FALSE]
      OBVIOUS
    <3>4. entry' = [entry EXCEPT ![e] = x]
      BY <1>3, <3>1, <3>3, Zenon
    <3>7. x = [addr |-> entry[e].addr, valid |-> TRUE, static |-> entry[e].static,
               active |-> entry[e].active, resolving |-> FALSE]
      BY <3>2, <3>3, Zenon DEF EntryType
    <3>5. x \in EntryType /\ x.addr = entry[e].addr
      BY <3>2, <3>7 DEF EntryType
    <3>6. entry' \in [Entries -> EntryType] /\ \A y \in Entries : entry'[y].addr = entry[y].addr
      BY <3>2, <3>4, <3>5
    <3> QED BY <1>1, <3>6 DEF NetInv, TypeOK, Control, TableStep
  <2> QED BY <1>0, <1>1, <2>2, <2>3, <2>4, <2>5, KeepStep DEF TableStep
<1> QED BY <1>0, <1>2, <1>3 DEF arp_update_mac

-----------------------------------------------------------------------------
(* A function starts *)

\* A CPU takes a free buffer and enters arp_lookup with it.
LEMMA TakeStep ==
    ASSUME NetInv, NEW c \in Cpus, cpu[c].pc = "idle", MbufLeft, NEW r \in CpuType,
           cpu' = [cpu EXCEPT ![c] = r], r.mbuf = FreeMbuf, r.pc = "lookup",
           r.job \in {"ip", "udp", "arp"}, r.addr \in Addrs, r.job # "arp" => r.create,
           NEW d \in {"default", "sent"}, done' = [done EXCEPT ![FreeMbuf] = d],
           freed' = [freed EXCEPT ![FreeMbuf] = @ - 1],
           NEW n \in 0..2, nr_iov' = [nr_iov EXCEPT ![FreeMbuf] = n],
           page_refs' = [page_refs EXCEPT ![c] = @ + n],
           d = "sent" <=> r.job = "udp", n # 0 => d = "sent",
           UNCHANGED <<arpVars, txq, app, inbox, rest>>
    PROVE  NetInv'
<1>1. PICK m \in Mbufs : m = FreeMbuf /\ freed[m] = 1 /\ m \notin app
  BY MbufChosen
<1>2. UNCHANGED <<entry, pend, arp_lock, pending_pkt_lock, txq, app, inbox, booting, dropped, exhausted>>
  BY DEF arpVars, rest
<1>3. TableStep
  BY <1>2, TableKept
<1>9. nr_iov' \in [Mbufs -> 0..2] /\ page_refs' \in [Cpus -> Int]
  <2>1. n \in Int
    OBVIOUS
  <2> QED BY <1>1, <2>1, PageFacts
<1>4. BufType(freed', done', nr_iov', txq', page_refs', app', dropped')
  BY <1>1, <1>2, <1>9, BufferFacts DEF BufType
<1>5. cpu[c].job = "none" /\ cpu[c].mbuf = None /\ ~InWalk(cpu[c])
  BY LocalType DEF LocalsOk, InWalk
<1>6. Owned(freed', [Loc EXCEPT ![c] = r.mbuf], txq', app', Wait, dropped')
  <2>1. Loc[c] = None /\ freed[m] > 0
    BY <1>1, <1>5, BufferFacts
  <2>2. Owned([freed EXCEPT ![m] = @ - 1], [Loc EXCEPT ![c] = m], txq, app, Wait, dropped)
    BY <2>1, BufferFacts, FreeToCpu
  <2> QED BY <1>1, <1>2, <2>2
<1>7. ~InWalk(r) /\ LocalsOk(r) /\ ResolvedAt(r)'
  BY <1>1, NetAssumption DEF InWalk, LocalsOk, ResolvedAt
<1>8. dropped' # {} => exhausted' # {}
  BY <1>2 DEF NetInv, Resolved
<1>10. PagesOk(freed', done', nr_iov', txq', page_refs', [Jobs EXCEPT ![c] = r.job],
               [Loc EXCEPT ![c] = r.mbuf], Wait)
  <2>1. Loc[c] = None /\ freed[m] > 0 /\ r.job \in JobNames
    BY <1>1, <1>5, BufferFacts DEF JobNames
  <2>2. PagesOk([freed EXCEPT ![m] = @ - 1], [done EXCEPT ![m] = d], [nr_iov EXCEPT ![m] = n], txq,
                [page_refs EXCEPT ![c] = @ + n], [Jobs EXCEPT ![c] = r.job], [Loc EXCEPT ![c] = m], Wait)
    BY <2>1, BufferFacts, PageFacts, PagesTake
  <2> QED BY <1>1, <1>2, <2>2
<1> QED BY <1>2, <1>3, <1>4, <1>5, <1>6, <1>7, <1>8, <1>10, MoveStep

\* What the three starts share.
LEMMA Started ==
    ASSUME NetInv, MbufLeft, NEW j \in {"ip", "udp", "arp"}, NEW a \in Addrs, NEW r,
           r = StartTo("lookup", j, FreeMbuf, a)
    PROVE  /\ r \in CpuType /\ r.mbuf = FreeMbuf /\ r.pc = "lookup" /\ r.job = j /\ r.addr = a
           /\ r.create
<1>1. /\ "lookup" \in Pcs /\ j \in {"none", "ip", "udp", "arp", "pending"}
      /\ FreeMbuf \in Mbufs \cup {None} /\ a \in Addrs \cup {None}
  BY MbufChosen DEF Pcs
<1> QED BY <1>1, StartRec

\* ip_output_hinted keeps the invariant.
LEMMA OutputStep == ASSUME NetInv, NEW c \in Cpus, ip_output_hinted(c) PROVE NetInv'
<1>1. PICK b \in Dests :
          Start(c, "ip", [Idle EXCEPT !.mbuf = FreeMbuf, !.addr = NextHop(b)])
  BY DEF ip_output_hinted
<1>2. PICK a \in Addrs : a = NextHop(b)
  BY NetAssumption DEF NextHop
<1>3. PICK r : r = StartTo("lookup", "ip", FreeMbuf, a)
  OBVIOUS
<1>4. cpu[c].pc = "idle" /\ cpu' = [cpu EXCEPT ![c] = r]
  BY <1>1, <1>2, <1>3, Zenon DEF Start, StartTo
<1>5. /\ r \in CpuType /\ r.mbuf = FreeMbuf /\ r.pc = "lookup" /\ r.job = "ip" /\ r.addr = a
      /\ r.create
  BY <1>3, Started DEF ip_output_hinted
<1>6. PICK n \in 0..2 : /\ n = 0 /\ nr_iov' = [nr_iov EXCEPT ![FreeMbuf] = n]
                        /\ page_refs' = [page_refs EXCEPT ![c] = @ + n]
  <2>1. nr_iov' = [nr_iov EXCEPT ![FreeMbuf] = 0] /\ page_refs' = page_refs
    BY DEF ip_output_hinted
  <2>2. page_refs = [page_refs EXCEPT ![c] = @ + 0] /\ 0 \in 0..2
    BY PageFacts
  <2> QED BY <2>1, <2>2
<1>7. /\ MbufLeft /\ done' = [done EXCEPT ![FreeMbuf] = "default"]
      /\ freed' = [freed EXCEPT ![FreeMbuf] = @ - 1] /\ UNCHANGED <<arpVars, txq, app, inbox, rest>>
  BY DEF ip_output_hinted
<1>8. "default" \in {"default", "sent"} /\ r.job \in {"ip", "udp", "arp"} /\ r.job # "udp"
  BY <1>5
<1> QED BY <1>4, <1>5, <1>6, <1>7, <1>8, TakeStep

\* bsys_udp_send keeps the invariant.
LEMMA UdpSendStep == ASSUME NetInv, NEW c \in Cpus, bsys_udp_send(c) PROVE NetInv'
<1>1. PICK a \in Dests : Start(c, "udp", [Idle EXCEPT !.mbuf = FreeMbuf, !.addr = a])
  BY DEF bsys_udp_send
<1>2. a \in Addrs
  BY NetAssumption
<1>3. PICK r : r = StartTo("lookup", "udp", FreeMbuf, a)
  OBVIOUS
<1>4. cpu[c].pc = "idle" /\ cpu' = [cpu EXCEPT ![c] = r]
  BY <1>1, <1>3, Zenon DEF Start, StartTo
<1>5. /\ r \in CpuType /\ r.mbuf = FreeMbuf /\ r.pc = "lookup" /\ r.job = "udp" /\ r.addr = a
      /\ r.create
  BY <1>2, <1>3, Started DEF bsys_udp_send
<1>6. PICK n \in 0..2 : /\ n # 0 /\ nr_iov' = [nr_iov EXCEPT ![FreeMbuf] = n]
                        /\ page_refs' = [page_refs EXCEPT ![c] = @ + n]
  <2>1. PICK n \in {1, 2} : nr_iov' = [nr_iov EXCEPT ![FreeMbuf] = n] /\ page_get(c, n)
    BY DEF bsys_udp_send
  <2>2. n \in 0..2 /\ n # 0
    OBVIOUS
  <2> QED BY <2>1, <2>2 DEF page_get
<1>7. /\ MbufLeft /\ done' = [done EXCEPT ![FreeMbuf] = "sent"]
      /\ freed' = [freed EXCEPT ![FreeMbuf] = @ - 1] /\ UNCHANGED <<arpVars, txq, app, inbox, rest>>
  BY DEF bsys_udp_send
<1>8. "sent" \in {"default", "sent"} /\ r.job \in {"ip", "udp", "arp"}
  BY <1>5
<1> QED BY <1>2, <1>4, <1>5, <1>6, <1>7, <1>8, TakeStep

\* arp_input keeps the invariant.
LEMMA ArpInputStep == ASSUME NetInv, NEW c \in Cpus, arp_input(c) PROVE NetInv'
<1>1. PICK a \in Addrs, t \in BOOLEAN, q \in BOOLEAN :
          Start(c, "arp", [Idle EXCEPT !.mbuf = FreeMbuf, !.addr = a, !.create = t, !.reply = t /\ q])
  BY DEF arp_input
<1>2. PICK s \in BOOLEAN : s = (t /\ q)
  OBVIOUS
<1>3. PICK r : r = StartArpTo("lookup", "arp", FreeMbuf, a, t, s)
  OBVIOUS
<1>4. cpu[c].pc = "idle" /\ cpu' = [cpu EXCEPT ![c] = r]
  BY <1>1, <1>2, <1>3, Zenon DEF Start, StartArpTo
<1>5. r \in CpuType /\ r.mbuf = FreeMbuf /\ r.pc = "lookup" /\ r.job = "arp" /\ r.addr = a
  <2>1. /\ "lookup" \in Pcs /\ "arp" \in {"none", "ip", "udp", "arp", "pending"}
        /\ FreeMbuf \in Mbufs \cup {None} /\ a \in Addrs \cup {None}
    BY MbufChosen DEF Pcs, arp_input
  <2> QED BY <1>3, <2>1, StartArpRec
<1>6. PICK n \in 0..2 : /\ n = 0 /\ nr_iov' = [nr_iov EXCEPT ![FreeMbuf] = n]
                        /\ page_refs' = [page_refs EXCEPT ![c] = @ + n]
  <2>1. nr_iov' = [nr_iov EXCEPT ![FreeMbuf] = 0] /\ page_refs' = page_refs
    BY DEF arp_input
  <2>2. page_refs = [page_refs EXCEPT ![c] = @ + 0] /\ 0 \in 0..2
    BY PageFacts
  <2> QED BY <2>1, <2>2
<1>7. /\ MbufLeft /\ done' = [done EXCEPT ![FreeMbuf] = "default"]
      /\ freed' = [freed EXCEPT ![FreeMbuf] = @ - 1] /\ UNCHANGED <<arpVars, txq, app, inbox, rest>>
  BY DEF arp_input
<1>8. "default" \in {"default", "sent"} /\ r.job \in {"ip", "udp", "arp"} /\ r.job # "udp"
  BY <1>5
<1> QED BY <1>4, <1>5, <1>6, <1>7, <1>8, TakeStep

-----------------------------------------------------------------------------
(* Pending packets and the walk of arp_update_mac *)

\* Whatever a step does to the pending packets, this much remains to be shown.
LEMMA PendingStep ==
    ASSUME NetInv, NEW c \in Cpus, NEW r \in CpuType, cpu' = [cpu EXCEPT ![c] = r],
           LocalsOk(r), ResolvedAt(r)', Linked', Posted', pend' \in [Pendings -> PendType],
           inbox' \in [Cpus -> SUBSET Pendings], pending_pkt_lock' \in Cpus \cup {None},
           \A d \in Cpus : pending_pkt_lock' = d <=> InWalk(cpu[d])',
           UNCHANGED <<entry, arp_lock, exhausted, dropped, booting, bufVars>>,
           Owned(freed, [Loc EXCEPT ![c] = r.mbuf], txq, app, Wait', dropped),
           PagesOk(freed, done, nr_iov, txq, page_refs, [Jobs EXCEPT ![c] = r.job],
                   [Loc EXCEPT ![c] = r.mbuf], Wait')
    PROVE  NetInv'
<1> USE DEF NetInv
<1>1. UNCHANGED <<freed, done, nr_iov, txq, page_refs, app>>
  BY DEF bufVars
<1>2. /\ cpu' \in [Cpus -> CpuType] /\ Loc' = [Loc EXCEPT ![c] = r.mbuf]
      /\ Jobs' = [Jobs EXCEPT ![c] = r.job]
      /\ cpu'[c] = r /\ \A d \in Cpus : d # c => cpu'[d] = cpu[d]
  BY CpuFrame DEF TypeOK
<1>3. Control'
  <2>1. \A d \in Cpus : LocalsOk(cpu[d])'
    BY <1>2 DEF Control, LocalsOk
  <2> QED BY <2>1 DEF Control, InWalk
<1>4. Resolved'
  BY LocalResolved DEF Resolved
<1>5. TypeOK'
  BY <1>1, <1>2 DEF TypeOK
<1>6. Buffers'
  <2>1. Owned(freed', Loc', txq', app', Wait', dropped')
    BY <1>1, <1>2
  <2> QED BY <1>1, <2>1 DEF Buffers
<1>7. Pages'
  BY <1>1, <1>2 DEF Pages
<1> QED BY <1>3, <1>4, <1>5, <1>6, <1>7

\* Under pending_pkt_lock nobody else walks.
LEMMA WalkAlone ==
    ASSUME NetInv
    PROVE  /\ \A c, d \in Cpus : InWalk(cpu[c]) /\ InWalk(cpu[d]) => c = d
           /\ pending_pkt_lock = None => \A c \in Cpus : ~InWalk(cpu[c])
  BY NetAssumption DEF NetInv, Control, InWalk

\* send_pending_pkt takes its packet over.
LEMMA SendPendingStep == ASSUME NetInv, NEW c \in Cpus, send_pending_pkt(c) PROVE NetInv'
<1>1. PICK p \in inbox[c] :
          /\ Start(c, "pending", [Idle EXCEPT !.pend = p, !.mbuf = pend[p].mbuf,
                                              !.addr = NextHop(pend[p].addr)])
          /\ inbox' = [inbox EXCEPT ![c] = @ \ {p}]
  BY DEF send_pending_pkt
<1>2. /\ UNCHANGED <<entry, pend, arp_lock, pending_pkt_lock, bufVars, booting, dropped, exhausted>>
      /\ cpu[c].pc = "idle"
  BY <1>1 DEF send_pending_pkt, arpVars, rest, Start
<1>3. inbox \in [Cpus -> SUBSET Pendings] /\ p \in Pendings
  BY DEF NetInv, TypeOK
<1>4. /\ pend[p].ent # None /\ pend[p].cpu = c /\ ~Running(p)
      /\ pend[p].dispatched \/ Marking(p)
  BY DEF NetInv, Posted
<1>5. PICK m \in Mbufs, a \in Addrs : m = pend[p].mbuf /\ a = NextHop(pend[p].addr)
  BY <1>3, <1>4, NetAssumption DEF NetInv, Linked, NextHop
<1>6. PICK r : r = StartPendTo("lookup", "pending", m, a, p)
  OBVIOUS
<1>7. cpu' = [cpu EXCEPT ![c] = r]
  BY <1>1, <1>5, <1>6, Zenon DEF Start, StartPendTo
<1>8. /\ r \in CpuType /\ r.pc = "lookup" /\ r.job = "pending" /\ r.mbuf = m /\ r.addr = a
      /\ r.pend = p /\ r.create
  <2>1. /\ "lookup" \in Pcs /\ "pending" \in {"none", "ip", "udp", "arp", "pending"}
        /\ m \in Mbufs \cup {None} /\ a \in Addrs \cup {None} /\ p \in Pendings \cup {None}
    BY <1>3 DEF Pcs
  <2> QED BY <1>6, <2>1, StartPendRec
<1>9. cpu'[c] = r /\ \A d \in Cpus : d # c => cpu'[d] = cpu[d]
  BY <1>7, <1>8, CpuFrame DEF NetInv, TypeOK
<1>10. cpu[c].job = "none" /\ cpu[c].mbuf = None
  BY <1>2, LocalType DEF LocalsOk
<1>11. LocalsOk(r) /\ ResolvedAt(r)'
  BY <1>5, <1>8, NetAssumption DEF LocalsOk, ResolvedAt
<1>12. \A q \in Pendings : Running(q)' <=> Running(q) \/ q = p
  BY <1>8, <1>9, <1>10 DEF Running
<1>13. \A q \in Pendings : Marking(q)' <=> Marking(q)
  BY <1>2, <1>8, <1>9 DEF Marking
<1>14. Wait' = [Wait EXCEPT ![p] = None]
  BY <1>2, <1>3, <1>12 DEF Wait
<1>15. Linked'
  BY <1>2 DEF NetInv, Linked
<1>16. inbox' \in [Cpus -> SUBSET Pendings]
  BY <1>1, <1>3
<1>17. Posted'
  <2>1. ASSUME NEW d \in Cpus, NEW q \in inbox'[d]
        PROVE  /\ pend'[q].ent # None /\ pend'[q].cpu = d /\ ~Running(q)'
               /\ pend'[q].dispatched \/ Marking(q)'
    <3>1. q \in inbox[d] /\ q \in Pendings /\ (d = c => q # p)
      BY <1>1, <1>3
    <3>2. /\ pend[q].ent # None /\ pend[q].cpu = d /\ ~Running(q)
          /\ pend[q].dispatched \/ Marking(q)
      BY <3>1 DEF NetInv, Posted
    <3>3. q # p
      BY <1>4, <3>1, <3>2
    <3> QED BY <1>2, <1>12, <1>13, <3>1, <3>2, <3>3
  <2>2. ASSUME NEW d \in Cpus, cpu'[d].job = "pending"
        PROVE  /\ cpu'[d].pend \in Pendings /\ pend'[cpu'[d].pend].ent # None
               /\ pend'[cpu'[d].pend].dispatched \/ Marking(cpu[d].pend)'
               /\ \A e \in Cpus : cpu'[e].job = "pending" /\ cpu'[e].pend = cpu'[d].pend => e = d
    <3>1. CASE d = c
      <4>1. cpu'[d].pend = p
        BY <1>8, <1>9, <3>1
      <4>2. \A e \in Cpus : cpu'[e].job = "pending" /\ cpu'[e].pend = p => e = c
        BY <1>4, <1>9 DEF Running
      <4>3. Marking(p)' => Marking(cpu[d].pend)'
        BY <4>1 DEF Marking
      <4> QED BY <1>2, <1>3, <1>4, <1>13, <3>1, <4>1, <4>2, <4>3
    <3>2. CASE d # c
      <4>1. cpu'[d] = cpu[d]
        BY <1>9, <3>2
      <4>2. /\ cpu[d].pend \in Pendings /\ pend[cpu[d].pend].ent # None
            /\ pend[cpu[d].pend].dispatched \/ Marking(cpu[d].pend)
            /\ \A e \in Cpus : cpu[e].job = "pending" /\ cpu[e].pend = cpu[d].pend => e = d
        BY <2>2, <4>1 DEF NetInv, Posted
      <4>3. cpu[d].pend # p
        BY <1>4, <2>2, <4>1 DEF Running
      <4>4. Marking(cpu[d].pend) => Marking(cpu[d].pend)'
        <5>1. PICK q \in Pendings : q = cpu[d].pend
          BY <4>2
        <5>2. Marking(q)' => Marking(cpu[d].pend)'
          BY <4>1, <5>1 DEF Marking
        <5> QED BY <1>13, <5>1, <5>2
      <4>5. \A e \in Cpus : cpu'[e].job = "pending" /\ cpu'[e].pend = cpu'[d].pend => e = d
        BY <1>8, <1>9, <4>1, <4>2, <4>3
      <4> QED BY <1>2, <4>1, <4>2, <4>4, <4>5
    <3> QED BY <3>1, <3>2
  <2>3. \A d \in Cpus : InWalk(cpu'[d]) => d # c /\ cpu'[d] = cpu[d]
    BY <1>8, <1>9 DEF InWalk
  <2>4. \A d \in Cpus : cpu'[d].pc \in {"walk", "mark"} =>
          \A q \in cpu'[d].todo : /\ pend'[q].ent # None /\ ~pend'[q].dispatched
                                  /\ cpu'[d].pc = "mark" => cpu'[d].pend # q
    BY <1>2, <2>3 DEF InWalk, NetInv, Posted
  <2>5. \A d \in Cpus : cpu'[d].pc = "mark" =>
          cpu'[d].pend \in Pendings /\ pend'[cpu'[d].pend].ent # None
    BY <1>2, <2>3 DEF InWalk, NetInv, Posted
  <2> QED BY <2>1, <2>2, <2>4, <2>5 DEF Posted
<1>18. \A d \in Cpus : pending_pkt_lock' = d <=> InWalk(cpu[d])'
  BY <1>2, <1>8, <1>9 DEF NetInv, Control, InWalk
<1>19. pend' \in [Pendings -> PendType] /\ pending_pkt_lock' \in Cpus \cup {None}
  BY <1>2 DEF NetInv, TypeOK
<1>20. Owned(freed, [Loc EXCEPT ![c] = r.mbuf], txq, app, Wait', dropped)
  <2>1. Wait[p] = m /\ Loc[c] = None
    BY <1>3, <1>4, <1>5, <1>10, BufferFacts DEF Wait
  <2>2. Owned(freed, [Loc EXCEPT ![c] = Wait[p]], txq, app, [Wait EXCEPT ![p] = None], dropped)
    BY <1>3, <2>1, BufferFacts, PendingToCpu
  <2> QED BY <1>8, <1>14, <2>1, <2>2
<1>21. PagesOk(freed, done, nr_iov, txq, page_refs, [Jobs EXCEPT ![c] = r.job],
               [Loc EXCEPT ![c] = r.mbuf], Wait')
  <2>1. Wait[p] = m /\ "pending" \in JobNames /\ txq[c] \in Seq(Mbufs) /\ [txq EXCEPT ![c] = txq[c]] = txq
    BY <1>3, <1>4, <1>5, BufferFacts DEF Wait, JobNames
  <2>2. done[m] # "sent"
    BY <1>3, <2>1, UnsentWaits DEF UnsentWait
  <2>3. SentPins(done, txq[c], "pending", m, txq[c], Jobs[c], Loc[c])
    BY <1>10, PageFacts DEF SentPins, PinnedAt
  <2>4. PICK w \in [Pendings -> Mbufs \cup {None}] : w = [Wait EXCEPT ![p] = None]
    BY BufferFacts
  <2>5. UnsentWait(done, w)
    BY <2>4, UnsentWaits, BufferFacts, NetAssumption DEF UnsentWait
  <2>6. PagesOk(freed, done, nr_iov, [txq EXCEPT ![c] = txq[c]], page_refs, [Jobs EXCEPT ![c] = "pending"],
                [Loc EXCEPT ![c] = m], w)
    BY <2>1, <2>2, <2>3, <2>5, PassedPages
  <2> QED BY <1>8, <1>14, <2>1, <2>4, <2>6
<1> QED BY <1>2, <1>7, <1>8, <1>11, <1>15, <1>16, <1>17, <1>18, <1>19, <1>20, <1>21, PendingStep

\* The parts of Posted for one CPU, in a form that can be shown CPU by CPU.
InboxOk(d) == \A p \in inbox[d] : /\ pend[p].ent # None /\ pend[p].cpu = d /\ ~Running(p)
                                  /\ pend[p].dispatched \/ Marking(p)
SendingOk(d) == cpu[d].job = "pending" =>
    /\ cpu[d].pend \in Pendings /\ pend[cpu[d].pend].ent # None
    /\ pend[cpu[d].pend].dispatched \/ Marking(cpu[d].pend)
    /\ \A e \in Cpus : cpu[e].job = "pending" /\ cpu[e].pend = cpu[d].pend => e = d
WalkOk(d) == InWalk(cpu[d]) =>
    /\ \A p \in cpu[d].todo : /\ pend[p].ent # None /\ ~pend[p].dispatched
                              /\ cpu[d].pc = "mark" => cpu[d].pend # p
    /\ cpu[d].pc = "mark" => cpu[d].pend \in Pendings /\ pend[cpu[d].pend].ent # None

\* Posted, CPU by CPU ...
LEMMA PostedParts == Posted <=> \A d \in Cpus : InboxOk(d) /\ SendingOk(d) /\ WalkOk(d)
  BY DEF Posted, InboxOk, SendingOk, WalkOk, InWalk

\* ... and after a step.
LEMMA PostedAfter ==
    ASSUME \A d \in Cpus : InboxOk(d)' /\ SendingOk(d)' /\ WalkOk(d)' PROVE Posted'
<1>1. \A d \in Cpus : \A p \in inbox'[d] :
          /\ pend'[p].ent # None /\ pend'[p].cpu = d /\ ~Running(p)'
          /\ pend'[p].dispatched \/ Marking(p)'
  BY DEF InboxOk
<1>2. \A d \in Cpus : cpu'[d].job = "pending" =>
          /\ cpu'[d].pend \in Pendings /\ pend'[cpu'[d].pend].ent # None
          /\ pend'[cpu'[d].pend].dispatched \/ Marking(cpu[d].pend)'
          /\ \A e \in Cpus : cpu'[e].job = "pending" /\ cpu'[e].pend = cpu'[d].pend => e = d
  BY DEF SendingOk
<1>3. \A d \in Cpus : cpu'[d].pc \in {"walk", "mark"} =>
          \A p \in cpu'[d].todo : /\ pend'[p].ent # None /\ ~pend'[p].dispatched
                                  /\ cpu'[d].pc = "mark" => cpu'[d].pend # p
  BY DEF WalkOk, InWalk
<1>4. \A d \in Cpus : cpu'[d].pc = "mark" =>
          cpu'[d].pend \in Pendings /\ pend'[cpu'[d].pend].ent # None
  BY DEF WalkOk, InWalk
<1> QED BY <1>1, <1>2, <1>3, <1>4 DEF Posted

\* A CPU that sends a packet, before and after a step that changes neither.
LEMMA SendingKept ==
    ASSUME NetInv, NEW d \in Cpus,
           \A e \in Cpus, p \in Pendings :
               cpu'[e].job = "pending" /\ cpu'[e].pend = p => cpu[e].job = "pending" /\ cpu[e].pend = p,
           cpu'[d].pend \in Pendings \cup {None},
           cpu'[d].job = "pending" => cpu'[d].pend = cpu[d].pend /\ cpu[d].job = "pending",
           \A p \in Pendings : pend[p].ent # None /\ Running(p)' =>
               /\ pend'[p].ent # None
               /\ pend[p].dispatched \/ Marking(p) => pend'[p].dispatched \/ Marking(p)'
    PROVE  SendingOk(d)'
<1> SUFFICES ASSUME cpu'[d].job = "pending" PROVE SendingOk(d)'
  BY DEF SendingOk
<1>1. PICK q \in Pendings : q = cpu[d].pend /\ q = cpu'[d].pend
  BY DEF NetInv, Posted
<1>2. SendingOk(d) /\ cpu[d].job = "pending"
  BY PostedParts DEF NetInv
<1>3. pend[q].ent # None /\ (pend[q].dispatched \/ Marking(q))
  BY <1>1, <1>2 DEF SendingOk, Marking
<1>4. Running(q)'
  BY <1>1 DEF Running
<1>5. pend'[q].ent # None /\ (pend'[q].dispatched \/ Marking(q)')
  BY <1>3, <1>4
<1>6. Marking(q)' => Marking(cpu[d].pend)'
  BY <1>1 DEF Marking
<1>7. \A e \in Cpus : cpu'[e].job = "pending" /\ cpu'[e].pend = q => e = d
  BY <1>1, <1>2 DEF SendingOk
<1> QED BY <1>1, <1>5, <1>6, <1>7 DEF SendingOk

\* arp_add_pending_pkt, with an element left.
LEMMA AddStep == ASSUME NetInv, NEW c \in Cpus, arp_add_pending_pkt(c) PROVE NetInv'
<1>0. /\ cpu[c].pc = "queue" /\ pending_pkt_lock = None /\ Busy(c) /\ cpu[c].ent \in Entries
      /\ cpu[c].addr \in Addrs /\ ~InWalk(cpu[c]) /\ cpu[c].job # "udp"
  BY LocalType, NetAssumption DEF arp_add_pending_pkt, LocalsOk, InWalk, Busy
<1>1. UNCHANGED <<entry, arp_lock, pending_pkt_lock, bufVars, inbox, booting>>
  BY DEF arp_add_pending_pkt
<1>2. CASE exhausted' = exhausted \cup {"pend"} /\ Drop(c) /\ UNCHANGED pend
  <2>1. TableStep
    BY <1>1, <1>2 DEF TableStep, NetInv, TypeOK, Control
  <2>2. exhausted' # {} /\ UNCHANGED <<freed, done, nr_iov, txq, page_refs, app>>
    BY <1>1, <1>2 DEF bufVars
  <2> QED BY <1>0, <1>1, <1>2, <2>1, <2>2, DropStep
<1>3. CASE /\ FreePendings # {}
           /\ LET p == CHOOSE x \in FreePendings : TRUE IN
              pend' = [pend EXCEPT ![p] =
                        [ent |-> cpu[c].ent, mbuf |-> cpu[c].mbuf,
                         addr |-> cpu[c].addr, cpu |-> c, dispatched |-> FALSE]]
           /\ Sent(c) /\ UNCHANGED <<dropped, exhausted>>
  <2>1. PICK p : p = CHOOSE x \in FreePendings : TRUE
    OBVIOUS
  <2>2. p \in Pendings /\ pend[p].ent = None
    BY <1>3, <2>1 DEF FreePendings
  <2>3. PICK n : n = [ent |-> cpu[c].ent, mbuf |-> cpu[c].mbuf,
                      addr |-> cpu[c].addr, cpu |-> c, dispatched |-> FALSE]
    OBVIOUS
  <2>4. /\ n \in PendType /\ n.ent = cpu[c].ent /\ n.mbuf = cpu[c].mbuf /\ n.addr = cpu[c].addr
        /\ n.cpu = c
    BY <1>0, <2>3 DEF PendType, Busy
  <2>5. pend' = [pend EXCEPT ![p] = n]
    BY <1>3, <2>1, <2>3
  <2>6. pend \in [Pendings -> PendType]
    BY DEF NetInv, TypeOK
  <2>7. /\ pend' \in [Pendings -> PendType] /\ pend'[p] = n
        /\ \A q \in Pendings : q # p => pend'[q] = pend[q]
    BY <2>2, <2>4, <2>5, <2>6
  <2>8. \A q \in Pendings : pend[q].ent # None => pend'[q] = pend[q]
    BY <2>2, <2>7
  <2>9. PICK r \in CpuType :
              /\ cpu' = [cpu EXCEPT ![c] = r] /\ r.mbuf = None
              /\ ~InWalk(r) /\ LocalsOk(r) /\ ResolvedAt(r)'
              /\ cpu[c].job = "pending" \/ r.job = "pending" => r.job = cpu[c].job /\ r.pend = cpu[c].pend
              /\ r.job \in JobNames /\ r.job # "udp"
    BY <1>0, <1>3, SentTo
  <2>10. /\ cpu'[c] = r /\ \A d \in Cpus : d # c => cpu'[d] = cpu[d]
         /\ cpu' \in [Cpus -> CpuType]
    BY <2>9, CpuFrame DEF NetInv, TypeOK
  <2>11. \A d \in Cpus, q \in Pendings :
          cpu'[d].job = "pending" /\ cpu'[d].pend = q <=> cpu[d].job = "pending" /\ cpu[d].pend = q
    BY <2>9, <2>10
  <2>12. \A q \in Pendings : Running(q)' <=> Running(q)
    BY <2>11 DEF Running
  <2>13. \A q \in Pendings : Marking(q)' <=> Marking(q)
    <3>1. \A d \in Cpus : ~InWalk(cpu[d]) /\ ~InWalk(cpu'[d])
      BY <1>0, <2>9, <2>10, WalkAlone
    <3> QED BY <3>1 DEF Marking, InWalk
  <2>14. ~Running(p)
    BY <2>2 DEF Running, NetInv, Posted
  <2>15. Wait' = [Wait EXCEPT ![p] = Loc[c]]
    <3>1. Loc[c] = cpu[c].mbuf
      BY BufferFacts
    <3>2. ASSUME NEW q \in Pendings
          PROVE  (IF Running(q)' THEN None ELSE pend'[q].mbuf)
                    = IF q = p THEN Loc[c] ELSE Wait[q]
      BY <2>2, <2>4, <2>7, <2>12, <2>14, <3>1 DEF Wait
    <3>3. Wait' = [q \in Pendings |-> IF Running(q)' THEN None ELSE pend'[q].mbuf]
      BY DEF Wait
    <3>4. Wait = [q \in Pendings |-> Wait[q]]
      BY BufferFacts
    <3> QED BY <2>2, <3>2, <3>3, <3>4
  <2>16. Linked'
    <3>1. pend'[p].ent # None /\ pend'[p].mbuf \in Mbufs /\ pend'[p].cpu \in Cpus /\ pend'[p].addr \in Addrs
      BY <1>0, <2>4, <2>7, NetAssumption DEF Busy
    <3> QED BY <2>7, <3>1 DEF NetInv, Linked
  <2>17. \A d \in Cpus : InboxOk(d)'
    <3>1. ASSUME NEW d \in Cpus, NEW q \in inbox[d]
          PROVE  /\ pend'[q].ent # None /\ pend'[q].cpu = d /\ ~Running(q)'
                 /\ pend'[q].dispatched \/ Marking(q)'
      <4>1. /\ pend[q].ent # None /\ pend[q].cpu = d /\ ~Running(q) /\ q \in Pendings
            /\ pend[q].dispatched \/ Marking(q)
        BY DEF NetInv, Posted, TypeOK
      <4> QED BY <2>8, <2>12, <2>13, <4>1
    <3> QED BY <1>1, <3>1 DEF InboxOk
  <2>18. ASSUME NEW d \in Cpus PROVE SendingOk(d)'
    <3>1. /\ cpu'[d].pend \in Pendings \cup {None}
          /\ cpu'[d].job = "pending" => cpu'[d].pend = cpu[d].pend /\ cpu[d].job = "pending"
      BY <2>9, <2>10, FieldTypes
    <3> QED BY <2>8, <2>11, <2>13, <3>1, SendingKept
  <2>19. \A d \in Cpus : WalkOk(d)'
    BY <1>0, <2>9, <2>10, WalkAlone DEF WalkOk
  <2>20. Posted'
    BY <2>17, <2>18, <2>19, PostedAfter
  <2>21. \A d \in Cpus : pending_pkt_lock' = d <=> InWalk(cpu[d])'
    BY <1>0, <1>1, <2>9, <2>10, WalkAlone, NetAssumption
  <2>22. Owned(freed, [Loc EXCEPT ![c] = r.mbuf], txq, app, Wait', dropped)
    <3>1. Loc[c] \in Mbufs /\ Wait[p] = None
      <4>1. pend[p] = NoPending
        BY <2>2 DEF NetInv, Linked
      <4>2. pend[p].mbuf = None
        BY <4>1 DEF NoPending
      <4> QED BY <1>0, <2>2, <4>2, BufferFacts DEF Busy, Wait
    <3>2. Owned(freed, [Loc EXCEPT ![c] = None], txq, app, [Wait EXCEPT ![p] = Loc[c]], dropped)
      BY <2>2, <3>1, BufferFacts, CpuToPending
    <3> QED BY <2>9, <2>15, <3>2
  <2>23. inbox' \in [Cpus -> SUBSET Pendings] /\ pending_pkt_lock' \in Cpus \cup {None}
    BY <1>1 DEF NetInv, TypeOK
  <2>24. PagesOk(freed, done, nr_iov, txq, page_refs, [Jobs EXCEPT ![c] = r.job],
                 [Loc EXCEPT ![c] = r.mbuf], Wait')
    <3>1. done[Loc[c]] # "sent" /\ Loc[c] \in Mbufs
      BY <1>0, PageFacts, BufferFacts, ZenonT(40) DEF PagesOk, Busy
    <3>2. PICK w \in [Pendings -> Mbufs \cup {None}] : w = [Wait EXCEPT ![p] = Loc[c]]
      BY BufferFacts
    <3>3. UnsentWait(done, w)
      BY <3>1, <3>2, UnsentWaits, BufferFacts DEF UnsentWait
    <3>4. PagesOk(freed, done, nr_iov, txq, page_refs, [Jobs EXCEPT ![c] = r.job],
                  [Loc EXCEPT ![c] = None], w)
      BY <1>0, <2>9, <3>3, PagesGiven
    <3> QED BY <2>9, <2>15, <3>2, <3>4
  <2> QED BY <1>1, <1>3, <2>7, <2>9, <2>16, <2>20, <2>21, <2>22, <2>23, <2>24, PendingStep
<1> QED BY <1>2, <1>3 DEF arp_add_pending_pkt

\* No buffer moves.
LEMMA OwnedKept ==
    ASSUME NetInv, NEW c \in Cpus, NEW m, m = cpu[c].mbuf, Wait' = Wait
    PROVE  Owned(freed, [Loc EXCEPT ![c] = m], txq, app, Wait', dropped)
<1>1. [Loc EXCEPT ![c] = m] = Loc
  BY BufferFacts
<1> QED BY <1>1, BufferFacts

\* A CPU that keeps its job and its buffer keeps its pages.
LEMMA PagesKept ==
    ASSUME NetInv, NEW c \in Cpus, NEW m, m = cpu[c].mbuf, NEW j, j = cpu[c].job, Wait' = Wait
    PROVE  PagesOk(freed, done, nr_iov, txq, page_refs, [Jobs EXCEPT ![c] = j],
                   [Loc EXCEPT ![c] = m], Wait')
<1>1. [Loc EXCEPT ![c] = m] = Loc /\ [Jobs EXCEPT ![c] = j] = Jobs
  BY BufferFacts, PageFacts
<1> QED BY <1>1, PageFacts

\* The rest of send_pending_pkt: nobody walks, so nobody has still to mark it.
LEMMA UnlinkStep == ASSUME NetInv, NEW c \in Cpus, UnlinkPending(c) PROVE NetInv'
<1>0. /\ cpu[c].pc = "unlink" /\ pending_pkt_lock = None /\ cpu[c].job = "pending"
      /\ cpu[c].mbuf = None
  BY LocalType DEF UnlinkPending, LocalsOk
<1>1. UNCHANGED <<entry, arp_lock, pending_pkt_lock, bufVars, inbox, booting, dropped, exhausted>>
  BY DEF UnlinkPending, rest
<1>2. PICK p \in Pendings : p = cpu[c].pend /\ pend[p].ent # None
  BY <1>0 DEF NetInv, Posted
<1>3. PICK r : r = Idle
  OBVIOUS
<1>4. cpu' = [cpu EXCEPT ![c] = r] /\ pend' = [pend EXCEPT ![p] = NoPending]
  BY <1>2, <1>3 DEF UnlinkPending
<1>5. r \in CpuType /\ r.pc = "idle" /\ r.job = "none" /\ r.mbuf = None /\ LocalsOk(r)
  BY <1>3, IdleFields
<1>6. ~InWalk(r) /\ ResolvedAt(r)'
  BY <1>5 DEF InWalk, ResolvedAt
<1>7. NoPending \in PendType /\ NoPending.ent = None /\ NoPending.mbuf = None
  BY DEF NoPending, PendType
<1>8. pend \in [Pendings -> PendType]
  BY DEF NetInv, TypeOK
<1>9. /\ pend' \in [Pendings -> PendType] /\ pend'[p] = NoPending
      /\ \A q \in Pendings : q # p => pend'[q] = pend[q]
  BY <1>4, <1>7, <1>8
<1>10. /\ cpu'[c] = r /\ \A d \in Cpus : d # c => cpu'[d] = cpu[d]
       /\ cpu' \in [Cpus -> CpuType]
  BY <1>4, <1>5, CpuFrame DEF NetInv, TypeOK
<1>11. \A d \in Cpus : ~InWalk(cpu[d]) /\ ~InWalk(cpu'[d])
  BY <1>0, <1>6, <1>10, WalkAlone
<1>12. \A d \in Cpus, q \in Pendings :
          cpu'[d].job = "pending" /\ cpu'[d].pend = q => cpu[d].job = "pending" /\ cpu[d].pend = q
  BY <1>5, <1>10
<1>13. \A d \in Cpus : cpu[d].job = "pending" /\ cpu[d].pend = p => d = c
  BY <1>0, <1>2 DEF NetInv, Posted
<1>14. ~Running(p)' /\ Running(p)
  BY <1>0, <1>2, <1>5, <1>10, <1>12, <1>13 DEF Running
<1>15. \A q \in Pendings : q # p => (Running(q)' <=> Running(q))
  BY <1>2, <1>5, <1>10 DEF Running
<1>16. \A q \in Pendings : ~Marking(q)' /\ ~Marking(q)
  BY <1>11 DEF Marking, InWalk
<1>17. Wait' = Wait
  BY <1>7, <1>9, <1>14, <1>15 DEF Wait
<1>18. Linked'
  BY <1>7, <1>9 DEF NetInv, Linked
<1>19. \A d \in Cpus : InboxOk(d)'
  <2>1. ASSUME NEW d \in Cpus, NEW q \in inbox[d]
        PROVE  /\ pend'[q].ent # None /\ pend'[q].cpu = d /\ ~Running(q)'
               /\ pend'[q].dispatched \/ Marking(q)'
    <3>1. /\ pend[q].ent # None /\ pend[q].cpu = d /\ ~Running(q) /\ q \in Pendings
          /\ pend[q].dispatched \/ Marking(q)
      BY DEF NetInv, Posted, TypeOK
    <3>2. q # p
      BY <1>14, <3>1
    <3> QED BY <1>9, <1>15, <1>16, <3>1, <3>2
  <2> QED BY <1>1, <2>1 DEF InboxOk
<1>20. ASSUME NEW d \in Cpus PROVE SendingOk(d)'
  <2>1. /\ cpu'[d].pend \in Pendings \cup {None}
        /\ cpu'[d].job = "pending" => cpu'[d].pend = cpu[d].pend /\ cpu[d].job = "pending"
    BY <1>5, <1>10, FieldTypes
  <2>2. \A q \in Pendings : pend[q].ent # None /\ Running(q)' =>
               /\ pend'[q].ent # None
               /\ pend[q].dispatched \/ Marking(q) => pend'[q].dispatched \/ Marking(q)'
    BY <1>9, <1>14, <1>16
  <2> QED BY <1>12, <2>1, <2>2, SendingKept
<1>21. Posted'
  <2>1. \A d \in Cpus : WalkOk(d)'
    BY <1>11 DEF WalkOk
  <2> QED BY <1>19, <1>20, <2>1, PostedAfter
<1>22. \A d \in Cpus : pending_pkt_lock' = d <=> InWalk(cpu[d])'
  BY <1>0, <1>1, <1>11, NetAssumption
<1>23. Owned(freed, [Loc EXCEPT ![c] = r.mbuf], txq, app, Wait', dropped)
  BY <1>0, <1>5, <1>17, OwnedKept
<1>24. inbox' \in [Cpus -> SUBSET Pendings] /\ pending_pkt_lock' \in Cpus \cup {None}
  BY <1>1 DEF NetInv, TypeOK
<1>25. PagesOk(freed, done, nr_iov, txq, page_refs, [Jobs EXCEPT ![c] = r.job],
               [Loc EXCEPT ![c] = r.mbuf], Wait')
  <2>1. "none" \in JobNames
    BY DEF JobNames
  <2>2. PagesOk(freed, done, nr_iov, txq, page_refs, [Jobs EXCEPT ![c] = "none"],
                [Loc EXCEPT ![c] = None], Wait)
    BY <1>0, <2>1, PagesGiven, UnsentWaits, BufferFacts
  <2> QED BY <1>5, <1>17, <2>2
<1> QED BY <1>1, <1>4, <1>5, <1>6, <1>9, <1>18, <1>21, <1>22, <1>23, <1>24, <1>25, PendingStep

\* What the steps of the walk share: no CPU but c is in it, c has no pending
\* packet, the linked packets stay linked.
LEMMA WalkStep ==
    ASSUME NetInv, NEW c \in Cpus, NEW r \in CpuType, cpu' = [cpu EXCEPT ![c] = r],
           cpu[c].pc \in {"walklock", "walk", "mark"}, r.pc \in {"walk", "mark", "reply"},
           r.job = "arp", r.mbuf = cpu[c].mbuf, r.pc = "reply" \/ r.ent \in Entries,
           pending_pkt_lock' = IF InWalk(r) THEN c ELSE None,
           cpu[c].pc = "walklock" => pending_pkt_lock = None,
           UNCHANGED <<entry, arp_lock, exhausted, dropped, booting, bufVars>>,
           pend' \in [Pendings -> PendType], inbox' \in [Cpus -> SUBSET Pendings],
           \A p \in Pendings : /\ pend'[p].ent = pend[p].ent /\ pend'[p].mbuf = pend[p].mbuf
                               /\ pend'[p].cpu = pend[p].cpu /\ pend'[p].addr = pend[p].addr
                               /\ pend[p].ent = None => pend'[p] = pend[p]
                               /\ pend[p].dispatched \/ Marking(p) => pend'[p].dispatched \/ Marking(p)',
           \A d \in Cpus : \A p \in inbox'[d] :
               p \in inbox[d] \/ (/\ pend[p].ent # None /\ pend[p].cpu = d /\ ~Running(p)
                                  /\ Marking(p)'),
           InWalk(r) => /\ \A p \in r.todo : /\ pend[p].ent # None /\ ~pend'[p].dispatched
                                             /\ r.pc = "mark" => r.pend # p
                        /\ r.pc = "mark" => r.pend \in Pendings /\ pend[r.pend].ent # None
    PROVE  NetInv'
<1>0. cpu[c].job = "arp" /\ cpu[c].mbuf \in Mbufs
  BY LocalType, NetAssumption DEF LocalsOk
<1>1. /\ cpu'[c] = r /\ \A d \in Cpus : d # c => cpu'[d] = cpu[d]
      /\ cpu' \in [Cpus -> CpuType]
  BY CpuFrame DEF NetInv, TypeOK
<1>2. LocalsOk(r) /\ ResolvedAt(r)'
  BY <1>0, NetAssumption DEF LocalsOk, ResolvedAt
<1>3. \A d \in Cpus : d # c => ~InWalk(cpu'[d])
  <2>1. \A d \in Cpus : d # c => ~InWalk(cpu[d])
    <3>1. CASE cpu[c].pc = "walklock"
      BY <3>1, WalkAlone
    <3>2. CASE cpu[c].pc # "walklock"
      BY <3>2, WalkAlone DEF InWalk
    <3> QED BY <3>1, <3>2
  <2> QED BY <1>1, <2>1
<1>4. \A d \in Cpus, q \in Pendings :
          cpu'[d].job = "pending" /\ cpu'[d].pend = q <=> cpu[d].job = "pending" /\ cpu[d].pend = q
  BY <1>0, <1>1
<1>5. \A q \in Pendings : Running(q)' <=> Running(q)
  BY <1>4 DEF Running
<1>6. Wait' = Wait
  BY <1>5 DEF Wait
<1>7. Linked'
  BY DEF NetInv, Linked
<1>8. \A d \in Cpus : InboxOk(d)'
  <2>1. ASSUME NEW d \in Cpus, NEW q \in inbox'[d]
        PROVE  /\ pend'[q].ent # None /\ pend'[q].cpu = d /\ ~Running(q)'
               /\ pend'[q].dispatched \/ Marking(q)'
    <3>0. q \in Pendings
      OBVIOUS
    <3>1. CASE q \in inbox[d]
      <4>1. /\ pend[q].ent # None /\ pend[q].cpu = d /\ ~Running(q)
            /\ pend[q].dispatched \/ Marking(q)
        BY <3>1 DEF NetInv, Posted
      <4> QED BY <1>5, <3>0, <4>1
    <3>2. CASE q \notin inbox[d]
      BY <1>5, <3>0, <3>2
    <3> QED BY <3>1, <3>2
  <2> QED BY <2>1 DEF InboxOk
<1>9. ASSUME NEW d \in Cpus PROVE SendingOk(d)'
  <2>1. /\ cpu'[d].pend \in Pendings \cup {None}
        /\ cpu'[d].job = "pending" => cpu'[d].pend = cpu[d].pend /\ cpu[d].job = "pending"
    BY <1>0, <1>1, FieldTypes
  <2> QED BY <1>4, <2>1, SendingKept
<1>10. \A d \in Cpus : WalkOk(d)'
  <2>1. \A d \in Cpus : d # c => WalkOk(d)'
    BY <1>3 DEF WalkOk
  <2>2. r.todo \in SUBSET Pendings
    BY FieldTypes
  <2>3. WalkOk(c)'
    BY <1>1, <2>2 DEF WalkOk
  <2> QED BY <2>1, <2>3
<1>11. Posted'
  BY <1>8, <1>9, <1>10, PostedAfter
<1>12. \A d \in Cpus : pending_pkt_lock' = d <=> InWalk(cpu[d])'
  BY <1>1, <1>3, NetAssumption
<1>13. Owned(freed, [Loc EXCEPT ![c] = r.mbuf], txq, app, Wait', dropped)
  BY <1>6, OwnedKept
<1>14. pending_pkt_lock' \in Cpus \cup {None}
  OBVIOUS
<1>15. PagesOk(freed, done, nr_iov, txq, page_refs, [Jobs EXCEPT ![c] = r.job],
               [Loc EXCEPT ![c] = r.mbuf], Wait')
  BY <1>0, <1>6, PagesKept
<1> QED BY <1>2, <1>7, <1>11, <1>12, <1>13, <1>14, <1>15, PendingStep

\* Taking the lock of the pending packets keeps the invariant.
LEMMA WalkLockStep == ASSUME NetInv, NEW c \in Cpus, WalkLock(c) PROVE NetInv'
<1>0. /\ cpu[c].pc = "walklock" /\ pending_pkt_lock = None /\ pending_pkt_lock' = c
      /\ cpu[c].job = "arp" /\ cpu[c].ent \in Entries
  BY LocalType DEF WalkLock, LocalsOk
<1>1. UNCHANGED <<entry, pend, arp_lock, bufVars, inbox, booting, dropped, exhausted>>
  BY DEF WalkLock, rest
<1>2. PICK td \in SUBSET Pendings : td = Waiting(cpu[c].ent)
  BY DEF Waiting
<1>3. PICK r : r = TodoTo(cpu[c], "walk", td)
  OBVIOUS
<1>4. /\ r \in CpuType /\ r.pc = "walk" /\ r.job = cpu[c].job /\ r.mbuf = cpu[c].mbuf
      /\ r.ent = cpu[c].ent /\ r.todo = td
  <2>1. "walk" \in Pcs /\ cpu[c] \in CpuType
    BY LocalType DEF Pcs
  <2> QED BY <1>3, <2>1, TodoRec
<1>5. cpu' = [cpu EXCEPT ![c] = r]
  BY <1>2, <1>3, Zenon DEF WalkLock, Goto, TodoTo
<1>6. \A p \in td : pend[p].ent # None /\ ~pend[p].dispatched
  BY <1>0, <1>2, NetAssumption DEF Waiting
<1>7. pend' \in [Pendings -> PendType] /\ inbox' \in [Cpus -> SUBSET Pendings]
  BY <1>1 DEF NetInv, TypeOK
<1>8. \A p \in Pendings : ~Marking(p)
  BY <1>0, WalkAlone DEF Marking, InWalk
<1>9. InWalk(r)
  BY <1>4 DEF InWalk
<1>10. \A p \in Pendings : /\ pend'[p].ent = pend[p].ent /\ pend'[p].mbuf = pend[p].mbuf
                           /\ pend'[p].cpu = pend[p].cpu /\ pend'[p].addr = pend[p].addr
                           /\ pend[p].ent = None => pend'[p] = pend[p]
                           /\ pend[p].dispatched \/ Marking(p) => pend'[p].dispatched \/ Marking(p)'
  BY <1>1, <1>8
<1>11. \A p \in r.todo : /\ pend[p].ent # None /\ ~pend'[p].dispatched
                         /\ r.pc = "mark" => r.pend # p
  BY <1>1, <1>4, <1>6
<1> QED BY <1>0, <1>1, <1>4, <1>5, <1>7, <1>9, <1>10, <1>11, WalkStep

\* cpu_run_on_one: the packet is linked, unmarked and nobody sends it yet.
LEMMA WalkPostStep == ASSUME NetInv, NEW c \in Cpus, WalkPost(c) PROVE NetInv'
<1>1. PICK p \in cpu[c].todo :
          /\ inbox' = [inbox EXCEPT ![pend[p].cpu] = @ \cup {p}]
          /\ Goto(c, "mark", [cpu[c] EXCEPT !.pend = p, !.todo = @ \ {p}])
  BY DEF WalkPost
<1>2. /\ UNCHANGED <<entry, pend, arp_lock, pending_pkt_lock, bufVars, booting, dropped, exhausted>>
      /\ cpu[c].pc = "walk"
  BY DEF WalkPost, rest, arpVars
<1>3. /\ cpu[c].todo \in SUBSET Pendings /\ p \in Pendings /\ cpu[c].job = "arp"
      /\ cpu[c].ent \in Entries /\ cpu[c] \in CpuType
  BY <1>2, LocalType DEF LocalsOk
<1>4. PICK td \in SUBSET Pendings : td = cpu[c].todo \ {p}
  BY <1>3
<1>5. PICK r : r = MarkTo(cpu[c], "mark", p, td)
  OBVIOUS
<1>6. /\ r \in CpuType /\ r.pc = "mark" /\ r.job = cpu[c].job /\ r.mbuf = cpu[c].mbuf
      /\ r.ent = cpu[c].ent /\ r.pend = p /\ r.todo = td
  <2>1. "mark" \in Pcs /\ p \in Pendings \cup {None}
    BY <1>3 DEF Pcs
  <2> QED BY <1>3, <1>5, <2>1, MarkRec
<1>7. cpu' = [cpu EXCEPT ![c] = r]
  BY <1>1, <1>4, <1>5, Zenon DEF Goto, MarkTo
<1>8. \A q \in cpu[c].todo : pend[q].ent # None /\ ~pend[q].dispatched
  BY <1>2 DEF NetInv, Posted
<1>9. \A q \in Pendings : ~Marking(q)
  BY <1>2, WalkAlone DEF Marking, InWalk
<1>10. ~Running(p)
  BY <1>3, <1>8, <1>9 DEF Running, NetInv, Posted
<1>11. cpu'[c] = r
  BY <1>6, <1>7, CpuFrame DEF NetInv, TypeOK
<1>12. Marking(p)'
  BY <1>6, <1>11 DEF Marking
<1>13. pend[p].cpu \in Cpus
  BY <1>3, <1>8 DEF NetInv, Linked
<1>14. inbox \in [Cpus -> SUBSET Pendings] /\ pend' \in [Pendings -> PendType]
  BY <1>2 DEF NetInv, TypeOK
<1>15. inbox' \in [Cpus -> SUBSET Pendings]
  BY <1>1, <1>3, <1>13, <1>14
<1>16. \A d \in Cpus : \A q \in inbox'[d] :
               q \in inbox[d] \/ (/\ pend[q].ent # None /\ pend[q].cpu = d /\ ~Running(q)
                                  /\ Marking(q)')
  <2>1. \A d \in Cpus : \A q \in inbox'[d] : q \in inbox[d] \/ (q = p /\ d = pend[p].cpu)
    BY <1>1, <1>13, <1>14
  <2> QED BY <1>8, <1>10, <1>12, <2>1
<1>17. InWalk(r) /\ InWalk(cpu[c])
  BY <1>2, <1>6 DEF InWalk
<1>18. pending_pkt_lock' = c
  BY <1>2 DEF NetInv, Control
<1>19. \A q \in Pendings : /\ pend'[q].ent = pend[q].ent /\ pend'[q].mbuf = pend[q].mbuf
                           /\ pend'[q].cpu = pend[q].cpu /\ pend'[q].addr = pend[q].addr
                           /\ pend[q].ent = None => pend'[q] = pend[q]
                           /\ pend[q].dispatched \/ Marking(q) => pend'[q].dispatched \/ Marking(q)'
  BY <1>2, <1>9
<1>20. /\ \A q \in r.todo : /\ pend[q].ent # None /\ ~pend'[q].dispatched
                            /\ r.pc = "mark" => r.pend # q
       /\ r.pc = "mark" => r.pend \in Pendings /\ pend[r.pend].ent # None
  BY <1>2, <1>3, <1>4, <1>6, <1>8
<1> QED BY <1>2, <1>3, <1>6, <1>7, <1>14, <1>15, <1>16, <1>17, <1>18, <1>19, <1>20, WalkStep

\* dispatched = 1.
LEMMA WalkMarkStep == ASSUME NetInv, NEW c \in Cpus, WalkMark(c) PROVE NetInv'
<1>1. /\ cpu[c].pc = "mark"
      /\ UNCHANGED <<entry, arp_lock, pending_pkt_lock, bufVars, inbox, booting, dropped, exhausted>>
  BY DEF WalkMark, rest
<1>2. PICK p \in Pendings : p = cpu[c].pend /\ pend[p].ent # None
  BY <1>1 DEF NetInv, Posted
<1>3. PICK n : n = [pend[p] EXCEPT !.dispatched = TRUE]
  OBVIOUS
<1>4. pend' = [pend EXCEPT ![p] = n]
  BY <1>2, <1>3, Zenon DEF WalkMark
<1>5. pend \in [Pendings -> PendType]
  BY DEF NetInv, TypeOK
<1>6. /\ n \in PendType /\ n.ent = pend[p].ent /\ n.mbuf = pend[p].mbuf /\ n.cpu = pend[p].cpu
      /\ n.addr = pend[p].addr /\ n.dispatched
  BY <1>3, <1>5 DEF PendType
<1>7. /\ pend' \in [Pendings -> PendType] /\ pend'[p] = n
      /\ \A q \in Pendings : q # p => pend'[q] = pend[q]
  BY <1>4, <1>5, <1>6
<1>8. PICK r : r = PendTo(cpu[c], "walk", None)
  OBVIOUS
<1>9. /\ r \in CpuType /\ r.pc = "walk" /\ r.job = cpu[c].job /\ r.mbuf = cpu[c].mbuf
      /\ r.ent = cpu[c].ent /\ r.todo = cpu[c].todo
  <2>1. "walk" \in Pcs /\ None \in Pendings \cup {None} /\ cpu[c] \in CpuType
    BY LocalType DEF Pcs
  <2> QED BY <1>8, <2>1, PendRec
<1>10. cpu' = [cpu EXCEPT ![c] = r]
  BY <1>8, Zenon DEF WalkMark, Goto, PendTo
<1>11. cpu[c].job = "arp" /\ cpu[c].ent \in Entries /\ cpu[c].todo \in SUBSET Pendings
  BY <1>1, LocalType DEF LocalsOk
<1>12. \A q \in Pendings : Marking(q) => q = p
  BY <1>1, <1>2, WalkAlone DEF Marking, InWalk
<1>13. \A q \in Pendings : /\ pend'[q].ent = pend[q].ent /\ pend'[q].mbuf = pend[q].mbuf
                           /\ pend'[q].cpu = pend[q].cpu /\ pend'[q].addr = pend[q].addr
                           /\ pend[q].ent = None => pend'[q] = pend[q]
                           /\ pend[q].dispatched \/ Marking(q) => pend'[q].dispatched \/ Marking(q)'
  BY <1>2, <1>6, <1>7, <1>12
<1>14. \A q \in cpu[c].todo : pend[q].ent # None /\ ~pend[q].dispatched /\ q # p
  BY <1>1, <1>2 DEF NetInv, Posted
<1>15. \A q \in r.todo : /\ pend[q].ent # None /\ ~pend'[q].dispatched
                         /\ r.pc = "mark" => r.pend # q
  BY <1>7, <1>9, <1>11, <1>14
<1>16. InWalk(r) /\ pending_pkt_lock' = c /\ inbox' \in [Cpus -> SUBSET Pendings]
  BY <1>1, <1>9 DEF InWalk, NetInv, Control, TypeOK
<1> QED BY <1>1, <1>7, <1>9, <1>10, <1>11, <1>13, <1>15, <1>16, WalkStep

\* Releasing the lock of the pending packets keeps the invariant.
LEMMA WalkDoneStep == ASSUME NetInv, NEW c \in Cpus, WalkDone(c) PROVE NetInv'
<1>0. cpu[c].pc = "walk" /\ pending_pkt_lock' = None /\ cpu[c].job = "arp"
  BY LocalType DEF WalkDone, LocalsOk
<1>1. UNCHANGED <<entry, pend, arp_lock, bufVars, inbox, booting, dropped, exhausted>>
  BY DEF WalkDone, rest
<1>2. PICK r : r = ReplyTo(cpu[c], "reply")
  OBVIOUS
<1>3. /\ r \in CpuType /\ r.pc = "reply" /\ r.job = cpu[c].job /\ r.mbuf = cpu[c].mbuf
  <2>1. "reply" \in Pcs /\ cpu[c] \in CpuType
    BY LocalType DEF Pcs
  <2> QED BY <1>2, <2>1, ReplyRec
<1>4. cpu' = [cpu EXCEPT ![c] = r]
  BY <1>2, Zenon DEF WalkDone, ToReply, Goto, ReplyTo
<1>5. pend' \in [Pendings -> PendType] /\ inbox' \in [Cpus -> SUBSET Pendings]
  BY <1>1 DEF NetInv, TypeOK
<1>6. \A p \in Pendings : ~Marking(p)
  BY <1>0, WalkAlone DEF Marking, InWalk
<1>7. \A p \in Pendings : /\ pend'[p].ent = pend[p].ent /\ pend'[p].mbuf = pend[p].mbuf
                          /\ pend'[p].cpu = pend[p].cpu /\ pend'[p].addr = pend[p].addr
                          /\ pend[p].ent = None => pend'[p] = pend[p]
                          /\ pend[p].dispatched \/ Marking(p) => pend'[p].dispatched \/ Marking(p)'
  BY <1>1, <1>6
<1>8. ~InWalk(r)
  BY <1>3 DEF InWalk
<1> QED BY <1>0, <1>1, <1>3, <1>4, <1>5, <1>7, <1>8, WalkStep

-----------------------------------------------------------------------------
(* The theorems *)

\* The invariant holds after the start.
LEMMA NetInit == Init => NetInv
<1> SUFFICES ASSUME Init PROVE NetInv
  OBVIOUS
<1> USE DEF Init
<1>1. Idle \in CpuType /\ Idle.pc = "idle" /\ Idle.job = "none" /\ Idle.mbuf = None /\ LocalsOk(Idle)
  BY IdleFields
<1>2. \A c \in Cpus : cpu[c] = Idle
  OBVIOUS
<1>3. \A p \in Pendings : pend[p] = NoPending
  BY DEF NoPending
<1>4. NoPending \in PendType /\ NoPending.ent = None /\ NoPending.mbuf = None
  BY DEF NoPending, PendType
<1>5. TypeOK
  <2>1. cpu \in [Cpus -> CpuType]
    BY <1>1
  <2>2. entry \in [Entries -> EntryType]
    BY DEF EntryType
  <2>3. pend \in [Pendings -> PendType]
    BY DEF PendType
  <2>4. << >> \in Seq(Mbufs)
    OBVIOUS
  <2>5. /\ freed \in [Mbufs -> Nat] /\ nr_iov \in [Mbufs -> 0..2]
        /\ done \in [Mbufs -> {"default", "sent", "udp", "null"}]
    OBVIOUS
  <2>6. txq \in [Cpus -> Seq(Mbufs)] /\ page_refs \in [Cpus -> Int] /\ inbox \in [Cpus -> SUBSET Pendings]
    BY <2>4
  <2>7. app \subseteq Mbufs /\ dropped \subseteq Mbufs /\ exhausted \subseteq {"arp", "pend"}
    OBVIOUS
  <2> QED BY <2>1, <2>2, <2>3, <2>5, <2>6, <2>7 DEF TypeOK
<1>6. Control
  BY <1>1, <1>2, NetAssumption DEF Control
<1>7. Linked
  BY <1>3, <1>4 DEF Linked
<1>8. Posted
  BY <1>1, <1>2 DEF Posted
<1>9. Resolved
  BY <1>1, <1>2 DEF Resolved, ResolvedAt
<1>10. Buffers
  <2>1. Loc = [c \in Cpus |-> None] /\ Wait = [p \in Pendings |-> None]
    BY <1>1, <1>2, <1>3, <1>4 DEF Loc, Wait
  <2>2. \A c \in Cpus : 1..Len(txq[c]) = {}
    OBVIOUS
  <2> QED BY <2>1, <2>2, NetAssumption DEF Buffers, Owned, OwnedAt
<1>11. Pages
  <2>1. /\ Loc = [c \in Cpus |-> None] /\ Wait = [p \in Pendings |-> None]
        /\ Jobs = [c \in Cpus |-> "none"]
    BY <1>1, <1>2, <1>3, <1>4 DEF Loc, Wait, Jobs
  <2>2. ASSUME NEW c \in Cpus PROVE page_refs[c] = Cardinality(PinsAt(nr_iov, txq[c], Jobs[c], Loc[c]))
    <3>1. PinsAt(nr_iov, txq[c], Jobs[c], Loc[c]) = {}
      <4>1. \A x \in Mbufs \X (1..2) : nr_iov[x[1]] = 0
        OBVIOUS
      <4> QED BY <4>1 DEF PinsAt
    <3> QED BY <3>1, FS_EmptySet
  <2>3. \A m \in Mbufs : nr_iov[m] = 0 /\ done[m] = "null"
    OBVIOUS
  <2>4. \A c \in Cpus : Loc[c] \notin Mbufs
    BY <2>1, NetAssumption
  <2>5. \A p \in Pendings : Wait[p] \notin Mbufs
    BY <2>1, NetAssumption
  <2> QED BY <2>2, <2>3, <2>4, <2>5, Zenon DEF Pages, PagesOk
<1> QED BY <1>5, <1>6, <1>7, <1>8, <1>9, <1>10, <1>11 DEF NetInv

\* Every step keeps the invariant.
LEMMA NetStep == NetInv /\ [Next]_vars => NetInv'
<1> SUFFICES ASSUME NetInv, [Next]_vars PROVE NetInv'
  OBVIOUS
<1>1. CASE arp_insert
  BY <1>1, InsertStep
<1>2. CASE Boot
  BY <1>2, BootStep
<1>3. ASSUME NEW c \in Cpus, Step(c) PROVE NetInv'
  BY <1>3, LookupStep, LockedStep, LookupMacStep, TransmitStep, AddLookupStep, AddStep, UnlinkStep,
     UpdateStep, WalkLockStep, WalkPostStep, WalkMarkStep, WalkDoneStep, RespondStep
     DEF Step, ip_send_one, udp_output
<1>4. ASSUME NEW c \in Cpus,
             \/ ip_output_hinted(c) \/ bsys_udp_send(c) \/ ip_input(c)
             \/ bsys_udp_recv_done(c) \/ arp_input(c) \/ send_pending_pkt(c) \/ XmitDone(c)
      PROVE  NetInv'
  BY <1>4, OutputStep, UdpSendStep, InputStep, RecvDoneStep, ArpInputStep, SendPendingStep, XmitStep
<1>5. CASE UNCHANGED vars
  BY <1>5, NetStutter
<1> QED BY <1>1, <1>2, <1>3, <1>4, <1>5 DEF Next

\* The buffers, the pending packets and the locks keep the inductive invariant
\* in every behaviour of arp.c, ip.c and udp.c.
THEOREM NetInvariant == Spec => []NetInv
  BY NetInit, NetStep, PTL DEF Spec

\* Every variable has its type.
THEOREM NetTypes == Spec => []TypeOK
<1>1. NetInv => TypeOK
  BY DEF NetInv
<1> QED BY <1>1, NetInvariant, PTL

\* No function of the stack returns to the CPU's loop with a lock held, but
\* for arp_lookup with an empty mempool.
THEOREM NetLocksReleased == Spec => []LocksReleased
<1>1. NetInv => LocksReleased
  BY NetAssumption DEF NetInv, Control, LocksReleased
<1> QED BY <1>1, NetInvariant, PTL

\* The look-up repeated under arp_lock: an address gets an entry only while
\* the table has none for it.
THEOREM NetOneEntry == Spec => []OneEntry
<1>1. Init => OneEntry
  BY DEF Init, OneEntry
<1>2. ASSUME TypeOK, OneEntry, NEW a \in Addrs, NEW s, NEW e \in Entries,
             __arp_lookup(a) = {}, entry' = [entry EXCEPT ![e] = NewEntry(a, s)]
      PROVE  OneEntry'
  <2>1. NewEntry(a, s).addr = a
    BY DEF NewEntry
  <2>2. entry'[e].addr = a /\ \A f \in Entries : f # e => entry'[f] = entry[f]
    BY <1>2, <2>1 DEF TypeOK
  <2>3. \A f \in Entries : entry[f].addr # a
    BY <1>2 DEF __arp_lookup
  <2> QED BY <1>2, <2>2, <2>3 DEF OneEntry
<1>3. ASSUME NetInv, OneEntry, [Next]_vars PROVE OneEntry'
  <2>1. CASE UNCHANGED entry
    BY <1>3, <2>1 DEF OneEntry
  <2>2. CASE arp_insert /\ entry' # entry
    <3>1. PICK a \in Static : /\ __arp_lookup(a) = {} /\ FreeEntries # {}
                              /\ entry' = [entry EXCEPT ![CHOOSE x \in FreeEntries : TRUE] = NewEntry(a, TRUE)]
      BY <2>2 DEF arp_insert
    <3>2. (CHOOSE x \in FreeEntries : TRUE) \in Entries
      BY <3>1 DEF FreeEntries
    <3> QED BY <1>2, <1>3, <3>1, <3>2, NetAssumption DEF NetInv
  <2>3. ASSUME NEW c \in Cpus, arp_lookup_locked(c), entry' # entry PROVE OneEntry'
    <3>1. /\ __arp_lookup(cpu[c].addr) = {} /\ FreeEntries # {}
          /\ entry' = [entry EXCEPT ![CHOOSE x \in FreeEntries : TRUE] = NewEntry(cpu[c].addr, FALSE)]
      BY <2>3 DEF arp_lookup_locked
    <3>2. (CHOOSE x \in FreeEntries : TRUE) \in Entries
      BY <3>1 DEF FreeEntries
    <3>3. cpu[c].addr \in Addrs
      BY <1>3, <2>3, LocalType DEF arp_lookup_locked, LocalsOk
    <3> QED BY <1>2, <1>3, <3>1, <3>2, <3>3 DEF NetInv
  <2>4. ASSUME NEW c \in Cpus, arp_lookup_mac(c) PROVE OneEntry'
    <3>1. CASE entry' # entry
      <4>1. cpu[c].pc = "found" /\ entry' = [entry EXCEPT ![cpu[c].ent].resolving = TRUE]
        BY <2>4, <3>1 DEF arp_lookup_mac
      <4>2. PICK e \in Entries : e = cpu[c].ent
        BY <1>3, <4>1, LocalType DEF LocalsOk
      <4>3. entry \in [Entries -> EntryType]
        BY <1>3 DEF NetInv, TypeOK
      <4>4. [entry[e] EXCEPT !.resolving = TRUE].addr = entry[e].addr
        BY <4>3 DEF EntryType
      <4>5. entry' = [entry EXCEPT ![e] = [entry[e] EXCEPT !.resolving = TRUE]]
        BY <4>1, <4>2, <4>3, Zenon
      <4>6. \A f \in Entries : entry'[f].addr = entry[f].addr
        BY <4>3, <4>4, <4>5
      <4> QED BY <1>3, <4>6 DEF OneEntry
    <3> QED BY <2>1, <3>1
  <2>5. ASSUME NEW c \in Cpus, arp_update_mac(c) PROVE OneEntry'
    <3>1. CASE entry' # entry
      <4>1. /\ cpu[c].pc = "found"
            /\ entry' = [entry EXCEPT ![cpu[c].ent] = [@ EXCEPT !.valid = TRUE, !.resolving = FALSE]]
        BY <2>5, <3>1 DEF arp_update_mac
      <4>2. PICK e \in Entries : e = cpu[c].ent
        BY <1>3, <4>1, LocalType DEF LocalsOk
      <4>3. entry \in [Entries -> EntryType] /\ entry[e] \in EntryType
        BY <1>3 DEF NetInv, TypeOK
      <4>4. PICK x : x = [entry[e] EXCEPT !.valid = TRUE, !.resolving = FALSE]
        OBVIOUS
      <4>5. entry' = [entry EXCEPT ![e] = x]
        BY <4>1, <4>2, <4>4, Zenon
      <4>6. x = [addr |-> entry[e].addr, valid |-> TRUE, static |-> entry[e].static,
                 active |-> entry[e].active, resolving |-> FALSE]
        BY <4>3, <4>4, Zenon DEF EntryType
      <4>7. \A f \in Entries : entry'[f].addr = entry[f].addr
        BY <4>3, <4>5, <4>6
      <4> QED BY <1>3, <4>7 DEF OneEntry
    <3> QED BY <2>1, <3>1
  <2>6. CASE Boot \/ UNCHANGED vars
    BY <2>1, <2>6 DEF Boot, vars, arpVars
  <2>7. ASSUME NEW c \in Cpus,
               \/ ip_output_hinted(c) \/ bsys_udp_send(c) \/ ip_input(c)
               \/ bsys_udp_recv_done(c) \/ arp_input(c) \/ send_pending_pkt(c) \/ XmitDone(c)
        PROVE  UNCHANGED entry
    BY <2>7 DEF ip_output_hinted, bsys_udp_send, ip_input, bsys_udp_recv_done, arp_input,
                send_pending_pkt, XmitDone, arpVars
  <2>8. ASSUME NEW c \in Cpus, Step(c), ~arp_lookup_locked(c), ~arp_lookup_mac(c), ~arp_update_mac(c)
        PROVE  UNCHANGED entry
    BY <2>8 DEF Step, arp_lookup, ip_send_one, udp_output, Transmit, AddLookup, arp_add_pending_pkt,
                UnlinkPending, WalkLock, WalkPost, WalkMark, WalkDone, Respond, arpVars
  <2> QED BY <1>3, <2>1, <2>2, <2>3, <2>4, <2>5, <2>6, <2>7, <2>8 DEF Next
<1> QED BY <1>1, <1>3, NetInvariant, PTL DEF Spec

\* A buffer's places are one set of at most one element.
LEMMA HeldOnce ==
    ASSUME NetInv, NEW m \in Mbufs
    PROVE  IF m \in dropped THEN Holders(m) = {} ELSE \E t : Holders(m) = {t}
<1>1. OwnedAt(m, freed, Loc, txq, app, Wait, dropped)
  BY BufferFacts DEF Owned
<1> DEFINE Queues(x) == UNION {TxqPlaces(c, x) : c \in Cpus}
<1>2. Holders(m) = FreePlaces(m) \cup CpuPlaces(m) \cup Queues(m) \cup AppPlaces(m) \cup PendPlaces(m)
  BY DEF Holders
<1>3. /\ freed[m] = 0 => FreePlaces(m) = {}
      /\ freed[m] = 1 => FreePlaces(m) = {<<"free", 1>>}
  <2>1. freed[m] = 0 => 1..freed[m] = {}
    OBVIOUS
  <2>2. freed[m] = 1 => 1..freed[m] = {1}
    OBVIOUS
  <2> QED BY <2>1, <2>2, Zenon DEF FreePlaces
<1>4. /\ (\A c \in Cpus : Loc[c] # m) => CpuPlaces(m) = {}
      /\ \A c \in Cpus : Loc[c] = m => CpuPlaces(m) = {<<"cpu", c>>}
  <2>1. \A c \in Cpus : Loc[c] = cpu[c].mbuf
    BY BufferFacts
  <2>2. (\A c \in Cpus : Loc[c] # m) => CpuPlaces(m) = {}
    BY <2>1 DEF CpuPlaces
  <2>3. ASSUME NEW c \in Cpus, Loc[c] = m PROVE CpuPlaces(m) = {<<"cpu", c>>}
    <3>1. {x \in Cpus : cpu[x].mbuf = m} = {c}
      BY <1>1, <2>1, <2>3 DEF OwnedAt
    <3> QED BY <3>1, Zenon DEF CpuPlaces
  <2> QED BY <2>2, <2>3
<1>5. /\ (\A c \in Cpus : \A i \in 1..Len(txq[c]) : txq[c][i] # m) => Queues(m) = {}
      /\ \A c \in Cpus : \A i \in 1..Len(txq[c]) : txq[c][i] = m => Queues(m) = {<<"txq", c, i>>}
  <2>1. \A c \in Cpus : DOMAIN txq[c] = 1..Len(txq[c])
    BY BufferFacts
  <2>2. ASSUME \A c \in Cpus : \A i \in 1..Len(txq[c]) : txq[c][i] # m PROVE Queues(m) = {}
    <3>1. \A c \in Cpus : TxqPlaces(c, m) = {}
      BY <2>1, <2>2 DEF TxqPlaces
    <3> QED BY <3>1
  <2>3. ASSUME NEW c \in Cpus, NEW i \in 1..Len(txq[c]), txq[c][i] = m
        PROVE  Queues(m) = {<<"txq", c, i>>}
    <3>1. {j \in DOMAIN txq[c] : txq[c][j] = m} = {i}
      BY <1>1, <2>1, <2>3 DEF OwnedAt
    <3>2. TxqPlaces(c, m) = {<<"txq", c, i>>}
      BY <3>1, Zenon DEF TxqPlaces
    <3>3. \A d \in Cpus : d # c => {j \in DOMAIN txq[d] : txq[d][j] = m} = {}
      BY <1>1, <2>1, <2>3 DEF OwnedAt
    <3>4. \A d \in Cpus : d # c => TxqPlaces(d, m) = {}
      BY <3>3, Zenon DEF TxqPlaces
    <3> QED BY <3>2, <3>4
  <2> QED BY <2>2, <2>3
<1>6. /\ m \notin app => AppPlaces(m) = {}
      /\ m \in app => AppPlaces(m) = {<<"app", m>>}
  <2>1. (m \notin app => app \cap {m} = {}) /\ (m \in app => app \cap {m} = {m})
    OBVIOUS
  <2> QED BY <2>1, Zenon DEF AppPlaces
<1>7. /\ (\A p \in Pendings : Wait[p] # m) => PendPlaces(m) = {}
      /\ \A p \in Pendings : Wait[p] = m => PendPlaces(m) = {<<"pend", p>>}
  <2>1. \A p \in Pendings : Wait[p] = m <=> pend[p].mbuf = m /\ ~Running(p)
    BY NetAssumption DEF Wait
  <2>2. (\A p \in Pendings : Wait[p] # m) => PendPlaces(m) = {}
    BY <2>1 DEF PendPlaces
  <2>3. ASSUME NEW p \in Pendings, Wait[p] = m PROVE PendPlaces(m) = {<<"pend", p>>}
    <3>1. {x \in Pendings : pend[x].mbuf = m /\ ~Running(x)} = {p}
      BY <1>1, <2>1, <2>3 DEF OwnedAt
    <3> QED BY <3>1, Zenon DEF PendPlaces
  <2> QED BY <2>2, <2>3
<1> HIDE DEF Queues
<1>10. CASE freed[m] = 1
  <2>1. /\ m \notin dropped /\ m \notin app /\ \A c \in Cpus : Loc[c] # m
        /\ \A c \in Cpus : \A i \in 1..Len(txq[c]) : txq[c][i] # m
        /\ \A p \in Pendings : Wait[p] # m
    BY <1>1, <1>10 DEF OwnedAt
  <2>2. Holders(m) = {<<"free", 1>>}
    BY <1>2, <1>3, <1>4, <1>5, <1>6, <1>7, <1>10, <2>1
  <2> QED BY <2>1, <2>2
<1>11. ASSUME NEW c \in Cpus, Loc[c] = m
       PROVE  IF m \in dropped THEN Holders(m) = {} ELSE \E t : Holders(m) = {t}
  <2>1. /\ m \notin dropped /\ m \notin app /\ freed[m] = 0
        /\ \A d \in Cpus : \A i \in 1..Len(txq[d]) : txq[d][i] # m
        /\ \A p \in Pendings : Wait[p] # m
    BY <1>1, <1>11 DEF OwnedAt
  <2>2. Holders(m) = {<<"cpu", c>>}
    BY <1>2, <1>3, <1>4, <1>5, <1>6, <1>7, <1>11, <2>1
  <2> QED BY <2>1, <2>2
<1>12. ASSUME NEW c \in Cpus, NEW i \in 1..Len(txq[c]), txq[c][i] = m
       PROVE  IF m \in dropped THEN Holders(m) = {} ELSE \E t : Holders(m) = {t}
  <2>1. /\ m \notin dropped /\ m \notin app /\ freed[m] = 0 /\ \A d \in Cpus : Loc[d] # m
        /\ \A p \in Pendings : Wait[p] # m
    BY <1>1, <1>12 DEF OwnedAt
  <2>2. Holders(m) = {<<"txq", c, i>>}
    BY <1>2, <1>3, <1>4, <1>5, <1>6, <1>7, <1>12, <2>1
  <2> QED BY <2>1, <2>2
<1>13. CASE m \in app
  <2>1. /\ m \notin dropped /\ freed[m] = 0 /\ \A c \in Cpus : Loc[c] # m
        /\ \A c \in Cpus : \A i \in 1..Len(txq[c]) : txq[c][i] # m
        /\ \A p \in Pendings : Wait[p] # m
    BY <1>1, <1>13 DEF OwnedAt
  <2>2. Holders(m) = {<<"app", m>>}
    BY <1>2, <1>3, <1>4, <1>5, <1>6, <1>7, <1>13, <2>1
  <2> QED BY <2>1, <2>2
<1>14. ASSUME NEW p \in Pendings, Wait[p] = m
       PROVE  IF m \in dropped THEN Holders(m) = {} ELSE \E t : Holders(m) = {t}
  <2>1. /\ m \notin dropped /\ m \notin app /\ freed[m] = 0 /\ \A c \in Cpus : Loc[c] # m
        /\ \A c \in Cpus : \A i \in 1..Len(txq[c]) : txq[c][i] # m
    BY <1>1, <1>14 DEF OwnedAt
  <2>2. Holders(m) = {<<"pend", p>>}
    BY <1>2, <1>3, <1>4, <1>5, <1>6, <1>7, <1>14, <2>1
  <2> QED BY <2>1, <2>2
<1>15. CASE m \in dropped
  <2>1. /\ m \notin app /\ freed[m] = 0 /\ \A c \in Cpus : Loc[c] # m
        /\ \A c \in Cpus : \A i \in 1..Len(txq[c]) : txq[c][i] # m
        /\ \A p \in Pendings : Wait[p] # m
    BY <1>1, <1>15 DEF OwnedAt
  <2>2. Holders(m) = {}
    BY <1>2, <1>3, <1>4, <1>5, <1>6, <1>7, <2>1
  <2> QED BY <1>15, <2>2
<1> QED BY <1>1, <1>10, <1>11, <1>12, <1>13, <1>14, <1>15 DEF OwnedAt

\* Every packet buffer has exactly one holder, unless arp_add_pending_pkt
\* refused it, which it does only after a mempool was found empty.
THEOREM NetOneHolder == Spec => []OneHolder
<1>1. NetInv => OneHolder
  <2> SUFFICES ASSUME NetInv PROVE OneHolder
    OBVIOUS
  <2>1. \A m \in Mbufs : Cardinality(Holders(m)) = IF m \in dropped THEN 0 ELSE 1
    BY HeldOnce, FS_Singleton, FS_EmptySet
  <2> QED BY <2>1 DEF OneHolder, NetInv, Resolved
<1> QED BY <1>1, NetInvariant, PTL

\* Each iov of a UDP packet is released once, by udp_mbuf_done or by the error
\* path of bsys_udp_send: a CPU's page references are those of the packets it
\* still has to send.
THEOREM NetPagesPinned == Spec => []PagesPinned
<1>1. NetInv => PagesPinned
  <2> SUFFICES ASSUME NetInv, NEW c \in Cpus PROVE page_refs[c] = Cardinality(Pins(c))
    BY DEF PagesPinned
  <2>1. page_refs[c] = Cardinality(PinsAt(nr_iov, txq[c], Jobs[c], Loc[c]))
    BY PageFacts, Zenon DEF PagesOk
  <2>2. Jobs[c] = cpu[c].job /\ Loc[c] = cpu[c].mbuf /\ DOMAIN txq[c] = 1..Len(txq[c])
    BY PageFacts, BufferFacts
  <2>3. Pins(c) = PinsAt(nr_iov, txq[c], Jobs[c], Loc[c])
    BY <2>2 DEF Pins, PinnedBy, PinsAt
  <2> QED BY <2>1, <2>3
<1> QED BY <1>1, NetInvariant, PTL
====
