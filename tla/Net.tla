-------------------------------- MODULE Net --------------------------------
(***************************************************************************)
(* ARP, IP output, UDP and the packet buffers they pass around: net/arp.c, *)
(* net/ip.c, net/udp.c, inc/kns/mbuf.h, the transmit half of               *)
(* inc/kns/ethqueue.h and the page references of inc/kns/page.h.           *)
(*                                                                         *)
(* Each CPU runs one function at a time to its end; the CPUs interleave    *)
(* between any two accesses to the ARP table, the pending packets and the  *)
(* two locks.  cpu[c] holds where the CPU is and its locals; job says      *)
(* which function of the stack called into ARP.                            *)
(*                                                                         *)
(* No timer of an entry ever runs: arp_lookup_mac and arp_update_mac start *)
(* one only if hrtimer_active says it runs already.  active records that   *)
(* and stays FALSE; arp_timer_handler and the request that arp_lookup_mac  *)
(* would send are therefore not part of the behaviour.                     *)
(***************************************************************************)
EXTENDS Integers, Sequences, FiniteSets, FiniteSetsExt, SequencesExt

CONSTANTS
    Cpus,
    Addrs,      \* IP addresses of other hosts
    OnLink,     \* those with the prefix of CFG.host_addr
    Gateway,    \* CFG.gateway_addr
    Dests,      \* the addresses this host sends to
    Static,     \* the addresses the configuration may list
    Mbufs,      \* elements of the mbuf datastore
    Entries,    \* elements of arp_datastore (ARP_MAX_ENTRIES)
    Pendings,   \* elements of pending_pkt_datastore (MAX_PENDING_PKTS)
    TxCap,      \* descriptors of a transmit queue
    None        \* NULL

ASSUME NetAssumption ==
    /\ OnLink \subseteq Addrs /\ Gateway \in OnLink
    /\ Dests \subseteq Addrs /\ Static \subseteq Addrs
    /\ TxCap \in Nat /\ IsFiniteSet(Mbufs)
    /\ None \notin Cpus \cup Addrs \cup Mbufs \cup Entries \cup Pendings

VARIABLES
    entry,              \* struct arp_entry; addr = None: in the mempool
    pend,               \* struct pending_pkt; ent = None: in the mempool
    arp_lock, pending_pkt_lock,   \* the CPU that holds it, or None
    freed,              \* how often each mbuf is on a free list
    done,               \* mbuf.done: "default", "sent" (udp_mbuf_done),
                        \* "udp" (0xDEADBEEF) or "null"
    nr_iov,             \* mbuf.nr_iov
    txq,                \* per CPU: packets given to the NIC, in order
    page_refs,          \* per CPU: references taken on user pages
    app,                \* mbufs the application was told of (usys_udp_recv)
    inbox,              \* per CPU: send_pending_pkt calls not yet run
    booting,            \* the configuration is being read, no CPU polls yet
    cpu,
    dropped, exhausted  \* history: mbufs arp_add_pending_pkt did not take,
                        \* mempools that were found empty

vars == <<entry, pend, arp_lock, pending_pkt_lock, freed, done, nr_iov, txq,
          page_refs, app, inbox, booting, cpu, dropped, exhausted>>
arpVars == <<entry, pend, arp_lock, pending_pkt_lock>>
bufVars == <<freed, done, nr_iov, txq, page_refs, app>>
rest    == <<booting, dropped, exhausted>>

Idle == [pc |-> "idle", job |-> "none", mbuf |-> None, addr |-> None,
         ent |-> None, pend |-> None, create |-> TRUE, reply |-> FALSE,
         todo |-> {}]

\* arp_init and the mempools behind it: everything is free.  pending_pkts of
\* an entry is never initialised; the memory is taken to be zero.
Init ==
    /\ entry = [e \in Entries |-> [addr |-> None, valid |-> FALSE,
                                   static |-> FALSE, active |-> FALSE,
                                   resolving |-> FALSE]]
    /\ pend = [p \in Pendings |-> [ent |-> None, mbuf |-> None, addr |-> None,
                                   cpu |-> None, dispatched |-> FALSE]]
    /\ arp_lock = None /\ pending_pkt_lock = None
    /\ freed = [m \in Mbufs |-> 1]
    /\ done = [m \in Mbufs |-> "null"]
    /\ nr_iov = [m \in Mbufs |-> 0]
    /\ txq = [c \in Cpus |-> <<>>]
    /\ page_refs = [c \in Cpus |-> 0]
    /\ app = {}
    /\ inbox = [c \in Cpus |-> {}]
    /\ booting = TRUE
    /\ cpu = [c \in Cpus |-> Idle]
    /\ dropped = {} /\ exhausted = {}

---------------------------------------------------------------------------
(* Packet buffers and the transmit queue *)

\* mbuf_alloc takes some free element; which one makes no difference.
FreeMbuf == CHOOSE m \in Mbufs : freed[m] > 0
MbufLeft == \E m \in Mbufs : freed[m] > 0

\* txq->cap: the descriptors that are left (eth_send takes 1 + nr_iov).
Cap(c) == TxCap - FoldFunction(LAMBDA m, s : s + 1 + nr_iov[m], 0, txq[c])

\* eth_send and eth_send_one, when there is room for a packet of n iovs.
eth_send(c, m) == txq' = [txq EXCEPT ![c] = Append(@, m)]

\* The header of a free mbuf is not read again, but for done = 0xDEADBEEF in
\* bsys_udp_recv_done: the other leftovers are all written as the same.
mbuf_free(m) ==
    /\ freed' = [freed EXCEPT ![m] = @ + 1]
    /\ nr_iov' = [nr_iov EXCEPT ![m] = 0]
    /\ done' = IF done[m] = "udp" THEN done ELSE [done EXCEPT ![m] = "null"]

keepBufs == UNCHANGED <<freed, nr_iov, done>>

\* page_get and page_put of n iovs.  Nothing sets PAGE_FLAG_WILL_FREE, so
\* only the CPU's own count is used.
page_get(c, n) == page_refs' = [page_refs EXCEPT ![c] = @ + n]
page_put(c, n) == page_refs' = [page_refs EXCEPT ![c] = @ - n]

mbuf_default_done(m) == mbuf_free(m) /\ UNCHANGED page_refs

\* udp_mbuf_done gives back every iov and tells the application.
udp_mbuf_done(c, m) == page_put(c, nr_iov[m]) /\ mbuf_free(m)

\* eth_tx_reclaim: the NIC has sent the oldest packet and mbuf_xmit_done
\* calls m->done.
XmitDone(c) ==
    /\ cpu[c].pc = "idle" /\ txq[c] # <<>>
    /\ LET m == Head(txq[c]) IN
       /\ \/ done[m] = "default" /\ mbuf_default_done(m)
          \/ done[m] = "sent" /\ udp_mbuf_done(c, m)
       /\ txq' = [txq EXCEPT ![c] = Tail(@)]
    /\ UNCHANGED <<arpVars, app, inbox, cpu, rest>>

---------------------------------------------------------------------------
(* What a CPU starts from its loop *)

Start(c, job, l) == /\ cpu[c].pc = "idle" /\ ~booting
                    /\ cpu' = [cpu EXCEPT ![c] = [l EXCEPT !.pc = "lookup", !.job = job]]

NextHop(a) == IF a \in OnLink THEN a ELSE Gateway

\* ip_output_hinted and tcp_output_packet: a new mbuf for ip_send_one.
ip_output_hinted(c) ==
    /\ MbufLeft
    /\ \E a \in Dests :
          Start(c, "ip", [Idle EXCEPT !.mbuf = FreeMbuf, !.addr = NextHop(a)])
    /\ freed' = [freed EXCEPT ![FreeMbuf] = @ - 1]
    /\ done' = [done EXCEPT ![FreeMbuf] = "default"]
    /\ nr_iov' = [nr_iov EXCEPT ![FreeMbuf] = 0]
    /\ UNCHANGED <<arpVars, txq, page_refs, app, inbox, rest>>

\* bsys_udp_send: payload on one page, or across a page boundary.
bsys_udp_send(c) ==
    /\ MbufLeft
    /\ \E a \in Dests :
          Start(c, "udp", [Idle EXCEPT !.mbuf = FreeMbuf, !.addr = a])
    /\ \E n \in {1, 2} :
          /\ nr_iov' = [nr_iov EXCEPT ![FreeMbuf] = n]
          /\ page_get(c, n)
    /\ freed' = [freed EXCEPT ![FreeMbuf] = @ - 1]
    /\ done' = [done EXCEPT ![FreeMbuf] = "sent"]
    /\ UNCHANGED <<arpVars, txq, app, inbox, rest>>

\* send_pending_pkt on the CPU that queued the packet.
send_pending_pkt(c) ==
    /\ \E p \in inbox[c] :
          /\ Start(c, "pending", [Idle EXCEPT !.pend = p, !.mbuf = pend[p].mbuf,
                                              !.addr = NextHop(pend[p].addr)])
          /\ inbox' = [inbox EXCEPT ![c] = @ \ {p}]
    /\ UNCHANGED <<arpVars, bufVars, rest>>

\* udp_input: the buffer belongs to the application until it says it is done.
udp_input(m) ==
    /\ freed' = [freed EXCEPT ![m] = @ - 1]
    /\ done' = [done EXCEPT ![m] = "udp"]
    /\ app' = app \cup {m}

\* ip_input of a UDP packet that passes the tests of both functions.  Anything
\* malformed or fragmented is freed again; TCP and ICMP input are not in the
\* repository.
ip_input(c) ==
    /\ cpu[c].pc = "idle" /\ ~booting /\ MbufLeft
    /\ udp_input(FreeMbuf)
    /\ UNCHANGED <<arpVars, nr_iov, txq, page_refs, inbox, cpu, rest>>

\* bsys_udp_recv_done, for any buffer the application names.
bsys_udp_recv_done(c) ==
    /\ cpu[c].pc = "idle" /\ ~booting
    /\ \E m \in Mbufs :
          /\ done[m] = "udp"
          /\ done' = [done EXCEPT ![m] = "null"]
          /\ freed' = [freed EXCEPT ![m] = @ + 1]
          /\ app' = app \ {m}
    /\ UNCHANGED <<arpVars, nr_iov, txq, page_refs, inbox, cpu, rest>>

\* arp_input with a valid packet: the sender's address is looked up, and
\* created only if the packet asks for this host.
arp_input(c) ==
    /\ MbufLeft
    /\ \E a \in Addrs, am_target \in BOOLEAN, request \in BOOLEAN :
          Start(c, "arp", [Idle EXCEPT !.mbuf = FreeMbuf, !.addr = a, !.create = am_target,
                                       !.reply = am_target /\ request])
    /\ freed' = [freed EXCEPT ![FreeMbuf] = @ - 1]
    /\ done' = [done EXCEPT ![FreeMbuf] = "default"]
    /\ nr_iov' = [nr_iov EXCEPT ![FreeMbuf] = 0]
    /\ UNCHANGED <<arpVars, txq, page_refs, app, inbox, rest>>

---------------------------------------------------------------------------
(* The table *)

__arp_lookup(a) == {e \in Entries : entry[e].addr = a}
FreeEntries == {e \in Entries : entry[e].addr = None}
Goto(c, to, l) == cpu' = [cpu EXCEPT ![c] = [l EXCEPT !.pc = to]]

\* arp_lookup, before the lock is taken.
arp_lookup(c) ==
    /\ cpu[c].pc = "lookup"
    /\ LET hits == __arp_lookup(cpu[c].addr) IN
       IF hits # {} THEN \E e \in hits : Goto(c, "found", [cpu[c] EXCEPT !.ent = e])
       ELSE Goto(c, IF cpu[c].create THEN "lock" ELSE "absent", cpu[c])
    /\ UNCHANGED <<arpVars, bufVars, inbox, rest>>

NewEntry(a, static) == [addr |-> a, valid |-> static, static |-> static,
                        active |-> FALSE, resolving |-> FALSE]

\* Mutant: the table is not searched again under the lock.
LookupLockedOnce(c) ==
    /\ cpu[c].pc = "lock" /\ arp_lock = None /\ FreeEntries # {}
    /\ LET e == CHOOSE x \in FreeEntries : TRUE IN
       /\ entry' = [entry EXCEPT ![e] = NewEntry(cpu[c].addr, FALSE)]
       /\ Goto(c, "found", [cpu[c] EXCEPT !.ent = e])
    /\ UNCHANGED <<arp_lock, pend, pending_pkt_lock, bufVars, inbox, rest>>

\* arp_lookup, under arp_lock.  With the mempool empty it returns NULL and
\* keeps the lock.
arp_lookup_locked(c) ==
    /\ cpu[c].pc = "lock" /\ arp_lock = None
    /\ LET hits == __arp_lookup(cpu[c].addr) IN
       \/ /\ hits # {}
          /\ \E e \in hits : Goto(c, "found", [cpu[c] EXCEPT !.ent = e])
          /\ UNCHANGED <<entry, arp_lock, exhausted>>
       \/ /\ hits = {} /\ FreeEntries # {}
          /\ LET e == CHOOSE x \in FreeEntries : TRUE IN
             /\ entry' = [entry EXCEPT ![e] = NewEntry(cpu[c].addr, FALSE)]
             /\ Goto(c, "found", [cpu[c] EXCEPT !.ent = e])
          /\ UNCHANGED <<arp_lock, exhausted>>
       \/ /\ hits = {} /\ FreeEntries = {}
          /\ arp_lock' = c
          /\ exhausted' = exhausted \cup {"arp"}
          /\ Goto(c, "absent", cpu[c])
          /\ UNCHANGED entry
    /\ UNCHANGED <<pend, pending_pkt_lock, bufVars, inbox, booting, dropped>>

\* arp_insert: a static entry of the configuration.  It takes no lock and
\* has no caller but the configuration, which runs before the CPUs do.
arp_insert ==
    /\ booting
    /\ \E a \in Static :
          IF __arp_lookup(a) # {} THEN UNCHANGED entry
          ELSE /\ FreeEntries # {}
               /\ LET e == CHOOSE x \in FreeEntries : TRUE IN
                  entry' = [entry EXCEPT ![e] = NewEntry(a, TRUE)]
    /\ UNCHANGED <<pend, arp_lock, pending_pkt_lock, bufVars, inbox, cpu, rest>>

Boot == /\ booting /\ booting' = FALSE
        /\ UNCHANGED <<arpVars, bufVars, inbox, cpu, dropped, exhausted>>

---------------------------------------------------------------------------
(* Sending *)

\* The end of ip_send_one: back in its caller, with mbuf no longer held.
Sent(c) ==
    IF cpu[c].job = "pending"
    THEN Goto(c, "unlink", [cpu[c] EXCEPT !.mbuf = None, !.ent = None, !.addr = None])
    ELSE cpu' = [cpu EXCEPT ![c] = Idle]

\* Mutant: the error path of bsys_udp_send forgets the iovs.
FailKeepsPages(c) == mbuf_free(cpu[c].mbuf) /\ Sent(c) /\ UNCHANGED page_refs

\* The error paths of the callers: free the packet, and its iovs for UDP.
Fail(c) ==
    /\ mbuf_free(cpu[c].mbuf)
    /\ IF cpu[c].job = "udp" THEN page_put(c, nr_iov[cpu[c].mbuf])
       ELSE UNCHANGED page_refs
    /\ Sent(c)

\* arp_lookup_mac after the lookup: the MAC address, -EAGAIN or -ENOENT.
\* A UDP packet is given up at once; other packets wait.
arp_lookup_mac(c) ==
    /\ cpu[c].pc \in {"found", "absent"} /\ cpu[c].job # "arp"
    /\ LET e == cpu[c].ent
           known == cpu[c].pc = "found" /\ entry[e].valid IN
       /\ entry' = IF cpu[c].pc = "found" /\ ~known /\ entry[e].active
                   THEN [entry EXCEPT ![e].resolving = TRUE] ELSE entry
       /\ \/ /\ known
             /\ Goto(c, "send", [cpu[c] EXCEPT !.ent = None, !.addr = None])
             /\ keepBufs /\ UNCHANGED page_refs
          \/ ~known /\ cpu[c].job = "udp" /\ Fail(c)
          \/ /\ ~known /\ cpu[c].job # "udp"
             /\ Goto(c, "park", [cpu[c] EXCEPT !.ent = None])
             /\ keepBufs /\ UNCHANGED page_refs
    /\ UNCHANGED <<pend, arp_lock, pending_pkt_lock, txq, app, inbox, rest>>

\* eth_send at the end of ip_send_one and udp_output; a full queue is -EBUSY.
Transmit(c) ==
    /\ cpu[c].pc = "send"
    /\ \/ /\ Cap(c) >= 1 + nr_iov[cpu[c].mbuf]
          /\ eth_send(c, cpu[c].mbuf)
          /\ Sent(c)
          /\ keepBufs /\ UNCHANGED page_refs
       \/ /\ Cap(c) < 1 + nr_iov[cpu[c].mbuf]
          /\ Fail(c)
          /\ UNCHANGED txq
    /\ UNCHANGED <<arpVars, app, inbox, rest>>

udp_output(c) == cpu[c].job = "udp" /\ Transmit(c)

ip_send_one(c) == cpu[c].job # "udp" /\ Transmit(c)

\* ip_send_one does not look at what arp_add_pending_pkt returns.
Drop(c) == dropped' = dropped \cup {cpu[c].mbuf} /\ Sent(c)

\* arp_add_pending_pkt, its lookup.
AddLookup(c) ==
    /\ cpu[c].pc = "park"
    /\ LET hits == __arp_lookup(cpu[c].addr) IN
       \/ /\ hits # {}
          /\ \E e \in hits : Goto(c, "queue", [cpu[c] EXCEPT !.ent = e])
          /\ UNCHANGED dropped
       \/ hits = {} /\ Drop(c)
    /\ UNCHANGED <<arpVars, bufVars, inbox, booting, exhausted>>

FreePendings == {p \in Pendings : pend[p].ent = None}

\* arp_add_pending_pkt, under pending_pkt_lock.
arp_add_pending_pkt(c) ==
    /\ cpu[c].pc = "queue" /\ pending_pkt_lock = None
    /\ \/ /\ FreePendings # {}
          /\ LET p == CHOOSE x \in FreePendings : TRUE IN
             pend' = [pend EXCEPT ![p] =
                        [ent |-> cpu[c].ent, mbuf |-> cpu[c].mbuf,
                         addr |-> cpu[c].addr, cpu |-> c, dispatched |-> FALSE]]
          /\ Sent(c)
          /\ UNCHANGED <<dropped, exhausted>>
       \/ /\ FreePendings = {}
          /\ exhausted' = exhausted \cup {"pend"}
          /\ Drop(c)
          /\ UNCHANGED pend
    /\ UNCHANGED <<entry, arp_lock, pending_pkt_lock, bufVars, inbox, booting>>

NoPending == [ent |-> None, mbuf |-> None, addr |-> None, cpu |-> None,
              dispatched |-> FALSE]

\* The rest of send_pending_pkt: unlink and free the element under the lock.
UnlinkPending(c) ==
    /\ cpu[c].pc = "unlink" /\ pending_pkt_lock = None
    /\ pend' = [pend EXCEPT ![cpu[c].pend] = NoPending]
    /\ cpu' = [cpu EXCEPT ![c] = Idle]
    /\ UNCHANGED <<entry, arp_lock, pending_pkt_lock, bufVars, inbox, rest>>

---------------------------------------------------------------------------
(* Learning an address *)

\* Back in arp_input; dead locals are cleared.
ToReply(c) == Goto(c, "reply", [cpu[c] EXCEPT !.addr = None, !.ent = None, !.create = TRUE])

\* arp_update_mac up to its lock; a static entry stays as it is, and a
\* failed lookup is ignored by arp_input.
arp_update_mac(c) ==
    /\ cpu[c].pc \in {"found", "absent"} /\ cpu[c].job = "arp"
    /\ IF cpu[c].pc = "absent" \/ (cpu[c].pc = "found" /\ entry[cpu[c].ent].static)
       THEN ToReply(c) /\ UNCHANGED entry
       ELSE /\ entry' = [entry EXCEPT ![cpu[c].ent] =
                              [@ EXCEPT !.valid = TRUE, !.resolving = FALSE]]
            /\ Goto(c, "walklock", [cpu[c] EXCEPT !.addr = None, !.create = TRUE])
    /\ UNCHANGED <<pend, arp_lock, pending_pkt_lock, bufVars, inbox, rest>>

\* The packets of the entry that nobody has been asked to send.
Waiting(e) == {p \in Pendings : pend[p].ent = e /\ ~pend[p].dispatched}

WalkLock(c) ==
    /\ cpu[c].pc = "walklock" /\ pending_pkt_lock = None
    /\ pending_pkt_lock' = c
    /\ Goto(c, "walk", [cpu[c] EXCEPT !.todo = Waiting(cpu[c].ent)])
    /\ UNCHANGED <<entry, pend, arp_lock, bufVars, inbox, rest>>

\* Mutant: packets of the CPU itself are marked but not posted.
WalkPostOthers(c) ==
    /\ cpu[c].pc = "walk"
    /\ \E p \in cpu[c].todo :
          /\ inbox' = IF pend[p].cpu = c THEN inbox
                      ELSE [inbox EXCEPT ![pend[p].cpu] = @ \cup {p}]
          /\ Goto(c, "mark", [cpu[c] EXCEPT !.pend = p, !.todo = @ \ {p}])
    /\ UNCHANGED <<arpVars, bufVars, rest>>

\* cpu_run_on_one(send_pending_pkt, pkt, pkt->cpu) ...
WalkPost(c) ==
    /\ cpu[c].pc = "walk"
    /\ \E p \in cpu[c].todo :
          /\ inbox' = [inbox EXCEPT ![pend[p].cpu] = @ \cup {p}]
          /\ Goto(c, "mark", [cpu[c] EXCEPT !.pend = p, !.todo = @ \ {p}])
    /\ UNCHANGED <<arpVars, bufVars, rest>>

\* ... and only then pkt->dispatched = 1.
WalkMark(c) ==
    /\ cpu[c].pc = "mark"
    /\ pend' = [pend EXCEPT ![cpu[c].pend].dispatched = TRUE]
    /\ Goto(c, "walk", [cpu[c] EXCEPT !.pend = None])
    /\ UNCHANGED <<entry, arp_lock, pending_pkt_lock, bufVars, inbox, rest>>

\* Mutant: arp_update_mac returns with the lock.
WalkDoneLocked(c) ==
    /\ cpu[c].pc = "walk" /\ cpu[c].todo = {}
    /\ ToReply(c)
    /\ UNCHANGED <<arpVars, bufVars, inbox, rest>>

WalkDone(c) ==
    /\ cpu[c].pc = "walk" /\ cpu[c].todo = {}
    /\ pending_pkt_lock' = None
    /\ ToReply(c)
    /\ UNCHANGED <<entry, pend, arp_lock, bufVars, inbox, rest>>

\* Mutant: a reply that was queued is freed as well.
RespondFrees(c) ==
    /\ cpu[c].pc = "reply"
    /\ IF cpu[c].reply /\ Cap(c) >= 1 THEN eth_send(c, cpu[c].mbuf)
       ELSE UNCHANGED txq
    /\ mbuf_free(cpu[c].mbuf)
    /\ cpu' = [cpu EXCEPT ![c] = Idle]
    /\ UNCHANGED <<arpVars, page_refs, app, inbox, rest>>

\* arp_send_response_reuse: the packet itself is the answer.
arp_send_response_reuse(c) ==
    IF Cap(c) >= 1 THEN eth_send(c, cpu[c].mbuf) /\ keepBufs
    ELSE mbuf_free(cpu[c].mbuf) /\ UNCHANGED txq

\* The end of arp_input.
Respond(c) ==
    /\ cpu[c].pc = "reply"
    /\ IF cpu[c].reply THEN arp_send_response_reuse(c)
       ELSE mbuf_free(cpu[c].mbuf) /\ UNCHANGED txq
    /\ cpu' = [cpu EXCEPT ![c] = Idle]
    /\ UNCHANGED <<arpVars, page_refs, app, inbox, rest>>

---------------------------------------------------------------------------

\* The steps of a function that has started.
Step(c) ==
    \/ arp_lookup(c) \/ arp_lookup_locked(c) \/ arp_lookup_mac(c)
    \/ ip_send_one(c) \/ udp_output(c) \/ AddLookup(c) \/ arp_add_pending_pkt(c)
    \/ UnlinkPending(c) \/ arp_update_mac(c) \/ WalkLock(c) \/ WalkPost(c)
    \/ WalkMark(c) \/ WalkDone(c) \/ Respond(c)

Next ==
    \/ arp_insert \/ Boot
    \/ \E c \in Cpus :
          \/ ip_output_hinted(c) \/ bsys_udp_send(c) \/ ip_input(c)
          \/ bsys_udp_recv_done(c) \/ arp_input(c) \/ send_pending_pkt(c)
          \/ XmitDone(c) \/ Step(c)

Spec == Init /\ [][Next]_vars

\* A CPU finishes the function it is in and gets to the calls in its inbox;
\* the lock's holder may be waited for, so taking it must recur.
FairSpec == /\ Spec
            /\ \A c \in Cpus : /\ SF_vars(Step(c))
                               /\ SF_vars(send_pending_pkt(c))
---------------------------------------------------------------------------
(* Properties *)

\* Every variable has its type: the locals of each CPU, the elements of the
\* two mempools, the queues.
Pcs == {"idle", "lookup", "lock", "found", "absent", "send", "park", "queue", "unlink",
        "walklock", "walk", "mark", "reply"}
CpuType == [pc : Pcs, job : {"none", "ip", "udp", "arp", "pending"},
            mbuf : Mbufs \cup {None}, addr : Addrs \cup {None}, ent : Entries \cup {None},
            pend : Pendings \cup {None}, create : BOOLEAN, reply : BOOLEAN,
            todo : SUBSET Pendings]
EntryType == [addr : Addrs \cup {None}, valid : BOOLEAN, static : BOOLEAN,
              active : BOOLEAN, resolving : BOOLEAN]
PendType == [ent : Entries \cup {None}, mbuf : Mbufs \cup {None}, addr : Addrs \cup {None},
             cpu : Cpus \cup {None}, dispatched : BOOLEAN]

TypeOK ==
    /\ cpu \in [Cpus -> CpuType] /\ entry \in [Entries -> EntryType]
    /\ pend \in [Pendings -> PendType]
    /\ arp_lock \in Cpus \cup {None} /\ pending_pkt_lock \in Cpus \cup {None}
    /\ freed \in [Mbufs -> Nat] /\ nr_iov \in [Mbufs -> 0..2]
    /\ done \in [Mbufs -> {"default", "sent", "udp", "null"}]
    /\ txq \in [Cpus -> Seq(Mbufs)] /\ page_refs \in [Cpus -> Int]
    /\ inbox \in [Cpus -> SUBSET Pendings]
    /\ app \subseteq Mbufs /\ dropped \subseteq Mbufs
    /\ exhausted \subseteq {"arp", "pend"} /\ booting \in BOOLEAN

Running(p) == \E c \in Cpus : cpu[c].job = "pending" /\ cpu[c].pend = p

\* Who holds m: free lists, CPUs, transmit queues, the application, pending
\* packets (send_pending_pkt takes the buffer over).
FreePlaces(m) == {<<"free", k>> : k \in 1..freed[m]}
CpuPlaces(m) == {<<"cpu", c>> : c \in {x \in Cpus : cpu[x].mbuf = m}}
TxqPlaces(c, m) == {<<"txq", c, i>> : i \in {j \in DOMAIN txq[c] : txq[c][j] = m}}
AppPlaces(m) == {<<"app", x>> : x \in app \cap {m}}
PendPlaces(m) == {<<"pend", p>> : p \in {x \in Pendings : pend[x].mbuf = m /\ ~Running(x)}}
Holders(m) == FreePlaces(m) \cup CpuPlaces(m) \cup (UNION {TxqPlaces(c, m) : c \in Cpus})
              \cup AppPlaces(m) \cup PendPlaces(m)

\* A packet buffer has exactly one holder: it is not freed twice, sent while
\* somebody may still free it, or lost (net/ip.c, net/arp.c and net/udp.c free
\* or pass on the buffer on every path).  The only buffers without a holder
\* are those arp_add_pending_pkt refused, and it refuses one only after a
\* mempool was found empty.
OneHolder ==
    /\ \A m \in Mbufs : Cardinality(Holders(m)) = IF m \in dropped THEN 0 ELSE 1
    /\ dropped # {} => exhausted # {}

\* The unlocked look-up in arp_lookup, repeated under arp_lock, never leaves
\* two entries for one address, whatever the other CPUs insert meanwhile.
OneEntry ==
    \A e, f \in Entries :
        entry[e].addr # None /\ entry[e].addr = entry[f].addr => e = f

\* No function returns to the CPU's loop with a lock held, with one
\* exception: arp_lookup after it found arp_mempool empty.
LocksReleased ==
    \A c \in Cpus : cpu[c].pc = "idle" =>
        /\ pending_pkt_lock # c
        /\ arp_lock = c => "arp" \in exhausted

\* The iovs of the UDP packets a CPU is sending: in its transmit queue, and
\* the one it works on.
PinnedBy(c) == {m \in Mbufs : \/ \E i \in DOMAIN txq[c] : txq[c][i] = m
                              \/ cpu[c].job = "udp" /\ cpu[c].mbuf = m}
Pins(c) == {x \in Mbufs \X (1..2) : x[2] <= nr_iov[x[1]] /\ x[1] \in PinnedBy(c)}

\* A CPU's page references are those of the UDP packets it is sending: each
\* iov is released once, by udp_mbuf_done or by the error path.
PagesPinned == \A c \in Cpus : page_refs[c] = Cardinality(Pins(c))

\* A packet that arp_update_mac dispatched is eventually handed to the NIC (or
\* freed by a full queue) and its element freed, whatever the other CPUs do;
\* unless arp_mempool was found empty, when arp_lock is never released.
DispatchedSent ==
    \A p \in Pendings :
        pend[p].dispatched ~> (~pend[p].dispatched \/ "arp" \in exhausted)

\* What the comment on arp_lookup_mac says of -EAGAIN: somebody is waiting to
\* resolve the address, that is, a request has been sent.
WaitingIsResolving ==
    \A p \in Pendings : pend[p].ent # None /\ ~entry[pend[p].ent].valid
                           => entry[pend[p].ent].resolving

=============================================================================
