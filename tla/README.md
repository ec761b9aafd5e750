# A TLA+ development for KNS

KNS is a port of the IX dataplane to a Linux kernel module: each CPU polls its
own NIC queue, runs a small network stack on what it finds, and owns a share of
the *flow groups* (entries of the NIC's RSS redirection table), which a control
plane moves between CPUs.  The CPUs share little, and what they share is shared
without locks or with very short ones: a pointer ring, an element allocator,
the flow-group table and the queues of a migration, the ARP table.  Below them
is the ixgbe driver, which shares the adapter with the driver of the other port,
with the firmware and with virtual functions.  This development models those
parts, checks them with TLC on small instances, and proves with TLAPS, for every
size, the invariants of the ring and that it implements a bounded queue, and the
invariants of the flow groups, the network stack, the TCP system calls and the
mailbox.

Names in the modules are the names of the code; comments say where TLA+ forces
another one.  Every definition that stands for code is listed with its lines in
`PROJECT.json`.

## 1. Inventory

| Part | State | Operations | Shared with | What is hard | What makes it correct |
|---|---|---|---|---|---|
| Pointer ring (`inc/kns/ring.h`, `core/ring.c`) | two head/tail pairs of 32-bit indexes, slots, water mark | SP/MP enqueue, SC/MC dequeue (bulk, burst, one), water mark, counts | any number of producers and consumers, no lock | stale indexes, index wrap-around, reserve / copy / publish in three steps, waiting for one's turn | bounded FIFO; no slot owned twice; nobody waits forever |
| Element allocator (`core/mempool.c`, `inc/kns/mempool.h`) | chunk list under a spin lock, per-CPU lists and private chunks, links inside the elements | create, alloc, free, their slow paths | one datastore, a pool for each CPU; elements freed on another CPU | links in memory the caller has used, counters that no longer match lists | no element lost, duplicated or handed out twice |
| Flow groups and receive queues (`core/ethfg.c`, `inc/kns/ethfg.h`, `core/ethqueue.c`, `inc/kns/ethqueue.h`) | group fields, `migration_info`, three packet queues for each CPU, a timer | assign/migrate, receive, poll, process, early and timed-out transition | every CPU reads the group fields, the old CPU writes the target's queue, the NIC table | two CPUs, a timer and the NIC all take part in one migration, without a lock | order of packets, one owner, no unexplained loss, the migration ends |
| ARP, IP, UDP, mbufs (`net/arp.c`, `net/ip.c`, `net/udp.c`, `inc/kns/mbuf.h`) | table of entries, pending packets, two locks, transmit queues, page references | lookup, update, input, pending packets; IP and UDP output; receive done | one table for all CPUs; packets return to their CPU through `cpu_run_on_one` | unlocked look-up, pools that run out, every early return owns an mbuf | each mbuf has one holder, each address one entry, locks released, dispatched packets sent |
| TCP system calls (`net/tcp_api.c`) | elements found by handle, receive list, flags | accept, connect, send, receive done, close; events of the stack | application, TCP, allocator | close, reset and late calls in any order | both control blocks agree; data handed over once, in order, freed only when given back |
| TCP engine (`net/tcp_out.c`, `net/tcp.c`) | the pcb: two queues of segments, windows, counters, one timer | write, output, retransmit (timed, fast), open, close, shut down, receive window, timer | application, timer interrupt, the peer | segments move between queues while windows change and memory runs out | the stream is kept, counters agree, no acknowledgement forgotten, announced window is there |
| VF mailbox (`ixgbe/ixgbe_mbx.c`, `ixgbe/ixgbe_vf.c`) | a shared buffer, ownership and signal bits, timeouts | every call of a VF; the PF's reads and answers | VF and PF, only registers in between | timeouts against late answers, bits cleared by reading | an acknowledged request gets its own answer |
| Semaphores of the adapter (`ixgbe_common.c`, `ixgbe_phy.c`, `ixgbe_82599.c`) | SMBI, SWESMBI, GSSR | acquire, release and everything that works under them | two drivers and the firmware | read-modify-write by three parties, crash of one of them, error paths | exclusive use, nothing lost, nothing kept |
| Ports of the driver (`ixgbe.c`, `ixgbe_82599.c`, `ixgbe_phy.c`, `ixgbe_common.c`) | PHY, module, AUTOC, pause bits, statistics map | probe, start, stop, close, link update, resets | firmware, modules that are swapped | failures in the middle of a reset or a set-up, what a reset leaves | offers what was asked; pause agreed at both ends |
| Traffic classes and flow control (`ixgbe_dcb*.c`, `ixgbe_rxtx.c`) | packet buffers, water marks, class maps, credits | the queue modes, link and priority flow control | | the same registers set from several configurations in turn | marks lie in the buffer of their class |
| Receive filters (`ixgbe.c`, `ixgbe_fdir.c`, `ixgbe_pf.c`, `ixgbe_common.c`) | receive addresses, hash tables, VLAN table and slots, pools, mirror rules, flow director | the filter calls, and what starts and resets do to them | virtual functions | shadow copies, tables that overflow | what was asked is received, and nothing else |
| Page allocator (`core/page.c`, `inc/kns/page.h`) | a ring of pages for each CPU, reference counts | init, alloc, free, get, put | pages freed on another CPU | errors ignored, results used after a failure | no page twice, counts |
| RSS hash, device table, control-plane layout, system-call layouts, `lwip/` | - | - | | layouts, pure functions, vendored | - |

How they interact: the driver's poll takes an mbuf from the allocator and calls
`eth_recv`; the packet waits in the CPU's backlog until `eth_process_recv`
passes it to `eth_input`, which dispatches to ARP or IP; IP asks ARP for the
MAC, and ARP keeps packets until the answer comes.  TCP calls into `tcp_api.c`
with events, which the application answers with system calls.  The control plane
writes a command for a CPU, which runs `eth_fg_assign_to_cpu`; the CPUs then run
pieces of the migration on each other with `cpu_run_on_one`.  Ports are started,
stopped and configured by serialised calls; the page allocator and other users
build on the ring.

The hazards of each part, at the line where they bite, are under `hazards` in
`PROJECT.json`.

## 2. Modules

| Module | Models | Extends / instantiates |
|---|---|---|
| `BoundedFifo` | what a ring promises: a bounded queue with atomic multi-object put and get | |
| `Ring` | ring.h, ring.c | instantiates `BoundedFifo` through a refinement mapping |
| `RingProofs` | the proofs about `Ring`; that it implements `BoundedFifo` | `Ring` |
| `FlowGroupProofs`, `NetProofs`, `TcpApiProofs`, `TcpOutProofs`, `IxgbeMbxProofs`, `IxgbeSyncProofs`, `IxgbeFilterProofs` | the proofs about the module of the same name | that module |
| `Mempool` | mempool.c, mempool.h | |
| `FlowGroup` | ethfg.c, the receive side of ethqueue.c and ethqueue.h, the driver's poll | |
| `Net` | arp.c, ip.c, udp.c, mbuf.h, the transmit side of ethqueue.h | |
| `TcpApi` | tcp_api.c and the life of pcbs in tcp.c | |
| `TcpOut` | tcp_out.c; opening, closing, receive window and unified timer of tcp.c | |
| `IxgbeMbx` | ixgbe_mbx.c, ixgbe_vf.c | |
| `IxgbeAccess` | the driver's functions that touch shared resources, as sets of paths | |
| `IxgbeSync` | the three semaphores; two drivers and a firmware that run the paths | `IxgbeAccess` |
| `IxgbeHw` | PHY, module, link, reset and start of the adapter | |
| `IxgbeDcb` | packet buffers, classes, flow control | `IxgbeHw` |
| `IxgbePort` | a port from probe to close | `IxgbeDcb` |
| `IxgbeAddr`, `IxgbeVlan`, `IxgbeFdir` | receive addresses; VLANs, pools and mirror rules; flow director | `IxgbeVlan` extends `IxgbeAddr` |
| `IxgbeFilter` | the filter calls through starts and stops | `IxgbeVlan`, `IxgbeFdir` |
| `MC...` | instances for TLC (symmetry sets, configurations) | the module of the same name |

### Ring

Each shared access is one step: read own head, read opposite tail, move the
head (compare-and-set, or a plain store with `RING_F_SP_ENQ` / `RING_F_SC_DEQ`),
each slot, the tail.  `pc[t]` says where thread `t` is, and `n`, `lhead`,
`ltail`, `copied`, `table`, `ret` are its locals.  The indexes live in
`0..IndexMod-1` (`2^32` in the code) and `Add` and `Sub` are the C arithmetic,
so that the wrap-around happens within a few calls.  Slots that were never
written hold `NoObj`; `ImplementsFifo` would see one if it were ever delivered.

`CmpxchgReturnsOld` is the meaning of `atomic_cmpxchg`.  The loops of the MP
and MC paths test its result for 0 as they would test a success flag (the
function they were ported from returned one), but Linux's returns the value it
found.  `TRUE` is the code as it is; the SP/SC paths do not depend on it.
`FALSE` is a compare-and-set that reports success: it shows that nothing *else*
is wrong with the multi-thread paths.

`lag[t]` counts how far the head has moved since `t` read it.  It only serves to
state the one thing a compare-and-set cannot see, a head that moved by a full
turn of `2^32` between the read and the compare-and-set (ABA); the guard in
`Advance` excludes exactly that, and with `2^32` it needs four thousand million
enqueues inside one loop of one thread.

Memory order: the model is sequentially consistent.  The code separates the
slots from the tail with `smp_wmb` / `smp_rmb`; weaker orders are not modelled.

### Mempool

The lists are modelled as they are in memory: `next` and `nextChunk` are the
two words of the header inside each element, and they are overwritten
(`Dirty`) when an element is handed out, because they then belong to the caller.
The slow paths take the datastore's lock in one step and finish in another.
Elements may be freed to another pool than the one they came from, as mbufs are.
`BugOnTraps` says whether `BUG_ON` does anything.  The assertions of this file
(and of `ethfg.c`, `ethfg.h`, `page.c`, `control_plane.h`) were ported from IX's
`assert` without negating the condition, so with `BUG_ON` compiled in the first
call stops the CPU; the run has `BUG_ON` compiled to nothing.

### FlowGroup

Each CPU is in its loop (`mode = "loop"`) or inside one of the functions; it
does nothing else until the function returns, except that the migration timer
fires in an interrupt at any point.  `Poll` is one round of the driver's receive
loop with `eth_recv`; at the old CPU of a migrating group the packet stays in
`reg` between the test of the group's state and the enqueue on the target's
queue, because the target can finish the migration in between.
`eth_fg_assign_to_cpu` is split into the groups (`eth_fg_assign_single_to_cpu`),
the migration info and timer (`AssignInfo`), the copy to the target
(`AssignCopy`), the NIC table (`AssignReta`) and the outbound groups
(`AssignFdir`); `transition_handler_target` into the group fields, the
loop over the remote queue (the next pointer is read before `eth_input`), the
reset of the queue, the local queue, and the report to the control plane.

External: `cpu_run_on_one` (declared in `cpu.h`, not defined in the repository:
"Function will be replaced by linux API") is a request run later on the other
CPU between two functions of its loop, in no particular order; the control
plane gives one command at a time, to the CPU that has the groups; the NIC
delivers by the redirection table.

Simplifications: one device; the four stores of one group are one step (no
other CPU holds packets of the group at that point, and each later test reads
one state or the other); a packet is its group and number; a full backlog is
`MaxDepth`; the line `this_cpu_ptr(eth_rxqs[i])` of `eth_process_recv` is read as
the `__this_cpu_read` the rest of the file uses; timers of a group are not moved
(the code's calls are commented out).

### Net

A CPU runs one function of the stack at a time: it sends over IP or UDP, handles
a received packet, runs `send_pending_pkt` that another CPU posted, or finishes
transmitted packets.  `cpu[c]` is where it is and its locals.  The CPUs
interleave between any two accesses to the table, the pending packets and the two
locks.  A buffer is a model value; `freed` counts how often it is on a free list,
`nr_iov` the pages it pins.  `dropped` and `exhausted` remember the two things
the code does wrong when a mempool is empty (section 4), so that the properties
say exactly how far the damage goes.

The ARP timers never run: both places that start one first require it to be
active.  `arp_timer_handler` and the request it would repeat are therefore not
reachable, and packets wait until the other host sends an ARP packet.

### TcpApi

A connection has two control blocks, the stack's and the application's, that
point to each other.  The actions are the application's calls and the events of
the stack; each runs to its end.  The input half of the stack (`tcp_in.c`) is not
in the repository, so the events are external and come in any order the code of
`tcp.c` allows.  A call that would follow a null or freed pointer sets `fault`
and the behaviour ends there; the properties speak about the states before.

### TcpOut

The pcb is one record and each function of `tcp_out.c` an operator from pcb to
pcb; `mem` says whether allocations succeed.  The queues are sequences of
segments, a segment its first sequence number, its bytes (each byte is the number
it must have), its control flag and its number of pbufs.  A timer field is set or
not; whether a set one has expired when the hrtimer fires is open, because the
code compares nanoseconds, microseconds and milliseconds.  The peer is external:
it acknowledges any prefix of what was sent, announces any window of `PeerWnds`,
sends the third duplicate acknowledgement at any time, data and a FIN.
`hung` is a CPU that cancels its own timer from the timer's callback, and waits
for it.  `owed` and `starved` are history.

### The mailbox and the semaphores

`IxgbeMbx` interleaves the two sides at every register access the other can
notice.  The sixteen words of the buffer are two, so that a copy can be caught
half way.  The VF gives up after `MbxTimeout` polls; the PF may take arbitrarily
long.  Its handlers are commented out in `ixgbe_pf.c`: what it answers is open.

In `IxgbeAccess` a function denotes the set of its paths: acquisitions,
releases and accesses in order, and the status.  `IxgbeSync` runs those paths
on two drivers, register by register where the semaphores are concerned, against
a firmware that takes the same resources.  One of the three may stop for good
anywhere.  The bounded waits of the code (100 ms for SMBI and SWESMBI) end only
when their holder has stopped; the wait for a resource may end at any time.

### Ports and filters

In `IxgbeHw`, `IxgbeDcb`, `IxgbeAddr`, `IxgbeVlan` and `IxgbeFdir` a function of
the driver is an operator on a record (what `struct ixgbe_hw` and the registers
hold) that returns the set of its outcomes; hardware answers and failing polls
are alternatives.  `IxgbePort` and `IxgbeFilter` put the calls in sequence.  The
calls of one port are serialised by their callers; what is hard is the sequence,
failures in the middle, and what a reset leaves or restores.  The families of
filter calls touch different registers, so a behaviour of `IxgbeFilter` uses one
family besides starts and stops.

## 3. Runs

| Run | Instance | Shows |
|---|---|---|
| `ring_spsc` | 1 producer, 1 consumer, 4 slots, indexes mod 8, calls of 0 and 2 objects (truncated to 1 near full), two objects, bulk and burst, a water mark of 2 | types, index order, exclusive slots, and that the ring implements `BoundedFifo` |
| `ring_mpmc` | 2 producers on the MP path, 1 consumer on the MC path, 4 slots, bursts of one, a compare-and-set that reports success | the ring implements `BoundedFifo`; every reservation is published; the consumer's calls return whatever the producers do |
| `ring_mp_hang` | Linux `atomic_cmpxchg` | **violated**: the first MP enqueue on a fresh ring reserves twice and waits for itself forever |
| `mempool` | 2 pools, 6 elements asked for, a page of 7, chunks of 2 | no element lost or on two lists; every call returns |
| `flowgroup` | 2 CPUs, 2 groups, 2 packets each, backlog of 1, one command, timer at any point, mbufs may run out | order, ownership, loss only after a timeout or without mbufs, the migration ends, packets are handled |
| `net` | 2 CPUs, 3 addresses for 2 entries, 2 mbufs, 1 pending packet, transmit queues of 2 | one holder for each buffer, one entry for each address, locks released, pages balanced, dispatched packets sent |
| `tcp_api` | 2 elements, 2 pcbs, 1 id, 2 pbufs for each connection, 1 hardware filter | the two blocks agree; data handed over once and in order; freed only when given back |
| `tcp_out` | segments of 2 bytes, 4 bytes of send buffer, queue of 5 pbufs, windows of 0, 2 and 4, 4 bytes sent, 2 received | the stream is kept, counters agree, acknowledgements are not forgotten, the announced window is there |
| `mbx` | 3 calls, 2 polls, 1 reset of the PF | an acknowledged request gets its own answer, messages are whole, a reset of the PF is noticed |
| `sync` | 2 drivers with four and three kinds of calls, firmware, one stop | exclusive use, no lost update of GSSR, nothing kept after a failed call |
| `port` | SFP+, backplane and copper ports, 5 modules, 5 configurations, 3 calls after the probe | pause agreed at both ends, the speeds asked for are offered, marks within buffers, statistics maps restored |
| `filter` | 4 configurations, with and without VFs, 3 receive registers beside the SAN address, 2 slots for 3 VLANs, 5 calls | addresses received, VLANs as asked, slots exact, flow director filters current |

Each property of a passing run has a mutant in its module: a plausible mistake
in the code under which TLC finds the property violated.  The largest
runs have 0.5 to 1.5 million distinct states; each takes at most a few minutes.

**Bounds.**  `IndexMod` is a multiple of `Size`, small enough for both indexes
to wrap several times; 4 slots are the least with which a burst, a partial burst
and a full ring differ.  Two threads of a side suffice for every conflict of two
threads; the theorems (section 5) remove the bound, as they do those of `net`,
`tcp_api`, `mbx` and all of `flowgroup` but `MaxCmds`.  `ring_mpmc` has one object: slots and
counts tell a lost, repeated or unwritten entry; the order of different objects
is `ring_spsc`'s.  `MaxDeficit` stops `num_free` from falling for ever in a pool
whose elements others free.  `MaxPkts` = 2 lets a group have packets on both
sides of a migration and in two queues of one CPU.  `MaxCmds` = 1 in
`flowgroup`: with two commands the properties fail (section 4), so they are
statements about a first migration; both directions, the assignment of a fresh
group and an assignment to the CPU that already has the group are covered by the
initial states and the choice of the command.  `Net` has one thing too few of
everything, so that every pool runs out.  `TcpOut`: two segments can be in
flight and one unsent, a write can extend a segment, open new ones or fail on
either limit; `MaxRtx` = 1 lets the connection be given up; `MayShrink` is
`FALSE`, a peer that keeps RFC 793's advice (section 4 for the other case);
sequence numbers do not wrap.  `MaxCalls` bounds the calls after the probe
(`port`) and all calls (`filter`, `mbx`); five are enough for a start, a change,
a stop, another start with another configuration and another change.
`CHECK_DEADLOCK FALSE` where the bounded calls, packets or commands are used up
and the system rests, or a connection has ended.

**Fairness.**  Ring: a thread inside a ring function keeps running (weak
fairness of its steps); nobody must call.  Mempool: the locked section runs to
its end with interrupts off (weak), and Linux's queued spin lock serves those
who wait in turn (strong fairness of taking it).  FlowGroup: a CPU with
something to do does something (weak fairness of its step), a started timer
expires (weak).  Net: a CPU that is in a function goes on (strong, because of the
same queued spin locks) and in the end runs what was posted to it.  The other
modules state safety only: the code promises progress nowhere that its own
bounded polls do not give trivially.

**Stated, not in a run.**  Some properties are kept in the modules for whoever
changes the code: `TailHasOwner`, `CountsAgree`, `QuotaNeedsWaterMark` (`Ring`),
`FreeChunksExact`, `AtLeastNrElems` (`Mempool`), `BacklogOwned` (proved as well),
`AssignedWhenReady` (`FlowGroup`), `ApiAgreed` (`IxgbeMbx`), `OneOwner`
(`IxgbeSync`) and the type invariants hold in the instances above, and so does `HasCpuWhenReady` with one command.  `NoBug` (when
`BUG_ON` traps), `FreeLooksFree`, `WaitingIsResolving`, `NoFault`, and
`HasCpuWhenReady` with two commands do not, as the next section says.

## 4. Findings

`ring_mp_hang`, with the lines it contradicts, is under `findings`.  The models
also show the following, each by naming a property or changing a constant of an
instance above.

Ring and allocator
* With Linux's `atomic_cmpxchg` a producer whose compare-and-set failed on a head
  other than 0 goes on to write the slots another reserved (`ring.h:327`;
  `ExclusiveSlots` with two producers and `CmpxchgReturnsOld = TRUE`).
* The water mark test (`ring.h` 335, 419) counts one entry too many.
* `BUG_ON (mds->magic == 0)` (`mempool.c:175`, and 48, 60, 91, 248, 253) stops the
  CPU in the first call (`NoBug`, `BugOnTraps = TRUE`).
* The last free element of a list has a null first word, which
  `handle_to_tcpapi` (`tcp_api.c:102`) takes for an allocated element
  (`FreeLooksFree`).
* `mempool_alloc_2` does not set `num_free`, so a pool can give back chunks
  longer than `chunk_size`.

Flow groups
* `ethfg.c:241` tests the bitmap with `__bitmap_empty` where it should clear it:
  a second migration from a CPU finishes the groups of the first again and
  leaves them without a CPU; their packets are then lost or out of order
  (`HasCpuWhenReady`, `InOrder`, `LossNeedsCause`, `MaxCmds = 2`).
* The timer starts (278) before the redirection table is written (284): the
  migration can be reported done first, and the late write then undoes the next
  command's (`AssignedWhenReady`, one group, `MaxCmds = 2`), although
  `document/Flow Group.md` says that only one migration runs at a time.

Network stack
* `arp_lookup` keeps the table's lock when the mempool is empty (`arp.c:140`); a
  packet that cannot be added to a pending list is neither sent nor freed
  (`ip.c:201`).  `LocksReleased` and `OneHolder` say so as exceptions.
* No ARP request is ever sent for a waiting packet (`arp.c:372`;
  `WaitingIsResolving`).
* `bsys_tcp_recv_done` (`tcp_api.c:310`) counts the first pbuf of a chain for the
  chain: giving back a chain of two frees the packet behind it
  (`FreedOnlyGivenBack`, `MaxChain = 2`).
* `bsys_tcp_connect` leaves an old id in a reused element (709), and its error
  path unlinks a pcb that is on no list (744); both are faults of `TcpApi`
  (`NoFault`).
* After a fast retransmission into a window the peer has shrunk
  (`MayShrink = TRUE`), the retransmitted segment is the last of the unsent
  queue: `tcp_write` (`tcp_out.c:499`) appends new bytes to it and `tcp_send_fin`
  (151) puts the FIN on it, in the middle of the stream (`StreamKept`).
* The retransmission handler returns `HRTIMER_NORESTART`, and
  `tcp_recompute_timers` starts nothing from inside the callback: the timer is
  off until another call touches the connection, while `tcp_out.c:1174` says "Set
  retransmission timer running if it is not currently enabled".  Giving up, or an
  earlier expiry found inside the callback, cancels the timer from its own
  callback and hangs the CPU (`hung`); and nobody is told that the connection is
  gone.
* The test for `nrtx == TCP_MAXRTX` is skipped when a fast retransmission has
  counted past it; `tcp_backoff[nrtx]` is then read past its end.
* Before the peer has announced a window `mss_local` is 0 and a write fails with
  `ERR_MEM`; the comparison with `tcp_input_pcb` takes the address of the per-CPU
  variable and is never true; a delayed acknowledgement whose buffer cannot be
  allocated is forgotten (`starved`).

Driver: semaphores and mailbox
* `ixgbe_setup_loopback_link_82599` (`ixgbe_rxtx.c:1768`) releases MAC_CSR also
  when it did not take it, and so releases the other driver's (`GssrExact`, with
  `"loopback"` among the calls and `Lesm = FALSE`).
* A failed I2C read clears the bus without the semaphore and releases it twice
  after the last retry; when the EEPROM cannot be read the firmware is taken not
  to manage the link.
* `ixgbe_reset_hw_vf` ignores whether its message was sent.

Driver: ports and flow control
* A low-water mark of 0 passes `ixgbe_fc_enable_generic`; a class without buffer
  accepts any mark; classes without priority flow control keep marks above their
  buffer (the exceptions in `MarksFit`).
* The flow-control registers are not set again after a restart; a failed module
  set-up is not retried; a port without a module at the probe stays without a PHY
  type; the semaphore's result replaces that of a failed reset
  (`ixgbe_82599.c:1124`).
* After four classes, eight get `bwg_percent` 25 and 0, so four have no credits
  (`ixgbe_dcb.c:127`).  A failed start frees its buffers with receiving enabled;
  `ixgbe_probe` returns 0 although `ixgbe_init_adapter` failed.

Driver: filters
* `ixgbe_insert_mac_addr_generic` (`ixgbe_common.c:3482`) reports success with
  every register in use, after raising the high-water mark past the last one.
* The pools of a receive register are not cleared when another address takes it;
  switching promiscuous mode off while the registers overflow loses addresses,
  and leaving the overflow switches the user's promiscuous mode off.
* `ixgbe_vlan_filter_set` copies a whole hardware register to the shadow, so
  VLANs set meanwhile by pools become the port's; `ixgbe_set_vfta_generic` does not
  update the shadow; the shadow of the unicast hash table survives a reset that
  clears the table.
* Refused masks (`ixgbe_fdir.c:657`) have already cleared every filter; a removal
  that reports `-EIO` may have removed.

## 5. Proofs

Eight modules hold theorems.  They are about every value of the constants that
meets the assumptions of the model's module, which say what the constants are
(numbers, sets without the null value, `Size` divides the index range) and
nothing about the program; TLC evaluates them in every run.  Some of them are
there for counting only: `Mbufs` (`Net`) and `Apis` (`TcpApi`) are finite, as
pools are, and the pools of VMDq are numbered from 0 (`IxgbeVlan`), as the loop
over the bits of a mask has them.  A theorem that needs more than that has the hypothesis in its
statement.  All stand for a mistake of the code (section 4) but the bound
`MaxCwnd` and the two of the filters, which say what a caller may configure:

* `CasReportsSuccess` (ring): no thread depends on `atomic_cmpxchg` reporting
  success.  It holds for single producers and consumers, and for a
  compare-and-set that does report it.  `ring_mp_hang` is the other case.
* `MaxCmds <= 1` (flow groups): one migration command.  With two, the bitmap of
  the first is still set when the second starts (`ethfg.c:241`), and TLC finds
  `InOrder` and `LossNeedsCause` violated with `MaxCmds = 2`.
* `MaxChain = 1` (`ApiFreedOnlyGivenBack` only): chains of one pbuf, because
  `bsys_tcp_recv_done` counts the first pbuf of a chain for the whole.
* `~MayShrink` (`StreamInvariant`, `StreamExact`): the peer does not take back
  window it has announced.  After one that does, the segment of a fast
  retransmission can stay in the unsent queue, where new bytes are added to it.
  The same two theorems have `MaxCwnd >= MSS`: the window `tcp_rexmit_fast` sets is five
  segments or more, and only the model's bound could cut it below one.
* `Calls0 \cup Calls1 \subseteq Balanced` (`IxgbeSync`): the drivers make any of
  the modelled calls but `ixgbe_setup_loopback_link_82599`, which releases
  MAC_CSR also when it did not take it.
* `MapsSound` (`SlotsAreExact` only): in a VMDq configuration every entry of the
  VLAN map but the first has a slot, pools, and a VLAN other than 0 that no other
  of them has.  `ixgbe_vmdq_rx_hw_configure` writes the map it is given.
* `Pools # {0}` (`AddressesAreReceived` only): VMDq has no mode with one pool.
  `ixgbe_insert_mac_addr_generic` takes the port's own address out of pool 0
  whenever that address is inserted, and it is received as long as another pool
  has it.

| Module | Theorem | States |
|---|---|---|
| `RingProofs` | `RingInvariant` | the inductive invariant `RingInv` |
| | `TypeCorrect`, `IndexOrderHolds`, `SlotsExclusive` | `TypeOK`, `IndexOrder`, `ExclusiveSlots` |
| | `TablesAgree` | the inductive invariant `FifoInv` |
| | `RingImplementsFifo` | `ImplementsFifo`, the refinement of `BoundedFifo` |
| `FlowGroupProofs` | `FlowTypes` | `TypeOK`, for any number of commands |
| | `FlowInvariant` | the inductive invariant `FlowInv` |
| | `FlowInOrder`, `FlowLossNeedsCause`, `FlowProcessedByOwner`, `FlowBacklogOwned` | `InOrder`, `LossNeedsCause`, the action property `ProcessedByOwner`, `BacklogOwned` |
| `NetProofs` | `NetInvariant` | the inductive invariant `NetInv` |
| | `NetTypes`, `NetLocksReleased`, `NetOneEntry`, `NetOneHolder`, `NetPagesPinned` | `TypeOK`, `LocksReleased`, `OneEntry`, `OneHolder`, `PagesPinned` |
| `TcpApiProofs` | `ApiInvariant` | the inductive invariant `ApiInv` |
| | `ApiTypes`, `ApiBlocksAgree`, `ApiGivenInOrder`, `ApiFreedOnlyGivenBack` | `TypeOK`, `BlocksAgree`, `GivenInOrder`, `FreedOnlyGivenBack` |
| | `ApiStopsOnly` | the action property that the kernel stops in three ways only |
| `TcpOutProofs` | `ConnInvariant` | the inductive invariant `Inv` of one connection |
| | `TcpOutTypes`, `AccountsExact`, `AcksNotForgotten`, `PromisesKept` | `ConnTypes`, `AccountsAgree`, `AckNotForgotten`, `PromiseKept` |
| | `StreamInvariant` | `Inv` and the invariant `StreamInv` of the stream |
| | `StreamExact` | `StreamKept` |
| `IxgbeMbxProofs` | `MailboxInvariant` | the inductive invariant `MbxInv` |
| | `MailboxTypes`, `RequestsHandledWhole`, `AnswersAreOwn`, `ResetsAreKept` | `TypeOK`, `HandledWhole`, `AnswerIsOwn`, `ResetKept` |
| `IxgbeSyncProofs` | `SyncInvariant` | the inductive invariant `SyncInv` |
| | `AccessesAreAlone`, `GssrIsExact`, `NothingIsKept` | `UsedAlone`, `GssrExact`, `NothingKept` |
| `IxgbeFilterProofs` | `VlansPassAsAsked`, `SlotsAreExact` | `VlanAsAsked`, `SlotsExact` |
| | `FiltersAreCurrent`, `AddressesAreReceived` | `FiltersCurrent`, `AddrReceived` |

Each proof goes the same way: the inductive invariant, a lemma for each action
that it keeps it, and a consequence for each property.

**Ring.**  `IndexOrder` alone says nothing about a thread that has computed its
room from indexes that have moved since.  `RingInv` adds, for each side
(`SideInv`): a thread between its read of the head and its compare-and-set knows
how far the head has moved (so equal means *not moved*); the ranges of the
threads that have reserved lie between tail and head and do not overlap; a side
with one thread has exactly that range, or none.  `ProdRoom` says that a producer
whose head is still the head has computed no more room than there is: the
opposite tail only moves towards more room.  `ConsRoom` is the mirror image.
There is one lemma for each way `SideInv` can change (`SideQuiet`,
`SideReadHead`, `SideReserve`, `SidePublish`), used for producers and consumers
alike.  `SlotsExclusive` then needs arithmetic only: two disjoint ranges within
fewer than `Size` entries have no slot in common, since `Size` divides the index
range.

**The ring is a queue.**  The queue is what lies in the slots from `cons.head` to
`prod.tail`.  `TableInv` says that what a producer has copied is in its reserved
slots (nobody else writes them, because the ranges are apart) and that it
publishes only when it has copied all; and that a consumer's table is what its
slots held.  So a publish appends the producer's table to the queue, a consumer's
compare-and-set takes its objects off the queue at once, although it copies them
later, and every other step changes nothing that the queue sees.

**Flow groups.**  One command makes one CPU `s` the giver and one CPU `d` the
taker.  `Control` says what every CPU's handler, every call that waits to be run
on another CPU, the timer and every group look like, given `s` and `d`: which
queue of `d` is still in use, who may have been asked to do what, which groups
are in transition.  The order of packets cannot be stated of one queue, because
a migration has five of them.  A packet is at one of seven stages, from processed
(0) to not received yet (6) by way of the remote queue, the register of the early
transition, the giver's NIC queue, the taker's local queue and its backlog.
`Chain` says that of two packets of a group at different stages, the one nearer
to processing came first.  Every step drops packets or moves them nearer, and the
work is in showing that it moves them past none of their group: that the
giver's NIC queue is empty of a group when the taker is told to start, unless
the timer or the lack of mbufs is among the causes (`Drained`, `Losses`), is what
`LossNeedsCause` rests on.

**Net.**  `OneEntry` is inductive with the types.  `LocksReleased` needs to know
where a CPU is while it holds a lock (`Control`).  `OneHolder` counts holders, so
the invariant has, for every buffer, which places it can be in (`Owned`), and one
lemma for each way it changes hands (`FreeToCpu`, `CpuToQueue`, `PendingToCpu`,
...).  The hard place is a pending packet between `cpu_run_on_one` and
`dispatched = 1`: the other CPU may send and free it, and somebody else may take
its element, before the walk has marked it.  `Posted` says that the element
cannot be reused in between, because freeing it needs the lock the walk holds.
`PagesPinned` sums, for each CPU, the iovs of its buffers; `Pages` adds that a
buffer with iovs is never parked or given to the application.

**TCP system calls.**  The elements not on the free list are those the
application has (`FreeList`), so a handle never reaches another connection's
element.  `Paired` says that an element and its pcb point to each other until one
goes, `Listed` which pcbs are linked, `Delivered` that what came before the
application accepted waits in one piece.  `ApiStopsOnly` follows: the guards of
`fault` are false in every state of the invariant but the three it names.

**TCP engine.**  A step of `TcpOut` is a composition of operators from pcb to pcb,
so the invariant `Inv` is a predicate on a pcb and there is one lemma for each
operator: those that leave the stream alone (`Calm`) need only say so, the others
keep `PcbOk`.  `Accounts` is `AccountsAgree` and the sizes of the segments: a
segment is never empty, nor longer than a segment or half of the largest window
the peer has announced; `tcp_write` needs that to know that the room in the last
segment is not negative.  Counting pbufs is a recursive function of a sequence,
so the lemmas about `PbufCount` (of a concatenation, an insertion, a changed
segment) are proved by induction over positions, once.  `AcksNotForgotten` rests
on `AckGoesOut`: `tcp_output` with `ACK_NOW` set sends a header or keeps the flag;
`Nagle` cannot hold it back, because `bsys_tcp_connect` turns it off and nothing
turns it on again (a conjunct of `PcbOk`).  `PromisesKept` needs the window that
will be announced next (`rcv_ann_wnd`) to be within the room, whatever order
reading, receiving and sending come in.

`StreamKept` needs an invariant of its own (`StreamInv`).  The unacknowledged
segments and after them the unsent ones lie in one row without gaps (`Tiles`)
from some point at or before `lastack` to `snd_lbb`, or one past it when a FIN
has been put on the last segment.  Every operator either leaves the row alone or
takes it apart and joins it again elsewhere: `tcp_write` lengthens its last
segment and adds new ones, `tcp_output` moves the boundary between the two queues
(the sorted insertion puts a segment at the end, because it begins where the row
of sent ones stops), a retransmission time-out moves the boundary back to the
start, an acknowledgement takes the row's beginning.  The fast retransmission is
the exception: it moves the first segment behind the boundary, *before* the
unsent ones, out of order, and the row is whole again only because the
`tcp_output` in the same call sends it at once.  It does if the segment fits the
peer's window, so the invariant says that what was sent lies within the window
(`InWindow`): true as long as the peer takes none back, and while the state is
one that can write, segments carry no SYN or FIN that would lengthen them past
their data (`Plain`).

**Mailbox.**  `HandledWhole` and `AnswerIsOwn` are about what a side has copied
out of a shared buffer under a reservation that both may take at any time, with
bits in registers that are lost when read.  `MbxInv` says what each pending bit
tells: VFREQ, that the buffer holds a request, all of it unless the VF is copying
a new one (`RequestStands`); PFSTS, the same of an answer (`AnswerStands`); and,
from the acknowledgement of a request on, that the PF is on its way to its answer
or the answer is in the buffer and nothing makes the PF write again
(`AnswerComes`).  `ResetKept` is inductive on its own, given the types.

**Semaphores.**  The proof has two halves.  In the first a path is *lawful* from
the semaphores `A` to `B` (`Trace`) if each of its events is: it takes what the
driver does not have, gives back what it has, touches what it has, reads a word
of the EEPROM only without the EEPROM's semaphore.  `Keeps` says that every path
of a function, whatever it returns, is lawful and ends with what it began with.
There is a lemma for each way `IxgbeAccess` builds paths (one after another, on
success, finally, in loops) and for each function, so `PathsKeep` covers every
error path of every call for any number of rounds and retries; the loops are
recursive functions, and the lemmas about them are proved by induction over the
rounds.  One release is lawful without the semaphore: that of the port's own PHY,
which the I2C functions release twice and no other driver takes.  The second half
is `SyncInv`.  What is left of a call is lawful from what the driver has
(`Leads`).  A driver past its semaphores has both (`LockOf`), unless the firmware
stopped with SWESMBI (`Stuck`): then releases go on without it and nothing is
acquired again, so what two drivers write at once only clears bits.  `WillBe`
says what the value read from GSSR will make of it once it is written.  A driver
clears SMBI for a holder that is gone only when it is the only one left, and so
its last try succeeds.

**Filters.**  Each property has an invariant of its own, kept by the four states
of a start (it may leave the first three as they are when it fails) and by the
calls of every family.  `VlanInv`: the copy of the VLAN table knows what was
asked, and the table is the copy while VLANs are filtered and there are no pools;
a start clears the table, but nothing filters until it is written from the copy.
`PoolInv`: a VLAN has one slot and a slot without pools is free (`SlotInv`), and
the slots give what was granted.  A call over several pools is all or nothing:
only its first pool can find no slot, since afterwards the VLAN has one, and
taking pools away never makes the slot of a VLAN unavailable (`Avail`).
`DirInv`: every filter was written under the masks and the table size in force;
a start that fails at the flow director leaves `started` false.  `AddrInv` has
one clause for each way of managing the registers.  Where they are named by their
index an address stays until its register is written.  Where they are searched,
registers from the high-water mark up are free, so an insertion displaces nobody.
Where a list is set, either no address found the registers full and all of the
list is in them, or `upe` is set, or a caller ended promiscuous mode meanwhile
(`upeOff`).  Multicast bits are in the copy as well, because the next call
without `clear` writes the table from it.

**Only model-checked.**  Liveness (`ReservationsPublished`, `CallsReturn`,
`MigrationEnds`, `PacketsHandled`, `DispatchedSent`, the allocator's
termination), which TLAPS does not prove.  What depends on the value of a
fold (`Cap` of a transmit queue) is proved only as far as its type goes.  `Mempool.Conserved`
needs induction along linked lists in memory that others overwrite.  The
invariants of `IxgbePort` (`PauseHonoured`, `OffersAsked`, `MarksFit`,
`MapRestored`) have no theorem: most of what they range over is fixed by the
hardware (eight classes, three devices, five modules, three speeds) and is
enumerated by the run, so that a theorem would add longer sequences of calls and
other configurations.  It is what would be worth proving next.

## 6. Not modelled

* The page allocator: its only users in the repository go through `Mempool`'s
  set-up and `Net`'s page references, which are modelled where they are used.
  `page_init` fills a ring of n slots with n pages (`page.c:18`), one more than it
  holds, and `page_alloc_on_node` uses the pages of a dequeue that failed
  (`page.c:68`).
* TCP input, ICMP and `cpu_run_on_one` are not in the repository; TCP's slow and
  fast timers follow a null link in the last element of every list as written.
* lwIP's `pbuf.c` is vendored.  The Toeplitz hash is a pure function without a
  second definition to compare it with.  Memory layouts, device tables,
  measurements, user tools and start-up have no logic of their own.
* Of the driver: LEDs, EEPROM strings, statistics counters, the 82598 and X540
  (no files here), anti-spoofing, the second, unused flow director in
  `ixgbe_82599.c`.
* A migration is not run with TCP connections in the moving group, and `Net` is
  not composed with `FlowGroup`: the product is out of TLC's reach, and they
  share only the packets, whose ownership each side states.
