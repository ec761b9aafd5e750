----------------------------- MODULE FlowGroup -----------------------------
(***************************************************************************)
(* Flow groups and their migration between CPUs: core/ethfg.c, the receive *)
(* path of inc/kns/ethqueue.h and core/ethqueue.c.                         *)
(*                                                                         *)
(* Each CPU runs a loop that polls its NIC queue, processes its backlog,   *)
(* runs what other CPUs sent it with cpu_run_on_one and obeys the control  *)
(* plane; the migration timer interrupts the loop between any two steps.   *)
(* A CPU inside one of these functions does nothing else until it returns, *)
(* but every other CPU goes on: the handlers are split where they touch    *)
(* what another CPU, or the timer, reads or writes.                        *)
(*                                                                         *)
(* struct queue is a linked list without a lock: remoteq[t] is what is     *)
(* linked from head, tail[t] the tail pointer, walk[t] what the target     *)
(* handler still sees from the packet it has reached.                      *)
(*                                                                         *)
(* BUG_ON is read as compiled out: the assertions of these files were      *)
(* ported without negating them and would stop the CPU in every correct    *)
(* call (Mempool's BugOnTraps shows the effect).                           *)
(***************************************************************************)
EXTENDS Integers, Sequences, FiniteSets, SequencesExt

CONSTANTS
    Cpus,
    Fgs,           \* the flow groups of the RSS table (device 0)
    Owners,        \* where groups may be when the model starts: CPUs, or None
                   \* for a group eth_fg_init has just initialised
    None,          \* -1 for a CPU, NULL for a packet
    MaxDepth,      \* ETH_RX_MAX_DEPTH
    MbufsRunOut,   \* TRUE: mbuf_alloc_local may fail in the driver's poll
    BadSums,       \* TRUE: packets may have a bad checksum
    MaxPkts,       \* bound: packets per flow group
    MaxCmds        \* bound: commands of the control plane

ASSUME BoundAssumption ==
    /\ None \notin Cpus /\ Owners \subseteq Cpus \cup {None}
    /\ MaxDepth \in Nat /\ MaxPkts \in Nat /\ MaxCmds \in Nat
    /\ MbufsRunOut \in BOOLEAN /\ BadSums \in BOOLEAN

\* NULL is no packet.
ASSUME NullAssumption == None \notin [fg : Fgs, seq : 1..MaxPkts]

VARIABLES
    \* struct eth_fg
    inTransition, curCpu, targetCpu, prevCpu,
    \* per-CPU: outbound_fg_remote(i)->cur_cpu
    outCpu,
    \* the NIC: redirection table, and the packets in each CPU's RX ring
    reta, hwq,
    \* per-CPU: eth_rxqs[0], local_mbuf_queue, remote_mbuf_queue and its tail
    rxq, localq, remoteq, tail,
    \* per-CPU struct migration_info; an armed timer will fire, an active one
    \* is what hrtimer_active says (memcpy copies the flag, not the timer)
    infoPrev, infoTarget, infoFgs, timerActive, timerArmed,
    inbox,         \* cpu_run_on_one calls not yet run
    status,        \* cp_cmd->status
    mode,          \* where the CPU is
    cmd,           \* locals of eth_fg_assign_to_cpu
    reg,           \* the packet in eth_recv_at_prev, until it is linked
    enq,           \* enqueue, called there: next step, queue, packet linked
    walk,          \* from pkt on, in transition_handler_target's first loop
    handler,       \* info and prev_cpu of transition_handler_target
    \* history: packets sent to the NIC, processed, refused (-EBUSY, or a bad
    \* checksum) and lost; those another CPU than the new owner had when a
    \* group was handed over, or got later; what went wrong; commands given
    sent, log, refused, lost, stranded, cause, cmds

fgVars    == <<inTransition, curCpu, targetCpu, prevCpu>>
nicVars   == <<reta, hwq>>
queueVars == <<rxq, localq, remoteq, tail>>
infoVars  == <<infoPrev, infoTarget, infoFgs, timerActive, timerArmed>>
regVars   == <<reg, enq>>
locVars   == <<cmd, walk, handler>>
cpVars    == <<status, cmds>>
endVars   == <<log, refused, lost, stranded, cause>>
vars      == <<inTransition, curCpu, targetCpu, prevCpu, outCpu, reta, hwq,
               rxq, localq, remoteq, tail, infoPrev, infoTarget, infoFgs,
               timerActive, timerArmed, inbox, status, mode, cmd, reg, enq,
               walk, handler, sent, log, refused, lost, stranded, cause, cmds>>

NoCmd == [fgs |-> {}, cpu |-> None, real |-> FALSE, moved |-> {}]
NoEnq == [at |-> "no", q |-> None, pkt |-> None]

\* After init_migration_cpu on every CPU, eth_fg_init on every group, and
\* possibly a first assignment, which sets cur_cpu and the table.
Init ==
    /\ inTransition = [g \in Fgs |-> FALSE]
    /\ curCpu \in [Fgs -> Owners]
    /\ targetCpu = [g \in Fgs |-> None]
    /\ prevCpu = [g \in Fgs |-> None]
    /\ outCpu = [c \in Cpus |-> c]
    /\ reta = curCpu
    /\ hwq = [c \in Cpus |-> << >>]
    /\ rxq = [c \in Cpus |-> << >>]
    /\ localq = [c \in Cpus |-> << >>]
    /\ remoteq = [c \in Cpus |-> << >>]
    /\ tail = [c \in Cpus |-> None]
    /\ infoPrev = [c \in Cpus |-> None]
    /\ infoTarget = [c \in Cpus |-> None]
    /\ infoFgs = [c \in Cpus |-> {}]
    /\ timerActive = [c \in Cpus |-> FALSE]
    /\ timerArmed = [c \in Cpus |-> FALSE]
    /\ inbox = [c \in Cpus |-> << >>]
    /\ status = [c \in Cpus |-> "READY"]
    /\ mode = [c \in Cpus |-> "loop"]
    /\ cmd = [c \in Cpus |-> NoCmd]
    /\ reg = [c \in Cpus |-> None]
    /\ enq = [c \in Cpus |-> NoEnq]
    /\ walk = [c \in Cpus |-> << >>]
    /\ handler = [c \in Cpus |-> [info |-> None, prev |-> None]]
    /\ sent = [g \in Fgs |-> 0]
    /\ log = [g \in Fgs |-> << >>]
    /\ refused = {} /\ lost = {} /\ stranded = {} /\ cause = {}
    /\ cmds = 0

Goto(c, m) == mode' = [mode EXCEPT ![c] = m]

\* A CPU between two functions of its loop.
Idle(c) == mode[c] = "loop" /\ reg[c] = None /\ enq[c] = NoEnq

\* cpu_run_on_one: the function runs on CPU c some time later, in no
\* particular order.  A CPU that does not exist runs nothing.
cpu_run_on_one(c, req) ==
    inbox' = IF c \in Cpus THEN [inbox EXCEPT ![c] = Append(@, req)] ELSE inbox

\* eth_input(p) on c: everything above the driver.
eth_input(c, p) ==
    log' = [log EXCEPT ![p.fg] = Append(@, [seq |-> p.seq, cpu |-> c])]

Processed(p) == \E i \in DOMAIN log[p.fg] : log[p.fg][i].seq = p.seq

-----------------------------------------------------------------------------
(* The NIC and the receive path.                                           *)

\* A packet of group g arrives on the queue the redirection table names.
Arrive(g) ==
    /\ reta[g] # None
    /\ sent[g] < MaxPkts
    /\ sent' = [sent EXCEPT ![g] = @ + 1]
    /\ hwq' = [hwq EXCEPT ![reta[g]] = Append(@, [fg |-> g, seq |-> sent[g] + 1])]
    /\ stranded' = IF inTransition[g] \/ curCpu[g] = reta[g] THEN stranded
                   ELSE stranded \cup {[fg |-> g, seq |-> sent[g] + 1]}
    /\ UNCHANGED <<fgVars, outCpu, reta, queueVars, infoVars, inbox, cpVars, mode,
                   locVars, regVars, log, refused, lost, cause>>

\* The rest of eth_recv when this CPU owns the group; the driver frees a
\* packet that is refused.
EnqueueBacklog(c, p) ==
    /\ IF Len(rxq[c]) >= MaxDepth
       THEN refused' = refused \cup {p} /\ UNCHANGED rxq
       ELSE rxq' = [rxq EXCEPT ![c] = Append(@, p)] /\ UNCHANGED refused
    /\ UNCHANGED <<localq, inbox, reg, lost>>

\* The first packet at the target asks the previous CPU for an early
\* transition.
eth_recv_at_target(c, p) ==
    /\ IF localq[c] = << >>
       THEN cpu_run_on_one(infoPrev[c], [f |-> "early", info |-> None])
       ELSE UNCHANGED inbox
    /\ localq' = [localq EXCEPT ![c] = Append(@, p)]
    /\ UNCHANGED <<rxq, reg, refused, lost>>

\* eth_recv with eth_recv_handle_fg_transition: whose packet is it?  At the
\* previous CPU the packet is held in reg until eth_recv_at_prev has found the
\* target's queue; with no owner here it is dropped, and nobody frees it.
eth_recv(c, p) ==
    LET g == p.fg IN
    \/ /\ ~inTransition[g] /\ curCpu[g] = c
       /\ EnqueueBacklog(c, p)
    \/ /\ inTransition[g] /\ prevCpu[g] = c
       /\ reg' = [reg EXCEPT ![c] = p]
       /\ UNCHANGED <<rxq, localq, inbox, refused, lost>>
    \/ /\ inTransition[g] /\ prevCpu[g] # c /\ targetCpu[g] = c
       /\ eth_recv_at_target(c, p)
    \/ /\ IF inTransition[g] THEN c \notin {prevCpu[g], targetCpu[g]}
                             ELSE curCpu[g] # c
       /\ lost' = lost \cup {p}
       /\ UNCHANGED <<rxq, localq, inbox, reg, refused>>

\* One round of ixgbe_rx_poll's loop; a packet with a bad checksum is freed.
Poll(c) ==
    /\ mode[c] \in {"loop", "early"} /\ reg[c] = None /\ enq[c] = NoEnq
    /\ hwq[c] # << >>
    /\ hwq' = [hwq EXCEPT ![c] = Tail(@)]
    /\ \/ eth_recv(c, Head(hwq[c]))
       \/ /\ BadSums
          /\ refused' = refused \cup {Head(hwq[c])}
          /\ UNCHANGED <<rxq, localq, inbox, reg, lost>>
    /\ UNCHANGED <<fgVars, outCpu, reta, remoteq, tail, infoVars, cpVars, mode,
                   locVars, enq, sent, log, stranded, cause>>

\* The rest of eth_recv_at_prev: target_cpu is read now.  The group may have
\* arrived at its target meanwhile, and then target_cpu is -1 and the queue is
\* whatever lies there.
eth_recv_at_prev(c) ==
    LET t == targetCpu[reg[c].fg] IN
    /\ reg[c] # None /\ enq[c] = NoEnq
    /\ IF t \in Cpus
       THEN /\ enq' = [enq EXCEPT ![c] = [NoEnq EXCEPT !.at = "test", !.q = t]]
            /\ UNCHANGED <<reg, lost>>
       ELSE /\ reg' = [reg EXCEPT ![c] = None]
            /\ lost' = lost \cup {reg[c]}
            /\ UNCHANGED enq
    /\ UNCHANGED <<fgVars, outCpu, nicVars, queueVars, infoVars, inbox, cpVars,
                   mode, locVars, sent, log, refused, stranded, cause>>

\* enqueue: is there a head?
EnqueueTest(c) ==
    /\ enq[c].at = "test"
    /\ enq' = [enq EXCEPT ![c].at = IF remoteq[enq[c].q] = << >> THEN "head" ELSE "link"]
    /\ UNCHANGED <<fgVars, outCpu, nicVars, queueVars, infoVars, inbox, cpVars,
                   mode, locVars, reg, sent, endVars>>

\* List l once the next of packet t has been set to the packets of s.
Linked(l, t, s) ==
    IF t \in Range(l) THEN SubSeq(l, 1, CHOOSE i \in DOMAIN l : l[i] = t) \o s ELSE l

\* Packets nothing leads to any more, and that were not processed, are lost.
Forgets(old, kept) == lost' = lost \cup {p \in old \ kept : ~Processed(p)}

\* The store of head, and that of the next of the packet tail points to, which
\* may not be on the queue any more.
PutHead(q, s) ==
    /\ remoteq' = [remoteq EXCEPT ![q] = s]
    /\ Forgets(Range(remoteq[q]), Range(walk[q]))
    /\ UNCHANGED walk

PutNext(q, s) ==
    LET l == Linked(remoteq[q], tail[q], s)
        w == Linked(walk[q], tail[q], s)
    IN
    /\ remoteq' = [remoteq EXCEPT ![q] = l]
    /\ walk' = [walk EXCEPT ![q] = w]
    /\ Forgets(Range(remoteq[q]) \cup Range(walk[q]) \cup Range(s), Range(l) \cup Range(w))

\* enqueue: one of the two; with no tail the CPU stops.
EnqueueLink(c) ==
    LET q == enq[c].q IN
    /\ \/ /\ \/ enq[c].at = "head" /\ PutHead(q, <<reg[c]>>)
             \/ enq[c].at = "link" /\ tail[q] # None /\ PutNext(q, <<reg[c]>>)
          /\ reg' = [reg EXCEPT ![c] = None]
          /\ enq' = [enq EXCEPT ![c] = [at |-> "tail", q |-> q, pkt |-> reg[c]]]
          /\ UNCHANGED mode
       \/ /\ enq[c].at = "link" /\ tail[q] = None /\ mode[c] # "oops"
          /\ Goto(c, "oops")
          /\ UNCHANGED <<remoteq, walk, regVars, lost>>
    /\ UNCHANGED <<fgVars, outCpu, nicVars, rxq, localq, tail, infoVars, inbox,
                   cpVars, cmd, handler, sent, log, refused, stranded, cause>>

\* The store of tail.
EnqueueTail(c) ==
    /\ enq[c].at = "tail"
    /\ tail' = [tail EXCEPT ![enq[c].q] = enq[c].pkt]
    /\ enq' = [enq EXCEPT ![c] = NoEnq]
    /\ UNCHANGED <<fgVars, outCpu, nicVars, rxq, localq, remoteq, infoVars, inbox,
                   cpVars, mode, locVars, reg, sent, endVars>>

\* eth_process_recv, one packet.
eth_process_recv(c) ==
    /\ Idle(c)
    /\ rxq[c] # << >>
    /\ rxq' = [rxq EXCEPT ![c] = Tail(@)]
    /\ eth_input(c, Head(rxq[c]))
    /\ UNCHANGED <<fgVars, outCpu, nicVars, localq, remoteq, tail, infoVars, inbox,
                   cpVars, mode, locVars, regVars, sent, refused, lost, stranded,
                   cause>>

-----------------------------------------------------------------------------
(* eth_fg_assign_to_cpu.                                                   *)

\* The control plane writes a MIGRATE command for CPU c; it gives one command
\* at a time (document/Flow Group.md) and sends groups to another CPU from
\* the CPU that has them.
Command(c, fgs, cpu) ==
    /\ Idle(c)
    /\ \A d \in Cpus : status[d] = "READY"
    /\ cmds < MaxCmds
    /\ \A g \in fgs : curCpu[g] \in {c, cpu, None}
    /\ cmds' = cmds + 1
    /\ status' = [status EXCEPT ![c] = "RUNNING"]
    /\ cmd' = [cmd EXCEPT ![c] = [NoCmd EXCEPT !.fgs = fgs, !.cpu = cpu]]
    /\ Goto(c, "assign")
    /\ UNCHANGED <<fgVars, outCpu, nicVars, queueVars, infoVars, inbox, regVars,
                   walk, handler, sent, endVars>>

\* The elements of queue q at the indices in I, in order: the k-th is the one
\* that has k of them up to it.
Sifted(q, I) ==
    [k \in 1..Cardinality(I) |-> q[CHOOSE i \in I : Cardinality({j \in I : j <= i}) = k]]

\* The packets of g in c's backlog, and the others, in order.
OfGroup(c, g)  == Sifted(rxq[c], {i \in DOMAIN rxq[c] : rxq[c][i].fg = g})
OfOthers(c, g) == Sifted(rxq[c], {i \in DOMAIN rxq[c] : rxq[c][i].fg # g})

\* Mutant of migrate_pkts_to_remote: the backlog stays where it is.
MigratePktsNone(c, g, cpu) == UNCHANGED <<rxq, remoteq, tail, walk, lost, mode>>

\* The packets are enqueued one by one; with a head and no tail the first one
\* stops the CPU.
migrate_pkts_to_remote(c, g, cpu) ==
    LET s == OfGroup(c, g) IN
    /\ rxq' = [rxq EXCEPT ![c] = OfOthers(c, g)]
    /\ IF s = << >> THEN UNCHANGED <<remoteq, tail, walk, lost, mode>>
       ELSE IF remoteq[cpu] # << >> /\ tail[cpu] = None
       THEN Goto(c, "oops") /\ UNCHANGED <<remoteq, tail, walk, lost>>
       ELSE /\ IF remoteq[cpu] = << >> THEN PutHead(cpu, s) ELSE PutNext(cpu, s)
            /\ tail' = [tail EXCEPT ![cpu] = Last(s)]
            /\ UNCHANGED mode

\* eth_fg_assign_single_to_cpu for one group of the command (migrating its
\* timers does nothing in this code).  No other CPU looks at the group before
\* the redirection table sends its packets there.
eth_fg_assign_single_to_cpu(c, g) ==
    LET cpu == cmd[c].cpu
        rest == [cmd[c] EXCEPT !.fgs = @ \ {g}]
    IN
    /\ mode[c] = "assign"
    /\ g \in cmd[c].fgs
    /\ \/ /\ curCpu[g] = cpu
          /\ cmd' = [cmd EXCEPT ![c] = rest]
          /\ UNCHANGED <<fgVars, rxq, remoteq, tail, walk, lost, mode, infoFgs>>
       \/ /\ curCpu[g] = None
          /\ curCpu' = [curCpu EXCEPT ![g] = cpu]
          /\ cmd' = [cmd EXCEPT ![c] = [rest EXCEPT !.moved = @ \cup {g}]]
          /\ UNCHANGED <<inTransition, targetCpu, prevCpu, rxq, remoteq, tail, walk,
                         lost, mode, infoFgs>>
       \/ /\ curCpu[g] \notin {cpu, None}
          /\ inTransition' = [inTransition EXCEPT ![g] = TRUE]
          /\ prevCpu' = [prevCpu EXCEPT ![g] = curCpu[g]]
          /\ curCpu' = [curCpu EXCEPT ![g] = None]
          /\ targetCpu' = [targetCpu EXCEPT ![g] = cpu]
          /\ migrate_pkts_to_remote(c, g, cpu)
          /\ infoFgs' = [infoFgs EXCEPT ![c] = @ \cup {g}]
          /\ cmd' = [cmd EXCEPT ![c] = [rest EXCEPT !.moved = @ \cup {g},
                                                   !.real = TRUE]]
    /\ UNCHANGED <<outCpu, nicVars, localq, infoPrev, infoTarget, timerActive,
                   timerArmed, inbox, cpVars, regVars, handler, sent, log, refused,
                   stranded, cause>>

\* Mutant of AssignInfo: the timer is not started.
AssignInfoNoTimer(c) ==
    /\ mode[c] = "assign" /\ cmd[c].fgs = {}
    /\ IF cmd[c].real
       THEN /\ infoPrev' = [infoPrev EXCEPT ![c] = c]
            /\ infoTarget' = [infoTarget EXCEPT ![c] = cmd[c].cpu]
            /\ Goto(c, "copy")
            /\ UNCHANGED status
       ELSE /\ status' = [status EXCEPT ![c] = "READY"]
            /\ Goto(c, "reta")
            /\ UNCHANGED <<infoPrev, infoTarget>>
    /\ UNCHANGED <<fgVars, outCpu, nicVars, queueVars, infoFgs, timerActive,
                   timerArmed, inbox, cmds, cmd, regVars, walk, handler, sent,
                   endVars>>

\* All groups are assigned.  Nothing in transition: the command is done.
\* Otherwise this CPU's migration_info is filled in and its timer started (the
\* bitmap was only tested, not emptied, before the groups were added to it).
AssignInfo(c) ==
    /\ mode[c] = "assign" /\ cmd[c].fgs = {}
    /\ IF cmd[c].real
       THEN /\ infoPrev' = [infoPrev EXCEPT ![c] = c]
            /\ infoTarget' = [infoTarget EXCEPT ![c] = cmd[c].cpu]
            /\ timerActive' = [timerActive EXCEPT ![c] = TRUE]
            /\ timerArmed' = [timerArmed EXCEPT ![c] = TRUE]
            /\ Goto(c, "copy")
            /\ UNCHANGED status
       ELSE /\ status' = [status EXCEPT ![c] = "READY"]
            /\ Goto(c, "reta")
            /\ UNCHANGED <<infoPrev, infoTarget, timerActive, timerArmed>>
    /\ UNCHANGED <<fgVars, outCpu, nicVars, queueVars, infoFgs, inbox, cmds, cmd,
                   regVars, walk, handler, sent, endVars>>

\* memcpy of the whole migration_info to the target's.
AssignCopy(c) ==
    LET cpu == cmd[c].cpu IN
    /\ mode[c] = "copy"
    /\ infoPrev' = [infoPrev EXCEPT ![cpu] = infoPrev[c]]
    /\ infoTarget' = [infoTarget EXCEPT ![cpu] = infoTarget[c]]
    /\ infoFgs' = [infoFgs EXCEPT ![cpu] = infoFgs[c]]
    /\ timerActive' = [timerActive EXCEPT ![cpu] = timerActive[c]]
    /\ Goto(c, "reta")
    /\ UNCHANGED <<fgVars, outCpu, nicVars, queueVars, timerArmed, inbox, cpVars,
                   locVars, regVars, sent, endVars>>

\* reta_update: from here on the NIC sends the groups to their new CPU.
AssignReta(c) ==
    /\ mode[c] = "reta"
    /\ reta' = [g \in Fgs |-> IF g \in cmd[c].moved THEN cmd[c].cpu ELSE reta[g]]
    /\ Goto(c, "fdir")
    /\ UNCHANGED <<fgVars, outCpu, hwq, queueVars, infoVars, inbox, cpVars,
                   locVars, regVars, sent, endVars>>

\* The end of eth_fg_assign_to_cpu: a CPU left without groups gives its
\* outbound groups away too (migrate_fdir; the loop behind it never does
\* anything, since migrate stays 0).
AssignFdir(c) ==
    /\ mode[c] = "fdir"
    /\ outCpu' = [i \in Cpus |->
         IF outCpu[i] = c /\ \A g \in Fgs : curCpu[g] # c THEN cmd[c].cpu
                                                        ELSE outCpu[i]]
    /\ Goto(c, "loop")
    /\ cmd' = [cmd EXCEPT ![c] = NoCmd]
    /\ UNCHANGED <<fgVars, nicVars, queueVars, infoVars, inbox, cpVars, regVars,
                   walk, handler, sent, endVars>>

-----------------------------------------------------------------------------
(* The end of a migration.                                                 *)

\* transition_handler_prev: the timeout, in an interrupt on c.  It may come
\* when the early handler has seen the timer active and not cancelled it yet.
transition_handler_prev(c) ==
    /\ timerArmed[c]
    /\ timerArmed' = [timerArmed EXCEPT ![c] = FALSE]
    /\ timerActive' = [timerActive EXCEPT ![c] = FALSE]
    /\ cpu_run_on_one(infoTarget[c], [f |-> "target", info |-> c])
    /\ cause' = cause \cup IF mode[c] = "cancel" THEN {"timeout", "race"} ELSE {"timeout"}
    /\ UNCHANGED <<fgVars, outCpu, nicVars, queueVars, infoPrev, infoTarget,
                   infoFgs, cpVars, mode, locVars, regVars, sent, log, refused,
                   lost, stranded>>

\* The k-th pending cpu_run_on_one call of c is run.
Takes(c, k, f) ==
    /\ Idle(c)
    /\ k \in 1..Len(inbox[c])
    /\ inbox[c][k].f = f
    /\ inbox' = [inbox EXCEPT ![c] = RemoveAt(@, k)]

\* early_transition_handler_prev: is the timer still active?
early_transition_handler_prev(c, k) ==
    /\ Takes(c, k, "early")
    /\ IF timerActive[c] THEN Goto(c, "cancel") ELSE UNCHANGED mode
    /\ UNCHANGED <<fgVars, outCpu, nicVars, queueVars, infoVars, cpVars, locVars,
                   regVars, sent, endVars>>

\* hrtimer_cancel; whether there was a timer to cancel is not asked.
EarlyCancel(c) ==
    /\ mode[c] = "cancel"
    /\ timerActive' = [timerActive EXCEPT ![c] = FALSE]
    /\ timerArmed' = [timerArmed EXCEPT ![c] = FALSE]
    /\ Goto(c, "early")
    /\ UNCHANGED <<fgVars, outCpu, nicVars, queueVars, infoPrev, infoTarget,
                   infoFgs, inbox, cpVars, locVars, regVars, sent, endVars>>

\* Mutant of EarlyDone: the previous CPU's queue is not polled first.
EarlyDoneAtOnce(c) ==
    /\ mode[c] = "early" /\ reg[c] = None /\ enq[c] = NoEnq
    /\ cpu_run_on_one(infoTarget[c], [f |-> "target", info |-> c])
    /\ Goto(c, "loop")
    /\ UNCHANGED <<fgVars, outCpu, nicVars, queueVars, infoVars, cpVars, locVars,
                   regVars, sent, endVars>>

\* eth_process_poll has emptied the queue, or the driver had no mbuf to put in
\* a packet's place; the target is told.
EarlyDone(c) ==
    /\ mode[c] = "early" /\ reg[c] = None /\ enq[c] = NoEnq
    /\ \/ hwq[c] = << >> /\ UNCHANGED cause
       \/ hwq[c] # << >> /\ MbufsRunOut /\ cause' = cause \cup {"nombuf"}
    /\ cpu_run_on_one(infoTarget[c], [f |-> "target", info |-> c])
    /\ Goto(c, "loop")
    /\ UNCHANGED <<fgVars, outCpu, nicVars, queueVars, infoVars, cpVars, locVars,
                   regVars, sent, log, refused, lost, stranded>>

\* What another CPU than the target has of group g.
Behind(g) ==
    {p \in (UNION {Range(hwq[c]) : c \in Cpus \ {targetCpu[g]}}) \cup
           ({reg[c] : c \in Cpus} \ {None}) : p.fg = g}

\* Mutant of transition_handler_target: the owner is not set.
TargetKeepsCur(c, k) ==
    LET info == inbox[c][k].info
        done == infoFgs[info]
    IN
    /\ Takes(c, k, "target")
    /\ inTransition' = [g \in Fgs |-> IF g \in done THEN FALSE ELSE inTransition[g]]
    /\ targetCpu' = [g \in Fgs |-> IF g \in done THEN None ELSE targetCpu[g]]
    /\ prevCpu' = [g \in Fgs |-> IF g \in done THEN None ELSE prevCpu[g]]
    /\ handler' = [handler EXCEPT ![c] = [info |-> info, prev |-> infoPrev[info]]]
    /\ stranded' = stranded \cup UNION {Behind(g) : g \in done}
    /\ Goto(c, "readHead")
    /\ UNCHANGED <<curCpu, outCpu, nicVars, queueVars, infoVars, cpVars, cmd,
                   regVars, walk, sent, log, refused, lost, cause>>

\* transition_handler_target: the groups in the previous CPU's bitmap are
\* handed over,
transition_handler_target(c, k) ==
    LET info == inbox[c][k].info
        done == infoFgs[info]
    IN
    /\ Takes(c, k, "target")
    /\ inTransition' = [g \in Fgs |-> IF g \in done THEN FALSE ELSE inTransition[g]]
    /\ curCpu' = [g \in Fgs |-> IF g \in done THEN targetCpu[g] ELSE curCpu[g]]
    /\ targetCpu' = [g \in Fgs |-> IF g \in done THEN None ELSE targetCpu[g]]
    /\ prevCpu' = [g \in Fgs |-> IF g \in done THEN None ELSE prevCpu[g]]
    /\ handler' = [handler EXCEPT ![c] = [info |-> info, prev |-> infoPrev[info]]]
    /\ stranded' = stranded \cup UNION {Behind(g) : g \in done}
    /\ Goto(c, "readHead")
    /\ UNCHANGED <<outCpu, nicVars, queueVars, infoVars, cpVars, cmd, regVars,
                   walk, sent, log, refused, lost, cause>>

\* then the packets the previous CPU moved over are processed, next being read
\* before eth_input,
TargetReadHead(c) ==
    /\ mode[c] = "readHead"
    /\ walk' = [walk EXCEPT ![c] = remoteq[c]]
    /\ Goto(c, IF remoteq[c] = << >> THEN "reset" ELSE "drain")
    /\ UNCHANGED <<fgVars, outCpu, nicVars, queueVars, infoVars, inbox, cpVars,
                   cmd, handler, regVars, sent, endVars>>

TargetDrain(c) ==
    /\ mode[c] = "drain"
    /\ walk' = [walk EXCEPT ![c] = Tail(@)]
    /\ eth_input(c, Head(walk[c]))
    /\ Goto(c, IF Tail(walk[c]) = << >> THEN "reset" ELSE "drain")
    /\ UNCHANGED <<fgVars, outCpu, nicVars, queueVars, infoVars, inbox, cpVars,
                   cmd, handler, regVars, sent, refused, lost, stranded, cause>>

\* and the queue is emptied, with whatever was put on it since: its head,
TargetReset(c) ==
    /\ mode[c] = "reset"
    /\ remoteq' = [remoteq EXCEPT ![c] = << >>]
    /\ Forgets(Range(remoteq[c]), {})
    /\ Goto(c, "resetTail")
    /\ UNCHANGED <<fgVars, outCpu, nicVars, rxq, localq, tail, infoVars, inbox,
                   cpVars, locVars, regVars, sent, log, refused, stranded, cause>>

\* and its tail,
TargetResetTail(c) ==
    /\ mode[c] = "resetTail"
    /\ tail' = [tail EXCEPT ![c] = None]
    /\ Goto(c, "local")
    /\ UNCHANGED <<fgVars, outCpu, nicVars, rxq, localq, remoteq, infoVars, inbox,
                   cpVars, locVars, regVars, sent, endVars>>

\* then the packets that came here since the redirection,
TargetLocal(c) ==
    /\ mode[c] = "local" /\ localq[c] # << >>
    /\ localq' = [localq EXCEPT ![c] = Tail(@)]
    /\ eth_input(c, Head(localq[c]))
    /\ UNCHANGED <<fgVars, outCpu, nicVars, rxq, remoteq, tail, infoVars, inbox,
                   cpVars, mode, locVars, regVars, sent, refused, lost, stranded,
                   cause>>

\* Mutant of TargetFinish: the local queue is not emptied first.
TargetFinishEarly(c) ==
    LET h == handler[c] IN
    /\ mode[c] = "local"
    /\ infoPrev' = [infoPrev EXCEPT ![c] = None, ![h.info] = None]
    /\ status' = IF h.prev \in Cpus THEN [status EXCEPT ![h.prev] = "READY"]
                                    ELSE status
    /\ handler' = [handler EXCEPT ![c] = [info |-> None, prev |-> None]]
    /\ Goto(c, "loop")
    /\ UNCHANGED <<fgVars, outCpu, nicVars, queueVars, infoTarget, infoFgs,
                   timerActive, timerArmed, inbox, cmds, cmd, walk, regVars, sent,
                   endVars>>

\* and the control plane is told.
TargetFinish(c) ==
    LET h == handler[c] IN
    /\ mode[c] = "local" /\ localq[c] = << >>
    /\ infoPrev' = [infoPrev EXCEPT ![c] = None, ![h.info] = None]
    /\ status' = IF h.prev \in Cpus THEN [status EXCEPT ![h.prev] = "READY"]
                                    ELSE status
    /\ handler' = [handler EXCEPT ![c] = [info |-> None, prev |-> None]]
    /\ Goto(c, "loop")
    /\ UNCHANGED <<fgVars, outCpu, nicVars, queueVars, infoTarget, infoFgs,
                   timerActive, timerArmed, inbox, cmds, cmd, walk, regVars, sent,
                   endVars>>

-----------------------------------------------------------------------------
\* What CPU c does once it has something to do.
Step(c) ==
    \/ Poll(c) \/ eth_process_recv(c)
    \/ eth_recv_at_prev(c) \/ EnqueueTest(c) \/ EnqueueLink(c) \/ EnqueueTail(c)
    \/ \E g \in Fgs : eth_fg_assign_single_to_cpu(c, g)
    \/ AssignInfo(c) \/ AssignCopy(c) \/ AssignReta(c) \/ AssignFdir(c)
    \/ \E k \in 1..Len(inbox[c]) :
          early_transition_handler_prev(c, k) \/ transition_handler_target(c, k)
    \/ EarlyCancel(c) \/ EarlyDone(c)
    \/ TargetReadHead(c) \/ TargetDrain(c) \/ TargetReset(c) \/ TargetResetTail(c)
    \/ TargetLocal(c) \/ TargetFinish(c)

Next ==
    \/ \E g \in Fgs : Arrive(g)
    \/ \E c \in Cpus : Step(c) \/ transition_handler_prev(c)
    \/ \E c, cpu \in Cpus, fgs \in SUBSET Fgs \ {{}} : Command(c, fgs, cpu)

Spec == Init /\ [][Next]_vars

\* A CPU with something to do does it, and a running timer expires; nothing
\* obliges packets or commands to come.
Fairness == \A c \in Cpus : WF_vars(Step(c)) /\ WF_vars(transition_handler_prev(c))

FairSpec == Spec /\ Fairness

-----------------------------------------------------------------------------
(* Properties.                                                             *)

Pkt  == [fg : Fgs, seq : 1..MaxPkts]
Cpu  == Cpus \cup {None}
Request == [f : {"early", "target"}, info : Cpu]
CmdType == [fgs : SUBSET Fgs, cpu : Cpu, real : BOOLEAN, moved : SUBSET Fgs]
AssignModes  == {"assign", "copy", "reta", "fdir"}
HandlerModes == {"readHead", "drain", "reset", "resetTail", "local"}
Modes == {"loop", "cancel", "early", "oops"} \cup AssignModes \cup HandlerModes
EnqType == [at : {"no", "test", "head", "link", "tail"}, q : Cpu, pkt : Pkt \cup {None}]

\* Every variable holds a value of its type; a command names a CPU, a request
\* for the target handler the migration_info of one, the target handler reads a
\* packet only where there is one, and enqueue has a packet and a queue.
TypeOK ==
    /\ inTransition \in [Fgs -> BOOLEAN]
    /\ curCpu \in [Fgs -> Cpu] /\ targetCpu \in [Fgs -> Cpu]
    /\ prevCpu \in [Fgs -> Cpu] /\ reta \in [Fgs -> Cpu]
    /\ outCpu \in [Cpus -> Cpus]
    /\ hwq \in [Cpus -> Seq(Pkt)] /\ rxq \in [Cpus -> Seq(Pkt)]
    /\ localq \in [Cpus -> Seq(Pkt)] /\ remoteq \in [Cpus -> Seq(Pkt)]
    /\ tail \in [Cpus -> Pkt \cup {None}]
    /\ infoPrev \in [Cpus -> Cpu] /\ infoTarget \in [Cpus -> Cpu]
    /\ infoFgs \in [Cpus -> SUBSET Fgs]
    /\ timerActive \in [Cpus -> BOOLEAN] /\ timerArmed \in [Cpus -> BOOLEAN]
    /\ inbox \in [Cpus -> Seq(Request)]
    /\ \A c \in Cpus : \A r \in Range(inbox[c]) : r.f = "target" => r.info # None
    /\ status \in [Cpus -> {"READY", "RUNNING"}]
    /\ mode \in [Cpus -> Modes]
    /\ cmd \in [Cpus -> CmdType]
    /\ \A c \in Cpus : mode[c] \in AssignModes => cmd[c].cpu \in Cpus
    /\ reg \in [Cpus -> Pkt \cup {None}] /\ enq \in [Cpus -> EnqType]
    /\ \A c \in Cpus : /\ enq[c].at = "no" => enq[c] = NoEnq
                       /\ enq[c].at # "no" => enq[c].q \in Cpus
                       /\ enq[c].at \in {"test", "head", "link"} => reg[c] # None
                       /\ enq[c].at = "tail" => enq[c].pkt # None
    /\ walk \in [Cpus -> Seq(Pkt)]
    /\ \A c \in Cpus : mode[c] = "drain" => walk[c] # << >>
    /\ handler \in [Cpus -> [info : Cpu, prev : Cpu]]
    /\ sent \in [Fgs -> 0..MaxPkts]
    /\ log \in [Fgs -> Seq([seq : 1..MaxPkts, cpu : Cpus])]
    /\ refused \subseteq Pkt /\ lost \subseteq Pkt /\ stranded \subseteq Pkt
    /\ cause \subseteq {"timeout", "nombuf", "race"}
    /\ cmds \in 0..MaxCmds

\* The timer fired between the early handler's test and its cancel: the target
\* handler is called twice, and the second call gives the groups to CPU -1.
Raced == "race" \in cause

\* The packets of a flow group are processed in the order they arrived in,
\* none twice, however a migration moves them from queue to queue, also when
\* the target empties the queue the previous CPU is putting them on.
InOrder ==
    Raced \/ \A g \in Fgs : \A i, j \in DOMAIN log[g] : i < j => log[g][i].seq < log[g][j].seq

\* A packet is processed by the CPU its group is assigned to at that moment:
\* two CPUs never work on one group's connections.
ProcessedByOwner ==
    [][Raced \/ \A g \in Fgs : log'[g] # log[g] => Last(log'[g]).cpu = curCpu[g]]_vars

\* No packet of a group waits in the backlog of a CPU that does not have it.
BacklogOwned ==
    Raced \/ \A c \in Cpus : \A i \in DOMAIN rxq[c] : curCpu[rxq[c][i].fg] = c

\* A packet is lost only if another CPU than the new owner had it when its
\* group was handed over, or got it later: whatever reached one of the target's
\* queues before is safe.  That, and an append that finds no tail, needs a
\* timer that cut the migration short, or a driver that ran out of mbufs while
\* the previous CPU read its queue.
LossNeedsCause ==
    /\ Raced \/ lost \subseteq stranded
    /\ stranded # {} \/ (\E c \in Cpus : mode[c] = "oops") => cause # {}

\* No command and no migration is under way.
Quiet == ~Raced /\ \A c \in Cpus : status[c] = "READY" /\ mode[c] = "loop"

\* Outside migrations the NIC sends every group to the CPU that has it.
AssignedWhenReady == Quiet => \A g \in Fgs : curCpu[g] = reta[g]

\* A group the NIC sends somewhere keeps a CPU ("the current CPU" of struct
\* eth_fg) when no migration is under way.
HasCpuWhenReady == Quiet => \A g \in Fgs : reta[g] # None => curCpu[g] # None

\* Every command of the control plane is reported done (one is given when all
\* before it are, so again and again all of them are).
MigrationEnds == []<>(\A c \in Cpus : status[c] = "READY")

\* Every packet the NIC delivers is in the end processed, or refused, unless
\* it was stranded as above or its CPU has stopped: none stays behind in a
\* migration queue (all of these are for good, so again and again they are true
\* of all packets sent).
PacketsHandled ==
    []<>(\A g \in Fgs, s \in 1..MaxPkts :
           s <= sent[g] => \/ Processed([fg |-> g, seq |-> s])
                           \/ [fg |-> g, seq |-> s] \in refused \cup stranded
                           \/ Raced \/ \E c \in Cpus : mode[c] = "oops")
=============================================================================
