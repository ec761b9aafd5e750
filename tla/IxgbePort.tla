------------------------------ MODULE IxgbePort ------------------------------
(***************************************************************************)
(* One port of the ixgbe driver through its life: ixgbe_probe, the calls   *)
(* of struct eth_dev_ops that configure, start, stop and close it, that    *)
(* look at its link and that set its flow control and statistics.          *)
(*                                                                         *)
(* The calls are made one after the other (ixgbe_dev_lock or the control   *)
(* plane serialises them); what is hard is their sequence, the failures in *)
(* the middle of one, and what a reset leaves, restores or forgets.  The   *)
(* functions they call are in IxgbeHw and IxgbeDcb; filters and the flow   *)
(* director, which the same calls set up, are in IxgbeFilter.              *)
(***************************************************************************)
EXTENDS IxgbeDcb, TLC

CONSTANTS
    Confs,          \* configurations (dev_conf) the application uses
    FcConfs,        \* what it passes to the flow control calls
    Priorities,     \* the user priorities it names there
    Modules,        \* modules that may be plugged
    SriovPools,     \* ETH_64_POOLS, ..., or 0
    Queues,         \* queues whose statistics are mapped
    StatIdx,        \* the counters they are mapped to
    MaxCalls        \* bound on the calls that do something to the port

ASSUME PortAssumption ==
    /\ Modules \subseteq {NoModule, Dac, Sr, LrOther, OneG}
    /\ SriovPools \subseteq {0, 16, 32, 64}
    /\ Priorities \subseteq TC
    /\ 0 \in StatIdx
    /\ MaxCalls \in Nat

VARIABLES
    h,          \* struct ixgbe_hw and the registers of link and reset
    d,          \* the registers and configuration of queueing
    conf,       \* dev->data->dev_conf at the last start
    port,       \* what the last call of probe, start, stop or close did
    module,     \* the SFP+ module that is plugged
    link,       \* dev->data->dev_link: is it up
    mask,       \* intr->mask
    sw_map,     \* stat_mappings
    hw_map,     \* RQSMR and TQSM
    calls       \* calls made so far

vars == <<h, d, conf, port, module, link, mask, sw_map, hw_map, calls>>

NoConf == [speed |-> {}, loopback |-> TRUE, rx |-> "none"]
Maps == [Directions -> [Queues -> StatIdx]]
NoMap == [r \in Directions |-> [q \in Queues |-> 0]]

\* RTE's default flow control mode and what the first reset will find.
NewHw(dev) ==
    [dev |-> dev, phy |-> "unknown", sfp |-> "unknown", link |-> "82599",
     phyReset |-> TRUE, media |-> "unknown", autoc |-> EepromAutoc(dev), orig |-> NoAutoc,
     core |-> "none", phyAdv |-> Speeds, ana |-> {}, deal |-> NoDeal,
     rxen |-> FALSE, queues |-> FALSE, irq |-> {}, fresh |-> FALSE, multispeed |-> FALSE,
     setupNeeded |-> FALSE, smart |-> FALSE, advertised |-> {}, autotry |-> FALSE,
     laser |-> TRUE, stopped |-> FALSE, double |-> FALSE, requested |-> "none",
     current |-> "none"]

NewQueueing(pools) ==
    ResetQueueing([tcs |-> 0, vt |-> FALSE, pct |-> [t \in TC |-> 0],
                   up |-> [r \in Directions |-> [t \in TC |-> {}]], pfc |-> {},
                   high |-> [t \in TC |-> 0], low |-> [t \in TC |-> 0], time |-> 0,
                   pb |-> Divide(1), th |-> [t \in TC |-> None], tl |-> [t \in TC |-> 0],
                   rx |-> "none", tx |-> "none", credits |-> [t \in TC |-> [refill |-> 0, max |-> 0]],
                   mrqc |-> "none", mtqc |-> "64Q_1PB", up2tc |-> [t \in TC |-> 0],
                   sriov |-> pools])

Init ==
    /\ \E dev \in Devices : h = NewHw(dev)
    /\ \E pools \in SriovPools : d = NewQueueing(pools)
    /\ conf = NoConf
    /\ port = "new"
    /\ module \in IF h.dev = "sfp" THEN Modules ELSE {NoModule}
    /\ link = FALSE
    /\ mask = {}
    /\ sw_map = NoMap /\ hw_map = NoMap
    /\ calls = 0

\* A reset of the MAC happened in the call: its registers are new.
Settle(g) == [g EXCEPT !.fresh = FALSE]
AfterReset(g, q) == IF g.fresh THEN ResetQueueing(q) ELSE q
MapAfterReset(g) == IF g.fresh THEN NoMap ELSE hw_map

-----------------------------------------------------------------------------
(* ixgbe_probe *)

ixgbe_is_sfp(g) == g.phy \in {"sfp", "passive"}

ixgbe_disable_intr(g) == [g EXCEPT !.irq = {}]
ixgbe_reset_qstat_mappings == NoMap

\* What the queues of a class count to when the classes are set up; with
\* eight classes and pools nothing is written.
FirstTx == [n \in {4, 8} |-> IF n = 8 THEN <<0, 32, 64, 80, 96, 104, 112, 120>>
                             ELSE <<0, 64, 96, 112>>]
ixgbe_dcb_config_tc_stats_82599(map, tcs, vt) ==
    IF tcs = 8 /\ vt THEN map
    ELSE [r \in Directions |-> [q \in Queues |->
            CASE vt -> q % 4
              [] ~vt /\ r = "rx" -> IF tcs = 8 THEN q \div 16
                                    ELSE IF q % 32 > 15 THEN map[r][q] ELSE q \div 32
              [] OTHER -> Cardinality({k \in DOMAIN FirstTx[tcs] : FirstTx[tcs][k] <= q}) - 1]]

\* Mutant of ixgbe_restore_statistics_mapping: entries of 0 are skipped.
restore_nonzero(map) ==
    [r \in Directions |-> [q \in Queues |-> IF sw_map[r][q] # 0 THEN sw_map[r][q] ELSE map[r][q]]]

\* Every register is written, those of queues nobody mapped too.
ixgbe_restore_statistics_mapping(map) == sw_map

\* The defaults of flow control are set before the hardware is looked at.
FcDefaults(q) == [q EXCEPT !.time = 1, !.high = [t \in TC |-> IXGBE_FC_HI],
                           !.low = [t \in TC |-> IXGBE_FC_LO]]

\* A copper port is given a second chance.
InitTwice(g, m) ==
    Then(ixgbe_init_hw_generic(g, m), LAMBDA g1, r1 :
         IF r1 # "ok" /\ ixgbe_get_media_type_82599(g1) = "copper"
         THEN ixgbe_init_hw_generic(g1, m) ELSE Ret(g1, r1))

ixgbe_init_adapter(g, m) ==
    LET g0(x) == [x EXCEPT !.requested = "full", !.current = "full"]
    IN  UNION {Ret(g0(x), "EIO") \cup             \* the checksum of the EEPROM
               Then(InitTwice(g0(x), m), LAMBDA g1, r :
                    IF r # "ok" THEN Ret(g1, "EIO") ELSE Ok(ixgbe_disable_intr(g1))) :
               x \in ixgbe_init_mac_link_ops_82599(g)}

\* The probe succeeds even when the adapter could not be initialised.
ixgbe_probe ==
    /\ port = "new"
    /\ \E p \in ixgbe_init_adapter(h, module) :
        /\ h' = Settle(p.h)
        /\ d' = AfterReset(p.h, FcDefaults(ixgbe_dcb_init(d)))
        /\ port' = IF p.ret = "ok" THEN "probed" ELSE "broken"
    /\ hw_map' = ixgbe_reset_qstat_mappings
    /\ UNCHANGED <<conf, module, link, mask, sw_map, calls>>

-----------------------------------------------------------------------------
(* Start, stop and close *)

Usable == port \notin {"new", "broken", "closed"}
Call == Usable /\ calls < MaxCalls /\ calls' = calls + 1

\* The call itself only asks for a link update; what the application wrote
\* to dev_conf takes effect with the next start.
ixgbe_dev_configure(c) == conf' = c

\* Firmware that manages the link may hold the semaphore: no loopback then.
ixgbe_setup_loopback_link_82599(g) ==
    {[g EXCEPT !.autoc = [lms |-> Modes.no_an_10G, supp |-> {}, pause |-> {}]]} \cup
    {g : r \in LinkLocked \ {"ok"}}

\* Receive is off while the queues are given their modes.
ixgbe_dev_rx_init(q, c) == ixgbe_dev_mq_rx_configure(q, c)
ixgbe_dev_tx_init(q, c) == ixgbe_dev_mq_tx_configure(q, c)

\* RXCTRL is written while the security block's receive path is stopped.
ixgbe_enable_rx_dma_82599(g) == [g EXCEPT !.rxen = TRUE]

ixgbe_dev_rxtx_start(g, c) ==
    LET on == ixgbe_enable_rx_dma_82599([g EXCEPT !.queues = TRUE])
    IN  IF c.loopback THEN ixgbe_setup_loopback_link_82599(on) ELSE {on}

\* Only a module of two speeds has a laser the driver switches.
ixgbe_enable_tx_laser_multispeed_fiber(g) == [g EXCEPT !.laser = @ \/ g.multispeed]
ixgbe_disable_tx_laser_multispeed_fiber(g) == [g EXCEPT !.laser = @ /\ ~g.multispeed]

\* The part of ixgbe_dev_start between the queues and the interrupts.
StartLink(g, c) ==
    LET sfp == IF ixgbe_is_sfp(g) /\ g.multispeed THEN ixgbe_setup_sfp_modules_82599(g) ELSE Ok(g)
        lit(x) == ixgbe_enable_tx_laser_multispeed_fiber(x)
    IN  AndThen(sfp, LAMBDA g1 :
            IF c.loopback THEN Ok(lit(g1))
            ELSE UNION {IF caps.ret # "ok" THEN Ret(lit(g1), caps.ret)
                        ELSE IF c.speed = {} THEN Ret(lit(g1), "EIO")
                        ELSE ixgbe_setup_link(lit(g1), c.speed) :
                        caps \in ixgbe_get_link_capabilities(g1)})

ixgbe_dev_lsc_interrupt_setup(k, c) == IF c.lsc THEN k \cup {"LSC"} ELSE k

\* Failures of ixgbe_stop_adapter and start_hw are ignored, and a start that
\* fails at the reset leaves the queues alone.
Prepare(g, m) ==
    Then(ixgbe_stop_adapter_generic([g EXCEPT !.stopped = FALSE]), LAMBDA g1, ignored :
    AndThen(ixgbe_pf_reset_hw(g1, m), LAMBDA g2 :
    Then(ixgbe_start_hw_82599(g2), LAMBDA g3, ignored2 : Ok(g3))))

\* RQSMR and TQSM after ixgbe_configure_dcb.
DcbMap(g, q, c) ==
    LET q1 == ixgbe_configure_dcb(q, c)
    IN  IF c.rx \in {"dcb", "vmdq_dcb"} /\ c.all_queues
        THEN ixgbe_dcb_config_tc_stats_82599(MapAfterReset(g), q1.tcs, q1.vt)
        ELSE MapAfterReset(g)

Started(p, c) ==
    LET q == ixgbe_dev_rx_init(ixgbe_dev_tx_init(AfterReset(p.h, d), c), c)
        k == ixgbe_dev_lsc_interrupt_setup(mask, c)
    IN  UNION {{[h |-> IF s.ret = "ok" THEN [s.h EXCEPT !.irq = k] ELSE s.h,
                 d |-> IF s.ret = "ok" THEN ixgbe_configure_dcb(q, c) ELSE q,
                 mask |-> IF s.ret = "ok" THEN k ELSE mask,
                 hw_map |-> IF s.ret = "ok"
                            THEN ixgbe_restore_statistics_mapping(DcbMap(p.h, q, c))
                            ELSE MapAfterReset(p.h),
                 port |-> IF s.ret = "ok" THEN "running" ELSE "failed"] :
                s \in StartLink(g, c)} : g \in ixgbe_dev_rxtx_start(p.h, c)}

\* A half duplex link is refused before anything is touched.  Nothing in the
\* driver keeps a running port from being started again.
ixgbe_dev_start(c) ==
    /\ Call
    /\ c.full_duplex
    /\ ixgbe_dev_configure(c)
    /\ \E p \in Prepare(h, module) :
        IF p.ret # "ok"
        THEN /\ h' = Settle(p.h) /\ d' = AfterReset(p.h, d) /\ hw_map' = MapAfterReset(p.h)
             /\ port' = "failed"
             /\ UNCHANGED mask
        ELSE \E s \in Started(p, c) :
                /\ h' = Settle(s.h) /\ d' = s.d /\ hw_map' = s.hw_map
                /\ port' = s.port /\ mask' = s.mask
    /\ UNCHANGED <<module, link, sw_map>>

StopOutcomes(g, m) ==
    Then(ixgbe_pf_reset_hw(ixgbe_disable_intr(g), m), LAMBDA g1, ignored :
    Then(ixgbe_stop_adapter_generic([g1 EXCEPT !.stopped = FALSE]), LAMBDA g2, ignored2 :
         Ok(ixgbe_disable_tx_laser_multispeed_fiber(g2))))

ixgbe_dev_stop ==
    /\ Call
    /\ \E p \in StopOutcomes(h, module) :
        /\ h' = Settle(p.h) /\ d' = AfterReset(p.h, d) /\ hw_map' = MapAfterReset(p.h)
    /\ port' = "stopped"
    /\ link' = FALSE
    /\ UNCHANGED <<conf, module, mask, sw_map>>

ixgbe_dev_close ==
    /\ Call
    /\ \E p \in Then(ixgbe_pf_reset_hw(h, module), LAMBDA g1, ignored :
                Then(StopOutcomes(g1, module), LAMBDA g2, ignored2 :
                     ixgbe_disable_pcie_master([g2 EXCEPT !.stopped = TRUE]))) :
        /\ h' = Settle(p.h) /\ d' = AfterReset(p.h, d) /\ hw_map' = MapAfterReset(p.h)
    /\ port' = "closed"
    /\ link' = FALSE
    /\ UNCHANGED <<conf, module, mask, sw_map>>

-----------------------------------------------------------------------------
(* Calls on a port *)

\* An update that finds what it found before changes nothing.
ixgbe_dev_link_update ==
    /\ Call
    /\ \E l \in ixgbe_check_mac_link_generic(h) : l.up # link /\ link' = l.up
    /\ UNCHANGED <<h, d, conf, port, module, mask, sw_map, hw_map>>

FlowControl(outcomes) ==
    /\ Call
    /\ \E p \in outcomes : h' = p.h /\ d' = p.d
    /\ UNCHANGED <<conf, port, module, link, mask, sw_map, hw_map>>

FlowCtrlSet == \E c \in FcConfs : FlowControl(ixgbe_flow_ctrl_set(d, h, c))

PriorityFlowCtrlSet ==
    \E c \in FcConfs, u \in Priorities : FlowControl(ixgbe_priority_flow_ctrl_set(d, h, c, u))

\* The software's copy and the register; the port need not run.
ixgbe_dev_queue_stats_mapping_set(r, q, i) ==
    /\ Call
    /\ sw_map' = [sw_map EXCEPT ![r][q] = i]
    /\ hw_map' = [hw_map EXCEPT ![r] = sw_map'[r]]
    /\ UNCHANGED <<h, d, conf, port, module, link, mask>>

\* A module is plugged or pulled while nothing looks.
SwapModule(m) ==
    /\ port \in {"stopped", "failed"} /\ h.dev = "sfp"
    /\ module # m
    /\ module' = m
    /\ UNCHANGED <<h, d, conf, port, link, mask, sw_map, hw_map, calls>>

Next ==
    \/ ixgbe_probe
    \/ \E c \in Confs : ixgbe_dev_start(c)
    \/ ixgbe_dev_stop \/ ixgbe_dev_close
    \/ ixgbe_dev_link_update
    \/ FlowCtrlSet \/ PriorityFlowCtrlSet
    \/ \E r \in Directions, q \in Queues, i \in StatIdx :
            ixgbe_dev_queue_stats_mapping_set(r, q, i)
    \/ \E m \in Modules : SwapModule(m)

Spec == Init /\ [][Next]_vars

-----------------------------------------------------------------------------
(* Properties *)

\* When a negotiation lets this port send pause frames, a partner that runs
\* the same driver, whatever mode it was asked for, will honour them: the
\* outcomes of ixgbe_negotiate_fc at both ends fit, also when the mode was
\* changed after the bits were advertised.
PauseHonoured ==
    h.deal.made /\ h.current \in TxModes =>
        \A r \in FcModes : PauseBits(r) = h.deal.lp =>
            ixgbe_negotiate_fc(r, h.deal.lp, h.deal.adv) \in RxModes

\* A port that was started offers its partner some of the speeds it was
\* asked for and none other, whatever it was doing before: a loopback, other
\* speeds, a reset that kept AUTOC.  The copper PHY has its own registers.
OffersAsked ==
    port = "running" /\ ~conf.loopback /\ h.link # "copper" /\
    conf.speed \cap ixgbe_get_link_capabilities_82599(h).speeds # {} =>
        Offered(h.autoc) # {} /\ Offered(h.autoc) \subseteq conf.speed

\* The thresholds at which a running port asks its partner to pause lie in
\* the packet buffer of the class, the lower one below the upper one,
\* whatever classes the port was started with before.  (With classes but
\* without priority flow control the marks are those of the undivided buffer.)
MarksFit ==
    port = "running" /\ (conf.rx \notin {"dcb", "vmdq_dcb"} \/ (conf.pfc /\ conf.all_queues)) =>
        \A t \in TC : d.th[t].on /\ d.pb[t] > 0 =>
            d.tl[t] <= d.th[t].kb /\ d.th[t].kb <= d.pb[t]

\* A running port counts every queue where the application mapped it, also
\* when it did so before the start or before the last of several resets.
MapRestored == port = "running" => hw_map = sw_map

=============================================================================
