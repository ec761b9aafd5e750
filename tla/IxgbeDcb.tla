------------------------------ MODULE IxgbeDcb ------------------------------
(***************************************************************************)
(* The queueing side of a port of the ixgbe driver: packet buffers,        *)
(* traffic classes, their credits, and the registers of link and priority  *)
(* flow control.                                                           *)
(*                                                                         *)
(* A function of the driver is an operator on the record d:                *)
(* d.tcs     dcb_config.num_tcs (pg_tcs = pfc_tcs);  d.vt  vt_mode         *)
(* d.pct     bwg_percent of each class, the same in both directions        *)
(* d.up      up_to_tc_bitmap of each class, by direction                   *)
(* d.pfc     the classes marked ixgbe_dcb_pfc_enabled                      *)
(* d.high, d.low, d.time   fc.high_water, fc.low_water (KB), pause_time    *)
(* d.pb      RXPBSIZE in KB                                                *)
(* d.th      FCRTH: the enable bit and the threshold in KB                 *)
(* d.tl      FCRTL in KB                                                   *)
(* d.rx, d.tx   what MFLCN and FCCFG enable: nothing, 802.3x or priority   *)
(* d.credits    refill and maximum of each class in the arbiters           *)
(* d.mrqc, d.mtqc, d.up2tc   the queue modes and RTRUP2TC                  *)
(* d.sriov   the pools of SR-IOV, 0 when it is not active                  *)
(***************************************************************************)
EXTENDS IxgbeHw, FiniteSetsExt

MAX_TRAFFIC_CLASS == 8
TC == 0 .. MAX_TRAFFIC_CLASS - 1
Directions == {"rx", "tx"}

NIC_RX_BUFFER_SIZE == 512
ETH_MAX_KB == 2             \* a maximal frame, rounded up to KB
IXGBE_FC_HI == 128
IXGBE_FC_LO == 64

\* (0 - x) >> 10 of an unsigned 32-bit number
Underflow == 4194303

None == [on |-> FALSE, kb |-> 0]

-----------------------------------------------------------------------------
(* Packet buffers, as the reset leaves them and as they are divided *)

Divide(n) == [t \in TC |-> IF t < n THEN NIC_RX_BUFFER_SIZE \div n ELSE 0]

\* The MAC's reset of these registers.
ResetQueueing(d) ==
    [d EXCEPT !.pb = Divide(1), !.th = [t \in TC |-> None], !.tl = [t \in TC |-> 0],
              !.rx = "none", !.tx = "none", !.mrqc = "none", !.mtqc = "64Q_1PB",
              !.up2tc = [u \in TC |-> 0], !.credits = [t \in TC |-> [refill |-> 0, max |-> 0]]]

-----------------------------------------------------------------------------
(* The DCB configuration *)

\* 100 / 8 rounded down, and one more for the odd classes; every user
\* priority in class 0.
ixgbe_dcb_init(d) ==
    [d EXCEPT !.tcs = MAX_TRAFFIC_CLASS, !.vt = TRUE, !.pfc = {},
              !.pct = [t \in TC |-> 12 + (t % 2)],
              !.up = [r \in Directions |-> [t \in TC |-> IF t = 0 THEN TC ELSE {}]]]

\* The class of a user priority: the highest that lists it, or 0.
ixgbe_dcb_get_tc_from_up(d, dir, up) ==
    Max({0} \cup {t \in 1 .. d.tcs - 1 : up \in d.up[dir][t]})

ixgbe_dcb_unpack_map_cee(d, dir) == [up \in TC |-> ixgbe_dcb_get_tc_from_up(d, dir, up)]

\* queue[i] is the class of priority i in the application's configuration;
\* the code marks priority queue[i], not i, in that class.
ixgbe_dcb_rx_config(d, dir, n, queue) ==
    [d EXCEPT !.tcs = n,
              !.up[dir] = [t \in TC |-> IF \E i \in TC : queue[i] = t THEN {t} ELSE @[t]]]

ixgbe_dcb_tx_config(d, n, queue) == ixgbe_dcb_rx_config(d, "tx", n, queue)
ixgbe_vmdq_dcb_rx_config(d, n, queue) == ixgbe_dcb_rx_config(d, "rx", n, queue)
ixgbe_dcb_vt_tx_config(d, n, queue) == ixgbe_dcb_rx_config(d, "tx", n, queue)

\* Credits in quanta of 64 bytes from the shares of the link.
CreditQuantum == 64
IXGBE_DCB_MAX_CREDIT_REFILL == 200
IXGBE_DCB_MAX_CREDIT == 2 * IXGBE_DCB_MAX_CREDIT_REFILL

ixgbe_dcb_calculate_tc_credits_cee(d, max_frame) ==
    LET least == (max_frame \div 2 + CreditQuantum - 1) \div CreditQuantum
        smallest == Min({100} \cup {d.pct[t] : t \in {t \in TC : d.pct[t] > 0}})
        multiplier == least \div smallest + 1
        full(t) == (d.pct[t] * IXGBE_DCB_MAX_CREDIT) \div 100
    IN  [t \in TC |->
            [refill |-> Min({d.pct[t] * multiplier, IXGBE_DCB_MAX_CREDIT_REFILL}),
             max |-> IF full(t) > 0 THEN Max({full(t), least}) ELSE 0]]

ixgbe_dcb_unpack_pfc_cee(d, map) == {up \in TC : map[up] \in d.pfc}

-----------------------------------------------------------------------------
(* The registers of flow control *)

\* FCRTH and FCRTL of an enabled class, and of one that is not: the size of
\* its buffer less 32 bytes, which for no buffer sets the enable bit too.
Enabled(d, t) == [on |-> TRUE, kb |-> d.high[t]]
Disabled(d, t) == IF d.pb[t] = 0 THEN [on |-> TRUE, kb |-> Underflow]
                  ELSE [on |-> FALSE, kb |-> d.pb[t]]

ixgbe_dcb_config_pfc_82599(d, pfc_en, map) ==
    LET max_tc == Max({map[u] : u \in TC})
        on(t) == \E u \in pfc_en : map[u] = t
    IN  [d EXCEPT !.tx = "priority",
                  !.rx = IF pfc_en # {} THEN "priority" ELSE "none",
                  !.th = [t \in TC |-> CASE t <= max_tc /\ on(t) -> Enabled(d, t)
                                         [] t <= max_tc /\ ~on(t) -> Disabled(d, t)
                                         [] OTHER -> None],
                  !.tl = [t \in TC |-> IF t <= max_tc /\ on(t) THEN d.low[t] ELSE 0]]

ixgbe_dcb_config_pfc(d, pfc_en, map) == ixgbe_dcb_config_pfc_82599(d, pfc_en, map)

\* The water marks are looked at under the mode in force before the call.
MarksRefused(d, mode, classes) ==
    mode \in TxModes /\ \E t \in classes : d.low[t] = 0 \/ d.low[t] >= d.high[t]

\* Link flow control of every class; an outcome also holds the port's h.
ixgbe_fc_enable_generic(d, h) ==
    LET marked == {t \in TC : d.high[t] > 0}
        set(g) == LET on(t) == g.current \in TxModes /\ t \in marked
                  IN  [d EXCEPT !.rx = IF g.current \in RxModes THEN "802_3x" ELSE "none",
                                !.tx = IF g.current \in TxModes THEN "802_3x" ELSE "none",
                                !.th = [t \in TC |-> IF on(t) THEN Enabled(d, t)
                                                     ELSE Disabled(d, t)],
                                !.tl = [t \in TC |-> IF on(t) THEN d.low[t] ELSE 0]]
    IN  IF d.time = 0 \/ MarksRefused(d, h.current, marked)
        THEN {[d |-> d, h |-> h, ret |-> "ERR_INVALID_LINK_SETTINGS"]}
        ELSE {[d |-> set(g), h |-> g, ret |-> "ok"] : g \in ixgbe_fc_autoneg(h)}

\* Priority flow control of class tc; a mode without transmission still
\* enables it when several classes have their threshold enabled.
ixgbe_dcb_pfc_enable_generic(d, h, tc) ==
    LET several == Cardinality({t \in TC : d.th[t].on}) > 1
        set(g) == LET on == g.current \in TxModes /\ d.high[tc] > 0
                  IN  [d EXCEPT !.rx = IF g.current \in RxModes THEN "priority" ELSE "none",
                                !.tx = IF g.current \in TxModes \/ several
                                       THEN "priority" ELSE "none",
                                !.th[tc] = IF on THEN Enabled(d, tc) ELSE Disabled(d, tc),
                                !.tl[tc] = IF on THEN d.low[tc] ELSE 0]
    IN  IF d.time = 0 \/ MarksRefused(d, h.current, {tc}) \/
           (h.current \in TxModes /\ d.high[tc] = 0)
        THEN {[d |-> d, h |-> h, ret |-> "ERR_INVALID_LINK_SETTINGS"]}
        ELSE {[d |-> set(g), h |-> g, ret |-> "ok"] : g \in ixgbe_fc_autoneg(h)}

\* Mutant: the mark is compared with the undivided buffer.
whole_buffer(kb) == NIC_RX_BUFFER_SIZE - ETH_MAX_KB

\* The highest mark a buffer allows: an unsigned difference.
MaxHighWater(kb) == IF kb = 0 THEN Underflow ELSE kb - ETH_MAX_KB

\* What the two calls of the application do: c is its rte_eth_fc_conf.
ixgbe_flow_ctrl_set(d, h, c) ==
    IF c.high > MaxHighWater(d.pb[0]) \/ c.high < c.low
    THEN {[d |-> d, h |-> h, ret |-> "EINVAL"]}
    ELSE ixgbe_fc_enable_generic([d EXCEPT !.high[0] = c.high, !.low[0] = c.low,
                                           !.time = c.time],
                                 [h EXCEPT !.requested = c.mode])

ixgbe_priority_flow_ctrl_set(d, h, c, priority) ==
    LET tc == ixgbe_dcb_unpack_map_cee(d, "rx")[priority]
    IN  IF c.high > MaxHighWater(d.pb[tc]) \/ c.high <= c.low
        THEN {[d |-> d, h |-> h, ret |-> "EINVAL"]}
        ELSE ixgbe_dcb_pfc_enable_generic([d EXCEPT !.high[tc] = c.high, !.low[tc] = c.low,
                                                    !.time = c.time],
                                          [h EXCEPT !.requested = c.mode], tc)

-----------------------------------------------------------------------------
(* The queue modes *)

\* c is the application's configuration (dev_conf): the modes of reception
\* and transmission, the number of classes, the class of each priority,
\* whether all 128 queues are set up, and ETH_DCB_PFC_SUPPORT.
ixgbe_rss_disable(d) == [d EXCEPT !.mrqc = IF @ = "RSS" THEN "none" ELSE @]
ixgbe_rss_configure(d, c) ==
    IF c.rss_hf THEN [d EXCEPT !.mrqc = "RSS"] ELSE ixgbe_rss_disable(d)

ixgbe_vmdq_dcb_configure(d, c) ==
    [d EXCEPT !.pb = Divide(c.n), !.up2tc = c.queue,
              !.mrqc = IF c.n = 8 THEN "VMDQRT8TC" ELSE "VMDQRT4TC"]

ixgbe_vmdq_rx_hw_configure(d) == [d EXCEPT !.mrqc = "VMDQ"]
ixgbe_vmdq_tx_hw_configure(d) == [d EXCEPT !.mtqc = "64VF"]

ixgbe_dev_mq_rx_configure(d, c) ==
    CASE d.sriov = 0 /\ c.rx = "rss" -> ixgbe_rss_configure(d, c)
      [] d.sriov = 0 /\ c.rx = "vmdq_dcb" -> ixgbe_vmdq_dcb_configure(d, c)
      [] d.sriov = 0 /\ c.rx = "vmdq" -> ixgbe_vmdq_rx_hw_configure(d)
      [] d.sriov = 0 /\ c.rx \in {"none", "dcb"} -> ixgbe_rss_disable(d)
      [] OTHER -> [d EXCEPT !.mrqc = CASE d.sriov = 64 -> "VMDQ"
                                       [] d.sriov = 32 -> "VMDQRT4TC"
                                       [] d.sriov = 16 -> "VMDQRT8TC"]

ixgbe_dev_mq_tx_configure(d, c) ==
    IF d.sriov = 0
    THEN IF c.tx = "vmdq" THEN ixgbe_vmdq_tx_hw_configure(d)
         ELSE [d EXCEPT !.mtqc = "64Q_1PB"]
    ELSE [d EXCEPT !.mtqc = CASE d.sriov = 64 -> "64VF"
                              [] d.sriov = 32 -> "32VF"
                              [] d.sriov = 16 -> "8TC_VT"]

ixgbe_dcb_rx_hw_config(d) ==
    [d EXCEPT !.mrqc = CASE d.tcs = 4 -> IF d.vt THEN "VMDQRT4TC" ELSE "RT4TC"
                         [] d.tcs = 8 -> IF d.vt THEN "VMDQRT8TC" ELSE "RT8TC"]
ixgbe_dcb_tx_hw_config(d) ==
    [d EXCEPT !.mtqc = IF d.tcs = 8 THEN IF d.vt THEN "8TC_VT" ELSE "8TC"
                       ELSE IF d.vt THEN "4TC_VT" ELSE "4TC"]

ixgbe_dcb_config_rx_arbiter_82599(d, credits, map) ==
    [d EXCEPT !.credits = credits, !.up2tc = map]
\* The transmit arbiters get the same credits and map.
ixgbe_dcb_hw_arbite_tx_config(d, credits, map) == d

\* With four classes the priorities above three go to the unused classes.
SpreadMap(map) ==
    LET unused == TC \ {map[i] : i \in 0 .. 3}
        nth(k) == CHOOSE t \in unused : Cardinality({x \in unused : x < t}) = k
    IN  [u \in TC |-> IF u < 4 THEN map[u] ELSE nth(u - 4)]

MaxFrame == 1518

ixgbe_dcb_hw_configure(d, c) ==
    LET rx == CASE c.rx = "vmdq_dcb" -> ixgbe_vmdq_dcb_configure(
                      ixgbe_vmdq_dcb_rx_config([d EXCEPT !.vt = TRUE], c.n, c.queue), c)
                [] c.rx = "dcb" -> ixgbe_dcb_rx_hw_config(
                      ixgbe_dcb_rx_config([d EXCEPT !.vt = FALSE], "rx", c.n, c.queue))
        tx == CASE c.tx = "vmdq_dcb" -> ixgbe_dcb_tx_hw_config(
                      ixgbe_dcb_vt_tx_config([rx EXCEPT !.vt = TRUE], c.n, c.queue))
                [] c.tx = "dcb" -> ixgbe_dcb_tx_hw_config(
                      ixgbe_dcb_tx_config([rx EXCEPT !.vt = FALSE], c.n, c.queue))
                [] OTHER -> rx
        map0 == ixgbe_dcb_unpack_map_cee(tx, "rx")
        map == IF tx.tcs = 4 THEN SpreadMap(map0) ELSE map0
        shared == IF tx.tcs = 4
                  THEN [tx EXCEPT !.pct = [t \in TC |-> IF t < 4 THEN 25 ELSE 0]]
                  ELSE tx
        parted == [shared EXCEPT !.pb = Divide(shared.tcs)]
        armed == ixgbe_dcb_hw_arbite_tx_config(ixgbe_dcb_config_rx_arbiter_82599(
                    parted, ixgbe_dcb_calculate_tc_credits_cee(parted, MaxFrame), map),
                    ixgbe_dcb_calculate_tc_credits_cee(parted, MaxFrame), map)
        first == 0 .. armed.tcs - 1
        marked == [armed EXCEPT
                    !.high = [t \in TC |-> IF t \in first THEN (armed.pb[t] * 3) \div 4 ELSE @[t]],
                    !.low = [t \in TC |-> IF t \in first THEN armed.pb[t] \div 4 ELSE @[t]],
                    !.pfc = @ \cup first]
        up == ixgbe_dcb_unpack_pfc_cee(marked, map)
    IN  IF ~c.pfc THEN armed
        ELSE ixgbe_dcb_config_pfc(marked, IF marked.tcs = 4 THEN up \cap (0 .. 3) ELSE up, map)

ixgbe_configure_dcb(d, c) ==
    IF c.rx \notin {"dcb", "vmdq_dcb"} \/ ~c.all_queues THEN d
    ELSE ixgbe_dcb_hw_configure(d, c)

=============================================================================
