------------------------------ MODULE IxgbeVlan ------------------------------
(***************************************************************************)
(* The VLAN filters of a port of the ixgbe driver and what it does per     *)
(* pool of VMDq or SR-IOV: the filter table and its copy, the slots that   *)
(* give a VLAN its pools, receive and transmit of a pool, mirror rules.    *)
(*                                                                         *)
(* A function of the driver is an operator on the record v:                *)
(* v.vfe     VLNCTRL_VFE: VLANs are filtered;   v.vt   VT_CTL_VT_ENABLE    *)
(* v.vfta, v.shadow   the table and the driver's copy, as sets of VLANs    *)
(* v.vlvf, v.vlvfb    the slots: their VLAN, NoVlan when 0, and its pools  *)
(* v.rx, v.tx         VFRE and VFTE;   v.mode   VMOLR of each pool         *)
(* v.strip, v.stripSw RXDCTL_VME of the queues and the driver's bitmap     *)
(* v.extend           DMATXCTL_GDV and EXTENDED_VLAN                       *)
(* v.mirror           a mirror rule: types, slots, pools, destination      *)
(***************************************************************************)
EXTENDS IxgbeAddr

CONSTANTS
    Vlans,          \* VLAN identifiers in use
    NoVlan,         \* a slot that is not valid
    Slots,          \* VLVF registers, 0 and those find_vlvf_slot hands out
    RxQueues,       \* receive queues
    RxModes,        \* what a pool may accept (ETH_VMDQ_ACCEPT_...)
    Half            \* pools in one half of a register that has a bit per pool (32)

ASSUME VlanAssumption ==
    /\ Vlans \subseteq 0 .. 4095 /\ NoVlan \notin Vlans
    /\ Slots \subseteq Nat /\ 0 \in Slots
    /\ IsFiniteSet(Pools) /\ Pools = 0 .. Cardinality(Pools) - 1
    /\ Half \in Nat \ {0}

NoSlot == -1                \* IXGBE_ERR_NO_SPACE

\* A bit for every pool takes two registers, written one by one.
LowHalf  == {p \in Pools : p < Half}
HighHalf == Pools \ LowHalf

\* The numbers of pools a configuration may name (ETH_16_POOLS and so on)
SomePools == Half \div 2
HalfPools == Half
AllPools  == 2 * Half
NoRule == [types |-> {}, slots |-> {}, pools |-> {}, dst |-> 0]

NewVlan ==
    [vfe |-> FALSE, vt |-> FALSE, vfta |-> {}, shadow |-> {},
     vlvf |-> [s \in Slots |-> NoVlan], vlvfb |-> [s \in Slots |-> {}],
     rx |-> {}, tx |-> {}, mode |-> [p \in Pools |-> {}], strip |-> {}, stripSw |-> {},
     extend |-> FALSE, mirror |-> NoRule]

\* The reset clears the control registers; the tables are memory.
VlanReset(v) ==
    [v EXCEPT !.vfe = FALSE, !.vt = FALSE, !.rx = {}, !.tx = {}, !.mode = [p \in Pools |-> {}],
              !.strip = {}, !.extend = FALSE, !.mirror = NoRule]

\* The VLANs whose bits are in one register of the table.
Word(vlan) == {w \in Vlans : w \div 32 = vlan \div 32}

-----------------------------------------------------------------------------
(* The filter table *)

\* The copy takes the whole register, bits that others set included.
ixgbe_vlan_filter_set(v, vlan, on) ==
    LET new == IF on THEN v.vfta \cup {vlan} ELSE v.vfta \ {vlan}
    IN  [v EXCEPT !.vfta = new, !.shadow = (@ \ Word(vlan)) \cup (new \cap Word(vlan))]

ixgbe_vlan_hw_filter_disable(v) == [v EXCEPT !.vfe = FALSE]

\* Mutant of ixgbe_vlan_hw_filter_enable: the table is not written back.
enable_without_table(v) == [v EXCEPT !.vfe = TRUE]

ixgbe_vlan_hw_filter_enable(v) == [v EXCEPT !.vfe = TRUE, !.vfta = v.shadow]

ixgbe_vlan_hw_strip_bitmap_set(v, qs, on) ==
    [v EXCEPT !.stripSw = IF on THEN @ \cup qs ELSE @ \ qs]
ixgbe_vlan_hw_strip_enable(v, q) ==
    ixgbe_vlan_hw_strip_bitmap_set([v EXCEPT !.strip = @ \cup {q}], {q}, TRUE)
ixgbe_vlan_hw_strip_disable(v, q) ==
    ixgbe_vlan_hw_strip_bitmap_set([v EXCEPT !.strip = @ \ {q}], {q}, FALSE)
ixgbe_vlan_hw_strip_enable_all(v) ==
    ixgbe_vlan_hw_strip_bitmap_set([v EXCEPT !.strip = RxQueues], RxQueues, TRUE)
ixgbe_vlan_hw_strip_disable_all(v) ==
    ixgbe_vlan_hw_strip_bitmap_set([v EXCEPT !.strip = {}], RxQueues, FALSE)
ixgbe_vlan_strip_queue_set(v, q, on) ==
    IF on THEN ixgbe_vlan_hw_strip_enable(v, q) ELSE ixgbe_vlan_hw_strip_disable(v, q)

ixgbe_vlan_hw_extend_enable(v) == [v EXCEPT !.extend = TRUE]
ixgbe_vlan_hw_extend_disable(v) == [v EXCEPT !.extend = FALSE]

\* mask says which of the three offloads are set, c what to.
ixgbe_vlan_offload_set(v, mask, c) ==
    LET v1 == IF "strip" \notin mask THEN v
              ELSE IF c.strip THEN ixgbe_vlan_hw_strip_enable_all(v)
              ELSE ixgbe_vlan_hw_strip_disable_all(v)
        v2 == IF "filter" \notin mask THEN v1
              ELSE IF c.filter THEN ixgbe_vlan_hw_filter_enable(v1)
              ELSE ixgbe_vlan_hw_filter_disable(v1)
    IN  IF "extend" \notin mask THEN v2
        ELSE IF c.extend THEN ixgbe_vlan_hw_extend_enable(v2)
        ELSE ixgbe_vlan_hw_extend_disable(v2)

ixgbe_vmdq_vlan_hw_filter_enable(v) == [v EXCEPT !.vfe = TRUE]

ixgbe_clear_vfta_generic(v) ==
    [v EXCEPT !.vfta = {}, !.vlvf = [s \in Slots |-> NoVlan], !.vlvfb = [s \in Slots |-> {}]]

-----------------------------------------------------------------------------
(* The pools of a VLAN *)

SlotOf(v, vlan) == {s \in Slots \ {0} : v.vlvf[s] = vlan}
FirstEmpty(v) ==
    LET empty == {s \in Slots \ {0} : v.vlvf[s] = NoVlan}
    IN  IF empty = {} THEN NoSlot ELSE CHOOSE s \in empty : \A t \in empty : s <= t

\* Mutant of ixgbe_find_vlvf_slot: an empty slot before the own one.
first_fit(v, vlan) ==
    IF vlan = 0 THEN 0
    ELSE IF FirstEmpty(v) # NoSlot THEN FirstEmpty(v)
    ELSE IF SlotOf(v, vlan) # {} THEN CHOOSE s \in SlotOf(v, vlan) : TRUE ELSE NoSlot

\* Slot 0 is VLAN 0's and not looked at for another one.
ixgbe_find_vlvf_slot(v, vlan) ==
    IF vlan = 0 THEN 0
    ELSE IF SlotOf(v, vlan) # {} THEN CHOOSE s \in SlotOf(v, vlan) : TRUE
    ELSE FirstEmpty(v)

\* The slot after the change of one pool; the VLAN leaves with its last pool.
ixgbe_set_vlvf_generic(v, vlan, p, on) ==
    LET s == ixgbe_find_vlvf_slot(v, vlan)
        bits == IF on THEN v.vlvfb[s] \cup {p} ELSE v.vlvfb[s] \ {p}
    IN  [v EXCEPT !.vlvfb[s] = bits, !.vlvf[s] = IF bits = {} THEN NoVlan ELSE vlan]

\* Without a slot nothing is done.  The bit of the table stays as long as
\* the VLAN has a pool.
ixgbe_set_vfta_generic(v, vlan, p, on) ==
    IF v.vt /\ ixgbe_find_vlvf_slot(v, vlan) = NoSlot THEN [v |-> v, ret |-> "NO_SPACE"]
    ELSE LET s == ixgbe_find_vlvf_slot(v, vlan)
             w == IF v.vt THEN ixgbe_set_vlvf_generic(v, vlan, p, on) ELSE v
             keeps == ~on /\ v.vt /\ w.vlvfb[s] # {}
         IN  [v |-> [w EXCEPT !.vfta = IF on THEN @ \cup {vlan}
                                       ELSE IF keeps THEN @ ELSE @ \ {vlan}],
              ret |-> "ok"]

ixgbe_vmdq_mode_check(v) == v.vt

\* Pool after pool, up to the first that fails.
ixgbe_set_pool_vlan_filter(v, vlan, pools, on) ==
    LET done[n \in 0 .. Cardinality(Pools)] ==
            IF n = 0 THEN [v |-> v, ret |-> "ok"]
            ELSE IF done[n - 1].ret # "ok" \/ n - 1 \notin pools THEN done[n - 1]
            ELSE ixgbe_set_vfta_generic(done[n - 1].v, vlan, n - 1, on)
    IN  IF ixgbe_vmdq_mode_check(v) THEN done[Cardinality(Pools)] ELSE [v |-> v, ret |-> "ENOTSUP"]

ixgbe_set_pool_rx(v, p, on) ==
    IF ~ixgbe_vmdq_mode_check(v) THEN v ELSE [v EXCEPT !.rx = IF on THEN @ \cup {p} ELSE @ \ {p}]
ixgbe_set_pool_tx(v, p, on) ==
    IF ~ixgbe_vmdq_mode_check(v) THEN v ELSE [v EXCEPT !.tx = IF on THEN @ \cup {p} ELSE @ \ {p}]
ixgbe_set_pool_rx_mode(v, p, ms, on) ==
    IF ~ixgbe_vmdq_mode_check(v) THEN v
    ELSE [v EXCEPT !.mode[p] = IF on THEN @ \cup ms ELSE @ \ ms]

-----------------------------------------------------------------------------
(* Mirror rules name slots, not VLANs *)

ixgbe_mirror_rule_set(v, r, on) ==
    LET slot == [w \in r.vlans |-> ixgbe_find_vlvf_slot(v, w)]
        byVlan == "vlan" \in r.types
        unknown == {w \in r.vlans : slot[w] = NoSlot \/ v.vlvf[slot[w]] # w}
        bad == byVlan /\ ((on /\ r.vlans = {}) \/ unknown # {})
    IN  IF ~ixgbe_vmdq_mode_check(v) \/ bad THEN v
        ELSE [v EXCEPT !.mirror =
                [types |-> IF on THEN @.types \cup r.types ELSE @.types \ r.types,
                 dst   |-> IF on THEN r.dst ELSE @.dst,
                 slots |-> IF ~byVlan THEN @.slots ELSE IF on THEN {slot[w] : w \in r.vlans} ELSE {},
                 pools |-> IF "pool" \notin r.types THEN @.pools ELSE IF on THEN r.pools ELSE {}]]

ixgbe_mirror_rule_reset(v) == IF ixgbe_vmdq_mode_check(v) THEN [v EXCEPT !.mirror = NoRule] ELSE v

-----------------------------------------------------------------------------
(* What a start sets up *)

\* Entry n of the map of a configuration goes to slot n - 1, of its pools
\* those in half[n]; the other half of the slot is not written.
WriteMap(v, map, half) ==
    [v EXCEPT !.vlvf = [s \in Slots |-> IF s < Len(map) THEN map[s + 1].vlan ELSE @[s]],
              !.vlvfb = [s \in Slots |->
                            IF s < Len(map) THEN (map[s + 1].pools \cap half[s + 1]) \cup (@[s] \ half[s + 1])
                            ELSE @[s]]]

\* VMDq writes the high half of an entry that has pools there, else the low.
VmdqHalves(map) ==
    [n \in DOMAIN map |-> IF map[n].pools \cap HighHalf = {} THEN LowHalf ELSE HighHalf]

\* With traffic classes it is the low half.
DcbHalves(map) == [n \in DOMAIN map |-> LowHalf]

Separated(v) == [v EXCEPT !.vt = TRUE, !.vfe = TRUE, !.vfta = Vlans]

\* Pools are separated by VLAN, and every VLAN passes the table.
VmdqVlans(v, c) ==
    WriteMap([Separated(v) EXCEPT !.rx = LowHalf \cup (IF c.num = AllPools THEN HighHalf ELSE @ \ LowHalf)],
             c.map, VmdqHalves(c.map))

\* The same with traffic classes, for two numbers of pools.
ixgbe_vmdq_dcb_configure(v, c) ==
    IF c.num \notin {SomePools, HalfPools} THEN v
    ELSE WriteMap([Separated(v) EXCEPT !.rx = {p \in LowHalf : p < c.num} \cup (@ \ LowHalf)],
                  c.map, DcbHalves(c.map))

\* Traffic classes without pools: every VLAN passes.
ixgbe_dcb_rx_hw_config(v, c) ==
    [v EXCEPT !.vt = @ /\ c.tcs \notin {4, 8}, !.vfe = TRUE, !.vfta = Vlans]

ixgbe_vmdq_tx_hw_configure(v) == [v EXCEPT !.tx = Pools]
ixgbe_vmdq_dcb_hw_tx_config(v, c) ==
    [v EXCEPT !.tx = (IF c.txNum = SomePools THEN {p \in LowHalf : p < SomePools} ELSE LowHalf)
                     \cup (@ \ LowHalf)]

\* With virtual functions: the port itself is the pool after theirs.
ixgbe_pf_host_configure(v, vfs) ==
    IF vfs = 0 THEN v
    ELSE [v EXCEPT !.vt = TRUE, !.vfe = TRUE, !.vfta = Vlans,
                   !.rx = {p \in Pools : p >= vfs}, !.tx = {p \in Pools : p >= vfs}]

HostAddr(a, vfs) ==
    IF vfs = 0 THEN a
    ELSE LET b == ixgbe_clear_vmdq_generic(a, 0, VMDQ_ALL)
             c == IF b.num \in Rars THEN [b EXCEPT !.mp[b.num] = {}] ELSE b
         IN  ixgbe_set_vmdq_generic(c, 0, vfs)

=============================================================================
