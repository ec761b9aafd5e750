------------------------- MODULE IxgbeFilterProofs -------------------------
(***************************************************************************)
(* Proofs about the receive filters of IxgbeFilter.                        *)
(*                                                                         *)
(* The state is three records, which the functions of the driver change by *)
(* field.  A first lemma about a function says what it does to the fields  *)
(* the properties speak of (FilterSetIs, SetRarIs and so on, each with an  *)
(* operator that names the change); the invariants are kept by such        *)
(* changes.  Two functions are loops, over the pools of a call and over a  *)
(* list of addresses: LoopHolds carries what a round keeps to the end.     *)
(*                                                                         *)
(* A start goes through five states, of which it may leave the first, the  *)
(* third and the last, or it leaves what it found (StartLeft).  It may set *)
(* up pools twice (PooledTo) or let every VLAN through (OpenTo); each      *)
(* invariant is proved of all of them, and then of the calls, by kind      *)
(* (NextIs).  The invariants:                                              *)
(*   VlanInv   the copy of the VLAN table knows what was asked, and the    *)
(*             table is the copy while VLANs are filtered without pools    *)
(*   PoolInv   the slots give what was granted, one slot for a VLAN        *)
(*   DirInv    filters were written under the masks and size in force      *)
(*   AddrInv   addresses are in registers or there is overflow; registers  *)
(*             above the high-water mark are free; the bits of multicast   *)
(*             addresses are in the table and in its copy                  *)
(***************************************************************************)
EXTENDS IxgbeFilter, FiniteSetTheorems, WellFoundedInduction, TLAPS

-----------------------------------------------------------------------------
(* The fields of the records, and what each function does to those the     *)
(* properties speak of.                                                    *)

VFields == {"vfe", "vt", "vfta", "shadow", "vlvf", "vlvfb", "rx", "tx", "mode",
            "strip", "stripSw", "extend", "mirror"}

\* x differs from w in none of the fields the properties speak of.
SameVlan(x, w) ==
    /\ DOMAIN x = VFields
    /\ x.vfe = w.vfe /\ x.vt = w.vt /\ x.vfta = w.vfta /\ x.shadow = w.shadow
    /\ x.vlvf = w.vlvf /\ x.vlvfb = w.vlvfb

\* The registers before the first start.
LEMMA NewVlanIs ==
    /\ DOMAIN NewVlan = VFields /\ ~NewVlan.vfe /\ ~NewVlan.vt
    /\ NewVlan.vfta = {} /\ NewVlan.shadow = {}
    /\ NewVlan.vlvf = [s \in Slots |-> NoVlan] /\ NewVlan.vlvfb = [s \in Slots |-> {}]
  BY DEF NewVlan, VFields

\* VlanReset clears the control registers and keeps the tables.
WasReset(x, w) ==
    /\ DOMAIN x = VFields /\ x.vfe = FALSE /\ x.vt = FALSE
    /\ x.vfta = w.vfta /\ x.shadow = w.shadow /\ x.vlvf = w.vlvf /\ x.vlvfb = w.vlvfb

\* What a reset of the port does to the VLAN registers.
LEMMA VlanResetIs ==
    ASSUME NEW w, DOMAIN w = VFields
    PROVE  WasReset(VlanReset(w), w)
  BY DEF WasReset, VFields, VlanReset

\* ixgbe_vlan_filter_set changes the table and the copy.
FilterSet(x, w, vlan, on) ==
    /\ DOMAIN x = VFields /\ x.vfe = w.vfe /\ x.vt = w.vt
    /\ x.vfta = (IF on THEN w.vfta \cup {vlan} ELSE w.vfta \ {vlan})
    /\ x.shadow = (w.shadow \ Word(vlan)) \cup (x.vfta \cap Word(vlan))
    /\ x.vlvf = w.vlvf /\ x.vlvfb = w.vlvfb

\* ixgbe_vlan_filter_set does that.
LEMMA FilterSetIs ==
    ASSUME NEW w, DOMAIN w = VFields, NEW vlan, NEW on \in BOOLEAN
    PROVE  FilterSet(ixgbe_vlan_filter_set(w, vlan, on), w, vlan, on)
  BY DEF FilterSet, VFields, ixgbe_vlan_filter_set

\* ixgbe_vlan_offload_set touches the filter when the mask says so, and
\* writes the table from its copy when it switches the filter on.
Offloaded(x, w, mask, c) ==
    /\ DOMAIN x = VFields /\ x.vt = w.vt
    /\ "filter" \notin mask => x.vfe = w.vfe /\ x.vfta = w.vfta
    /\ "filter" \in mask /\ c.filter => x.vfe = TRUE /\ x.vfta = w.shadow
    /\ "filter" \in mask /\ ~c.filter => x.vfe = FALSE /\ x.vfta = w.vfta
    /\ x.shadow = w.shadow /\ x.vlvf = w.vlvf /\ x.vlvfb = w.vlvfb

\* ixgbe_vlan_offload_set does that.
LEMMA OffloadIs ==
    ASSUME NEW w, DOMAIN w = VFields, NEW mask, NEW c
    PROVE  Offloaded(ixgbe_vlan_offload_set(w, mask, c), w, mask, c)
  BY DEF VFields, Offloaded, ixgbe_vlan_offload_set, ixgbe_vlan_hw_strip_enable_all,
         ixgbe_vlan_hw_strip_disable_all, ixgbe_vlan_hw_strip_bitmap_set,
         ixgbe_vlan_hw_filter_enable, ixgbe_vlan_hw_filter_disable,
         ixgbe_vlan_hw_extend_enable, ixgbe_vlan_hw_extend_disable

\* Stripping leaves VLANs and slots alone.
LEMMA StripIs ==
    ASSUME NEW w, DOMAIN w = VFields, NEW q, NEW on
    PROVE  SameVlan(ixgbe_vlan_strip_queue_set(w, q, on), w)
  BY DEF VFields, SameVlan, ixgbe_vlan_strip_queue_set, ixgbe_vlan_hw_strip_enable,
         ixgbe_vlan_hw_strip_disable, ixgbe_vlan_hw_strip_bitmap_set

\* So do the calls that enable a pool.
LEMMA PoolIs ==
    ASSUME NEW w, DOMAIN w = VFields, NEW p, NEW on, NEW ms
    PROVE  /\ SameVlan(ixgbe_set_pool_rx(w, p, on), w)
           /\ SameVlan(ixgbe_set_pool_tx(w, p, on), w)
           /\ SameVlan(ixgbe_set_pool_rx_mode(w, p, ms, on), w)
  <1>1. SameVlan(ixgbe_set_pool_rx(w, p, on), w)
    BY DEF VFields, SameVlan, ixgbe_set_pool_rx
  <1>2. SameVlan(ixgbe_set_pool_tx(w, p, on), w)
    BY DEF VFields, SameVlan, ixgbe_set_pool_tx
  <1>3. SameVlan(ixgbe_set_pool_rx_mode(w, p, ms, on), w)
    BY DEF VFields, SameVlan, ixgbe_set_pool_rx_mode
  <1> QED BY <1>1, <1>2, <1>3

\* So do mirror rules.
LEMMA MirrorIs ==
    ASSUME NEW w, DOMAIN w = VFields, NEW r, NEW on
    PROVE  /\ SameVlan(ixgbe_mirror_rule_set(w, r, on), w)
           /\ SameVlan(ixgbe_mirror_rule_reset(w), w)
  <1>1. ASSUME NEW m PROVE SameVlan([w EXCEPT !.mirror = m], w) /\ SameVlan(w, w)
    BY DEF VFields, SameVlan
  <1>2. SameVlan(ixgbe_mirror_rule_set(w, r, on), w)
    BY <1>1, Zenon DEF ixgbe_mirror_rule_set
  <1> QED BY <1>1, <1>2 DEF ixgbe_mirror_rule_reset

\* The start of the hardware clears table and slots, not the copy.
VftaCleared(x, w) ==
    /\ DOMAIN x = VFields /\ x.vfe = w.vfe /\ x.vt = w.vt
    /\ x.vfta = {} /\ x.shadow = w.shadow
    /\ x.vlvf = [s \in Slots |-> NoVlan] /\ x.vlvfb = [s \in Slots |-> {}]

\* ixgbe_clear_vfta_generic empties table and slots, not the copy.
LEMMA ClearVftaIs ==
    ASSUME NEW w, DOMAIN w = VFields
    PROVE  VftaCleared(ixgbe_clear_vfta_generic(w), w)
  BY DEF VftaCleared, VFields, ixgbe_clear_vfta_generic

\* With virtual functions the port is in a pool.
HostSet(x, w, n) ==
    /\ DOMAIN x = VFields /\ x.shadow = w.shadow /\ x.vlvf = w.vlvf /\ x.vlvfb = w.vlvfb
    /\ n = 0 => x = w
    /\ n # 0 => x.vt = TRUE

\* ixgbe_pf_host_configure does that.
LEMMA HostIs ==
    ASSUME NEW w, DOMAIN w = VFields, NEW n
    PROVE  HostSet(ixgbe_pf_host_configure(w, n), w, n)
  BY DEF HostSet, VFields, ixgbe_pf_host_configure

\* Pools separated by VLAN as the map says, in one half of the slots.
VmdqSet(x, w, map, half) ==
    /\ DOMAIN x = VFields /\ x.shadow = w.shadow /\ x.vt = TRUE
    /\ x.vlvf = [s \in Slots |-> IF s < Len(map) THEN map[s + 1].vlan ELSE w.vlvf[s]]
    /\ x.vlvfb = [s \in Slots |->
                     IF s < Len(map) THEN (map[s + 1].pools \cap half[s + 1]) \cup (w.vlvfb[s] \ half[s + 1])
                     ELSE w.vlvfb[s]]

\* A map written where pools are being separated.
LEMMA WriteMapIs ==
    ASSUME NEW w, DOMAIN w = VFields, NEW rx, NEW map, NEW half
    PROVE  VmdqSet(WriteMap([Separated(w) EXCEPT !.rx = rx], map, half), w, map, half)
  <1> DEFINE u == [Separated(w) EXCEPT !.rx = rx]
  <1>1. /\ DOMAIN u = VFields /\ u.shadow = w.shadow /\ u.vt = TRUE
        /\ u.vlvf = w.vlvf /\ u.vlvfb = w.vlvfb
    BY DEF Separated, VFields
  <1> HIDE DEF u
  <1>2. VmdqSet(WriteMap(u, map, half), w, map, half)
    BY <1>1 DEF VmdqSet, VFields, WriteMap
  <1> QED BY <1>2 DEF u

\* The VMDq configurations do that, the one with traffic classes when the
\* number of pools is one it knows.
LEMMA VmdqIs ==
    ASSUME NEW w, DOMAIN w = VFields, NEW c
    PROVE  /\ VmdqSet(VmdqVlans(w, c), w, c.map, VmdqHalves(c.map))
           /\ c.num \in {SomePools, HalfPools}
                => VmdqSet(ixgbe_vmdq_dcb_configure(w, c), w, c.map, DcbHalves(c.map))
  <1> DEFINE rx == LowHalf \cup (IF c.num = AllPools THEN HighHalf ELSE Separated(w).rx \ LowHalf)
             dx == {p \in LowHalf : p < c.num} \cup (Separated(w).rx \ LowHalf)
  <1>1. VmdqVlans(w, c) = WriteMap([Separated(w) EXCEPT !.rx = rx], c.map, VmdqHalves(c.map))
    BY Zenon DEF VmdqVlans
  <1>2. c.num \in {SomePools, HalfPools}
          => ixgbe_vmdq_dcb_configure(w, c)
                = WriteMap([Separated(w) EXCEPT !.rx = dx], c.map, DcbHalves(c.map))
    BY Zenon DEF ixgbe_vmdq_dcb_configure
  <1> HIDE DEF rx, dx
  <1> QED BY <1>1, <1>2, WriteMapIs

\* Traffic classes without pools: every VLAN passes.
DcbSet(x, w) ==
    /\ DOMAIN x = VFields /\ x.shadow = w.shadow /\ x.vlvf = w.vlvf /\ x.vlvfb = w.vlvfb
    /\ x.vfta = Vlans /\ (x.vt => w.vt)

\* ixgbe_dcb_rx_hw_config does that.
LEMMA DcbSetIs ==
    ASSUME NEW w, DOMAIN w = VFields, NEW c
    PROVE  DcbSet(ixgbe_dcb_rx_hw_config(w, c), w)
  BY DEF DcbSet, VFields, ixgbe_dcb_rx_hw_config

\* Transmission has nothing to do with VLANs.
LEMMA TxIs ==
    ASSUME NEW w, DOMAIN w = VFields, NEW c
    PROVE  /\ SameVlan(ixgbe_vmdq_tx_hw_configure(w), w)
           /\ SameVlan(ixgbe_vmdq_dcb_hw_tx_config(w, c), w)
  <1>1. SameVlan(ixgbe_vmdq_tx_hw_configure(w), w)
    BY DEF SameVlan, VFields, ixgbe_vmdq_tx_hw_configure
  <1> DEFINE tx == (IF c.txNum = SomePools THEN {p \in LowHalf : p < SomePools} ELSE LowHalf)
                   \cup (w.tx \ LowHalf)
  <1>2. ixgbe_vmdq_dcb_hw_tx_config(w, c) = [w EXCEPT !.tx = tx]
    BY Zenon DEF ixgbe_vmdq_dcb_hw_tx_config
  <1> HIDE DEF tx
  <1>3. SameVlan([w EXCEPT !.tx = tx], w)  BY DEF SameVlan, VFields
  <1> QED BY <1>1, <1>2, <1>3

-----------------------------------------------------------------------------
(* The slots.                                                              *)

\* Slot 0 is VLAN 0's: these are the others.
Spare == Slots \ {0}

\* A VLAN has one slot, and a slot without pools is free.
SlotInv(w) ==
    /\ DOMAIN w = VFields
    /\ w.vlvf = [s \in Slots |-> w.vlvf[s]] /\ w.vlvfb = [s \in Slots |-> w.vlvfb[s]]
    /\ \A s \in Spare : w.vlvf[s] \in (Vlans \ {0}) \cup {NoVlan}
    /\ \A s, t \in Spare : w.vlvf[s] = w.vlvf[t] /\ s # t => w.vlvf[s] = NoVlan
    /\ \A s \in Spare : (w.vlvf[s] = NoVlan) <=> (w.vlvfb[s] = {})

\* The slots give VLAN x to pool p.
Gives(w, x, p) == \E s \in Spare : w.vlvf[s] = x /\ p \in w.vlvfb[s]

\* A call for the VLAN finds a slot.
Avail(w, vlan) == vlan = 0 \/ \E s \in Spare : w.vlvf[s] \in {vlan, NoVlan}

\* s is a slot for the VLAN.
IsSlotFor(w, vlan, s) ==
    /\ s \in Spare /\ w.vlvf[s] \in {vlan, NoVlan}
    /\ w.vlvf[s] # vlan => \A t \in Spare : w.vlvf[t] # vlan

\* Sets of naturals have a least member.
LEMMA LeastOf == ASSUME NEW S, S \subseteq Nat, S # {} PROVE \E s \in S : \A t \in S : s <= t
  <1>1. PICK x \in S : \A y \in S : <<y, x>> \notin OpToRel(<, Nat)
    BY WFMin, NatLessThanWellFounded
  <1>2. ASSUME NEW t \in S PROVE x <= t
    <2>1. <<t, x>> \notin OpToRel(<, Nat)  BY <1>1
    <2>2. ~(t < x)  BY <2>1 DEF OpToRel
    <2> QED BY <2>2
  <1> QED BY <1>2

\* FirstEmpty finds a free slot when there is one.
LEMMA FirstEmptyIs ==
    ASSUME NEW w
    PROVE  /\ FirstEmpty(w) # NoSlot => FirstEmpty(w) \in Spare /\ w.vlvf[FirstEmpty(w)] = NoVlan
           /\ (FirstEmpty(w) = NoSlot) <=> (\A s \in Spare : w.vlvf[s] # NoVlan)
  <1> DEFINE empty == {s \in Slots \ {0} : w.vlvf[s] = NoVlan}
  <1>1. FirstEmpty(w) = IF empty = {} THEN NoSlot
                        ELSE CHOOSE s \in empty : \A t \in empty : s <= t
    BY DEF FirstEmpty
  <1>2. empty \subseteq Nat
    <2>1. Slots \subseteq Nat  BY VlanAssumption
    <2> QED BY <2>1
  <1>3. ASSUME empty # {} PROVE FirstEmpty(w) \in empty
    <2> HIDE DEF empty
    <2>1. \E s \in empty : \A t \in empty : s <= t  BY <1>2, <1>3, LeastOf
    <2> QED BY <2>1, <1>1, <1>3
  <1>4. NoSlot \notin Nat  BY DEF NoSlot
  <1>5. (FirstEmpty(w) = NoSlot) <=> (empty = {})
    <2> HIDE DEF empty
    <2> QED BY <1>1, <1>2, <1>3, <1>4
  <1>6. CASE empty = {}
    <2>1. \A s \in Spare : w.vlvf[s] # NoVlan  BY <1>6 DEF Spare
    <2> HIDE DEF empty
    <2> QED BY <2>1, <1>5, <1>6
  <1>7. CASE empty # {}
    <2>1. FirstEmpty(w) \in Spare /\ w.vlvf[FirstEmpty(w)] = NoVlan  BY <1>3, <1>7 DEF Spare
    <2>2. FirstEmpty(w) # NoSlot  BY <1>5, <1>7
    <2> QED BY <2>1, <2>2
  <1> QED BY <1>6, <1>7

\* ixgbe_find_vlvf_slot: slot 0 for VLAN 0, the VLAN's own slot, or a free one.
LEMMA FindSlotIs ==
    ASSUME NEW w, NEW vlan, NEW s, s = ixgbe_find_vlvf_slot(w, vlan)
    PROVE  /\ vlan = 0 => s = 0
           /\ vlan # 0 /\ s # NoSlot => IsSlotFor(w, vlan, s)
           /\ (s = NoSlot) <=> ~Avail(w, vlan)
  <1>1. CASE vlan = 0
    <2>1. s = 0  BY <1>1 DEF ixgbe_find_vlvf_slot
    <2>2. 0 # NoSlot  BY DEF NoSlot
    <2> QED BY <2>1, <2>2, <1>1 DEF Avail
  <1>2. CASE vlan # 0 /\ SlotOf(w, vlan) # {}
    <2>1. s \in SlotOf(w, vlan)  BY <1>2 DEF ixgbe_find_vlvf_slot
    <2>2. s \in Spare /\ w.vlvf[s] = vlan  BY <2>1 DEF SlotOf, Spare
    <2>3. s # NoSlot  BY <2>2, VlanAssumption DEF Spare, NoSlot
    <2> QED BY <2>2, <2>3, <1>2 DEF Avail, IsSlotFor
  <1>3. CASE vlan # 0 /\ SlotOf(w, vlan) = {}
    <2>1. s = FirstEmpty(w)  BY <1>3 DEF ixgbe_find_vlvf_slot
    <2>2. \A t \in Spare : w.vlvf[t] # vlan  BY <1>3 DEF SlotOf, Spare
    <2> QED BY <2>1, <2>2, <1>3, FirstEmptyIs DEF Avail, IsSlotFor
  <1> QED BY <1>1, <1>2, <1>3

\* x is w with slot s written for the VLAN.
Written(x, w, vlan, s, bits) ==
    /\ DOMAIN x = VFields
    /\ x.vlvf = [w.vlvf EXCEPT ![s] = IF bits = {} THEN NoVlan ELSE vlan]
    /\ x.vlvfb = [w.vlvfb EXCEPT ![s] = bits]

\* x gives VLANs to pools as w does, but for one pool of one VLAN.
GivesBut(x, w, vlan, p, on) ==
    \A y \in Vlans \ {0} : \A q : Gives(x, y, q) <=> IF y = vlan /\ q = p THEN on ELSE Gives(w, y, q)

\* A slot of w is changed as ixgbe_set_vlvf_generic changes it.
LEMMA SlotChange ==
    ASSUME NEW w, SlotInv(w), NEW vlan \in Vlans \ {0}, NEW p, NEW on \in BOOLEAN, NEW s,
           IsSlotFor(w, vlan, s), NEW x,
           Written(x, w, vlan, s, IF on THEN w.vlvfb[s] \cup {p} ELSE w.vlvfb[s] \ {p})
    PROVE  SlotInv(x) /\ Avail(x, vlan) /\ GivesBut(x, w, vlan, p, on)
  <1> DEFINE bits == IF on THEN w.vlvfb[s] \cup {p} ELSE w.vlvfb[s] \ {p}
  <1>a. /\ DOMAIN x = VFields
        /\ x.vlvf = [w.vlvf EXCEPT ![s] = IF bits = {} THEN NoVlan ELSE vlan]
        /\ x.vlvfb = [w.vlvfb EXCEPT ![s] = bits]
    BY DEF Written
  <1>b. /\ s \in Spare /\ w.vlvf[s] \in {vlan, NoVlan}
        /\ w.vlvf[s] # vlan => \A t \in Spare : w.vlvf[t] # vlan
    BY DEF IsSlotFor
  <1>c. \A q : q \in bits <=> IF q = p THEN on ELSE q \in w.vlvfb[s]
    OBVIOUS
  <1> HIDE DEF bits
  <1>0. s \in Slots  BY <1>b DEF Spare
  <1>1. /\ \A t \in Slots : t # s => x.vlvf[t] = w.vlvf[t] /\ x.vlvfb[t] = w.vlvfb[t]
        /\ x.vlvf[s] = (IF bits = {} THEN NoVlan ELSE vlan)
        /\ x.vlvfb[s] = bits
        /\ x.vlvf = [t \in Slots |-> x.vlvf[t]] /\ x.vlvfb = [t \in Slots |-> x.vlvfb[t]]
    BY <1>0, <1>a DEF SlotInv
  <1>2. Spare \subseteq Slots  BY DEF Spare
  <1>3. NoVlan # vlan /\ NoVlan \notin Vlans  BY VlanAssumption
  <1>4. \A t \in Spare : t # s => w.vlvf[t] # vlan
    BY <1>3, <1>b DEF SlotInv
  <1>5. \A t \in Spare : x.vlvf[t] \in (Vlans \ {0}) \cup {NoVlan}
    BY <1>1, <1>2, <1>b DEF SlotInv
  <1>6. \A t, u \in Spare : x.vlvf[t] = x.vlvf[u] /\ t # u => x.vlvf[t] = NoVlan
    BY <1>1, <1>2, <1>4, <1>b DEF SlotInv
  <1>7. \A t \in Spare : (x.vlvf[t] = NoVlan) <=> (x.vlvfb[t] = {})
    BY <1>1, <1>2, <1>3, <1>b DEF SlotInv
  <1>8. Avail(x, vlan)
    BY <1>1, <1>b DEF Avail
  <1>9. ASSUME NEW y \in Vlans \ {0}, NEW q
        PROVE  Gives(x, y, q) <=> IF y = vlan /\ q = p THEN on ELSE Gives(w, y, q)
    <2>1. CASE y = vlan
      <3>1. Gives(x, y, q) <=> q \in bits
        BY <2>1, <1>1, <1>2, <1>3, <1>4, <1>b DEF Gives
      <3>2. Gives(w, y, q) <=> q \in w.vlvfb[s]
        BY <2>1, <1>2, <1>3, <1>4, <1>b DEF Gives, SlotInv
      <3> QED BY <3>1, <3>2, <2>1, <1>c
    <2>2. CASE y # vlan
      <3>1. ASSUME NEW t \in Spare PROVE (x.vlvf[t] = y /\ q \in x.vlvfb[t]) <=> (w.vlvf[t] = y /\ q \in w.vlvfb[t])
        BY <2>2, <1>1, <1>2, <1>3, <1>b
      <3> QED BY <3>1, <2>2 DEF Gives
    <2> QED BY <2>1, <2>2
  <1> QED BY <1>a, <1>1, <1>5, <1>6, <1>7, <1>8, <1>9 DEF SlotInv, GivesBut

\* Slot 0 is nobody's business.
LEMMA SlotZero ==
    ASSUME NEW w, SlotInv(w), NEW x, DOMAIN x = VFields, NEW y, NEW z,
           x.vlvf = [w.vlvf EXCEPT ![0] = y], x.vlvfb = [w.vlvfb EXCEPT ![0] = z]
    PROVE  SlotInv(x) /\ \A u, q : Gives(x, u, q) <=> Gives(w, u, q)
  <1>0. 0 \in Slots  BY VlanAssumption
  <1>1. \A t \in Spare : x.vlvf[t] = w.vlvf[t] /\ x.vlvfb[t] = w.vlvfb[t]
    BY <1>0 DEF SlotInv, Spare
  <1>2. x.vlvf = [t \in Slots |-> x.vlvf[t]] /\ x.vlvfb = [t \in Slots |-> x.vlvfb[t]]
    BY <1>0 DEF SlotInv
  <1>3. SlotInv(x)
    <2>1. \A t \in Spare : w.vlvf[t] \in (Vlans \ {0}) \cup {NoVlan}  BY DEF SlotInv
    <2>2. \A t, u \in Spare : w.vlvf[t] = w.vlvf[u] /\ t # u => w.vlvf[t] = NoVlan  BY DEF SlotInv
    <2>3. \A t \in Spare : (w.vlvf[t] = NoVlan) <=> (w.vlvfb[t] = {})  BY DEF SlotInv
    <2>4. \A t \in Spare : x.vlvf[t] \in (Vlans \ {0}) \cup {NoVlan}  BY <1>1, <2>1
    <2>5. \A t, u \in Spare : x.vlvf[t] = x.vlvf[u] /\ t # u => x.vlvf[t] = NoVlan  BY <1>1, <2>2
    <2>6. \A t \in Spare : (x.vlvf[t] = NoVlan) <=> (x.vlvfb[t] = {})  BY <1>1, <2>3
    <2> QED BY <1>2, <2>4, <2>5, <2>6 DEF SlotInv
  <1>4. ASSUME NEW u, NEW q PROVE Gives(x, u, q) <=> Gives(w, u, q)
    BY <1>1 DEF Gives
  <1> QED BY <1>3, <1>4

\* What one call of ixgbe_set_vfta_generic leaves alone, pools being on.
Framed(x, w) == DOMAIN x = VFields /\ x.vfe = w.vfe /\ x.vt = w.vt /\ x.shadow = w.shadow

\* ixgbe_set_vfta_generic leaves that alone.
LEMMA VftaFrame ==
    ASSUME NEW w, DOMAIN w = VFields, NEW vlan, NEW p, NEW on
    PROVE  /\ Framed(ixgbe_set_vfta_generic(w, vlan, p, on).v, w)
           /\ ixgbe_set_vfta_generic(w, vlan, p, on).ret \in {"ok", "NO_SPACE"}
  <1>1. Framed(w, w)  BY DEF Framed
  <1>2. ASSUME NEW x, Framed(x, w), NEW t PROVE Framed([x EXCEPT !.vfta = t], w)
    BY <1>2 DEF Framed, VFields
  <1>3. Framed(ixgbe_set_vlvf_generic(w, vlan, p, on), w)
    BY DEF Framed, VFields, ixgbe_set_vlvf_generic
  <1> DEFINE s == ixgbe_find_vlvf_slot(w, vlan)
             x == IF w.vt THEN ixgbe_set_vlvf_generic(w, vlan, p, on) ELSE w
             t == IF on THEN x.vfta \cup {vlan}
                  ELSE IF ~on /\ w.vt /\ x.vlvfb[s] # {} THEN x.vfta ELSE x.vfta \ {vlan}
  <1>4. Framed(x, w)  BY <1>1, <1>3
  <1>5. ixgbe_set_vfta_generic(w, vlan, p, on) =
           IF w.vt /\ s = NoSlot THEN [v |-> w, ret |-> "NO_SPACE"]
           ELSE [v |-> [x EXCEPT !.vfta = t], ret |-> "ok"]
    BY Zenon DEF ixgbe_set_vfta_generic
  <1> HIDE DEF s, x, t
  <1>6. Framed([x EXCEPT !.vfta = t], w)  BY <1>2, <1>4
  <1> QED BY <1>1, <1>5, <1>6

\* One pool of a call: it has its slot and the VLAN is its own afterwards, or
\* there is no slot and nothing is done.
VftaDone(w, o, vlan, p, on) ==
    /\ SlotInv(o.v) /\ (Avail(o.v, vlan) <=> Avail(w, vlan))
    /\ IF Avail(w, vlan)
       THEN o.ret = "ok" /\ GivesBut(o.v, w, vlan, p, on)
       ELSE o.ret # "ok" /\ o.v = w

\* One call of ixgbe_set_vfta_generic: the pool is in or out of the VLAN's slot,
\* or nothing changed.
LEMMA VftaSlots ==
    ASSUME NEW w, SlotInv(w), w.vt, NEW vlan \in Vlans, NEW p, NEW on \in BOOLEAN
    PROVE  VftaDone(w, ixgbe_set_vfta_generic(w, vlan, p, on), vlan, p, on)
  <1> DEFINE s == ixgbe_find_vlvf_slot(w, vlan)
             bits == IF on THEN w.vlvfb[s] \cup {p} ELSE w.vlvfb[s] \ {p}
             x == ixgbe_set_vlvf_generic(w, vlan, p, on)
             t == IF on THEN x.vfta \cup {vlan}
                  ELSE IF ~on /\ w.vt /\ x.vlvfb[s] # {} THEN x.vfta ELSE x.vfta \ {vlan}
             o == ixgbe_set_vfta_generic(w, vlan, p, on)
  <1>1. o = IF w.vt /\ s = NoSlot THEN [v |-> w, ret |-> "NO_SPACE"]
            ELSE [v |-> [x EXCEPT !.vfta = t], ret |-> "ok"]
    BY Zenon DEF ixgbe_set_vfta_generic
  <1>2. /\ vlan = 0 => s = 0
        /\ vlan # 0 /\ s # NoSlot => IsSlotFor(w, vlan, s)
        /\ (s = NoSlot) <=> ~Avail(w, vlan)
    BY FindSlotIs
  <1> SUFFICES VftaDone(w, o, vlan, p, on)
    OBVIOUS
  <1> HIDE DEF o
  <1>3. CASE s = NoSlot
    <2>1. o.v = w /\ o.ret = "NO_SPACE"  BY <1>1, <1>3
    <2> QED BY <2>1, <1>2, <1>3 DEF VftaDone
  <1>4. CASE s # NoSlot
    <2>0. w.vlvf[s] = w.vlvf[s] /\ DOMAIN w = VFields  BY DEF SlotInv
    <2>1. x = [w EXCEPT !.vlvfb[s] = bits, !.vlvf[s] = IF bits = {} THEN NoVlan ELSE vlan]
      BY Zenon DEF ixgbe_set_vlvf_generic
    <2>b. bits = IF on THEN w.vlvfb[s] \cup {p} ELSE w.vlvfb[s] \ {p}  OBVIOUS
    <2> HIDE DEF bits, x, s, t
    <2>2. /\ DOMAIN x = VFields
          /\ x.vlvf = [w.vlvf EXCEPT ![s] = IF bits = {} THEN NoVlan ELSE vlan]
          /\ x.vlvfb = [w.vlvfb EXCEPT ![s] = bits]
      BY <2>0, <2>1 DEF VFields
    <2>3. o.v = [x EXCEPT !.vfta = t] /\ o.ret = "ok"  BY <1>1, <1>4
    <2>4. /\ DOMAIN o.v = VFields
          /\ o.v.vlvf = [w.vlvf EXCEPT ![s] = IF bits = {} THEN NoVlan ELSE vlan]
          /\ o.v.vlvfb = [w.vlvfb EXCEPT ![s] = bits]
      BY <2>2, <2>3 DEF VFields
    <2>5. Avail(w, vlan)  BY <1>2, <1>4
    <2>6. CASE vlan = 0
      <3>1. SlotInv(o.v) /\ \A u, q : Gives(o.v, u, q) <=> Gives(w, u, q)
        <4>1. s = 0  BY <1>2, <2>6
        <4> QED BY <4>1, <2>4, SlotZero
      <3>2. Avail(o.v, vlan)  BY <2>6 DEF Avail
      <3> QED BY <3>1, <3>2, <2>3, <2>5, <2>6 DEF VftaDone, GivesBut
    <2>7. CASE vlan # 0
      <3>0. vlan \in Vlans \ {0}  BY <2>7
      <3>1. IsSlotFor(w, vlan, s)  BY <1>2, <1>4, <2>7
      <3>2. Written(o.v, w, vlan, s, IF on THEN w.vlvfb[s] \cup {p} ELSE w.vlvfb[s] \ {p})
        BY <2>4, <2>b DEF Written
      <3>3. SlotInv(o.v) /\ Avail(o.v, vlan) /\ GivesBut(o.v, w, vlan, p, on)
        BY <3>0, <3>1, <3>2, SlotChange
      <3> QED BY <3>3, <2>3, <2>5 DEF VftaDone
    <2> QED BY <2>6, <2>7
  <1> QED BY <1>3, <1>4

-----------------------------------------------------------------------------
(* The loop of ixgbe_set_pool_vlan_filter over the pools.                  *)

\* Induction over the natural numbers, for a set instead of a predicate.
LEMMA SetInduction ==
    ASSUME NEW S, 0 \in S, \A n \in Nat : n \in S => n + 1 \in S
    PROVE  \A n \in Nat : n \in S
  <1> SUFFICES ASSUME NEW k \in Nat, k \notin S PROVE FALSE
    OBVIOUS
  <1> DEFINE T == {n \in Nat : n \notin S}
  <1>1. PICK x \in T : \A y \in T : x <= y
    <2>1. T \subseteq Nat /\ T # {}  OBVIOUS
    <2> HIDE DEF T
    <2> QED BY <2>1, LeastOf
  <1>2. x \in Nat /\ x # 0  OBVIOUS
  <1>3. x - 1 \in T  BY <1>2
  <1> QED BY <1>1, <1>2, <1>3

\* The two loops of the module: over the pools of a call, over the addresses
\* of a list.  d is what a loop is given.
Round(kind, d, n, x) ==
    IF kind = "pools"
    THEN IF x.ret # "ok" \/ n - 1 \notin d.pools THEN x
         ELSE ixgbe_set_vfta_generic(x.v, d.vlan, n - 1, d.on)
    ELSE ixgbe_add_uc_addr(x, d[n].addr, d[n].pool)
Loop(g, kind, d, z, k) == g = [n \in 0..k |-> IF n = 0 THEN z ELSE Round(kind, d, n, g[n - 1])]
LoopSome(kind, d, z, k) == \E g : Loop(g, kind, d, z, k)

\* There is such a function for any number of rounds.
LEMMA LoopExists ==
    ASSUME NEW kind, NEW d, NEW Z
    PROVE  \A k \in Nat : LoopSome(kind, d, Z, k)
  <1>1. LoopSome(kind, d, Z, 0)
    <2> DEFINE h == [i \in 0..0 |-> Z]
    <2>1. h = [i \in 0..0 |-> IF i = 0 THEN Z ELSE Round(kind, d, i, h[i - 1])]
      OBVIOUS
    <2> HIDE DEF h
    <2>2. Loop(h, kind, d, Z, 0)  BY <2>1 DEF Loop
    <2> QED BY <2>2 DEF LoopSome
  <1>2. ASSUME NEW k \in Nat, LoopSome(kind, d, Z, k) PROVE LoopSome(kind, d, Z, k + 1)
    <2>1. PICK g : Loop(g, kind, d, Z, k)
      BY <1>2 DEF LoopSome
    <2> DEFINE h == [i \in 0..(k + 1) |-> IF i <= k THEN g[i] ELSE Round(kind, d, k + 1, g[k])]
    <2>2. /\ \A i \in 0..k : h[i] = g[i]
          /\ h[k + 1] = Round(kind, d, k + 1, g[k])
          /\ h = [i \in 0..(k + 1) |-> h[i]]
      OBVIOUS
    <2>3. \A i \in 0..k : g[i] = IF i = 0 THEN Z ELSE Round(kind, d, i, g[i - 1])
      BY <2>1 DEF Loop
    <2> HIDE DEF h
    <2>4. ASSUME NEW i \in 0..(k + 1)
          PROVE  h[i] = IF i = 0 THEN Z ELSE Round(kind, d, i, h[i - 1])
      <3>1. CASE i = 0
        <4>1. 0 \in 0..k  OBVIOUS
        <4> QED BY <4>1, <3>1, <2>2, <2>3
      <3>2. CASE i \in 1..k
        <4>0. i \in 0..k /\ i - 1 \in 0..k /\ i # 0  BY <3>2
        <4>1. h[i] = g[i] /\ h[i - 1] = g[i - 1]  BY <4>0, <2>2
        <4> QED BY <4>0, <4>1, <2>3
      <3>3. CASE i = k + 1
        <4>1. i - 1 = k /\ i # 0 /\ k \in 0..k  BY <3>3
        <4>2. h[i - 1] = g[k]  BY <4>1, <2>2
        <4> QED BY <4>1, <4>2, <3>3, <2>2
      <3> QED BY <3>1, <3>2, <3>3
    <2>5. Loop(h, kind, d, Z, k + 1)
      BY <2>4, <2>2, ZenonT(60) DEF Loop
    <2> QED BY <2>5 DEF LoopSome
  <1> DEFINE S == {k \in Nat : LoopSome(kind, d, Z, k)}
  <1>3. 0 \in S /\ \A n \in Nat : n \in S => n + 1 \in S
    BY <1>1, <1>2
  <1>4. \A n \in Nat : n \in S
    <2> HIDE DEF S
    <2> QED BY <1>3, SetInduction
  <1> QED BY <1>4

\* What the definitions choose.
LoopOf(kind, d, z, k) == (CHOOSE g : Loop(g, kind, d, z, k))[k]

\* What is there after n pools of a call that began with w: the fields that
\* no pool changes; the VLAN's slot and its pools.
PoolsFramed(w, n, x) == Framed(x.v, w)
PoolsDone(w, d, n, x) ==
    /\ SlotInv(x.v) /\ x.v.vt /\ (Avail(x.v, d.vlan) <=> Avail(w, d.vlan))
    /\ IF Avail(w, d.vlan)
       THEN /\ x.ret = "ok"
            /\ \A y \in Vlans \ {0} : \A q :
                  Gives(x.v, y, q) <=> IF y = d.vlan /\ q \in d.pools /\ q < n THEN d.on ELSE Gives(w, y, q)
       ELSE x.v = w /\ (x.ret = "ok" => \A q \in d.pools : q >= n)

\* Slot 0, which is VLAN 0's: a record of the slots, and what a call for a VLAN
\* and the pools in S does to slot 0.
SlotShape(w) ==
    /\ DOMAIN w = VFields
    /\ w.vlvf = [s \in Slots |-> w.vlvf[s]] /\ w.vlvfb = [s \in Slots |-> w.vlvfb[s]]

ZeroBut(x, w, vlan, S, on) ==
    /\ \A q : q \in x.vlvfb[0] <=> IF vlan = 0 /\ q \in S THEN on ELSE q \in w.vlvfb[0]
    /\ vlan # 0 \/ S = {} => x.vlvf[0] = w.vlvf[0]
    /\ vlan = 0 /\ S # {} /\ x.vlvfb[0] # {} => x.vlvf[0] = 0

\* After n pools of a call.
ZeroDone(w, d, n, x) ==
    /\ SlotShape(x.v) /\ x.v.vt /\ (d.vlan = 0 => x.ret = "ok")
    /\ ZeroBut(x.v, w, d.vlan, {q \in d.pools : q < n}, d.on)

\* The fields of the address registers.
AFields == {"rar", "mp", "num", "high", "used", "over", "upe", "mpe", "promisc", "allmulti",
            "mta", "mtaShadow", "mtaUse", "uta", "utaShadow", "utaUse", "mfe"}

\* A record of the registers; i is a register the driver may write.
RegShape(x) ==
    /\ DOMAIN x = AFields /\ DOMAIN x.rar = Rars /\ DOMAIN x.mp = Rars
    /\ x.num \in {NumRar - 1, NumRar}

AddrShape(x) ==
    /\ RegShape(x) /\ x.rar[0] = Own
    /\ x.high \in Nat \ {0} /\ x.used \in Nat \ {0} /\ x.over \in Nat

\* All but registers and pools as in w.
RegSame(x, w) ==
    /\ RegShape(x) /\ x.num = w.num /\ x.high = w.high /\ x.used = w.used /\ x.over = w.over
    /\ x.upe = w.upe /\ x.mta = w.mta /\ x.mtaShadow = w.mtaShadow

InRegister(x, addr) == \E i \in Rars : x.rar[i] = addr

\* After n addresses of a list: while no address found the registers full,
\* all of them are in one.
AddrsDone(w, d, n, x) ==
    /\ AddrShape(x) /\ x.mp[0] = w.mp[0] /\ x.upe = w.upe /\ x.high = w.high /\ x.num = w.num
    /\ x.mta = w.mta /\ x.mtaShadow = w.mtaShadow
    /\ x.over = 0 => \A m \in 1..n : \E i \in 1..x.used - 1 : i \in Rars /\ x.rar[i] = d[m].addr

Holds(what, w, d, n, x) ==
    CASE what = "frame" -> PoolsFramed(w, n, x)
      [] what = "slots" -> PoolsDone(w, d, n, x)
      [] what = "zero"  -> ZeroDone(w, d, n, x)
      [] what = "list"  -> AddrsDone(w, d, n, x)

\* What holds of the start of a loop and is kept by its rounds holds at its end.
LEMMA LoopHolds ==
    ASSUME NEW kind, NEW what, NEW w, NEW d, NEW Z, NEW k \in Nat, Holds(what, w, d, 0, Z),
           \A n \in 0..k : \A x : n + 1 <= k /\ Holds(what, w, d, n, x)
                                 => Holds(what, w, d, n + 1, Round(kind, d, n + 1, x))
    PROVE  Holds(what, w, d, k, LoopOf(kind, d, Z, k))
  <1> DEFINE g == CHOOSE y : Loop(y, kind, d, Z, k)
  <1>1. \E y : Loop(y, kind, d, Z, k)
    BY LoopExists DEF LoopSome
  <1>2. Loop(g, kind, d, Z, k)
    BY <1>1
  <1> HIDE DEF g
  <1>3. \A i \in 0..k : g[i] = IF i = 0 THEN Z ELSE Round(kind, d, i, g[i - 1])
    BY <1>2 DEF Loop
  <1> DEFINE S == {n \in Nat : n <= k => Holds(what, w, d, n, g[n])}
  <1>4. 0 \in S
    <2>1. 0 \in 0..k  OBVIOUS
    <2>2. g[0] = Z  BY <1>3, <2>1
    <2> QED BY <2>2
  <1>5. ASSUME NEW n \in Nat, n \in S PROVE n + 1 \in S
    <2> SUFFICES ASSUME n + 1 <= k PROVE Holds(what, w, d, n + 1, g[n + 1])
      OBVIOUS
    <2>1. n + 1 \in 0..k /\ n + 1 # 0 /\ (n + 1) - 1 = n /\ n <= k /\ n \in 0..k  OBVIOUS
    <2>2. g[n + 1] = Round(kind, d, n + 1, g[n])  BY <1>3, <2>1
    <2>3. Holds(what, w, d, n, g[n])  BY <1>5, <2>1
    <2> QED BY <2>1, <2>2, <2>3
  <1>6. \A n \in Nat : n \in S
    <2> HIDE DEF S
    <2> QED BY <1>4, <1>5, SetInduction
  <1>7. Holds(what, w, d, k, g[k])  BY <1>6
  <1> QED BY <1>7 DEF g, LoopOf

\* ixgbe_set_pool_vlan_filter is a loop of this kind.
PoolArgs(vlan, pools, on) == [vlan |-> vlan, pools |-> pools, on |-> on]

\* The loop over the pools is LoopOf.
LEMMA PoolLoop ==
    ASSUME NEW w, w.vt, NEW vlan, NEW pools, NEW on
    PROVE  ixgbe_set_pool_vlan_filter(w, vlan, pools, on) =
              LoopOf("pools", PoolArgs(vlan, pools, on), [v |-> w, ret |-> "ok"], Cardinality(Pools))
  <1> DEFINE d == PoolArgs(vlan, pools, on)
  <1>1. \A n, x : Round("pools", d, n, x) = IF x.ret # "ok" \/ n - 1 \notin pools THEN x
                                            ELSE ixgbe_set_vfta_generic(x.v, vlan, n - 1, on)
    BY DEF Round, PoolArgs
  <1>2. ixgbe_vmdq_mode_check(w)  BY DEF ixgbe_vmdq_mode_check
  <1> HIDE DEF d
  <1> DEFINE z == [v |-> w, ret |-> "ok"]
             K == Cardinality(Pools)
             Is(g) == g = [n \in 0..K |-> IF n = 0 THEN [v |-> w, ret |-> "ok"]
                                          ELSE IF g[n - 1].ret # "ok" \/ n - 1 \notin pools THEN g[n - 1]
                                          ELSE ixgbe_set_vfta_generic(g[n - 1].v, vlan, n - 1, on)]
  <1>3. ixgbe_set_pool_vlan_filter(w, vlan, pools, on) = (CHOOSE g : Is(g))[K]
    BY <1>2 DEF ixgbe_set_pool_vlan_filter
  <1>4. \A g : Loop(g, "pools", d, z, K) <=> Is(g)
    BY <1>1 DEF Loop
  <1> HIDE DEF z, K, Is
  <1>5. (CHOOSE g : Loop(g, "pools", d, z, K)) = (CHOOSE g : Is(g))
    BY <1>4, Zenon
  <1> QED BY <1>3, <1>5 DEF d, z, K, LoopOf

\* The fields no pool of ixgbe_set_pool_vlan_filter changes.
LEMMA PoolFilterFrame ==
    ASSUME NEW w, DOMAIN w = VFields, NEW vlan, NEW pools, NEW on
    PROVE  /\ Framed(ixgbe_set_pool_vlan_filter(w, vlan, pools, on).v, w)
           /\ ~w.vt => ixgbe_set_pool_vlan_filter(w, vlan, pools, on) = [v |-> w, ret |-> "ENOTSUP"]
  <1>1. CASE ~w.vt
    <2>1. ixgbe_set_pool_vlan_filter(w, vlan, pools, on) = [v |-> w, ret |-> "ENOTSUP"]
      BY <1>1, Zenon DEF ixgbe_set_pool_vlan_filter, ixgbe_vmdq_mode_check
    <2> QED BY <2>1 DEF Framed
  <1>2. CASE w.vt
    <2> DEFINE d == PoolArgs(vlan, pools, on)
               Z == [v |-> w, ret |-> "ok"]
    <2>1. Cardinality(Pools) \in Nat  BY VlanAssumption, FS_CardinalityType
    <2>2. Holds("frame", w, d, 0, Z)  BY DEF Holds, PoolsFramed, Framed
    <2>3. ASSUME NEW n \in 0..Cardinality(Pools), NEW x, Holds("frame", w, d, n, x)
          PROVE  Holds("frame", w, d, n + 1, Round("pools", d, n + 1, x))
      <3>1. Framed(x.v, w)  BY <2>3 DEF Holds, PoolsFramed
      <3> DEFINE y == ixgbe_set_vfta_generic(x.v, d.vlan, n + 1 - 1, d.on)
      <3>2. Framed(y.v, w)
        <4>1. Framed(y.v, x.v)  BY <3>1, VftaFrame DEF Framed
        <4> HIDE DEF y
        <4> QED BY <3>1, <4>1 DEF Framed
      <3>3. Round("pools", d, n + 1, x) = IF x.ret # "ok" \/ n + 1 - 1 \notin d.pools THEN x ELSE y
        BY <2>1 DEF Round
      <3> HIDE DEF y, d
      <3>4. Framed(Round("pools", d, n + 1, x).v, w)  BY <3>1, <3>2, <3>3
      <3> QED BY <3>4 DEF Holds, PoolsFramed
    <2> HIDE DEF d, Z
    <2>4. Holds("frame", w, d, Cardinality(Pools), LoopOf("pools", d, Z, Cardinality(Pools)))
      BY <2>1, <2>2, <2>3, LoopHolds
    <2>5. ixgbe_set_pool_vlan_filter(w, vlan, pools, on) = LoopOf("pools", d, Z, Cardinality(Pools))
      BY <1>2, PoolLoop DEF d, Z
    <2> QED BY <1>2, <2>4, <2>5 DEF Holds, PoolsFramed
  <1> QED BY <1>1, <1>2

\* ixgbe_set_pool_vlan_filter does all it is asked to, or nothing.
Asked(w, vlan, pools, on, o) ==
    /\ SlotInv(o.v)
    /\ o.ret = "ok" =>
          \A y \in Vlans \ {0} : \A q :
             Gives(o.v, y, q) <=> IF y = vlan /\ q \in pools THEN on ELSE Gives(w, y, q)
    /\ o.ret # "ok" => o.v = w

\* ixgbe_set_pool_vlan_filter: only its first pool can fail.
LEMMA PoolFilterSlots ==
    ASSUME NEW w, SlotInv(w), NEW vlan \in Vlans, NEW pools \in SUBSET Pools, NEW on \in BOOLEAN
    PROVE  Asked(w, vlan, pools, on, ixgbe_set_pool_vlan_filter(w, vlan, pools, on))
  <1>0. DOMAIN w = VFields  BY DEF SlotInv
  <1>1. CASE ~w.vt
    <2>1. ixgbe_set_pool_vlan_filter(w, vlan, pools, on) = [v |-> w, ret |-> "ENOTSUP"]
      BY <1>0, <1>1, PoolFilterFrame
    <2> QED BY <2>1 DEF Asked
  <1>2. CASE w.vt
    <2> DEFINE d == PoolArgs(vlan, pools, on)
               Z == [v |-> w, ret |-> "ok"]
               K == Cardinality(Pools)
    <2>0. d.vlan = vlan /\ d.pools = pools /\ d.on = on  BY DEF PoolArgs
    <2>1. K \in Nat  BY VlanAssumption, FS_CardinalityType
    <2>2. Holds("slots", w, d, 0, Z)
      <3>1. PoolsDone(w, d, 0, Z)
        <4>1. \A q \in pools : q \in Nat  BY AddrAssumption
        <4>2. \A q \in pools : ~(q < 0) /\ q >= 0  BY <4>1
        <4> QED BY <1>2, <4>2 DEF PoolsDone, PoolArgs
      <3> QED BY <3>1 DEF Holds
    <2> HIDE DEF d, Z, K
    <2>3. ASSUME NEW n \in 0..K, NEW x, n + 1 <= K, Holds("slots", w, d, n, x)
          PROVE  Holds("slots", w, d, n + 1, Round("pools", d, n + 1, x))
      <3> DEFINE y == ixgbe_set_vfta_generic(x.v, d.vlan, n + 1 - 1, d.on)
                 r == Round("pools", d, n + 1, x)
      <3>0. n \in Nat  BY <2>1
      <3>1. PoolsDone(w, d, n, x)  BY <2>3 DEF Holds
      <3>2. r = IF x.ret # "ok" \/ n \notin d.pools THEN x ELSE y
        <4>1. (n + 1) - 1 = n  BY <3>0
        <4> QED BY <4>1 DEF Round
      <3>3. VftaDone(x.v, y, vlan, n, on)
        <4>1. (n + 1) - 1 = n  BY <3>0
        <4>2. SlotInv(x.v) /\ x.v.vt  BY <3>1 DEF PoolsDone
        <4> QED BY <4>1, <4>2, <2>0, VftaSlots
      <3>4. y.v.vt
        <4>1. DOMAIN x.v = VFields /\ x.v.vt  BY <3>1 DEF PoolsDone, SlotInv
        <4> QED BY <4>1, VftaFrame DEF Framed
      <3> HIDE DEF y, r
      <3>5. PoolsDone(w, d, n + 1, r)
        <4>1. CASE n \notin d.pools
          <5>1. r = x  BY <3>2, <4>1
          <5>2. \A q \in d.pools : q < n <=> q < n + 1
            <6>1. \A q \in d.pools : q \in Nat /\ q # n  BY <4>1, <2>0, AddrAssumption
            <6> QED BY <6>1, <3>0
          <5>3. \A q \in d.pools : q >= n => q >= n + 1
            <6>1. \A q \in d.pools : q \in Nat /\ q # n  BY <4>1, <2>0, AddrAssumption
            <6> QED BY <6>1, <3>0
          <5> QED BY <5>1, <5>2, <5>3, <3>1 DEF PoolsDone
        <4>2. CASE n \in d.pools /\ Avail(w, d.vlan)
          <5>1. x.ret = "ok" /\ r = y  BY <3>1, <3>2, <4>2 DEF PoolsDone
          <5>2. Avail(x.v, vlan)  BY <3>1, <4>2, <2>0 DEF PoolsDone
          <5>3. SlotInv(y.v) /\ Avail(y.v, vlan) /\ y.ret = "ok" /\ GivesBut(y.v, x.v, vlan, n, on)
            BY <3>3, <5>2 DEF VftaDone
          <5>4. ASSUME NEW u \in Vlans \ {0}, NEW q
                PROVE  Gives(y.v, u, q) <=> IF u = d.vlan /\ q \in d.pools /\ q < n + 1 THEN d.on ELSE Gives(w, u, q)
            <6>1. Gives(y.v, u, q) <=> IF u = vlan /\ q = n THEN on ELSE Gives(x.v, u, q)
              BY <5>3 DEF GivesBut
            <6>2. Gives(x.v, u, q) <=> IF u = d.vlan /\ q \in d.pools /\ q < n THEN d.on ELSE Gives(w, u, q)
              BY <3>1, <4>2 DEF PoolsDone
            <6>3. q \in d.pools => q \in Nat  BY <2>0, AddrAssumption
            <6>4. q \in d.pools => ((q < n + 1) <=> (q < n \/ q = n))  BY <6>3, <3>0
            <6> QED BY <6>1, <6>2, <6>4, <4>2, <2>0
          <5> QED BY <5>1, <5>3, <5>4, <3>4, <4>2, <2>0 DEF PoolsDone
        <4>3. CASE n \in d.pools /\ ~Avail(w, d.vlan)
          <5>1. x.v = w /\ ~Avail(x.v, vlan)  BY <3>1, <4>3, <2>0 DEF PoolsDone
          <5>2. CASE x.ret # "ok"
            <6>1. r = x  BY <5>2, <3>2
            <6> QED BY <6>1, <5>2, <3>1, <4>3 DEF PoolsDone
          <5>3. CASE x.ret = "ok"
            <6>1. r = y  BY <5>3, <3>2, <4>3
            <6>2. y.ret # "ok" /\ y.v = x.v  BY <3>3, <5>1 DEF VftaDone
            <6> QED BY <6>1, <6>2, <5>1, <3>1, <4>3 DEF PoolsDone
          <5> QED BY <5>2, <5>3
        <4> QED BY <4>1, <4>2, <4>3
      <3> QED BY <3>5 DEF Holds, r
    <2>4. Holds("slots", w, d, K, LoopOf("pools", d, Z, K))
      BY <2>1, <2>2, <2>3, LoopHolds
    <2> DEFINE o == LoopOf("pools", d, Z, K)
    <2>5. ixgbe_set_pool_vlan_filter(w, vlan, pools, on) = o
      BY <1>2, PoolLoop DEF d, Z, K
    <2> HIDE DEF o
    <2>6. PoolsDone(w, d, K, o)  BY <2>4 DEF Holds, o
    <2>7. \A q \in Pools : q < K  BY <2>1, VlanAssumption DEF K
    <2>8. Asked(w, vlan, pools, on, o)
      <3>1. CASE Avail(w, d.vlan)
        BY <3>1, <2>6, <2>7, <2>0 DEF PoolsDone, Asked
      <3>2. CASE ~Avail(w, d.vlan)
        <4>1. o.v = w /\ SlotInv(o.v)  BY <3>2, <2>6 DEF PoolsDone
        <4>2. o.ret = "ok" => pools = {}
          <5>1. o.ret = "ok" => \A q \in pools : q >= K  BY <3>2, <2>6, <2>0 DEF PoolsDone
          <5>2. \A q \in pools : q \in Nat /\ ~(q >= K)  BY <2>1, <2>7, AddrAssumption
          <5> QED BY <5>1, <5>2
        <4> QED BY <4>1, <4>2 DEF Asked
      <3> QED BY <3>1, <3>2
    <2> QED BY <2>5, <2>8
  <1> QED BY <1>1, <1>2

\* One call of ixgbe_set_vfta_generic.
ZeroStep(o, w, vlan, p, on) ==
    SlotShape(o.v) /\ o.v.vt /\ (vlan = 0 => o.ret = "ok") /\ ZeroBut(o.v, w, vlan, {p}, on)

\* It writes slot 0 for VLAN 0 only.
LEMMA VftaZero ==
    ASSUME NEW w, SlotShape(w), w.vt, NEW vlan, NEW p, NEW on \in BOOLEAN
    PROVE  ZeroStep(ixgbe_set_vfta_generic(w, vlan, p, on), w, vlan, p, on)
  <1> DEFINE s == ixgbe_find_vlvf_slot(w, vlan)
             bits == IF on THEN w.vlvfb[s] \cup {p} ELSE w.vlvfb[s] \ {p}
             x == ixgbe_set_vlvf_generic(w, vlan, p, on)
             t == IF on THEN x.vfta \cup {vlan}
                  ELSE IF ~on /\ w.vt /\ x.vlvfb[s] # {} THEN x.vfta ELSE x.vfta \ {vlan}
             o == ixgbe_set_vfta_generic(w, vlan, p, on)
  <1>0. 0 \in Slots  BY VlanAssumption
  <1>1. o = IF w.vt /\ s = NoSlot THEN [v |-> w, ret |-> "NO_SPACE"]
            ELSE [v |-> [x EXCEPT !.vfta = t], ret |-> "ok"]
    BY Zenon DEF ixgbe_set_vfta_generic
  <1>2. /\ vlan = 0 => s = 0 /\ s # NoSlot
        /\ vlan # 0 /\ s # NoSlot => s \in Slots /\ s # 0
    <2>1. /\ vlan = 0 => s = 0
          /\ vlan # 0 /\ s # NoSlot => IsSlotFor(w, vlan, s)
          /\ (s = NoSlot) <=> ~Avail(w, vlan)
      BY FindSlotIs
    <2> HIDE DEF s
    <2> QED BY <2>1 DEF IsSlotFor, Spare, Avail
  <1>3. x = [w EXCEPT !.vlvfb[s] = bits, !.vlvf[s] = IF bits = {} THEN NoVlan ELSE vlan]
    BY Zenon DEF ixgbe_set_vlvf_generic
  <1>b. \A q : q \in bits <=> IF q = p THEN on ELSE q \in w.vlvfb[s]
    OBVIOUS
  <1> SUFFICES ZeroStep(o, w, vlan, p, on)
    OBVIOUS
  <1> HIDE DEF o, bits, x, s, t
  <1>4. CASE s = NoSlot
    <2>1. o.v = w /\ vlan # 0  BY <1>1, <1>2, <1>4
    <2> QED BY <2>1 DEF ZeroStep, ZeroBut
  <1>5. CASE s # NoSlot
    <2>0. s \in Slots  BY <1>0, <1>2, <1>5
    <2>1. /\ DOMAIN x = VFields /\ x.vt = w.vt
          /\ x.vlvf = [w.vlvf EXCEPT ![s] = IF bits = {} THEN NoVlan ELSE vlan]
          /\ x.vlvfb = [w.vlvfb EXCEPT ![s] = bits]
      BY <1>3 DEF VFields, SlotShape
    <2>2. o.v = [x EXCEPT !.vfta = t] /\ o.ret = "ok"  BY <1>1, <1>5
    <2>u. /\ DOMAIN o.v = VFields /\ o.v.vt = x.vt
          /\ o.v.vlvf = x.vlvf /\ o.v.vlvfb = x.vlvfb
      <3>1. DOMAIN x = VFields  BY <2>1
      <3>2. o.v = [x EXCEPT !.vfta = t]  BY <2>2
      <3> QED BY ONLY <3>1, <3>2 DEF VFields
    <2>3. /\ DOMAIN o.v = VFields /\ o.v.vt = w.vt
          /\ o.v.vlvf = [w.vlvf EXCEPT ![s] = IF bits = {} THEN NoVlan ELSE vlan]
          /\ o.v.vlvfb = [w.vlvfb EXCEPT ![s] = bits]
      BY <2>1, <2>u
    <2>m. /\ w.vlvf = [q \in Slots |-> w.vlvf[q]]
          /\ w.vlvfb = [q \in Slots |-> w.vlvfb[q]]
      BY DEF SlotShape
    <2>n. o.v.vlvf = [q \in Slots |-> o.v.vlvf[q]]  BY <2>3, <2>m
    <2>k. o.v.vlvfb = [q \in Slots |-> o.v.vlvfb[q]]  BY <2>3, <2>m
    <2>4. SlotShape(o.v)  BY <2>3, <2>n, <2>k DEF SlotShape
    <2>5. CASE vlan = 0
      <3>1. s = 0 /\ o.v.vlvfb[0] = bits /\ o.v.vlvf[0] = IF bits = {} THEN NoVlan ELSE 0
        BY <1>0, <1>2, <2>3, <2>5 DEF SlotShape
      <3> QED BY <1>b, <2>2, <2>3, <2>4, <2>5, <3>1 DEF ZeroStep, ZeroBut
    <2>6. CASE vlan # 0
      <3>1. o.v.vlvfb[0] = w.vlvfb[0] /\ o.v.vlvf[0] = w.vlvf[0]
        BY <1>0, <1>2, <1>5, <2>3, <2>6 DEF SlotShape
      <3> QED BY <2>2, <2>3, <2>4, <2>6, <3>1 DEF ZeroStep, ZeroBut
    <2> QED BY <2>5, <2>6
  <1> QED BY <1>4, <1>5

\* One pool more.
LEMMA ZeroMore ==
    ASSUME NEW w, NEW x, NEW y, NEW vlan, NEW on \in BOOLEAN, NEW S, NEW p, NEW T,
           ZeroBut(x, w, vlan, S, on), ZeroBut(y, x, vlan, {p}, on),
           \A q : q \in T <=> q \in S \/ q = p
    PROVE  ZeroBut(y, w, vlan, T, on)
  <1>1. \A q : q \in y.vlvfb[0] <=> IF vlan = 0 /\ q \in T THEN on ELSE q \in w.vlvfb[0]
    BY DEF ZeroBut
  <1>2. T # {}  OBVIOUS
  <1>3. vlan # 0 => y.vlvf[0] = w.vlvf[0]  BY DEF ZeroBut
  <1>4. vlan = 0 /\ y.vlvfb[0] # {} => y.vlvf[0] = 0  BY DEF ZeroBut
  <1> QED BY <1>1, <1>2, <1>3, <1>4 DEF ZeroBut

\* ixgbe_set_pool_vlan_filter writes slot 0 for VLAN 0 only, and then as asked.
LEMMA PoolFilterZero ==
    ASSUME NEW w, SlotShape(w), w.vt, NEW vlan, NEW pools \in SUBSET Pools, NEW on \in BOOLEAN
    PROVE  ZeroBut(ixgbe_set_pool_vlan_filter(w, vlan, pools, on).v, w, vlan, pools, on)
  <1> DEFINE d == PoolArgs(vlan, pools, on)
             Z == [v |-> w, ret |-> "ok"]
             K == Cardinality(Pools)
  <1>0. d.vlan = vlan /\ d.pools = pools /\ d.on = on  BY DEF PoolArgs
  <1>1. K \in Nat  BY VlanAssumption, FS_CardinalityType
  <1>b. Pools = 0 .. K - 1  BY VlanAssumption
  <1>a. \A q \in pools : q \in Nat /\ q < K
    <2> HIDE DEF K
    <2> QED BY <1>1, <1>b
  <1>2. Holds("zero", w, d, 0, Z)
    <2>1. \A q \in pools : ~(q < 0)  BY <1>a
    <2>2. ZeroBut(w, w, vlan, {q \in pools : q < 0}, on)  BY <2>1 DEF ZeroBut
    <2>3. Z.v = w /\ Z.ret = "ok"  OBVIOUS
    <2> HIDE DEF d, Z
    <2>4. ZeroDone(w, d, 0, Z)  BY <1>0, <2>2, <2>3 DEF ZeroDone
    <2> QED BY <2>4 DEF Holds
  <1> HIDE DEF d, Z, K
  <1>3. ASSUME NEW n \in 0..K, NEW x, n + 1 <= K, Holds("zero", w, d, n, x)
        PROVE  Holds("zero", w, d, n + 1, Round("pools", d, n + 1, x))
    <2> DEFINE y == ixgbe_set_vfta_generic(x.v, d.vlan, n + 1 - 1, d.on)
               z == Round("pools", d, n + 1, x)
    <2>0. n \in Nat /\ (n + 1) - 1 = n  BY <1>1
    <2>1. ZeroDone(w, d, n, x)  BY <1>3 DEF Holds
    <2>2. z = IF x.ret # "ok" \/ n \notin d.pools THEN x ELSE y  BY <2>0 DEF Round
    <2>3. ZeroStep(y, x.v, vlan, n, on)
      BY <1>0, <2>0, <2>1, VftaZero DEF ZeroDone
    <2> HIDE DEF y, z
    <2>4. ZeroDone(w, d, n + 1, z)
      <3>1. CASE n \notin d.pools
        <4>1. z = x  BY <2>2, <3>1
        <4>2. {q \in d.pools : q < n} = {q \in d.pools : q < n + 1}
          <5>1. \A q \in d.pools : q \in Nat /\ q # n  BY <3>1, <1>0, <1>a
          <5>2. \A q \in d.pools : q < n <=> q < n + 1  BY <5>1, <2>0
          <5> QED BY <5>2
        <4> QED BY <2>1, <4>1, <4>2 DEF ZeroDone
      <3>2. CASE n \in d.pools /\ x.ret # "ok"
        <4>1. z = x /\ d.vlan # 0  BY <2>1, <2>2, <3>2 DEF ZeroDone
        <4>2. ZeroBut(x.v, w, d.vlan, {q \in d.pools : q < n + 1}, d.on)
          BY <2>1, <4>1 DEF ZeroDone, ZeroBut
        <4> QED BY <2>1, <4>1, <4>2 DEF ZeroDone
      <3>3. CASE n \in d.pools /\ x.ret = "ok"
        <4>1. z = y  BY <2>2, <3>3
        <4> DEFINE S == {q \in d.pools : q < n}
                   T == {q \in d.pools : q < n + 1}
        <4>2. \A q : q \in T <=> q \in S \/ q = n
          <5>1. \A q \in d.pools : q \in Nat  BY <1>0, <1>a
          <5>2. \A q \in d.pools : q < n + 1 <=> q < n \/ q = n  BY <5>1, <2>0
          <5>3. n < n + 1  BY <2>0
          <5> QED BY <5>2, <5>3, <3>3
        <4>3. ZeroBut(x.v, w, vlan, S, on)  BY <2>1, <1>0 DEF ZeroDone
        <4>4. ZeroBut(y.v, x.v, vlan, {n}, on) /\ SlotShape(y.v) /\ y.v.vt /\ (vlan = 0 => y.ret = "ok")
          BY <2>3 DEF ZeroStep
        <4> HIDE DEF S, T
        <4>5. ZeroBut(y.v, w, vlan, T, on)
          <5> DEFINE yv == y.v
                     xv == x.v
          <5>1. ZeroBut(xv, w, vlan, S, on)  BY <4>3
          <5>2. ZeroBut(yv, xv, vlan, {n}, on)  BY <4>4
          <5> HIDE DEF yv, xv
          <5>3. ZeroBut(yv, w, vlan, T, on)  BY <4>2, <5>1, <5>2, ZeroMore
          <5> QED BY <5>3 DEF yv
        <4> QED BY <1>0, <4>1, <4>4, <4>5 DEF ZeroDone, T
      <3> QED BY <3>1, <3>2, <3>3
    <2> QED BY <2>4 DEF Holds, z
  <1>4. Holds("zero", w, d, K, LoopOf("pools", d, Z, K))
    BY <1>1, <1>2, <1>3, LoopHolds
  <1> DEFINE o == LoopOf("pools", d, Z, K)
  <1>5. ixgbe_set_pool_vlan_filter(w, vlan, pools, on) = o
    BY PoolLoop DEF d, Z, K
  <1> HIDE DEF o
  <1>6. ZeroDone(w, d, K, o)  BY <1>4 DEF Holds, o
  <1>7. {q \in d.pools : q < K} = pools  BY <1>0, <1>a
  <1> QED BY <1>0, <1>5, <1>6, <1>7 DEF ZeroDone

-----------------------------------------------------------------------------
(* The stages of a start.                                                  *)

SFields == {"a", "v", "f", "asked"}
KFields == {"addr", "mc", "vlan", "open", "granted", "first", "taken", "upeOff"}

IsState(s) == DOMAIN s = SFields /\ DOMAIN s.asked = KFields

\* What was asked of pools, of VLANs and pools, and of addresses.
SamePoolsAsked(k, l) == k.granted = l.granted /\ k.first = l.first /\ k.taken = l.taken
SameVlansAsked(k, l) == k.vlan = l.vlan /\ k.open = l.open /\ SamePoolsAsked(k, l)
SameAddrsAsked(k, l) == k.addr = l.addr /\ k.mc = l.mc /\ k.upeOff = l.upeOff

ResetTo(x, s) ==
    /\ IsState(x)
    /\ x.a = AddrReset(s.a) /\ x.v = VlanReset(s.v) /\ x.f = NewFdir
    /\ SameVlansAsked(x.asked, s.asked)
    /\ x.asked.addr = {Own} /\ x.asked.mc = {} /\ x.asked.upeOff = FALSE

\* ixgbe_pf_reset_hw, field by field.
LEMMA ResetIs ==
    ASSUME NEW s, IsState(s)
    PROVE  ResetTo(ResetFilters(s), s)
  BY DEF ResetTo, IsState, SFields, KFields, ResetFilters, FdirReset, SameVlansAsked, SamePoolsAsked

\* No pool was granted a VLAN.
NoneGranted(k) == k.granted = {} /\ k.first = {} /\ k.taken = FALSE

HostTo(x, s) ==
    /\ IsState(x)
    /\ x.a = HostAddr(s.a, vfs)
    /\ x.v = ixgbe_pf_host_configure(ixgbe_clear_vfta_generic(s.v), vfs) /\ x.f = s.f
    /\ x.asked.vlan = s.asked.vlan /\ x.asked.open = {} /\ NoneGranted(x.asked)
    /\ SameAddrsAsked(x.asked, s.asked)

\* start_hw and ixgbe_pf_host_configure, field by field.
LEMMA HostFiltersIs ==
    ASSUME NEW s, IsState(s)
    PROVE  HostTo(HostFilters(s), s)
  BY DEF HostTo, IsState, SFields, KFields, HostFilters, SameAddrsAsked, NoneGranted

\* Nothing is different that the properties speak of.
SameFilters(x, s) ==
    IsState(x) /\ x.a = s.a /\ x.f = s.f /\ x.asked = s.asked /\ SameVlan(x.v, s.v)

\* The half of a slot that a configuration with pools writes.
HalvesOf(c) == IF c.mq = "vmdq" THEN VmdqHalves(c.map) ELSE DcbHalves(c.map)

PoolTo(x, s, c) ==
    /\ IsState(x) /\ x.a = [s.a EXCEPT !.mp[0] = Pools] /\ x.f = s.f
    /\ VmdqSet(x.v, s.v, c.map, HalvesOf(c))
    /\ x.asked = MapAsked(s.asked, c.map, HalvesOf(c))
    /\ c.mq \in {"vmdq", "vmdq_dcb"}

\* Nothing, or the pools of a configuration.
PooledTo(x, s, c) == SameFilters(x, s) \/ PoolTo(x, s, c)

\* What is granted by the entries in ns of a map; the first entry, if it is
\* not VLAN 0's, counts for itself.
GrantedBy(map, half, ns) == UNION {{map[n].vlan} \X (map[n].pools \cap half[n]) : n \in ns}
FirstOf(map) == {n \in {1} \cap DOMAIN map : map[n].vlan # 0}

MapAskedTo(l, k, map, half) ==
    /\ DOMAIN l = KFields /\ l.vlan = k.vlan /\ l.open = k.open /\ SameAddrsAsked(l, k)
    /\ l.taken = FALSE
    /\ l.granted = GrantedBy(map, half, DOMAIN map \ FirstOf(map))
    /\ l.first = GrantedBy(map, half, FirstOf(map))

\* What is asked when a map is written, field by field.
LEMMA MapAskedIs ==
    ASSUME NEW k, DOMAIN k = KFields, NEW map, NEW half
    PROVE  MapAskedTo(MapAsked(k, map, half), k, map, half)
  <1> DEFINE G == GrantedBy(map, half, DOMAIN map \ FirstOf(map))
             F == GrantedBy(map, half, FirstOf(map))
             l == MapAsked(k, map, half)
  <1>1. l = [k EXCEPT !.granted = G, !.first = F, !.taken = FALSE]
    BY Zenon DEF MapAsked, GrantedBy, FirstOf
  <1> HIDE DEF G, F, l
  <1>2. /\ DOMAIN l = KFields /\ l.vlan = k.vlan /\ l.open = k.open /\ SameAddrsAsked(l, k)
        /\ l.taken = FALSE /\ l.granted = G /\ l.first = F
    BY <1>1 DEF KFields, SameAddrsAsked
  <1>3. MapAskedTo(l, k, map, half)
    BY <1>2, Zenon DEF MapAskedTo, G, F
  <1> QED BY <1>3 DEF l

\* The pools of a configuration, when it has any.
LEMMA PoolFiltersIs ==
    ASSUME NEW s, IsState(s), DOMAIN s.v = VFields, NEW c
    PROVE  /\ PooledTo(PoolFilters(s, c), s, c)
           /\ c.mq = "vmdq" => PoolTo(PoolFilters(s, c), s, c)
  <1> DEFINE x == PoolFilters(s, c)
  <1>1. ASSUME NEW w, NEW half, VmdqSet(w, s.v, c.map, half), half = HalvesOf(c),
               c.mq \in {"vmdq", "vmdq_dcb"},
               x = [s EXCEPT !.a.mp[0] = Pools, !.v = w, !.asked = MapAsked(@, c.map, half)]
        PROVE  PoolTo(x, s, c)
    <2> DEFINE k == MapAsked(s.asked, c.map, half)
    <2>1. DOMAIN k = KFields
      <3>1. MapAskedTo(k, s.asked, c.map, half)  BY MapAskedIs, Zenon DEF IsState
      <3> QED BY <3>1, Zenon DEF MapAskedTo
    <2>2. x = [s EXCEPT !.a.mp[0] = Pools, !.v = w, !.asked = k]  BY <1>1, Zenon
    <2> HIDE DEF k, x
    <2>3. /\ IsState(x) /\ x.a = [s.a EXCEPT !.mp[0] = Pools] /\ x.f = s.f /\ x.v = w /\ x.asked = k
      BY <2>1, <2>2 DEF IsState, SFields
    <2> QED BY <1>1, <2>3 DEF PoolTo, k
  <1>2. CASE c.mq = "vmdq"
    <2>1. x = [s EXCEPT !.a.mp[0] = Pools, !.v = VmdqVlans(@, c),
                        !.asked = MapAsked(@, c.map, VmdqHalves(c.map))]
      BY <1>2, Zenon DEF PoolFilters
    <2>2. VmdqSet(VmdqVlans(s.v, c), s.v, c.map, VmdqHalves(c.map))  BY VmdqIs
    <2>3. VmdqHalves(c.map) = HalvesOf(c)  BY <1>2 DEF HalvesOf
    <2>4. PoolTo(x, s, c)  BY <1>1, <1>2, <2>1, <2>2, <2>3, Zenon
    <2> QED BY <2>4, Zenon DEF PooledTo
  <1>3. CASE c.mq # "vmdq" /\ c.mq = "vmdq_dcb" /\ c.num \in {SomePools, HalfPools}
    <2>1. x = [s EXCEPT !.a.mp[0] = Pools, !.v = ixgbe_vmdq_dcb_configure(@, c),
                        !.asked = MapAsked(@, c.map, DcbHalves(c.map))]
      BY <1>3, Zenon DEF PoolFilters
    <2>2. VmdqSet(ixgbe_vmdq_dcb_configure(s.v, c), s.v, c.map, DcbHalves(c.map))  BY <1>3, VmdqIs
    <2>3. DcbHalves(c.map) = HalvesOf(c)  BY <1>3 DEF HalvesOf
    <2>4. PoolTo(x, s, c)  BY <1>1, <1>3, <2>1, <2>2, <2>3, Zenon
    <2> QED BY <2>4, Zenon DEF PooledTo
  <1>4. CASE c.mq # "vmdq" /\ ~(c.mq = "vmdq_dcb" /\ c.num \in {SomePools, HalfPools})
    <2>1. x = s  BY <1>4, Zenon DEF PoolFilters
    <2> HIDE DEF x
    <2>2. SameFilters(x, s)  BY <2>1 DEF SameFilters, SameVlan
    <2> QED BY <1>4, <2>2 DEF PooledTo, x
  <1> QED BY <1>2, <1>3, <1>4

\* A change that does not matter before or after the pools are written.
LEMMA PooledSame ==
    ASSUME NEW s, IsState(s), DOMAIN s.v = VFields, NEW t, SameFilters(t, s), NEW c, NEW x
    PROVE  /\ PooledTo(x, t, c) => PooledTo(x, s, c)
           /\ PoolTo(x, t, c) => PoolTo(x, s, c)
  <1>1. PoolTo(x, t, c) => PoolTo(x, s, c)
    <2> SUFFICES ASSUME PoolTo(x, t, c) PROVE PoolTo(x, s, c)
      OBVIOUS
    <2>1. /\ t.a = s.a /\ t.f = s.f /\ t.asked = s.asked
          /\ t.v.shadow = s.v.shadow /\ t.v.vlvf = s.v.vlvf /\ t.v.vlvfb = s.v.vlvfb
      BY DEF SameFilters, SameVlan
    <2>2. VmdqSet(x.v, s.v, c.map, HalvesOf(c))
      BY <2>1 DEF PoolTo, VmdqSet
    <2> QED BY <2>1, <2>2 DEF PoolTo
  <1>2. SameFilters(x, t) => SameFilters(x, s)
    BY DEF SameFilters, SameVlan
  <1> QED BY <1>1, <1>2 DEF PooledTo

\* ixgbe_dev_mq_tx_configure and ixgbe_dev_mq_rx_configure.
LEMMA ModeIs ==
    ASSUME NEW s, IsState(s), DOMAIN s.v = VFields, NEW c
    PROVE  /\ PooledTo(ModeFilters(s, c), s, c)
           /\ vfs # 0 => ModeFilters(s, c) = s
           /\ vfs = 0 /\ c.mq = "vmdq" => PoolTo(ModeFilters(s, c), s, c)
  <1> DEFINE tx == IF c.tx = "vmdq" THEN [s EXCEPT !.v = ixgbe_vmdq_tx_hw_configure(@)] ELSE s
  <1>1. ModeFilters(s, c) = IF vfs # 0 THEN s ELSE PoolFilters(tx, c)
    BY Zenon DEF ModeFilters
  <1>2. SameFilters(s, s)  BY DEF SameFilters, SameVlan
  <1>3. SameFilters(tx, s) /\ DOMAIN tx.v = VFields /\ IsState(tx)
    <2> DEFINE w == ixgbe_vmdq_tx_hw_configure(s.v)
               y == [s EXCEPT !.v = w]
    <2>1. SameVlan(w, s.v)  BY TxIs
    <2> HIDE DEF w
    <2>2. y.v = w /\ y.a = s.a /\ y.f = s.f /\ y.asked = s.asked /\ IsState(y)
      BY DEF IsState, SFields
    <2> HIDE DEF y
    <2>3. SameFilters(y, s)  BY <2>1, <2>2 DEF SameFilters
    <2>4. tx = IF c.tx = "vmdq" THEN y ELSE s  BY DEF y, w
    <2> HIDE DEF tx
    <2> QED BY <1>2, <2>3, <2>4 DEF SameFilters, SameVlan
  <1> HIDE DEF tx
  <1>4. PooledTo(PoolFilters(tx, c), tx, c) /\ (c.mq = "vmdq" => PoolTo(PoolFilters(tx, c), tx, c))
    BY <1>3, PoolFiltersIs
  <1>5. PooledTo(PoolFilters(tx, c), s, c) /\ (c.mq = "vmdq" => PoolTo(PoolFilters(tx, c), s, c))
    BY <1>3, <1>4, PooledSame
  <1> QED BY <1>1, <1>2, <1>5 DEF PooledTo

OffloadTo(x, s, c) ==
    /\ IsState(x) /\ x.a = s.a /\ x.f = s.f
    /\ x.asked.vlan = s.asked.vlan /\ SamePoolsAsked(x.asked, s.asked) /\ SameAddrsAsked(x.asked, s.asked)
    /\ DOMAIN x.v = VFields /\ x.v.vt = s.v.vt /\ x.v.shadow = s.v.shadow
    /\ x.v.vlvf = s.v.vlvf /\ x.v.vlvfb = s.v.vlvfb
    /\ x.v.vfta = (IF c.filter THEN s.v.shadow ELSE s.v.vfta)
    /\ c.mq # "vmdq" /\ ~c.filter => x.v.vfe = FALSE

\* The VLAN offloads of a start, field by field.
LEMMA OffloadFiltersIs ==
    ASSUME NEW s, IsState(s), DOMAIN s.v = VFields, NEW c
    PROVE  OffloadTo(OffloadFilters(s, c), s, c)
  <1> DEFINE x == OffloadFilters(s, c)
             m == {"strip", "filter", "extend"}
             w == ixgbe_vlan_offload_set(s.v, m, c)
             u == IF c.mq = "vmdq" THEN ixgbe_vmdq_vlan_hw_filter_enable(w) ELSE w
             o == IF c.filter THEN {} ELSE s.asked.open
  <1>1. /\ DOMAIN w = VFields /\ w.vt = s.v.vt
        /\ c.filter => w.vfe = TRUE
        /\ ~c.filter => w.vfe = FALSE
        /\ w.vfta = (IF c.filter THEN s.v.shadow ELSE s.v.vfta)
        /\ w.shadow = s.v.shadow /\ w.vlvf = s.v.vlvf /\ w.vlvfb = s.v.vlvfb
    <2>1. "filter" \in m  OBVIOUS
    <2> HIDE DEF m
    <2>2. Offloaded(w, s.v, m, c)  BY OffloadIs
    <2> HIDE DEF w
    <2> QED BY <2>1, <2>2 DEF Offloaded
  <1>2. x = [s EXCEPT !.v = u, !.asked.open = o]  BY Zenon DEF OffloadFilters
  <1> HIDE DEF w
  <1>3. /\ DOMAIN u = VFields /\ u.vt = w.vt /\ u.vfta = w.vfta /\ u.shadow = w.shadow
        /\ u.vlvf = w.vlvf /\ u.vlvfb = w.vlvfb
        /\ u.vfe = IF c.mq = "vmdq" THEN TRUE ELSE w.vfe
    BY <1>1 DEF ixgbe_vmdq_vlan_hw_filter_enable, VFields
  <1> HIDE DEF u, x, o
  <1>4. /\ x.v = u /\ x.a = s.a /\ x.f = s.f /\ IsState(x)
        /\ x.asked.vlan = s.asked.vlan /\ SamePoolsAsked(x.asked, s.asked) /\ SameAddrsAsked(x.asked, s.asked)
    BY <1>2 DEF IsState, SFields, KFields, SamePoolsAsked, SameAddrsAsked
  <1>5. OffloadTo(x, s, c)  BY <1>1, <1>3, <1>4 DEF OffloadTo
  <1> QED BY <1>5 DEF x

\* Every VLAN passes, and the callers must know.
OpenTo(x, s) ==
    /\ IsState(x) /\ x.a = s.a /\ x.f = s.f /\ DcbSet(x.v, s.v)
    /\ x.asked.vlan = s.asked.vlan /\ x.asked.open = Vlans
    /\ SamePoolsAsked(x.asked, s.asked) /\ SameAddrsAsked(x.asked, s.asked)

\* ixgbe_configure_dcb: nothing, the pools again, or every VLAN.
LEMMA DcbIs ==
    ASSUME NEW s, IsState(s), DOMAIN s.v = VFields, NEW c
    PROVE  PooledTo(DcbFilters(s, c), s, c) \/ OpenTo(DcbFilters(s, c), s)
  <1> DEFINE p == PoolFilters(s, c)
             w == ixgbe_dcb_rx_hw_config(s.v, c)
             y == [s EXCEPT !.v = w, !.asked.open = Vlans]
             rx == IF c.mq = "vmdq_dcb" THEN p ELSE y
             tw == ixgbe_vmdq_dcb_hw_tx_config(rx.v, c)
             tx == IF c.tx = "vmdq_dcb" THEN [rx EXCEPT !.v = tw] ELSE rx
             x == DcbFilters(s, c)
  <1>1. x = IF c.mq \notin {"vmdq_dcb", "dcb"} \/ c.queues # ETH_DCB_NUM_QUEUES THEN s ELSE tx
    BY Zenon DEF DcbFilters
  <1>2. SameFilters(s, s)  BY DEF SameFilters, SameVlan
  <1>3. PooledTo(p, s, c)  BY PoolFiltersIs
  <1>4. OpenTo(y, s)
    <2>1. DcbSet(w, s.v)  BY DcbSetIs
    <2> HIDE DEF w
    <2>2. /\ y.v = w /\ y.a = s.a /\ y.f = s.f /\ IsState(y)
          /\ y.asked.vlan = s.asked.vlan /\ y.asked.open = Vlans
          /\ SamePoolsAsked(y.asked, s.asked) /\ SameAddrsAsked(y.asked, s.asked)
      BY DEF IsState, SFields, KFields, SamePoolsAsked, SameAddrsAsked
    <2> HIDE DEF y
    <2> QED BY <2>1, <2>2 DEF OpenTo
  <1> HIDE DEF p, y, w
  <1>5. (PooledTo(rx, s, c) \/ OpenTo(rx, s)) /\ DOMAIN rx.v = VFields /\ IsState(rx)
    BY <1>3, <1>4 DEF PooledTo, PoolTo, VmdqSet, SameFilters, SameVlan, OpenTo, DcbSet
  <1> HIDE DEF rx
  <1>6. SameVlan(tw, rx.v)  BY <1>5, TxIs
  <1> HIDE DEF tw
  <1>7. SameFilters([rx EXCEPT !.v = tw], rx)
    <2> DEFINE z == [rx EXCEPT !.v = tw]
    <2>1. z.v = tw /\ z.a = rx.a /\ z.f = rx.f /\ z.asked = rx.asked /\ IsState(z)
      BY <1>5 DEF IsState, SFields
    <2> HIDE DEF z
    <2>2. SameFilters(z, rx)  BY <1>6, <2>1 DEF SameFilters
    <2> QED BY <2>2 DEF z
  <1>8. SameFilters(tx, rx)
    BY <1>5, <1>7 DEF SameFilters, SameVlan
  <1> HIDE DEF tx, x
  <1>9. PooledTo(rx, s, c) => PooledTo(tx, s, c)
    <2>1. SameFilters(rx, s) => SameFilters(tx, s)
      BY <1>8 DEF SameFilters, SameVlan
    <2>2. PoolTo(rx, s, c) => PoolTo(tx, s, c)
      BY <1>8 DEF SameFilters, SameVlan, PoolTo, VmdqSet
    <2> QED BY <2>1, <2>2 DEF PooledTo
  <1>10. OpenTo(rx, s) => OpenTo(tx, s)
    BY <1>8 DEF SameFilters, SameVlan, OpenTo, DcbSet
  <1> QED BY <1>1, <1>2, <1>5, <1>9, <1>10 DEF PooledTo, x

\* A start leaves what it found, what one of its stages left, or it gets to
\* the flow director.
LEMMA StartsAre ==
    ASSUME NEW s, IsState(s), NEW c, NEW o \in StartOutcomes(s, c),
           NEW s1, s1 = ResetFilters(s), NEW s2, s2 = HostFilters(s1),
           NEW s3, s3 = ModeFilters(s2, c), NEW s4, s4 = OffloadFilters(s3, c),
           NEW s5, s5 = DcbFilters(s4, c)
    PROVE  \/ o.s \in {s, s1, s3} /\ o.ok = FALSE
           \/ \E g : /\ o.s = [s5 EXCEPT !.f = g.f] /\ o.ok = (g.ret = "ok")
                     /\ g \in IF c.fdir.mode = "none" THEN {[f |-> s5.f, ret |-> "ok"]}
                              ELSE ixgbe_fdir_configure(s5.f, c.fdir)
  <1> DEFINE last == IF c.fdir.mode = "none" THEN {[f |-> s5.f, ret |-> "ok"]}
                     ELSE ixgbe_fdir_configure(s5.f, c.fdir)
  <1>1. StartOutcomes(s, c) = {[s |-> x, ok |-> FALSE] : x \in {s, s1, s3}}
                              \cup {[s |-> [s5 EXCEPT !.f = g.f], ok |-> g.ret = "ok"] : g \in last}
    BY Zenon DEF StartOutcomes
  <1> HIDE DEF last
  <1>2. CASE o \in {[s |-> x, ok |-> FALSE] : x \in {s, s1, s3}}
    BY <1>2
  <1>3. CASE o \in {[s |-> [s5 EXCEPT !.f = g.f], ok |-> g.ret = "ok"] : g \in last}
    <2>1. PICK g \in last : o = [s |-> [s5 EXCEPT !.f = g.f], ok |-> g.ret = "ok"]
      BY <1>3
    <2>2. o.s = [s5 EXCEPT !.f = g.f] /\ o.ok = (g.ret = "ok")  BY <2>1
    <2> QED BY <2>2 DEF last
  <1> QED BY <1>1, <1>2, <1>3

-----------------------------------------------------------------------------
(* The calls, by what they change.                                         *)

AddrCall ==
    \/ \E addr \in Addrs, p \in Pools, i \in RarIndex : ixgbe_add_rar(addr, i, p)
    \/ \E i \in RarIndex : ixgbe_remove_rar(i)
    \/ \E addr \in Addrs \cup {Own}, p \in Pools : InsertAddr(addr, p)
    \/ \E p \in Pools : SetVmdqSan(p)
    \/ \E i \in RarIndex, ps \in SUBSET Pools : ClearVmdq(i, ps)
    \/ \E list \in UcLists : UpdateUcList(list)
    \/ \E on \in BOOLEAN : Promiscuous(on) \/ AllMulticast(on) \/ EnableMc(on) \/ UcAllHash(on)
    \/ \E on \in BOOLEAN, addr \in Addrs : UcHash(addr, on)
    \/ \E on \in BOOLEAN, list \in SUBSET McAddrs : UpdateMcList(list, on)

VlanCall ==
    \/ \E on \in BOOLEAN, vlan \in Vlans : VlanFilterSet(vlan, on)
    \/ \E on \in BOOLEAN, vlan \in Vlans, ps \in SUBSET Pools : SetPoolVlanFilter(vlan, ps, on)
    \/ \E on \in BOOLEAN, q \in RxQueues : VlanStripQueueSet(q, on)
    \/ \E on \in BOOLEAN, p \in Pools : SetPool(p, on)
    \/ \E c \in Confs : VlanOffloadSet(c)
    \/ \E r \in Rules : Mirror(r)

FdirCall ==
    \/ \E flow \in Flows, q \in RxQueues, drop \in BOOLEAN : AddPerfect(flow, q, drop)
    \/ \E flow \in Flows, q \in RxQueues : AddSignature(flow, q)
    \/ \E flow \in Flows : RemoveSignature(flow) \/ RemovePerfect(flow)
    \/ \E m \in Masks : SetMasks(m)

\* A step is a start, a stop, or a call of one of the three kinds.
LEMMA NextIs ==
    Next => (\E c \in Confs : ixgbe_dev_start(c)) \/ ixgbe_dev_stop \/ AddrCall \/ VlanCall \/ FdirCall
  <1> SUFFICES ASSUME Next
               PROVE  (\E c \in Confs : ixgbe_dev_start(c)) \/ ixgbe_dev_stop \/ AddrCall \/ VlanCall \/ FdirCall
    OBVIOUS
  <1>1. ASSUME NEW i \in RarIndex, NEW ps \in {{p} : p \in Pools} \cup {VMDQ_ALL}, ClearVmdq(i, ps)
        PROVE  AddrCall
    <2>1. ps \in SUBSET Pools  BY DEF VMDQ_ALL
    <2> QED BY <1>1, <2>1 DEF AddrCall
  <1>2. ASSUME NEW p \in Pools, InsertAddr(Own, p) \/ SetVmdqSan(p) PROVE AddrCall
    BY <1>2 DEF AddrCall
  <1>3. ASSUME NEW addr \in Addrs, NEW p \in Pools, InsertAddr(addr, p) PROVE AddrCall
    BY <1>3 DEF AddrCall
  <1>4. ASSUME NEW on \in BOOLEAN,
               \/ Promiscuous(on) \/ AllMulticast(on) \/ EnableMc(on) \/ UcAllHash(on)
               \/ \E addr \in Addrs : UcHash(addr, on)
               \/ \E list \in SUBSET McAddrs : UpdateMcList(list, on)
               \/ \E vlan \in Vlans : VlanFilterSet(vlan, on)
               \/ \E vlan \in Vlans, ps \in SUBSET Pools \ {{}} : SetPoolVlanFilter(vlan, ps, on)
               \/ \E q \in RxQueues : VlanStripQueueSet(q, on)
               \/ \E p \in Pools : SetPool(p, on)
               \/ \E flow \in Flows, q \in RxQueues : AddPerfect(flow, q, on)
        PROVE  AddrCall \/ VlanCall \/ FdirCall
    BY <1>4, Zenon DEF AddrCall, VlanCall, FdirCall
  <1> QED BY <1>1, <1>2, <1>3, <1>4, Zenon DEF Next, AddrCall, VlanCall, FdirCall

\* What a call about addresses leaves alone.
AddrFrame ==
    /\ v' = v /\ f' = f /\ conf' = conf /\ started' = started /\ vfs' = vfs /\ family' = family
    /\ DOMAIN asked' = KFields /\ SameVlansAsked(asked', asked)

\* Calls about addresses leave it alone.
LEMMA AddrCallLeaves ==
    ASSUME AddrCall, DOMAIN asked = KFields
    PROVE  AddrFrame
  <1>0. SameVlansAsked(asked, asked)  BY DEF SameVlansAsked, SamePoolsAsked
  <1>1. ASSUME NEW addr \in Addrs, NEW p \in Pools, NEW i \in RarIndex, ixgbe_add_rar(addr, i, p)
        PROVE  AddrFrame
    BY <1>0, <1>1 DEF AddrFrame, ixgbe_add_rar, Call, SameVlansAsked, SamePoolsAsked, KFields
  <1>2. ASSUME NEW i \in RarIndex, ixgbe_remove_rar(i)
        PROVE  AddrFrame
    BY <1>0, <1>2 DEF AddrFrame, ixgbe_remove_rar, Call, SameVlansAsked, SamePoolsAsked, KFields
  <1>3. ASSUME NEW addr \in Addrs \cup {Own}, NEW p \in Pools, InsertAddr(addr, p)
        PROVE  AddrFrame
    BY <1>0, <1>3 DEF AddrFrame, InsertAddr, Call, SameVlansAsked, SamePoolsAsked, KFields
  <1>4. ASSUME NEW i \in RarIndex, NEW ps \in SUBSET Pools, ClearVmdq(i, ps)
        PROVE  AddrFrame
    BY <1>0, <1>4 DEF AddrFrame, ClearVmdq, Call, SameVlansAsked, SamePoolsAsked, KFields
  <1>5. ASSUME NEW list \in UcLists, UpdateUcList(list)
        PROVE  AddrFrame
    BY <1>0, <1>5 DEF AddrFrame, UpdateUcList, Call, SameVlansAsked, SamePoolsAsked, KFields
  <1>6. ASSUME NEW on \in BOOLEAN, Promiscuous(on)
        PROVE  AddrFrame
    BY <1>0, <1>6 DEF AddrFrame, Promiscuous, Call, SameVlansAsked, SamePoolsAsked, KFields
  <1>7. ASSUME NEW on \in BOOLEAN, NEW list \in SUBSET McAddrs, UpdateMcList(list, on)
        PROVE  AddrFrame
    BY <1>0, <1>7 DEF AddrFrame, UpdateMcList, Call, SameVlansAsked, SamePoolsAsked, KFields
  <1>8. ASSUME NEW on \in BOOLEAN, NEW addr, NEW p,
               SetVmdqSan(p) \/ AllMulticast(on) \/ EnableMc(on) \/ UcAllHash(on) \/ UcHash(addr, on)
        PROVE  AddrFrame
    BY <1>0, <1>8 DEF AddrFrame, SetVmdqSan, AllMulticast, EnableMc, UcAllHash, UcHash, Call
  <1> QED BY <1>1, <1>2, <1>3, <1>4, <1>5, <1>6, <1>7, <1>8 DEF AddrCall

-----------------------------------------------------------------------------
(* VLANs as asked for.                                                     *)

\* The copy knows what was asked for, and while VLANs are filtered without
\* pools the table is the copy, but for VLANs that a start let through.
TableInv(w, k) ==
    /\ DOMAIN w = VFields /\ w.shadow \subseteq Vlans
    /\ \A x \in Vlans : /\ k.vlan[x] = "on" => x \in w.shadow
                        /\ k.vlan[x] = "off" => x \notin w.shadow
    /\ w.vfe /\ ~w.vt => w.shadow \subseteq w.vfta /\ w.vfta \ w.shadow \subseteq k.open

\* Only the mode, the table, the copy and what is let through matter.
TableLike(x, w, l) ==
    /\ DOMAIN x = VFields /\ x.shadow = w.shadow
    /\ x.vt = TRUE \/ x.vfe = FALSE \/ x.vfta = x.shadow \/ (x.vfta = Vlans /\ l.open = Vlans)

\* A change that only matters while VLANs are not filtered, or with pools.
LEMMA TableSame ==
    ASSUME NEW w, NEW k, TableInv(w, k), NEW x, NEW l, TableLike(x, w, l), l.vlan = k.vlan
    PROVE  TableInv(x, l)
  BY DEF TableInv, TableLike

\* No change at all.
LEMMA TableKept ==
    ASSUME NEW w, NEW k, TableInv(w, k), NEW x, SameVlan(x, w)
    PROVE  TableInv(x, k)
  BY DEF TableInv, SameVlan

\* Each stage of a start keeps it.
TableOk(s) == IsState(s) /\ TableInv(s.v, s.asked)

\* Through the stages of a start the table may be cleared, but it is written
\* from its copy when the filter is switched on.
LEMMA TableStages ==
    ASSUME NEW s, TableOk(s), NEW c,
           NEW s1, s1 = ResetFilters(s), NEW s2, s2 = HostFilters(s1),
           NEW s3, s3 = ModeFilters(s2, c), NEW s4, s4 = OffloadFilters(s3, c),
           NEW s5, s5 = DcbFilters(s4, c)
    PROVE  TableOk(s1) /\ TableOk(s2) /\ TableOk(s3) /\ TableOk(s4) /\ TableOk(s5)
  <1>0. IsState(s) /\ TableInv(s.v, s.asked) /\ DOMAIN s.v = VFields  BY DEF TableOk, TableInv
  <1>1. TableOk(s1) /\ s1.v.vfe = FALSE /\ DOMAIN s1.v = VFields
    <2>1. ResetTo(s1, s)  BY <1>0, ResetIs
    <2>2. IsState(s1) /\ s1.v = VlanReset(s.v) /\ s1.asked.vlan = s.asked.vlan
      BY <2>1 DEF ResetTo, SameVlansAsked
    <2>3. WasReset(s1.v, s.v)  BY <1>0, <2>2, VlanResetIs
    <2>4. TableLike(s1.v, s.v, s1.asked)  BY <2>3 DEF WasReset, TableLike
    <2> QED BY <1>0, <2>2, <2>3, <2>4, TableSame DEF TableOk, WasReset
  <1>2. TableOk(s2) /\ DOMAIN s2.v = VFields /\ (vfs # 0 => s2.v.vt = TRUE)
    <2> DEFINE w == ixgbe_clear_vfta_generic(s1.v)
    <2>1. HostTo(s2, s1)  BY <1>1, HostFiltersIs DEF TableOk
    <2>2. IsState(s2) /\ s2.v = ixgbe_pf_host_configure(w, vfs) /\ s2.asked.vlan = s1.asked.vlan
      BY <2>1 DEF HostTo
    <2>3. VftaCleared(w, s1.v)  BY <1>1, ClearVftaIs
    <2> HIDE DEF w
    <2>4. DOMAIN w = VFields /\ w.vfe = FALSE /\ w.shadow = s1.v.shadow
      BY <1>1, <2>3 DEF VftaCleared
    <2>5. HostSet(s2.v, w, vfs)  BY <2>2, <2>4, HostIs
    <2>6. DOMAIN s2.v = VFields /\ s2.v.shadow = w.shadow /\ (s2.v = w \/ s2.v.vt = TRUE)
          /\ (vfs # 0 => s2.v.vt = TRUE)
      BY <2>5 DEF HostSet
    <2>7. TableLike(s2.v, s1.v, s2.asked)  BY <2>4, <2>6 DEF TableLike
    <2> QED BY <1>1, <2>2, <2>4, <2>6, <2>7, TableSame DEF TableOk
  <1>3. ASSUME NEW x, NEW y, TableOk(x), PooledTo(y, x, c)
        PROVE  TableOk(y) /\ (PoolTo(y, x, c) => y.v.vt = TRUE)
    <2>0. IsState(x) /\ TableInv(x.v, x.asked)  BY <1>3 DEF TableOk
    <2>1. CASE PoolTo(y, x, c)
      <3>1. IsState(y) /\ VmdqSet(y.v, x.v, c.map, HalvesOf(c))  BY <2>1 DEF PoolTo
      <3>2. y.asked.vlan = x.asked.vlan
        <4>1. y.asked = MapAsked(x.asked, c.map, HalvesOf(c))  BY <2>1 DEF PoolTo
        <4>2. MapAskedTo(y.asked, x.asked, c.map, HalvesOf(c))
          BY <2>0, <4>1, MapAskedIs, Zenon DEF IsState
        <4> QED BY <4>2, Zenon DEF MapAskedTo
      <3>3. TableLike(y.v, x.v, y.asked) /\ y.v.vt = TRUE  BY <3>1 DEF VmdqSet, TableLike
      <3> QED BY <2>0, <3>1, <3>2, <3>3, TableSame DEF TableOk
    <2>2. CASE SameFilters(y, x) /\ ~PoolTo(y, x, c)
      <3>1. IsState(y) /\ y.asked = x.asked /\ SameVlan(y.v, x.v)  BY <2>2 DEF SameFilters
      <3>2. TableInv(y.v, y.asked)  BY <2>0, <3>1, TableKept
      <3> QED BY <2>2, <3>1, <3>2 DEF TableOk
    <2> QED BY <1>3, <2>1, <2>2 DEF PooledTo
  <1>4. TableOk(s3) /\ (s3.v.vt = TRUE \/ c.mq # "vmdq") /\ DOMAIN s3.v = VFields
    <2>1. /\ PooledTo(s3, s2, c) /\ (vfs # 0 => s3 = s2)
          /\ vfs = 0 /\ c.mq = "vmdq" => PoolTo(s3, s2, c)
      BY <1>2, ModeIs DEF TableOk
    <2>2. TableOk(s3) /\ (PoolTo(s3, s2, c) => s3.v.vt = TRUE)  BY <1>2, <1>3, <2>1
    <2> QED BY <1>2, <2>1, <2>2 DEF TableOk, TableInv
  <1>5. TableOk(s4)
    <2>1. OffloadTo(s4, s3, c)  BY <1>4, OffloadFiltersIs DEF TableOk
    <2>2. TableLike(s4.v, s3.v, s4.asked) /\ IsState(s4) /\ s4.asked.vlan = s3.asked.vlan
      BY <1>4, <2>1 DEF OffloadTo, TableLike
    <2> QED BY <1>4, <2>2, TableSame DEF TableOk
  <1>6. TableOk(s5)
    <2>1. IsState(s4) /\ DOMAIN s4.v = VFields  BY <1>5 DEF TableOk, TableInv
    <2>2. PooledTo(s5, s4, c) \/ OpenTo(s5, s4)  BY <2>1, DcbIs
    <2>3. CASE OpenTo(s5, s4)
      <3>1. TableLike(s5.v, s4.v, s5.asked) /\ IsState(s5) /\ s5.asked.vlan = s4.asked.vlan
        BY <2>3 DEF OpenTo, DcbSet, TableLike
      <3> QED BY <1>5, <3>1, TableSame DEF TableOk
    <2> QED BY <1>3, <1>5, <2>2, <2>3
  <1> QED BY <1>1, <1>2, <1>4, <1>5, <1>6

\* What a start leaves: c is its configuration, x one of the states it goes
\* through and g the outcome at the flow director.
StartLeaves(c) ==
    LET s1 == ResetFilters(State)
        s3 == ModeFilters(HostFilters(s1), c)
        s5 == DcbFilters(OffloadFilters(s3, c), c)
    IN  \/ \E x \in {State, s1, s3} : Become(x) /\ started' = FALSE
        \/ \E g : /\ Become([s5 EXCEPT !.f = g.f]) /\ started' = (g.ret = "ok")
                  /\ g \in IF c.fdir.mode = "none" THEN {[f |-> s5.f, ret |-> "ok"]}
                           ELSE ixgbe_fdir_configure(s5.f, c.fdir)

\* The state a start begins with.
LEMMA StateIs == State.a = a /\ State.v = v /\ State.f = f /\ State.asked = asked
                 /\ (DOMAIN asked = KFields => IsState(State))
  BY DEF State, IsState, SFields

\* A start leaves one of these.
LEMMA StartLeft ==
    ASSUME NEW c, ixgbe_dev_start(c), DOMAIN asked = KFields
    PROVE  StartLeaves(c) /\ conf' = c /\ vfs' = vfs /\ family' = family
  <1> DEFINE s == State
             s1 == ResetFilters(s)
             s2 == HostFilters(s1)
             s3 == ModeFilters(s2, c)
             s4 == OffloadFilters(s3, c)
             s5 == DcbFilters(s4, c)
  <1>1. PICK o \in StartOutcomes(s, c) : Become(o.s) /\ started' = o.ok
    BY Zenon DEF ixgbe_dev_start
  <1>2. IsState(s)  BY StateIs
  <1>3. conf' = c /\ vfs' = vfs /\ family' = family
    BY DEF ixgbe_dev_start
  <1> HIDE DEF s, s1, s2, s3, s4, s5
  <1>4. \/ o.s \in {s, s1, s3} /\ o.ok = FALSE
        \/ \E g : /\ o.s = [s5 EXCEPT !.f = g.f] /\ o.ok = (g.ret = "ok")
                  /\ g \in IF c.fdir.mode = "none" THEN {[f |-> s5.f, ret |-> "ok"]}
                           ELSE ixgbe_fdir_configure(s5.f, c.fdir)
    BY <1>2, StartsAre DEF s1, s2, s3, s4, s5
  <1>5. CASE o.s \in {s, s1, s3} /\ o.ok = FALSE
    BY <1>1, <1>3, <1>5, Zenon DEF StartLeaves, s, s1, s2, s3
  <1>6. ASSUME NEW g, o.s = [s5 EXCEPT !.f = g.f], o.ok = (g.ret = "ok"),
               g \in IF c.fdir.mode = "none" THEN {[f |-> s5.f, ret |-> "ok"]}
                     ELSE ixgbe_fdir_configure(s5.f, c.fdir)
        PROVE  StartLeaves(c)
    <2>1. Become([s5 EXCEPT !.f = g.f]) /\ started' = (g.ret = "ok")
      BY <1>1, <1>6, Zenon
    <2> QED BY <2>1, <1>6, Zenon DEF StartLeaves, s, s1, s2, s3, s4, s5
  <1> QED BY <1>3, <1>4, <1>5, <1>6

\* A call about VLANs keeps it.
LEMMA FilterSetTable ==
    ASSUME DOMAIN asked = KFields, TableInv(v, asked), NEW vlan \in Vlans, NEW on \in BOOLEAN,
           VlanFilterSet(vlan, on)
    PROVE  DOMAIN asked' = KFields /\ TableInv(v', asked')
  <1> DEFINE idle(x) == v.vt \/ ~v.vfe \/ x \in asked.open
             wrong(x) == (asked.vlan[x] = "on") # (x \in v.vfta)
             mark == [x \in Vlans |-> IF x = vlan THEN IF on THEN "on" ELSE "off"
                                      ELSE IF x \in Word(vlan) /\ idle(x) /\ wrong(x) THEN "unknown"
                                      ELSE asked.vlan[x]]
             left == asked.open \ {vlan}
  <1>1. asked' = [asked EXCEPT !.vlan = mark, !.open = left]
    BY Zenon DEF VlanFilterSet
  <1>2. DOMAIN asked' = KFields /\ asked'.vlan = mark /\ asked'.open = left
    <2> HIDE DEF mark, left
    <2> QED BY <1>1 DEF KFields
  <1>3. FilterSet(v', v, vlan, on)
    BY FilterSetIs, Zenon DEF VlanFilterSet, TableInv
  <1>4. /\ DOMAIN v' = VFields /\ v'.vfe = v.vfe /\ v'.vt = v.vt
        /\ v'.vfta = (IF on THEN v.vfta \cup {vlan} ELSE v.vfta \ {vlan})
        /\ v'.shadow = (v.shadow \ Word(vlan)) \cup (v'.vfta \cap Word(vlan))
    BY <1>3 DEF FilterSet
  <1>5. vlan \in Word(vlan) /\ Word(vlan) \subseteq Vlans  BY DEF Word
  <1>6. v'.vfe /\ ~v'.vt => v'.shadow \subseteq v'.vfta /\ v'.vfta \ v'.shadow \subseteq left
    <2> SUFFICES ASSUME v.vfe, ~v.vt
                 PROVE  v'.shadow \subseteq v'.vfta /\ v'.vfta \ v'.shadow \subseteq left
      BY <1>4
    <2>1. v.shadow \subseteq v.vfta /\ v.vfta \ v.shadow \subseteq asked.open  BY DEF TableInv
    <2> QED BY <2>1, <1>4, <1>5
  <1>7. v'.shadow \subseteq Vlans
    BY <1>4, <1>5 DEF TableInv
  <1>8. ASSUME NEW x \in Vlans
        PROVE  (mark[x] = "on" => x \in v'.shadow) /\ (mark[x] = "off" => x \notin v'.shadow)
    <2>0. mark[x] = IF x = vlan THEN IF on THEN "on" ELSE "off"
                    ELSE IF x \in Word(vlan) /\ idle(x) /\ wrong(x) THEN "unknown" ELSE asked.vlan[x]
      OBVIOUS
    <2>a. (asked.vlan[x] = "on" => x \in v.shadow) /\ (asked.vlan[x] = "off" => x \notin v.shadow)
      BY DEF TableInv
    <2> HIDE DEF mark
    <2>1. CASE x = vlan
      BY <2>0, <2>1, <1>4, <1>5
    <2>2. CASE x # vlan /\ x \notin Word(vlan)
      BY <2>0, <2>a, <2>2, <1>4
    <2>3. CASE x # vlan /\ x \in Word(vlan) /\ idle(x) /\ wrong(x)
      BY <2>0, <2>3
    <2>4. CASE x # vlan /\ x \in Word(vlan) /\ idle(x) /\ ~wrong(x)
      <3>1. mark[x] = asked.vlan[x] /\ (asked.vlan[x] = "on") = (x \in v.vfta)  BY <2>0, <2>4
      <3>2. x \in v'.shadow <=> x \in v.vfta  BY <2>4, <1>4
      <3> QED BY <3>1, <3>2
    <2>5. CASE x # vlan /\ x \in Word(vlan) /\ ~idle(x)
      <3>1. v.shadow \subseteq v.vfta /\ v.vfta \ v.shadow \subseteq asked.open
        BY <2>5 DEF TableInv
      <3>2. mark[x] = asked.vlan[x]  BY <2>0, <2>5
      <3>3. x \in v'.shadow <=> x \in v.shadow  BY <2>5, <3>1, <1>4
      <3> QED BY <2>a, <3>2, <3>3
    <2> QED BY <2>1, <2>2, <2>3, <2>4, <2>5
  <1> HIDE DEF mark, left
  <1> QED BY <1>2, <1>4, <1>6, <1>7, <1>8 DEF TableInv

\* The calls about VLANs and pools keep it.
LEMMA VlanCallTable ==
    ASSUME DOMAIN asked = KFields, TableInv(v, asked), VlanCall
    PROVE  DOMAIN asked' = KFields /\ TableInv(v', asked')
  <1>0. DOMAIN v = VFields  BY DEF TableInv
  <1>1. ASSUME NEW on \in BOOLEAN, NEW vlan \in Vlans, NEW ps \in SUBSET Pools, SetPoolVlanFilter(vlan, ps, on)
        PROVE  DOMAIN asked' = KFields /\ TableInv(v', asked')
    <2> DEFINE o == ixgbe_set_pool_vlan_filter(v, vlan, ps, on)
               done == IF o.ret = "ok" THEN {vlan} \X ps ELSE {}
               G == IF on THEN asked.granted \cup done ELSE asked.granted \ done
               T == asked.taken \/ (vlan = 0 /\ asked.first # {} /\ done # {})
    <2>1. v' = o.v /\ asked' = [asked EXCEPT !.granted = G, !.taken = T]
      BY <1>1, Zenon DEF SetPoolVlanFilter
    <2>2. Framed(o.v, v) /\ (~v.vt => o = [v |-> v, ret |-> "ENOTSUP"])
      BY <1>0, PoolFilterFrame
    <2> HIDE DEF o, done, G, T
    <2>3. DOMAIN asked' = KFields /\ asked'.vlan = asked.vlan /\ asked'.open = asked.open
      BY <2>1 DEF KFields
    <2>4. CASE v.vt
      BY <2>1, <2>2, <2>3, <2>4 DEF Framed, TableInv
    <2>5. CASE ~v.vt
      <3>1. v' = v  BY <2>1, <2>2, <2>5
      <3> QED BY <3>1, <2>3 DEF TableInv
    <2> QED BY <2>4, <2>5
  <1>2. ASSUME NEW on \in BOOLEAN, NEW q \in RxQueues, VlanStripQueueSet(q, on)
        PROVE  DOMAIN asked' = KFields /\ TableInv(v', asked')
    BY <1>0, <1>2, StripIs, TableKept DEF VlanStripQueueSet
  <1>3. ASSUME NEW on \in BOOLEAN, NEW p \in Pools, SetPool(p, on)
        PROVE  DOMAIN asked' = KFields /\ TableInv(v', asked')
    BY <1>0, <1>3, PoolIs, TableKept DEF SetPool
  <1>4. ASSUME NEW r \in Rules, Mirror(r)
        PROVE  DOMAIN asked' = KFields /\ TableInv(v', asked')
    BY <1>0, <1>4, MirrorIs, TableKept DEF Mirror
  <1>5. ASSUME NEW c \in Confs, VlanOffloadSet(c)
        PROVE  DOMAIN asked' = KFields /\ TableInv(v', asked')
    <2>1. PICK mask : /\ v' = ixgbe_vlan_offload_set(v, mask, c)
                      /\ asked' = [asked EXCEPT !.open = IF "filter" \in mask /\ c.filter THEN {} ELSE @]
      BY <1>5, Zenon DEF VlanOffloadSet
    <2>2. /\ DOMAIN asked' = KFields /\ asked'.vlan = asked.vlan
          /\ asked'.open = IF "filter" \in mask /\ c.filter THEN {} ELSE asked.open
      BY <2>1 DEF KFields
    <2>3. Offloaded(v', v, mask, c)  BY <1>0, <2>1, OffloadIs
    <2> QED BY <2>2, <2>3 DEF Offloaded, TableInv
  <1> QED BY <1>1, <1>2, <1>3, <1>4, <1>5, FilterSetTable DEF VlanCall

\* The invariant.
VlanInv == DOMAIN asked = KFields /\ TableInv(v, asked)

\* Before the first call nothing was asked for.
LEMMA NewAsked == DOMAIN NothingAsked = KFields /\ NothingAsked.vlan = [w \in Vlans |-> "off"]
                  /\ NothingAsked.open = {} /\ NoneGranted(NothingAsked)
                  /\ NothingAsked.addr = {Own} /\ NothingAsked.mc = {}
  BY DEF NothingAsked, KFields, NoneGranted

\* Every step keeps the invariant.
LEMMA VlanStep == VlanInv /\ [Next]_vars => VlanInv'
  <1> SUFFICES ASSUME VlanInv, [Next]_vars PROVE VlanInv'
    OBVIOUS
  <1>0. DOMAIN asked = KFields /\ TableInv(v, asked)  BY DEF VlanInv
  <1>1. ASSUME NEW c \in Confs, ixgbe_dev_start(c) PROVE VlanInv'
    <2> DEFINE s1 == ResetFilters(State)
               s3 == ModeFilters(HostFilters(s1), c)
               s5 == DcbFilters(OffloadFilters(s3, c), c)
    <2>1. StartLeaves(c)  BY <1>0, <1>1, StartLeft
    <2>2. TableOk(State)  BY <1>0, StateIs DEF TableOk
    <2>3. TableOk(s1) /\ TableOk(s3) /\ TableOk(s5)  BY <2>2, TableStages
    <2>4. \/ \E x \in {State, s1, s3} : Become(x)
          \/ \E g : Become([s5 EXCEPT !.f = g])
      BY <2>1, Zenon DEF StartLeaves
    <2> HIDE DEF s1, s3, s5
    <2>5. ASSUME NEW x, TableOk(x), Become(x) PROVE VlanInv'
      BY <2>5 DEF TableOk, IsState, Become, VlanInv
    <2>6. ASSUME NEW g PROVE TableOk([s5 EXCEPT !.f = g])
      BY <2>3 DEF TableOk, IsState, SFields
    <2> QED BY <2>2, <2>3, <2>4, <2>5, <2>6
  <1>2. CASE ixgbe_dev_stop
    <2>1. PICK x \in {State, ResetFilters(State)} : Become(x)  BY <1>2 DEF ixgbe_dev_stop
    <2>2. TableOk(State)  BY <1>0, StateIs DEF TableOk
    <2>3. TableOk(ResetFilters(State))  BY <2>2, TableStages
    <2>4. TableOk(x)  BY <2>1, <2>2, <2>3
    <2> QED BY <2>1, <2>4 DEF TableOk, IsState, Become, VlanInv
  <1>3. CASE AddrCall
    BY <1>0, <1>3, AddrCallLeaves DEF AddrFrame, SameVlansAsked, TableInv, VlanInv
  <1>4. CASE VlanCall
    BY <1>0, <1>4, VlanCallTable DEF VlanInv
  <1>5. CASE FdirCall
    <2>1. v' = v /\ asked' = asked
      BY <1>5 DEF FdirCall, AddPerfect, AddSignature, RemoveSignature, RemovePerfect, SetMasks, Director
    <2> QED BY <2>1, <1>0 DEF VlanInv
  <1>6. CASE UNCHANGED vars
    BY <1>6, <1>0 DEF vars, VlanInv
  <1> QED BY <1>1, <1>2, <1>3, <1>4, <1>5, <1>6, NextIs

\* It holds at first.
LEMMA VlanInvInit == Init => VlanInv
  <1> SUFFICES ASSUME Init PROVE VlanInv
    OBVIOUS
  <1>1. v = NewVlan /\ asked = NothingAsked  BY DEF Init
  <1> QED BY <1>1, NewVlanIs, NewAsked DEF VlanInv, TableInv

\* With VLANs filtered and no pools, exactly the VLANs pass that the last
\* calls of ixgbe_vlan_filter_set asked for, through starts that clear the
\* table, stops, and times without the filter in between.
THEOREM VlansPassAsAsked == Spec => []VlanAsAsked
  <1>1. Init => VlanInv
    BY VlanInvInit
  <1>2. VlanInv => VlanAsAsked
    BY DEF VlanInv, TableInv, VlanAsAsked
  <1> QED BY <1>1, <1>2, VlanStep, PTL DEF Spec

-----------------------------------------------------------------------------
(* Slots as granted.                                                       *)

\* What a configuration with pools must be for its map to fit: beyond the
\* first entry every one has a slot, a VLAN of its own that is not 0, and a
\* pool in the half of the slot that is written.
MapsSound ==
    \A c \in Confs : c.mq \in {"vmdq", "vmdq_dcb"} =>
        /\ c.map \in Seq([vlan : Vlans, pools : SUBSET Pools])
        /\ \A n \in 2..Len(c.map) :
              /\ n - 1 \in Slots /\ c.map[n].vlan # 0 /\ c.map[n].pools \cap HalvesOf(c)[n] # {}
              /\ \A m \in 2..Len(c.map) : c.map[m].vlan = c.map[n].vlan => m = n

\* Slot 0 gives what the first entry of a map asked for, or VLAN 0 was granted.
ZeroInv(w, k) ==
    ~k.taken =>
        IF k.first # {} THEN {w.vlvf[0]} \X w.vlvfb[0] = k.first
        ELSE /\ \A q : q \in w.vlvfb[0] <=> <<0, q>> \in k.granted
             /\ w.vlvfb[0] # {} => w.vlvf[0] = 0

\* The slots give what was granted.
GrantInv(w, k) ==
    /\ SlotInv(w)
    /\ \A g \in k.granted : \E x \in Vlans : \E p : g = <<x, p>>
    /\ \A x \in Vlans \ {0} : \A p : Gives(w, x, p) <=> <<x, p>> \in k.granted
    /\ ZeroInv(w, k)

GrantOk(s) == IsState(s) /\ GrantInv(s.v, s.asked)

\* Only the slots matter.
LEMMA GrantSame ==
    ASSUME NEW w, NEW k, GrantInv(w, k), NEW x, DOMAIN x = VFields, x.vlvf = w.vlvf, x.vlvfb = w.vlvfb,
           NEW l, SamePoolsAsked(l, k)
    PROVE  GrantInv(x, l)
  <1>1. SlotInv(x)  BY DEF GrantInv, SlotInv
  <1>2. \A y, p : Gives(x, y, p) <=> Gives(w, y, p)  BY DEF Gives
  <1>3. ZeroInv(x, l)  BY DEF GrantInv, ZeroInv, SamePoolsAsked
  <1> QED BY <1>1, <1>2, <1>3 DEF GrantInv, SamePoolsAsked

\* Nothing in the slots and nothing granted.
SlotsClear(w) ==
    /\ DOMAIN w = VFields
    /\ w.vlvf = [s \in Slots |-> NoVlan] /\ w.vlvfb = [s \in Slots |-> {}]

\* Cleared slots give nothing.
LEMMA GrantNone == ASSUME NEW w, SlotsClear(w), NEW k, NoneGranted(k) PROVE GrantInv(w, k)
  <1>1. SlotInv(w)
    <2>1. \A s \in Spare : s \in Slots  BY DEF Spare
    <2>2. \A s \in Slots : w.vlvf[s] = NoVlan /\ w.vlvfb[s] = {}  BY DEF SlotsClear
    <2>3. w.vlvf = [s \in Slots |-> w.vlvf[s]] /\ w.vlvfb = [s \in Slots |-> w.vlvfb[s]]
      BY DEF SlotsClear
    <2> QED BY <2>1, <2>2, <2>3 DEF SlotInv, SlotsClear
  <1>2. ASSUME NEW x, NEW p PROVE ~Gives(w, x, p)
    BY DEF Gives, Spare, SlotsClear
  <1>3. ZeroInv(w, k)
    <2>1. w.vlvfb[0] = {}  BY VlanAssumption DEF SlotsClear
    <2> QED BY <2>1 DEF ZeroInv, NoneGranted
  <1> QED BY <1>1, <1>2, <1>3 DEF GrantInv, NoneGranted

\* The slots are clear or hold the map already, which a start with traffic
\* classes writes twice.
Ready(w, c) ==
    /\ DOMAIN w = VFields
    /\ \A s \in Slots : IF s < Len(c.map) THEN w.vlvfb[s] \subseteq HalvesOf(c)[s + 1]
                        ELSE w.vlvf[s] = NoVlan /\ w.vlvfb[s] = {}

\* A map in such slots.
LEMMA GrantMap ==
    ASSUME MapsSound, NEW c \in Confs, c.mq \in {"vmdq", "vmdq_dcb"}, NEW w, Ready(w, c),
           NEW x, VmdqSet(x, w, c.map, HalvesOf(c)), NEW k, NEW l, MapAskedTo(l, k, c.map, HalvesOf(c))
    PROVE  GrantInv(x, l) /\ Ready(x, c)
  <1> DEFINE map == c.map
             half == HalvesOf(c)
             L == Len(map)
             Own1 == FirstOf(map)
  <1>0. /\ map \in Seq([vlan : Vlans, pools : SUBSET Pools])
        /\ \A n \in 2..L :
              /\ n - 1 \in Slots /\ map[n].vlan # 0 /\ map[n].pools \cap half[n] # {}
              /\ \A m \in 2..L : map[m].vlan = map[n].vlan => m = n
    BY DEF MapsSound
  <1>1. /\ DOMAIN x = VFields
        /\ x.vlvf = [s \in Slots |-> IF s < L THEN map[s + 1].vlan ELSE w.vlvf[s]]
        /\ x.vlvfb = [s \in Slots |-> IF s < L THEN (map[s + 1].pools \cap half[s + 1]) \cup (w.vlvfb[s] \ half[s + 1])
                                      ELSE w.vlvfb[s]]
    BY DEF VmdqSet
  <1>2. \A s \in Slots : IF s < L THEN w.vlvfb[s] \subseteq half[s + 1]
                         ELSE w.vlvf[s] = NoVlan /\ w.vlvfb[s] = {}
    BY DEF Ready
  <1>3. /\ l.taken = FALSE
        /\ l.granted = GrantedBy(map, half, DOMAIN map \ Own1)
        /\ l.first = GrantedBy(map, half, Own1)
    BY Zenon DEF MapAskedTo
  <1>4. GrantInv(x, l) /\ \A s \in Slots : IF s < L THEN x.vlvfb[s] \subseteq half[s + 1]
                                           ELSE x.vlvf[s] = NoVlan /\ x.vlvfb[s] = {}
    <2>0. /\ L \in Nat /\ DOMAIN map = 1..L
          /\ \A n \in 1..L : map[n].vlan \in Vlans
      <3> DEFINE Entry == [vlan : Vlans, pools : SUBSET Pools]
      <3>1. map \in Seq(Entry)  BY <1>0
      <3>2. \A e \in Entry : e.vlan \in Vlans  OBVIOUS
      <3> HIDE DEF Entry, map
      <3>3. Len(map) \in Nat /\ DOMAIN map = 1..Len(map) /\ \A n \in 1..Len(map) : map[n] \in Entry
        BY <3>1
      <3> QED BY <3>2, <3>3
    <2>a. Own1 = {n \in {1} \cap DOMAIN map : map[n].vlan # 0}  BY DEF FirstOf
    <2>b. Own1 \subseteq {1} /\ (1 \in Own1 <=> L > 0 /\ map[1].vlan # 0)
      BY <2>0, <2>a
    <2> HIDE DEF map, half, L, Own1
    <2>c. \A n \in 2..L : n \in DOMAIN map \ Own1  BY <2>0, <2>b
    <2>1. \A s \in Slots : s \in Nat /\ (s # 0 => s \in Spare)
      <3>1. Slots \subseteq Nat  BY VlanAssumption
      <3> QED BY <3>1 DEF Spare
    <2>2. \A s \in Spare : s \in Slots /\ s # 0  BY DEF Spare
    <2>3. \A s \in Slots : s < L => s + 1 \in 1..L /\ x.vlvf[s] = map[s + 1].vlan
                                    /\ x.vlvfb[s] = map[s + 1].pools \cap half[s + 1]
      BY <2>0, <2>1, <1>1, <1>2
    <2>4. \A s \in Slots : ~(s < L) => x.vlvf[s] = NoVlan /\ x.vlvfb[s] = {}
      BY <2>0, <1>1, <1>2
    <2>5. \A s \in Slots : IF s < L THEN x.vlvfb[s] \subseteq half[s + 1]
                           ELSE x.vlvf[s] = NoVlan /\ x.vlvfb[s] = {}
      BY <2>3, <2>4
    <2>6. \A s \in Spare : s < L => s + 1 \in 2..L
      BY <2>0, <2>1, <2>2
    <2>7. \A n \in 2..L : n - 1 \in Spare /\ n - 1 < L /\ (n - 1) + 1 = n
      <3>1. \A n \in 2..L : n - 1 \in Slots  BY <1>0
      <3>2. L \in Nat  BY <2>0
      <3>3. \A n \in 2..L : n - 1 # 0 /\ n - 1 < L /\ (n - 1) + 1 = n  BY ONLY <3>2
      <3> QED BY <3>1, <3>3 DEF Spare
    <2>8. NoVlan \notin Vlans  BY VlanAssumption
    <2>9. \A y, p : <<y, p>> \in l.granted
                    <=> \E n \in 1..L : n \notin Own1 /\ y = map[n].vlan /\ p \in map[n].pools \cap half[n]
      <3>1. \A g : g \in l.granted <=> \E n \in DOMAIN map \ Own1 : g \in {map[n].vlan} \X (map[n].pools \cap half[n])
        BY <1>3 DEF GrantedBy
      <3>2. ASSUME NEW y, NEW p, NEW n
            PROVE  <<y, p>> \in {map[n].vlan} \X (map[n].pools \cap half[n])
                   <=> y = map[n].vlan /\ p \in map[n].pools \cap half[n]
        OBVIOUS
      <3> QED BY <3>1, <3>2, <2>0
    <2>10. SlotInv(x)
      <3>1. x.vlvf = [s \in Slots |-> x.vlvf[s]] /\ x.vlvfb = [s \in Slots |-> x.vlvfb[s]]
        BY <1>1
      <3>2. \A s \in Spare : x.vlvf[s] \in (Vlans \ {0}) \cup {NoVlan}
        BY <1>0, <2>0, <2>2, <2>3, <2>4, <2>6
      <3>3. \A s \in Spare : (x.vlvf[s] = NoVlan) <=> (x.vlvfb[s] = {})
        BY <1>0, <2>0, <2>2, <2>3, <2>4, <2>6, <2>8
      <3>4. ASSUME NEW s \in Spare, NEW t \in Spare, x.vlvf[s] = x.vlvf[t], s # t
            PROVE  x.vlvf[s] = NoVlan
        <4>1. CASE s < L /\ t < L
          <5>1. s + 1 = t + 1  BY <4>1, <1>0, <2>2, <2>3, <2>6, <3>4
          <5> QED BY <5>1, <2>1, <2>2, <3>4
        <4>2. CASE ~(s < L) \/ ~(t < L)
          BY <4>2, <2>2, <2>4, <3>4
        <4> QED BY <4>1, <4>2
      <3> QED BY <1>1, <3>1, <3>2, <3>3, <3>4 DEF SlotInv
    <2>11. ASSUME NEW g \in l.granted PROVE \E y \in Vlans : \E p : g = <<y, p>>
      <3>1. PICK n \in DOMAIN map \ Own1 : g \in {map[n].vlan} \X (map[n].pools \cap half[n])
        BY <1>3 DEF GrantedBy
      <3>2. PICK p : g = <<map[n].vlan, p>>  BY <3>1
      <3> QED BY <3>1, <3>2, <2>0
    <2>12. ASSUME NEW y \in Vlans \ {0}, NEW p PROVE Gives(x, y, p) <=> <<y, p>> \in l.granted
      <3>1. ASSUME Gives(x, y, p) PROVE <<y, p>> \in l.granted
        <4>1. PICK s \in Spare : x.vlvf[s] = y /\ p \in x.vlvfb[s]  BY <3>1 DEF Gives
        <4>2. s < L  BY <4>1, <2>2, <2>4
        <4>3. s + 1 \in 2..L /\ y = map[s + 1].vlan /\ p \in map[s + 1].pools \cap half[s + 1]
          BY <4>1, <4>2, <2>2, <2>3, <2>6
        <4> QED BY <4>3, <2>0, <2>9, <2>c
      <3>2. ASSUME <<y, p>> \in l.granted PROVE Gives(x, y, p)
        <4>1. PICK n \in 1..L : n \notin Own1 /\ y = map[n].vlan /\ p \in map[n].pools \cap half[n]
          BY <3>2, <2>9
        <4>2. n # 1  BY <4>1, <2>0, <2>b
        <4>3. n \in 2..L  BY <4>1, <4>2, <2>0
        <4>4. x.vlvf[n - 1] = map[n].vlan /\ x.vlvfb[n - 1] = map[n].pools \cap half[n]
          BY <4>3, <2>2, <2>3, <2>7
        <4> QED BY <4>1, <4>3, <4>4, <2>7 DEF Gives
      <3> QED BY <3>1, <3>2
    <2>13. ZeroInv(x, l)
      <3>0. 0 \in Slots  BY VlanAssumption
      <3>1. \A n \in 2..L : map[n].vlan # 0  BY <1>0
      <3>2. CASE L = 0
        <4>1. x.vlvfb[0] = {}  BY <3>0, <3>2, <2>4
        <4>2. \A q : <<0, q>> \notin l.granted  BY <3>2, <2>9
        <4>3. l.first = {}  BY <1>3, <2>b, <3>2 DEF GrantedBy
        <4> QED BY <4>1, <4>2, <4>3 DEF ZeroInv
      <3>3. CASE L # 0
        <4>0. 1 \in 1..L /\ 0 < L /\ 0 + 1 = 1  BY <2>0, <3>3
        <4>1. x.vlvf[0] = map[1].vlan /\ x.vlvfb[0] = map[1].pools \cap half[1]
          BY <3>0, <4>0, <2>3
        <4>2. \A n \in 1..L : n # 1 => map[n].vlan # 0  BY <2>0, <3>1
        <4>3. \A q : <<0, q>> \in l.granted
                     <=> 1 \notin Own1 /\ 0 = map[1].vlan /\ q \in map[1].pools \cap half[1]
          BY <2>9, <4>0, <4>2
        <4>4. CASE 1 \in Own1
          <5>1. Own1 = {1}  BY <2>b, <4>4
          <5>2. l.first = {map[1].vlan} \X (map[1].pools \cap half[1])
            BY <1>3, <5>1 DEF GrantedBy
          <5>3. {x.vlvf[0]} \X x.vlvfb[0] = l.first  BY <5>2, <4>1
          <5>4. l.first = {} => x.vlvfb[0] = {}
            <6>1. ASSUME NEW p \in x.vlvfb[0] PROVE <<map[1].vlan, p>> \in l.first
              BY <6>1, <5>2, <4>1
            <6> QED BY <6>1
          <5> QED BY <5>3, <5>4, <4>3, <4>4 DEF ZeroInv
        <4>5. CASE 1 \notin Own1
          <5>1. map[1].vlan = 0 /\ Own1 = {}  BY <2>0, <2>b, <4>0, <4>5
          <5>2. l.first = {}  BY <1>3, <5>1 DEF GrantedBy
          <5> QED BY <4>1, <4>3, <4>5, <5>1, <5>2 DEF ZeroInv
        <4> QED BY <4>4, <4>5
      <3> QED BY <3>2, <3>3
    <2> QED BY <2>5, <2>10, <2>11, <2>12, <2>13 DEF GrantInv
  <1> QED BY <1>1, <1>4 DEF Ready

\* Each stage of a start keeps the two in step.
LEMMA GrantStages ==
    ASSUME MapsSound, NEW s, GrantOk(s), NEW c \in Confs,
           NEW s1, s1 = ResetFilters(s), NEW s2, s2 = HostFilters(s1),
           NEW s3, s3 = ModeFilters(s2, c), NEW s4, s4 = OffloadFilters(s3, c),
           NEW s5, s5 = DcbFilters(s4, c)
    PROVE  GrantOk(s1) /\ GrantOk(s3) /\ GrantOk(s5)
  <1>0. IsState(s) /\ GrantInv(s.v, s.asked) /\ DOMAIN s.v = VFields
    BY DEF GrantOk, GrantInv, SlotInv
  <1>a. ASSUME NEW x, NEW y, GrantOk(x), IsState(y), DOMAIN y.v = VFields,
               y.v.vlvf = x.v.vlvf, y.v.vlvfb = x.v.vlvfb, SamePoolsAsked(y.asked, x.asked)
        PROVE  GrantOk(y)
    <2> DEFINE yv == y.v
               xv == x.v
               yk == y.asked
               xk == x.asked
    <2>1. GrantInv(xv, xk)  BY <1>a DEF GrantOk
    <2>2. DOMAIN yv = VFields /\ yv.vlvf = xv.vlvf /\ yv.vlvfb = xv.vlvfb /\ SamePoolsAsked(yk, xk)
      BY <1>a
    <2> HIDE DEF yv, xv, yk, xk
    <2>3. GrantInv(yv, yk)  BY <2>1, <2>2, GrantSame
    <2> QED BY <1>a, <2>3 DEF GrantOk, yv, yk
  <1>b. ASSUME NEW x, NEW y, GrantOk(x), Ready(x.v, c), PooledTo(y, x, c)
        PROVE  GrantOk(y) /\ Ready(y.v, c)
    <2>1. CASE SameFilters(y, x)
      <3>1. /\ IsState(y) /\ DOMAIN y.v = VFields /\ y.v.vlvf = x.v.vlvf /\ y.v.vlvfb = x.v.vlvfb
            /\ SamePoolsAsked(y.asked, x.asked)
        BY <2>1 DEF SameFilters, SameVlan, SamePoolsAsked
      <3>2. Ready(y.v, c)  BY <1>b, <3>1 DEF Ready
      <3> QED BY <1>a, <1>b, <3>1, <3>2
    <2>2. CASE PoolTo(y, x, c)
      <3> DEFINE yv == y.v
                 xv == x.v
                 yk == y.asked
                 xk == x.asked
      <3>1. /\ IsState(y) /\ VmdqSet(yv, xv, c.map, HalvesOf(c)) /\ c.mq \in {"vmdq", "vmdq_dcb"}
            /\ yk = MapAsked(xk, c.map, HalvesOf(c))
        BY <2>2 DEF PoolTo
      <3>2. DOMAIN xk = KFields /\ Ready(xv, c)  BY <1>b DEF GrantOk, IsState
      <3> HIDE DEF yv, xv, yk, xk
      <3>3. MapAskedTo(yk, xk, c.map, HalvesOf(c))  BY <3>1, <3>2, MapAskedIs, Zenon
      <3>4. GrantInv(yv, yk) /\ Ready(yv, c)  BY <3>1, <3>2, <3>3, GrantMap
      <3> QED BY <3>1, <3>4 DEF GrantOk, yv, yk
    <2> QED BY <1>b, <2>1, <2>2 DEF PooledTo
  <1>1. GrantOk(s1) /\ DOMAIN s1.v = VFields
    <2>1. ResetTo(s1, s)  BY <1>0, ResetIs
    <2>2. IsState(s1) /\ s1.v = VlanReset(s.v) /\ SamePoolsAsked(s1.asked, s.asked)
      BY <2>1 DEF ResetTo, SameVlansAsked
    <2>3. WasReset(s1.v, s.v)  BY <1>0, <2>2, VlanResetIs
    <2>4. DOMAIN s1.v = VFields /\ s1.v.vlvf = s.v.vlvf /\ s1.v.vlvfb = s.v.vlvfb
      BY <2>3 DEF WasReset
    <2> QED BY <1>a, <2>2, <2>4
  <1>2. GrantOk(s2) /\ Ready(s2.v, c) /\ DOMAIN s2.v = VFields
    <2> DEFINE w == ixgbe_clear_vfta_generic(s1.v)
    <2>1. HostTo(s2, s1)  BY <1>1, HostFiltersIs DEF GrantOk
    <2>2. IsState(s2) /\ s2.v = ixgbe_pf_host_configure(w, vfs) /\ NoneGranted(s2.asked)
      BY <2>1 DEF HostTo
    <2>3. VftaCleared(w, s1.v)  BY <1>1, ClearVftaIs
    <2> HIDE DEF w
    <2>4. SlotsClear(w) /\ DOMAIN w = VFields  BY <2>3 DEF VftaCleared, SlotsClear
    <2>5. HostSet(s2.v, w, vfs)  BY <2>2, <2>4, HostIs
    <2>6. SlotsClear(s2.v)  BY <2>4, <2>5 DEF HostSet, SlotsClear
    <2>7. Ready(s2.v, c)  BY <2>6 DEF SlotsClear, Ready
    <2> QED BY <2>2, <2>6, <2>7, GrantNone DEF GrantOk, SlotsClear
  <1>3. GrantOk(s3) /\ Ready(s3.v, c) /\ DOMAIN s3.v = VFields
    <2>1. PooledTo(s3, s2, c)  BY <1>2, ModeIs DEF GrantOk
    <2> QED BY <1>2, <1>b, <2>1 DEF Ready
  <1>4. GrantOk(s4) /\ Ready(s4.v, c) /\ DOMAIN s4.v = VFields
    <2>1. OffloadTo(s4, s3, c)  BY <1>3, OffloadFiltersIs DEF GrantOk
    <2>2. /\ IsState(s4) /\ SamePoolsAsked(s4.asked, s3.asked)
          /\ DOMAIN s4.v = VFields /\ s4.v.vlvf = s3.v.vlvf /\ s4.v.vlvfb = s3.v.vlvfb
      BY <2>1 DEF OffloadTo
    <2>3. Ready(s4.v, c)  BY <1>3, <2>2 DEF Ready
    <2> QED BY <1>3, <1>a, <2>2, <2>3
  <1>5. GrantOk(s5)
    <2>1. PooledTo(s5, s4, c) \/ OpenTo(s5, s4)  BY <1>4, DcbIs DEF GrantOk
    <2>2. CASE OpenTo(s5, s4)
      <3>1. /\ IsState(s5) /\ SamePoolsAsked(s5.asked, s4.asked)
            /\ DOMAIN s5.v = VFields /\ s5.v.vlvf = s4.v.vlvf /\ s5.v.vlvfb = s4.v.vlvfb
        BY <2>2 DEF OpenTo, DcbSet
      <3> QED BY <1>4, <1>a, <3>1
    <2> QED BY <1>4, <1>b, <2>1, <2>2
  <1> QED BY <1>1, <1>3, <1>5

\* A call of ixgbe_set_pool_vlan_filter, granted or refused.
DoneBy(vlan, pools, o) == IF o.ret = "ok" THEN {vlan} \X pools ELSE {}
GrantedAfter(k, vlan, pools, on, o) ==
    IF on THEN k.granted \cup DoneBy(vlan, pools, o) ELSE k.granted \ DoneBy(vlan, pools, o)
TakenAfter(k, vlan, pools, o) == k.taken \/ (vlan = 0 /\ k.first # {} /\ DoneBy(vlan, pools, o) # {})

\* After a call that succeeds the slots give what it asked for.
LEMMA PoolCallGrants ==
    ASSUME NEW w, NEW k, GrantInv(w, k), NEW vlan \in Vlans, NEW pools \in SUBSET Pools,
           NEW on \in BOOLEAN, NEW o, Asked(w, vlan, pools, on, o),
           o.ret = "ok" => ZeroBut(o.v, w, vlan, pools, on),
           NEW l, l.granted = GrantedAfter(k, vlan, pools, on, o), l.first = k.first,
           l.taken = TakenAfter(k, vlan, pools, o)
    PROVE  GrantInv(o.v, l)
  <1> DEFINE done == DoneBy(vlan, pools, o)
             H == l.granted
  <1>0. H = IF on THEN k.granted \cup done ELSE k.granted \ done  BY DEF GrantedAfter
  <1>d. \A g : g \in done => g \in {vlan} \X pools  BY DEF DoneBy
  <1>e. o.ret = "ok" => done = {vlan} \X pools  BY DEF DoneBy
  <1>f. o.ret # "ok" => done = {}  BY DEF DoneBy
  <1>t. l.taken = (k.taken \/ (vlan = 0 /\ k.first # {} /\ done # {}))  BY DEF TakenAfter
  <1> HIDE DEF done, H
  <1>1. SlotInv(o.v)  BY DEF Asked
  <1>2. ASSUME NEW g \in H PROVE \E x \in Vlans : \E p : g = <<x, p>>
    <2>1. CASE g \in k.granted
      BY <2>1 DEF GrantInv
    <2>2. CASE g \in {vlan} \X pools
      BY <2>2
    <2> QED BY <2>1, <2>2, <1>0, <1>d
  <1>3. ASSUME NEW x \in Vlans \ {0}, NEW p PROVE Gives(o.v, x, p) <=> <<x, p>> \in H
    <2>1. Gives(w, x, p) <=> <<x, p>> \in k.granted  BY DEF GrantInv
    <2>2. CASE o.ret = "ok"
      <3>1. Gives(o.v, x, p) <=> IF x = vlan /\ p \in pools THEN on ELSE Gives(w, x, p)
        BY <2>2 DEF Asked
      <3>2. <<x, p>> \in done <=> x = vlan /\ p \in pools  BY <2>2, <1>e
      <3> QED BY <2>1, <3>1, <3>2, <1>0
    <2>3. CASE o.ret # "ok"
      <3>1. o.v = w /\ done = {}  BY <2>3, <1>f DEF Asked
      <3> QED BY <2>1, <3>1, <1>0
    <2> QED BY <2>2, <2>3
  <1>4. ZeroInv(o.v, l)
    <2> DEFINE x == o.v
    <2>0. ZeroInv(w, k)  BY DEF GrantInv
    <2>1. CASE o.ret # "ok"
      <3>1. x = w /\ done = {}  BY <2>1, <1>f DEF Asked
      <3>2. H = k.granted /\ (~l.taken => ~k.taken)  BY <3>1, <1>0, <1>t
      <3> QED BY <2>0, <3>1, <3>2 DEF ZeroInv, H
    <2>2. CASE o.ret = "ok"
      <3>0. \A q : <<0, q>> \in done <=> vlan = 0 /\ q \in pools  BY <2>2, <1>e
      <3>1. done # {} <=> pools # {}
        <4>1. ASSUME NEW q \in pools PROVE <<vlan, q>> \in done  BY <2>2, <1>e
        <4>2. pools = {} => done = {}  BY <1>d
        <4> QED BY <4>1, <4>2
      <3>2. /\ \A q : q \in x.vlvfb[0] <=> IF vlan = 0 /\ q \in pools THEN on ELSE q \in w.vlvfb[0]
            /\ vlan # 0 \/ pools = {} => x.vlvf[0] = w.vlvf[0]
            /\ vlan = 0 /\ pools # {} /\ x.vlvfb[0] # {} => x.vlvf[0] = 0
        BY <2>2 DEF ZeroBut
      <3>3. CASE k.first # {}
        <4>1. CASE vlan = 0 /\ pools # {}
          <5>1. l.taken = TRUE  BY <1>t, <3>1, <3>3, <4>1
          <5> QED BY <5>1 DEF ZeroInv
        <4>2. CASE vlan # 0 \/ pools = {}
          <5>1. x.vlvfb[0] = w.vlvfb[0] /\ x.vlvf[0] = w.vlvf[0]
            <6>1. \A q : q \in x.vlvfb[0] <=> q \in w.vlvfb[0]  BY <3>2, <4>2
            <6> QED BY <6>1, <3>2, <4>2
          <5>2. ~l.taken => ~k.taken  BY <1>t
          <5> QED BY <2>0, <3>3, <5>1, <5>2 DEF ZeroInv
        <4> QED BY <4>1, <4>2
      <3>4. CASE k.first = {}
        <4> SUFFICES ASSUME ~k.taken PROVE ZeroInv(x, l)
          BY <1>t DEF ZeroInv
        <4>1. (\A q : q \in w.vlvfb[0] <=> <<0, q>> \in k.granted) /\ (w.vlvfb[0] # {} => w.vlvf[0] = 0)
          BY <2>0, <3>4 DEF ZeroInv
        <4>2. ASSUME NEW q PROVE q \in x.vlvfb[0] <=> <<0, q>> \in H
          <5>1. <<0, q>> \in H <=> IF vlan = 0 /\ q \in pools THEN on ELSE <<0, q>> \in k.granted
            BY <1>0, <3>0
          <5> QED BY <5>1, <3>2, <4>1
        <4>3. x.vlvfb[0] # {} => x.vlvf[0] = 0
          <5>1. CASE vlan = 0 /\ pools # {}
            BY <5>1, <3>2
          <5>2. CASE vlan # 0 \/ pools = {}
            <6>1. \A q : q \in x.vlvfb[0] <=> q \in w.vlvfb[0]  BY <3>2, <5>2
            <6>2. x.vlvfb[0] = w.vlvfb[0]  BY <6>1
            <6> QED BY <6>2, <3>2, <4>1, <5>2
          <5> QED BY <5>1, <5>2
        <4> QED BY <3>4, <4>2, <4>3 DEF ZeroInv, H
      <3> QED BY <3>3, <3>4
    <2> QED BY <2>1, <2>2
  <1> QED BY <1>1, <1>2, <1>3, <1>4 DEF GrantInv, H

\* The invariant.
PoolInv == DOMAIN asked = KFields /\ GrantInv(v, asked)

\* The calls about VLANs and pools keep it.
LEMMA VlanCallGrants == PoolInv /\ VlanCall => PoolInv'
  <1> SUFFICES ASSUME PoolInv, VlanCall PROVE PoolInv'
    OBVIOUS
  <1>0. DOMAIN asked = KFields /\ GrantInv(v, asked) /\ SlotInv(v) /\ DOMAIN v = VFields
    BY DEF PoolInv, GrantInv, SlotInv
  <1>a. ASSUME NEW x, NEW l, x = v', l = asked', DOMAIN l = KFields, SamePoolsAsked(l, asked),
               DOMAIN x = VFields, x.vlvf = v.vlvf, x.vlvfb = v.vlvfb
        PROVE  PoolInv'
    <2>1. GrantInv(x, l)  BY <1>0, <1>a, GrantSame
    <2> QED BY <1>a, <2>1 DEF PoolInv
  <1>b. ASSUME asked' = asked, SameVlan(v', v) PROVE PoolInv'
    <2>1. DOMAIN v' = VFields /\ v'.vlvf = v.vlvf /\ v'.vlvfb = v.vlvfb  BY <1>b DEF SameVlan
    <2>2. DOMAIN asked' = KFields /\ SamePoolsAsked(asked', asked)  BY <1>0, <1>b DEF SamePoolsAsked
    <2> QED BY <1>a, <2>1, <2>2
  <1>1. ASSUME NEW on \in BOOLEAN, NEW vlan \in Vlans, NEW ps \in SUBSET Pools, SetPoolVlanFilter(vlan, ps, on)
        PROVE  PoolInv'
    <2> DEFINE o == ixgbe_set_pool_vlan_filter(v, vlan, ps, on)
               H == GrantedAfter(asked, vlan, ps, on, o)
               T == TakenAfter(asked, vlan, ps, o)
    <2>1. v' = o.v /\ asked' = [asked EXCEPT !.granted = H, !.taken = T]
      BY <1>1, Zenon DEF SetPoolVlanFilter, GrantedAfter, TakenAfter, DoneBy
    <2>2. Asked(v, vlan, ps, on, o)  BY <1>0, PoolFilterSlots
    <2>3. o.ret = "ok" => ZeroBut(o.v, v, vlan, ps, on)
      <3>1. CASE v.vt
        <4>1. SlotShape(v)  BY <1>0 DEF SlotInv, SlotShape
        <4> QED BY <4>1, <3>1, PoolFilterZero
      <3>2. CASE ~v.vt
        <4>1. o = [v |-> v, ret |-> "ENOTSUP"]  BY <1>0, <3>2, PoolFilterFrame
        <4> HIDE DEF o
        <4> QED BY <4>1
      <3> QED BY <3>1, <3>2
    <2> HIDE DEF o
    <2> DEFINE l == [asked EXCEPT !.granted = H, !.taken = T]
    <2>4. DOMAIN l = KFields /\ l.granted = H /\ l.taken = T /\ l.first = asked.first
      <3> HIDE DEF H, T
      <3> QED BY <1>0 DEF KFields
    <2> HIDE DEF l
    <2>5. GrantInv(o.v, l)  BY <1>0, <2>2, <2>3, <2>4, PoolCallGrants
    <2> QED BY <2>1, <2>4, <2>5 DEF PoolInv, l
  <1>2. ASSUME NEW on \in BOOLEAN, NEW vlan \in Vlans, VlanFilterSet(vlan, on)
        PROVE  PoolInv'
    <2>1. PICK mark, left : asked' = [asked EXCEPT !.vlan = mark, !.open = left]
      BY <1>2, Zenon DEF VlanFilterSet
    <2>2. DOMAIN asked' = KFields /\ SamePoolsAsked(asked', asked)
      BY <1>0, <2>1 DEF KFields, SamePoolsAsked
    <2>3. FilterSet(v', v, vlan, on)
      BY <1>0, <1>2, FilterSetIs DEF VlanFilterSet
    <2>4. DOMAIN v' = VFields /\ v'.vlvf = v.vlvf /\ v'.vlvfb = v.vlvfb  BY <2>3 DEF FilterSet
    <2> QED BY <1>a, <2>2, <2>4
  <1>3. ASSUME NEW on \in BOOLEAN, NEW q \in RxQueues, VlanStripQueueSet(q, on) PROVE PoolInv'
    BY <1>0, <1>3, <1>b, StripIs DEF VlanStripQueueSet
  <1>4. ASSUME NEW on \in BOOLEAN, NEW p \in Pools, SetPool(p, on) PROVE PoolInv'
    BY <1>0, <1>4, <1>b, PoolIs DEF SetPool
  <1>5. ASSUME NEW r \in Rules, Mirror(r) PROVE PoolInv'
    BY <1>0, <1>5, <1>b, MirrorIs DEF Mirror
  <1>6. ASSUME NEW c \in Confs, VlanOffloadSet(c) PROVE PoolInv'
    <2>1. PICK mask, left : v' = ixgbe_vlan_offload_set(v, mask, c) /\ asked' = [asked EXCEPT !.open = left]
      BY <1>6, Zenon DEF VlanOffloadSet
    <2>2. DOMAIN asked' = KFields /\ SamePoolsAsked(asked', asked)
      BY <1>0, <2>1 DEF KFields, SamePoolsAsked
    <2>3. Offloaded(v', v, mask, c)  BY <1>0, <2>1, OffloadIs
    <2>4. DOMAIN v' = VFields /\ v'.vlvf = v.vlvf /\ v'.vlvfb = v.vlvfb  BY <2>3 DEF Offloaded
    <2> QED BY <1>a, <2>2, <2>4
  <1> QED BY <1>1, <1>2, <1>3, <1>4, <1>5, <1>6 DEF VlanCall

\* Every step keeps it.
LEMMA PoolStep == MapsSound /\ PoolInv /\ [Next]_vars => PoolInv'
  <1> SUFFICES ASSUME MapsSound, PoolInv, [Next]_vars PROVE PoolInv'
    OBVIOUS
  <1>0. DOMAIN asked = KFields /\ GrantInv(v, asked)  BY DEF PoolInv
  <1>a. GrantOk(State)  BY <1>0, StateIs DEF GrantOk
  <1>b. ASSUME NEW x, GrantOk(x), Become(x) PROVE PoolInv'
    BY <1>b DEF GrantOk, IsState, Become, PoolInv
  <1>1. ASSUME NEW c \in Confs, ixgbe_dev_start(c) PROVE PoolInv'
    <2> DEFINE s1 == ResetFilters(State)
               s3 == ModeFilters(HostFilters(s1), c)
               s5 == DcbFilters(OffloadFilters(s3, c), c)
    <2>1. StartLeaves(c)  BY <1>0, <1>1, StartLeft
    <2>2. GrantOk(s1) /\ GrantOk(s3) /\ GrantOk(s5)  BY <1>a, GrantStages
    <2>3. \/ \E x \in {State, s1, s3} : Become(x)
          \/ \E g : Become([s5 EXCEPT !.f = g])
      BY <2>1, Zenon DEF StartLeaves
    <2> HIDE DEF s1, s3, s5
    <2>4. ASSUME NEW g PROVE GrantOk([s5 EXCEPT !.f = g])
      BY <2>2 DEF GrantOk, IsState, SFields
    <2> QED BY <1>a, <1>b, <2>2, <2>3, <2>4
  <1>2. CASE ixgbe_dev_stop
    <2>1. PICK x \in {State, ResetFilters(State)} : Become(x)  BY <1>2 DEF ixgbe_dev_stop
    <2>2. GrantOk(ResetFilters(State))
      <3>1. State.v = v /\ DOMAIN v = VFields /\ IsState(State) /\ State.asked = asked
        BY <1>0, StateIs DEF GrantInv, SlotInv
      <3>2. ResetTo(ResetFilters(State), State)  BY <3>1, ResetIs
      <3> DEFINE y == ResetFilters(State)
                 yv == y.v
                 yk == y.asked
      <3>3. IsState(y) /\ yv = VlanReset(v) /\ SamePoolsAsked(yk, asked)
        BY <3>1, <3>2 DEF ResetTo, SameVlansAsked
      <3> HIDE DEF yv, yk
      <3>4. WasReset(yv, v)  BY <3>1, <3>3, VlanResetIs
      <3>5. DOMAIN yv = VFields /\ yv.vlvf = v.vlvf /\ yv.vlvfb = v.vlvfb
        BY <3>4 DEF WasReset
      <3>6. GrantInv(yv, yk)  BY <1>0, <3>3, <3>5, GrantSame
      <3> HIDE DEF y
      <3>7. GrantOk(y)  BY <3>3, <3>6 DEF GrantOk, yv, yk
      <3> QED BY <3>7 DEF y
    <2>3. GrantOk(x)  BY <2>1, <1>a, <2>2
    <2> QED BY <2>1, <2>3, <1>b
  <1>3. CASE AddrCall
    <2>1. v' = v /\ DOMAIN asked' = KFields /\ SamePoolsAsked(asked', asked)
      BY <1>0, <1>3, AddrCallLeaves DEF AddrFrame, SameVlansAsked
    <2>2. DOMAIN v = VFields  BY <1>0 DEF GrantInv, SlotInv
    <2> DEFINE l == asked'
    <2>3. SamePoolsAsked(l, asked)  BY <2>1
    <2> HIDE DEF l
    <2>4. GrantInv(v, l)  BY <1>0, <2>2, <2>3, GrantSame
    <2> QED BY <2>1, <2>4 DEF PoolInv, l
  <1>4. CASE VlanCall
    BY <1>4, VlanCallGrants
  <1>5. CASE FdirCall
    <2>1. v' = v /\ asked' = asked
      BY <1>5 DEF FdirCall, AddPerfect, AddSignature, RemoveSignature, RemovePerfect, SetMasks, Director
    <2> QED BY <2>1, <1>0 DEF PoolInv
  <1>6. CASE UNCHANGED vars
    BY <1>6, <1>0 DEF vars, PoolInv
  <1> QED BY <1>1, <1>2, <1>3, <1>4, <1>5, <1>6, NextIs

\* It is what SlotsExact says, pair by pair.
LEMMA PoolSlotsExact == PoolInv => SlotsExact
  <1> SUFFICES ASSUME PoolInv PROVE SlotsExact
    OBVIOUS
  <1>0. GrantInv(v, asked) /\ SlotInv(v)  BY DEF PoolInv, GrantInv
  <1> DEFINE U == Pairs(Slots \ {0})
             W == {g \in asked.granted : g[1] # 0}
             Z == {g \in asked.granted : g[1] = 0}
  <1>1. \A g : g \in U <=> \E s \in Spare : g \in {v.vlvf[s]} \X v.vlvfb[s]
    BY DEF Spare, Pairs
  <1>2. ASSUME NEW g \in U PROVE g \in W
    <2>1. PICK s \in Spare : g \in {v.vlvf[s]} \X v.vlvfb[s]  BY <1>1
    <2>2. PICK p \in v.vlvfb[s] : g = <<v.vlvf[s], p>>  BY <2>1
    <2>3. v.vlvf[s] \in Vlans \ {0}  BY <1>0, <2>2 DEF SlotInv
    <2>4. Gives(v, v.vlvf[s], p)  BY <2>2 DEF Gives
    <2>5. g \in asked.granted  BY <1>0, <2>2, <2>3, <2>4 DEF GrantInv
    <2> QED BY <2>2, <2>3, <2>5
  <1>3. ASSUME NEW g \in W PROVE g \in U
    <2>1. PICK x \in Vlans : \E p : g = <<x, p>>  BY <1>0 DEF GrantInv
    <2>a. PICK p : g = <<x, p>>  BY <2>1
    <2>2. x # 0  BY <2>a
    <2>3. Gives(v, x, p)  BY <1>0, <2>a, <2>2 DEF GrantInv
    <2>4. PICK s \in Spare : v.vlvf[s] = x /\ p \in v.vlvfb[s]  BY <2>3 DEF Gives
    <2>5. g \in {v.vlvf[s]} \X v.vlvfb[s]  BY <2>a, <2>4
    <2> QED BY <2>5, <1>1
  <1>4. Pairs({0}) = {v.vlvf[0]} \X v.vlvfb[0]
    BY DEF Pairs
  <1>5. ~asked.taken => Pairs({0}) = IF asked.first # {} THEN asked.first ELSE Z
    <2> SUFFICES ASSUME ~asked.taken PROVE Pairs({0}) = IF asked.first # {} THEN asked.first ELSE Z
      OBVIOUS
    <2>1. IF asked.first # {} THEN {v.vlvf[0]} \X v.vlvfb[0] = asked.first
          ELSE /\ \A q : q \in v.vlvfb[0] <=> <<0, q>> \in asked.granted
               /\ v.vlvfb[0] # {} => v.vlvf[0] = 0
      BY <1>0 DEF GrantInv, ZeroInv
    <2>2. CASE asked.first # {}
      BY <1>4, <2>1, <2>2
    <2>3. CASE asked.first = {}
      <3>1. ASSUME NEW g \in Pairs({0}) PROVE g \in Z
        <4>1. PICK p \in v.vlvfb[0] : g = <<v.vlvf[0], p>>  BY <1>4, <3>1
        <4>2. g = <<0, p>>  BY <4>1, <2>1, <2>3
        <4> QED BY <4>1, <4>2, <2>1, <2>3
      <3>2. ASSUME NEW g \in Z PROVE g \in Pairs({0})
        <4>1. PICK x \in Vlans : \E p : g = <<x, p>>  BY <1>0 DEF GrantInv
        <4>2. PICK p : g = <<x, p>>  BY <4>1
        <4>3. g = <<0, p>>  BY <4>2
        <4>4. p \in v.vlvfb[0] /\ v.vlvf[0] = 0  BY <4>3, <2>1, <2>3
        <4> QED BY <4>3, <4>4, <1>4
      <3> HIDE DEF Z
      <3>3. Pairs({0}) = Z  BY <3>1, <3>2
      <3> QED BY <3>3, <2>3
    <2> QED BY <2>2, <2>3
  <1> HIDE DEF U, W, Z
  <1>6. U = W  BY <1>2, <1>3
  <1>7. /\ \A s, t \in Slots \ {0} : v.vlvf[s] = v.vlvf[t] /\ s # t => v.vlvf[s] = NoVlan
        /\ \A s \in Slots \ {0} : (v.vlvf[s] = NoVlan) <=> (v.vlvfb[s] = {})
    BY <1>0 DEF SlotInv, Spare
  <1> QED BY <1>5, <1>6, <1>7, Zenon DEF SlotsExact, U, W, Z

\* The slots hold exactly what was granted, for maps that fit: the first entry
\* of the map or VLAN 0 in slot 0, of every entry the pools in the half that
\* is written; a call about several pools does all it is asked to or nothing,
\* and a slot is free again when its last pool leaves.
THEOREM SlotsAreExact == MapsSound => (Spec => []SlotsExact)
  <1>1. Init => PoolInv
    <2> SUFFICES ASSUME Init PROVE PoolInv
      OBVIOUS
    <2>1. v = NewVlan /\ asked = NothingAsked  BY DEF Init
    <2>2. SlotsClear(v)  BY <2>1, NewVlanIs DEF SlotsClear
    <2> QED BY <2>1, <2>2, NewAsked, GrantNone DEF PoolInv
  <1> SUFFICES ASSUME MapsSound PROVE Spec => []SlotsExact
    OBVIOUS
  <1>2. PoolInv /\ [Next]_vars => PoolInv'
    BY PoolStep
  <1> QED BY <1>1, <1>2, PoolSlotsExact, PTL DEF Spec

-----------------------------------------------------------------------------
(* The flow director.                                                      *)

FFields == {"mode", "alloc", "drop", "pb0", "masks", "filters"}

\* Written under the masks in force, with the bucket and the index by which a
\* removal of its kind looks for it.
InForce(e, g) ==
    /\ e.masks = g.masks
    /\ e.key = IF e.kind = "perfect"
               THEN [bucket |-> atr_compute_perfect_hash_82599(e.flow, g.alloc), index |-> Soft(e.flow)]
               ELSE atr_compute_sig_hash_82599(e.flow, g.alloc)

\* g is f with filters that were there or are in force, or with none.
DirectorKeeps(g, h) ==
    /\ DOMAIN g = FFields /\ g.mode = h.mode /\ g.alloc = h.alloc
    /\ \/ g.masks = h.masks /\ \A e \in g.filters : e \in h.filters \/ InForce(e, h)
       \/ g.filters = {}

\* A filter that is added.
LEMMA PutKeeps ==
    ASSUME NEW h, DOMAIN h = FFields, NEW e, InForce(e, h)
    PROVE  DirectorKeeps(Put(h, e), h)
  <1> DEFINE g == Put(h, e)
  <1>1. g = [h EXCEPT !.filters = {y \in h.filters : y.key # e.key \/ y.flow # e.flow} \cup {e}]
    BY Zenon DEF Put
  <1> DEFINE S == {y \in h.filters : y.key # e.key \/ y.flow # e.flow} \cup {e}
  <1>2. \A y \in S : y \in h.filters \/ InForce(y, h)
    OBVIOUS
  <1> HIDE DEF S, g
  <1>3. /\ DOMAIN g = FFields /\ g.mode = h.mode /\ g.alloc = h.alloc /\ g.masks = h.masks
        /\ g.filters = S
    BY <1>1 DEF FFields, S
  <1>4. DirectorKeeps(g, h)  BY <1>2, <1>3 DEF DirectorKeeps
  <1> QED BY <1>4 DEF g

\* A call that fails changes nothing.
LEMMA KeepsItself == ASSUME NEW h, DOMAIN h = FFields PROVE DirectorKeeps(h, h)
  BY DEF DirectorKeeps

\* A filter that is removed.
LEMMA EraseKeeps ==
    ASSUME NEW h, DOMAIN h = FFields, NEW key, NEW o \in fdir_erase_filter_82599(h, key)
    PROVE  DirectorKeeps(o.f, h)
  <1> DEFINE found == {e \in h.filters : e.key = key}
             without == {[h EXCEPT !.filters = @ \ {e}] : e \in found}
  <1>1. fdir_erase_filter_82599(h, key) =
           {[f |-> g, ret |-> "ok"] : g \in IF found = {} THEN {h} ELSE without}
           \cup {[f |-> g, ret |-> "EIO"] : g \in {h} \cup without}
    BY Zenon DEF fdir_erase_filter_82599
  <1>2. ASSUME NEW g \in without PROVE DirectorKeeps(g, h)
    <2>1. PICK e \in found : g = [h EXCEPT !.filters = @ \ {e}]  BY <1>2
    <2> HIDE DEF found, without
    <2>2. /\ DOMAIN g = FFields /\ g.mode = h.mode /\ g.alloc = h.alloc /\ g.masks = h.masks
          /\ g.filters = h.filters \ {e}
      BY <2>1 DEF FFields
    <2> QED BY <2>2 DEF DirectorKeeps
  <1> HIDE DEF found, without
  <1>3. o.f = h \/ o.f \in without
    BY <1>1
  <1> QED BY <1>2, <1>3, KeepsItself

\* The masks are changed in tables that are empty.
LEMMA MasksKeep ==
    ASSUME NEW h, DOMAIN h = FFields, NEW m, NEW o \in ixgbe_fdir_set_masks(h, m)
    PROVE  DirectorKeeps(o.f, h)
  <1> DEFINE cleared == [h EXCEPT !.filters = {}]
  <1>1. PICK r \in ixgbe_reinit_fdir_tables_82599(h) :
              o \in IF r.ret = "ok" THEN fdir_set_input_mask_82599(r.f, m) ELSE Fails(r.f, "EIO")
    BY Zenon DEF ixgbe_fdir_set_masks
  <1>2. r \in {[f |-> h, ret |-> "REINIT_FAILED"], [f |-> cleared, ret |-> "ok"],
               [f |-> cleared, ret |-> "REINIT_FAILED"]}
    BY DEF ixgbe_reinit_fdir_tables_82599, Fails, Done
  <1>3. /\ DOMAIN cleared = FFields /\ cleared.mode = h.mode /\ cleared.alloc = h.alloc
        /\ cleared.filters = {}
    BY DEF FFields
  <1> HIDE DEF cleared
  <1>4. CASE r.ret = "ok"
    <2>1. r.f = cleared  BY <1>2, <1>4
    <2>2. o \in fdir_set_input_mask_82599(cleared, m)  BY <1>1, <1>4, <2>1
    <2>3. o.f = cleared \/ o.f = [cleared EXCEPT !.masks = m]
      BY <2>2 DEF fdir_set_input_mask_82599, Fails, Done
    <2> DEFINE masked == [cleared EXCEPT !.masks = m]
    <2>4. /\ DOMAIN masked = FFields /\ masked.mode = h.mode /\ masked.alloc = h.alloc
          /\ masked.filters = {}
      BY <1>3 DEF FFields
    <2> HIDE DEF masked
    <2> QED BY <1>3, <2>3, <2>4 DEF DirectorKeeps, masked
  <1>5. CASE r.ret # "ok"
    <2>1. o.f = r.f  BY <1>1, <1>5 DEF Fails
    <2>2. r.f = h \/ r.f = cleared  BY <1>2
    <2> QED BY <1>3, <2>1, <2>2, KeepsItself DEF DirectorKeeps
  <1> QED BY <1>4, <1>5

\* A call of the flow director: with a configuration of the same size as the
\* tables it adds filters that are in force.
DirectorCall(g, h, c) ==
    DOMAIN g = FFields /\ g.mode = h.mode /\ (h.alloc = c.alloc => DirectorKeeps(g, h))

\* What a call may leave, from the outcomes the module gives it: a filter written.
LEMMA PutCall ==
    ASSUME NEW h, DOMAIN h = FFields, NEW c, NEW e, h.alloc = c.alloc => InForce(e, h)
    PROVE  DirectorCall(Put(h, e), h, c)
  <1> DEFINE g == Put(h, e)
             S == {y \in h.filters : y.key # e.key \/ y.flow # e.flow} \cup {e}
  <1>1. g = [h EXCEPT !.filters = S]
    BY Zenon DEF Put
  <1> HIDE DEF S, g
  <1>2. DOMAIN g = FFields /\ g.mode = h.mode  BY <1>1 DEF FFields
  <1>3. h.alloc = c.alloc => DirectorKeeps(g, h)  BY PutKeeps DEF g
  <1> QED BY <1>2, <1>3 DEF DirectorCall, g

\* The call that adds a signature filter.
LEMMA SignatureCall ==
    ASSUME NEW h, DOMAIN h = FFields, NEW c, NEW flow, NEW q,
           NEW o \in fdir_add_update_signature_filter(h, c, flow, q)
    PROVE  DirectorCall(o.f, h, c)
  <1> DEFINE key == atr_compute_sig_hash_82599(flow, c.alloc)
             e == [kind |-> "signature", flow |-> flow, queue |-> q, key |-> key, masks |-> h.masks]
  <1>1. o.f = h \/ o.f = Put(h, e)
    BY DEF fdir_add_update_signature_filter, fdir_add_signature_filter_82599, Fails, Done
  <1>2. h.alloc = c.alloc => InForce(e, h)
    BY DEF InForce
  <1> HIDE DEF e
  <1>3. DirectorCall(Put(h, e), h, c)  BY <1>2, PutCall
  <1>4. DirectorCall(h, h, c)  BY KeepsItself DEF DirectorCall
  <1> QED BY <1>1, <1>3, <1>4

\* The call that adds a perfect filter.
LEMMA PerfectCall ==
    ASSUME NEW h, DOMAIN h = FFields, NEW c, NEW flow, NEW soft, NEW q, NEW drop,
           soft = Soft(flow), NEW o \in fdir_add_update_perfect_filter(h, c, flow, soft, q, drop)
    PROVE  DirectorCall(o.f, h, c)
  <1> DEFINE key == [bucket |-> atr_compute_perfect_hash_82599(flow, c.alloc), index |-> Soft(flow)]
             queue == IF drop THEN c.drop ELSE q
             e == [kind |-> "perfect", flow |-> flow, queue |-> queue, key |-> key, masks |-> h.masks]
  <1>1. o.f = h \/ o.f = Put(h, e)
    BY DEF fdir_add_update_perfect_filter, fdir_write_perfect_filter_82599, Fails, Done
  <1>2. h.alloc = c.alloc => InForce(e, h)
    BY DEF InForce
  <1> HIDE DEF e
  <1>3. DirectorCall(Put(h, e), h, c)  BY <1>2, PutCall
  <1>4. DirectorCall(h, h, c)  BY KeepsItself DEF DirectorCall
  <1> QED BY <1>1, <1>3, <1>4

\* The two calls that remove a filter.
LEMMA RemoveCall ==
    ASSUME NEW h, DOMAIN h = FFields, NEW c, NEW flow, NEW soft,
           NEW o \in ixgbe_fdir_remove_signature_filter(h, c, flow)
                     \cup ixgbe_fdir_remove_perfect_filter(h, c, flow, soft)
    PROVE  DirectorCall(o.f, h, c)
  <1>1. \/ o.f = h
        \/ \E key : o \in fdir_erase_filter_82599(h, key)
    BY DEF ixgbe_fdir_remove_signature_filter, ixgbe_fdir_remove_perfect_filter, Fails
  <1>2. ASSUME NEW key, o \in fdir_erase_filter_82599(h, key) PROVE DirectorKeeps(o.f, h)
    BY <1>2, EraseKeeps
  <1>3. DirectorKeeps(o.f, h)  BY <1>1, <1>2, KeepsItself
  <1> QED BY <1>3 DEF DirectorCall, DirectorKeeps

\* All calls of the flow director keep its filters current.
LEMMA FdirCallIs ==
    ASSUME FdirCall, DOMAIN f = FFields
    PROVE  DirectorCall(f', f, conf.fdir) /\ conf' = conf /\ started' = started
  <1>1. ASSUME NEW outcomes, Director(outcomes), \A o \in outcomes : DirectorCall(o.f, f, conf.fdir)
        PROVE  DirectorCall(f', f, conf.fdir) /\ conf' = conf /\ started' = started
    BY <1>1 DEF Director, Call
  <1>2. ASSUME NEW flow \in Flows, NEW q \in RxQueues, NEW drop \in BOOLEAN, AddPerfect(flow, q, drop)
        PROVE  DirectorCall(f', f, conf.fdir) /\ conf' = conf /\ started' = started
    BY <1>1, <1>2, PerfectCall DEF AddPerfect
  <1>3. ASSUME NEW flow \in Flows, NEW q \in RxQueues, AddSignature(flow, q)
        PROVE  DirectorCall(f', f, conf.fdir) /\ conf' = conf /\ started' = started
    BY <1>1, <1>3, SignatureCall DEF AddSignature
  <1>4. ASSUME NEW flow \in Flows, RemoveSignature(flow) \/ RemovePerfect(flow)
        PROVE  DirectorCall(f', f, conf.fdir) /\ conf' = conf /\ started' = started
    BY <1>1, <1>4, RemoveCall DEF RemoveSignature, RemovePerfect
  <1>5. ASSUME NEW m \in Masks, SetMasks(m)
        PROVE  DirectorCall(f', f, conf.fdir) /\ conf' = conf /\ started' = started
    <2>1. \A o \in ixgbe_fdir_set_masks(f, m) : DirectorCall(o.f, f, conf.fdir)
      BY MasksKeep DEF DirectorCall, DirectorKeeps
    <2> QED BY <1>1, <1>5, <2>1 DEF SetMasks
  <1> QED BY <1>2, <1>3, <1>4, <1>5 DEF FdirCall

\* The invariant: while the flow director runs its tables have the size that
\* is configured.
DirInv ==
    /\ DOMAIN f = FFields
    /\ started /\ f.mode # "none" =>
          f.alloc = conf.fdir.alloc /\ \A e \in f.filters : InForce(e, f)

\* The flow director before it is configured.
LEMMA NewFdirIs == DOMAIN NewFdir = FFields /\ NewFdir.mode = "none" /\ NewFdir.filters = {}
  BY DEF NewFdir, FFields

\* A start configures tables that are empty.
LEMMA ConfigureIs ==
    ASSUME NEW c, NEW g \in ixgbe_fdir_configure(NewFdir, c)
    PROVE  DOMAIN g.f = FFields /\ (g.ret = "ok" => g.f.alloc = c.alloc /\ g.f.filters = {})
  <1> DEFINE less == [NewFdir EXCEPT !.pb0 = @ - c.alloc]
             on == fdir_enable_82599(less, c)
  <1>1. g \in {[f |-> NewFdir, ret |-> "EINVAL"], [f |-> on, ret |-> "ok"]}
    BY DEF ixgbe_fdir_configure, Fails, Done
  <1>2. DOMAIN less = FFields /\ less.filters = {}
    BY NewFdirIs DEF FFields
  <1> HIDE DEF less
  <1>3. DOMAIN on = FFields /\ on.alloc = c.alloc /\ on.filters = {}
    BY <1>2 DEF fdir_enable_82599, FFields
  <1> HIDE DEF on
  <1> QED BY <1>1, <1>3, NewFdirIs

\* Every step keeps it.
LEMMA DirStep == VlanInv /\ DirInv /\ [Next]_vars => DirInv'
  <1> SUFFICES ASSUME VlanInv, DirInv, [Next]_vars PROVE DirInv'
    OBVIOUS
  <1>0. /\ DOMAIN asked = KFields /\ TableInv(v, asked) /\ DOMAIN f = FFields
        /\ IsState(State) /\ TableOk(State) /\ State.f = f
    BY StateIs DEF VlanInv, DirInv, TableOk
  <1>1. ASSUME NEW c \in Confs, ixgbe_dev_start(c) PROVE DirInv'
    <2> DEFINE s1 == ResetFilters(State)
               s2 == HostFilters(s1)
               s3 == ModeFilters(s2, c)
               s4 == OffloadFilters(s3, c)
               s5 == DcbFilters(s4, c)
    <2>1. StartLeaves(c) /\ conf' = c  BY <1>0, <1>1, StartLeft
    <2>2. \/ \E x \in {State, s1, s3} : Become(x) /\ started' = FALSE
          \/ \E g : /\ Become([s5 EXCEPT !.f = g.f]) /\ started' = (g.ret = "ok")
                    /\ g \in IF c.fdir.mode = "none" THEN {[f |-> s5.f, ret |-> "ok"]}
                             ELSE ixgbe_fdir_configure(s5.f, c.fdir)
      BY <2>1, Zenon DEF StartLeaves
    <2>3. TableOk(s1) /\ TableOk(s2) /\ TableOk(s3) /\ TableOk(s4) /\ TableOk(s5)  BY <1>0, TableStages
    <2>4. s1.f = NewFdir
      BY <1>0, ResetIs DEF ResetTo
    <2>5. s2.f = s1.f
      BY <2>3, HostFiltersIs DEF HostTo, TableOk
    <2>6. s3.f = s2.f
      <3>1. PooledTo(s3, s2, c)  BY <2>3, ModeIs DEF TableOk, TableInv
      <3> HIDE DEF s2, s3
      <3> QED BY <3>1 DEF PooledTo, PoolTo, SameFilters
    <2>7. s4.f = s3.f
      BY <2>3, OffloadFiltersIs DEF OffloadTo, TableOk, TableInv
    <2>d. s5.f = s4.f
      <3>1. PooledTo(s5, s4, c) \/ OpenTo(s5, s4)  BY <2>3, DcbIs DEF TableOk, TableInv
      <3> HIDE DEF s4, s5
      <3> QED BY <3>1 DEF PooledTo, PoolTo, SameFilters, OpenTo
    <2> HIDE DEF s1, s2, s3, s4, s5
    <2>8. ASSUME NEW x \in {State, s1, s3}, Become(x), started' = FALSE PROVE DirInv'
      <3>1. DOMAIN x.f = FFields  BY <1>0, <2>4, <2>5, <2>6, NewFdirIs
      <3> QED BY <3>1, <2>8 DEF Become, DirInv
    <2>9. ASSUME NEW g, Become([s5 EXCEPT !.f = g.f]), started' = (g.ret = "ok"),
                 g \in IF c.fdir.mode = "none" THEN {[f |-> s5.f, ret |-> "ok"]}
                       ELSE ixgbe_fdir_configure(s5.f, c.fdir)
          PROVE  DirInv'
      <3>1. f' = g.f
        <4>1. DOMAIN s5 = SFields  BY <2>3 DEF TableOk, IsState
        <4>2. [s5 EXCEPT !.f = g.f].f = g.f  BY <4>1 DEF SFields
        <4> QED BY <4>2, <2>9 DEF Become
      <3>2. s5.f = NewFdir  BY <2>4, <2>5, <2>6, <2>7, <2>d
      <3>3. CASE c.fdir.mode = "none"
        <4>1. g.f = NewFdir  BY <3>2, <3>3, <2>9
        <4> QED BY <4>1, <3>1, NewFdirIs DEF DirInv
      <3>4. CASE c.fdir.mode # "none"
        <4>1. g \in ixgbe_fdir_configure(NewFdir, c.fdir)  BY <3>2, <3>4, <2>9
        <4>2. DOMAIN g.f = FFields /\ (g.ret = "ok" => g.f.alloc = c.fdir.alloc /\ g.f.filters = {})
          BY <4>1, ConfigureIs
        <4> QED BY <4>2, <3>1, <2>1, <2>9 DEF DirInv
      <3> QED BY <3>3, <3>4
    <2> QED BY <2>2, <2>8, <2>9
  <1>2. CASE ixgbe_dev_stop
    <2>1. PICK x \in {State, ResetFilters(State)} : Become(x)  BY <1>2 DEF ixgbe_dev_stop
    <2>2. started' = FALSE  BY <1>2 DEF ixgbe_dev_stop
    <2>3. ResetFilters(State).f = NewFdir  BY <1>0, ResetIs DEF ResetTo
    <2>4. DOMAIN x.f = FFields  BY <1>0, <2>1, <2>3, NewFdirIs
    <2> QED BY <2>1, <2>2, <2>4 DEF Become, DirInv
  <1>3. CASE AddrCall
    BY <1>0, <1>3, AddrCallLeaves DEF AddrFrame, DirInv
  <1>4. CASE VlanCall
    <2>1. f' = f /\ conf' = conf /\ started' = started
      BY <1>4 DEF VlanCall, VlanFilterSet, SetPoolVlanFilter, VlanStripQueueSet, SetPool,
                  VlanOffloadSet, Mirror, Call
    <2> QED BY <2>1 DEF DirInv
  <1>5. CASE FdirCall
    <2>1. DirectorCall(f', f, conf.fdir) /\ conf' = conf /\ started' = started
      BY <1>0, <1>5, FdirCallIs
    <2>2. DOMAIN f' = FFields /\ f'.mode = f.mode  BY <2>1 DEF DirectorCall
    <2>3. ASSUME started, f.mode # "none"
          PROVE  f'.alloc = conf.fdir.alloc /\ \A e \in f'.filters : InForce(e, f')
      <3>1. f.alloc = conf.fdir.alloc /\ \A e \in f.filters : InForce(e, f)  BY <2>3 DEF DirInv
      <3>2. DirectorKeeps(f', f)  BY <2>1, <3>1 DEF DirectorCall
      <3> QED BY <3>1, <3>2 DEF DirectorKeeps, InForce
    <2> QED BY <2>1, <2>2, <2>3 DEF DirInv
  <1>6. CASE UNCHANGED vars
    BY <1>6 DEF vars, DirInv
  <1> QED BY <1>1, <1>2, <1>3, <1>4, <1>5, <1>6, NextIs

\* While the flow director runs, every filter in its tables was written under
\* the masks in force, and a removal looks for it where it was put: masks
\* change only in empty tables, and the size of the tables, of which buckets
\* are computed, is the configured one.
THEOREM FiltersAreCurrent == Spec => []FiltersCurrent
  <1>1. Init => VlanInv /\ DirInv
    BY VlanInvInit, NewFdirIs DEF Init, DirInv
  <1>2. VlanInv /\ DirInv /\ [Next]_vars => (VlanInv /\ DirInv)'
    BY VlanStep, DirStep
  <1>3. DirInv => FiltersCurrent
    BY DEF DirInv, InForce, FiltersCurrent
  <1> QED BY <1>1, <1>2, <1>3, PTL DEF Spec

-----------------------------------------------------------------------------
(* Addresses.                                                              *)

\* The registers.
LEMMA RarsAre == NumRar \in Nat /\ NumRar > 1 /\ 0 \in Rars /\ NumRar - 1 \in Rars
                 /\ \A i \in Rars : i \in Nat /\ i < NumRar
  BY AddrAssumption DEF Rars

\* A pool is added to register i.
PoolAdded(x, w, i, p) ==
    /\ RegSame(x, w) /\ x.rar = w.rar
    /\ \A j \in Rars : x.mp[j] = IF j = i /\ i < w.num THEN w.mp[j] \cup {p} ELSE w.mp[j]

\* ixgbe_set_vmdq_generic does that.
LEMMA SetVmdqIs ==
    ASSUME NEW w, RegShape(w), NEW i \in Nat, NEW p
    PROVE  PoolAdded(ixgbe_set_vmdq_generic(w, i, p), w, i, p)
  <1>1. CASE i >= w.num
    <2>1. ixgbe_set_vmdq_generic(w, i, p) = w  BY <1>1 DEF ixgbe_set_vmdq_generic
    <2>2. ~(i < w.num)  BY <1>1, RarsAre DEF RegShape
    <2> QED BY <2>1, <2>2 DEF RegSame, PoolAdded
  <1>2. CASE ~(i >= w.num)
    <2> DEFINE x == ixgbe_set_vmdq_generic(w, i, p)
    <2>1. x = [w EXCEPT !.mp[i] = w.mp[i] \cup {p}]  BY <1>2 DEF ixgbe_set_vmdq_generic
    <2>2. i < w.num /\ i \in Rars  BY <1>2, RarsAre DEF RegShape, Rars
    <2> HIDE DEF x
    <2>3. RegSame(x, w) /\ x.rar = w.rar  BY <2>1 DEF RegSame, RegShape, AFields
    <2>4. x.mp = [w.mp EXCEPT ![i] = w.mp[i] \cup {p}]  BY <2>1 DEF RegShape, AFields
    <2>5. \A j \in Rars : x.mp[j] = IF j = i /\ i < w.num THEN w.mp[j] \cup {p} ELSE w.mp[j]
      BY <2>2, <2>4 DEF RegShape
    <2>6. PoolAdded(x, w, i, p)  BY <2>3, <2>5 DEF PoolAdded
    <2> QED BY <2>6 DEF x
  <1> QED BY <1>1, <1>2

\* Pools leave register i, which is cleared when it has none left.
PoolsLeft(x, w, i, ps) ==
    /\ RegSame(x, w)
    /\ \A j \in Rars : x.rar[j] = w.rar[j] \/ (j = i /\ i # 0 /\ x.rar[j] = NoAddr)
    /\ \A j \in Rars : x.mp[j] = IF j = i /\ i < w.num THEN w.mp[j] \ ps ELSE w.mp[j]

\* ixgbe_clear_vmdq_generic does that.
LEMMA ClearVmdqIs ==
    ASSUME NEW w, RegShape(w), NEW i \in Nat, NEW ps
    PROVE  PoolsLeft(ixgbe_clear_vmdq_generic(w, i, ps), w, i, ps)
  <1> DEFINE x == ixgbe_clear_vmdq_generic(w, i, ps)
  <1>1. CASE i >= w.num
    <2>1. x = w  BY <1>1 DEF ixgbe_clear_vmdq_generic
    <2>2. ~(i < w.num)  BY <1>1, RarsAre DEF RegShape
    <2> QED BY <2>1, <2>2 DEF RegSame, PoolsLeft
  <1>2. CASE ~(i >= w.num) /\ w.mp[i] = {}
    <2>1. x = w  BY <1>2 DEF ixgbe_clear_vmdq_generic
    <2>2. \A j \in Rars : w.mp[j] = IF j = i /\ i < w.num THEN w.mp[j] \ ps ELSE w.mp[j]
      BY <1>2
    <2> QED BY <2>1, <2>2 DEF RegSame, PoolsLeft
  <1>3. CASE ~(i >= w.num) /\ w.mp[i] # {}
    <2> DEFINE left == w.mp[i] \ ps
               r == IF left = {} /\ i # 0 THEN NoAddr ELSE w.rar[i]
    <2>1. x = [w EXCEPT !.mp[i] = left, !.rar[i] = r]
      BY <1>3 DEF ixgbe_clear_vmdq_generic
    <2>2. i < w.num /\ i \in Rars  BY <1>3, RarsAre DEF RegShape, Rars
    <2>0. r = w.rar[i] \/ (i # 0 /\ r = NoAddr)  OBVIOUS
    <2> HIDE DEF x, r
    <2>3. RegSame(x, w)  BY <2>1 DEF RegSame, RegShape, AFields
    <2>4. x.mp = [w.mp EXCEPT ![i] = left] /\ x.rar = [w.rar EXCEPT ![i] = r]
      BY <2>1 DEF RegShape, AFields
    <2>5. \A j \in Rars : x.mp[j] = IF j = i /\ i < w.num THEN w.mp[j] \ ps ELSE w.mp[j]
      BY <2>2, <2>4 DEF RegShape
    <2>6. \A j \in Rars : x.rar[j] = w.rar[j] \/ (j = i /\ i # 0 /\ x.rar[j] = NoAddr)
      BY <2>0, <2>2, <2>4 DEF RegShape
    <2>7. PoolsLeft(x, w, i, ps)  BY <2>3, <2>5, <2>6 DEF PoolsLeft
    <2> QED BY <2>7 DEF x
  <1> QED BY <1>1, <1>2, <1>3

\* Register i gets an address, unless it is out of reach.
RarIs(x, w, i, addr) ==
    /\ RegSame(x, w)
    /\ \A j \in Rars : x.rar[j] = IF j = i /\ i < w.num THEN addr ELSE w.rar[j]
    /\ \A j \in Rars : j # i => x.mp[j] = w.mp[j]

\* ixgbe_set_rar_generic does that, and nothing when it is out of reach.
LEMMA SetRarIs ==
    ASSUME NEW w, RegShape(w), NEW i \in Nat, NEW addr, NEW p
    PROVE  /\ RarIs(ixgbe_set_rar_generic(w, i, addr, p), w, i, addr)
           /\ i >= w.num => ixgbe_set_rar_generic(w, i, addr, p) = w
  <1> DEFINE x == ixgbe_set_rar_generic(w, i, addr, p)
  <1>1. CASE i >= w.num
    <2>1. x = w  BY <1>1 DEF ixgbe_set_rar_generic
    <2>2. ~(i < w.num)  BY <1>1, RarsAre DEF RegShape
    <2> QED BY <2>1, <2>2 DEF RegSame, RarIs
  <1>2. CASE ~(i >= w.num)
    <2> DEFINE y == ixgbe_set_vmdq_generic(w, i, p)
    <2>1. x = [y EXCEPT !.rar[i] = addr]
      BY <1>2 DEF ixgbe_set_rar_generic
    <2>2. i < w.num /\ i \in Rars  BY <1>2, RarsAre DEF RegShape, Rars
    <2>3. PoolAdded(y, w, i, p)  BY SetVmdqIs
    <2> HIDE DEF x, y
    <2>4. RegSame(y, w) /\ y.rar = w.rar /\ \A j \in Rars : j # i => y.mp[j] = w.mp[j]
      BY <2>3 DEF PoolAdded
    <2>5. RegShape(y)  BY <2>4 DEF RegSame
    <2>6. x.rar = [y.rar EXCEPT ![i] = addr] /\ x.mp = y.mp
      BY <2>1, <2>5 DEF RegShape, AFields
    <2>7. RegSame(x, y)
      BY <2>1, <2>5 DEF RegSame, RegShape, AFields
    <2>8. RegSame(x, w)  BY <2>4, <2>7 DEF RegSame
    <2>9. \A j \in Rars : x.rar[j] = IF j = i /\ i < w.num THEN addr ELSE w.rar[j]
      BY <2>2, <2>4, <2>5, <2>6 DEF RegShape
    <2>10. RarIs(x, w, i, addr)  BY <2>4, <2>6, <2>8, <2>9 DEF RarIs
    <2> QED BY <2>10, <1>2 DEF x
  <1> QED BY <1>1, <1>2

\* ixgbe_clear_rar_generic: the register gets no address.
LEMMA ClearRarIs ==
    ASSUME NEW w, RegShape(w), NEW i \in Nat
    PROVE  RarIs(ixgbe_clear_rar_generic(w, i), w, i, NoAddr)
  <1> DEFINE x == ixgbe_clear_rar_generic(w, i)
  <1>1. CASE i >= w.num
    <2>1. x = w  BY <1>1 DEF ixgbe_clear_rar_generic
    <2>2. ~(i < w.num)  BY <1>1, RarsAre DEF RegShape
    <2> QED BY <2>1, <2>2 DEF RegSame, RarIs
  <1>2. CASE ~(i >= w.num)
    <2> DEFINE y == [w EXCEPT !.rar[i] = NoAddr]
    <2>1. x = ixgbe_clear_vmdq_generic(y, i, VMDQ_ALL)
      BY <1>2 DEF ixgbe_clear_rar_generic
    <2>2. i < w.num /\ i \in Rars  BY <1>2, RarsAre DEF RegShape, Rars
    <2>3. RegSame(y, w) /\ y.rar = [w.rar EXCEPT ![i] = NoAddr] /\ y.mp = w.mp
      BY DEF RegSame, RegShape, AFields
    <2> HIDE DEF x, y
    <2>4. RegShape(y)  BY <2>3 DEF RegSame
    <2>5. PoolsLeft(x, y, i, VMDQ_ALL)  BY <2>1, <2>4, ClearVmdqIs
    <2>6. RegSame(x, w)  BY <2>3, <2>5 DEF PoolsLeft, RegSame
    <2>7. \A j \in Rars : y.rar[j] = IF j = i THEN NoAddr ELSE w.rar[j]
      BY <2>3 DEF RegShape
    <2>8. \A j \in Rars : x.rar[j] = IF j = i /\ i < w.num THEN NoAddr ELSE w.rar[j]
      BY <2>2, <2>5, <2>7 DEF PoolsLeft
    <2>9. \A j \in Rars : j # i => x.mp[j] = w.mp[j]
      BY <2>3, <2>5 DEF PoolsLeft
    <2>10. RarIs(x, w, i, NoAddr)  BY <2>6, <2>8, <2>9 DEF RarIs
    <2> QED BY <2>10 DEF x
  <1> QED BY <1>1, <1>2

\* What a reset leaves: the port's own address and nothing else that a
\* driver may write, and empty tables; copies and high-water mark stay.
AddrWasReset(x, w) ==
    /\ AddrShape(x) /\ x.used = 1 /\ x.over = 0 /\ x.high = w.high
    /\ \A i \in Rars : i # 0 /\ i < x.num => x.rar[i] = NoAddr

\* AddrReset leaves that, with and without a SAN address.
LEMMA AddrResetIs ==
    ASSUME NEW w, RegShape(w), w.high \in Nat \ {0}
    PROVE  AddrWasReset(AddrReset(w), w)
  <1> DEFINE w0 == [w EXCEPT !.num = NumRar, !.upe = FALSE, !.mpe = FALSE]
             w1 == ixgbe_set_rar_generic(w0, 0, Own, 0)
             w2 == ixgbe_clear_vmdq_generic(w1, 0, VMDQ_ALL)
             r == [i \in Rars |-> IF i = 0 THEN w2.rar[0] ELSE IF i < w0.num THEN NoAddr ELSE w2.rar[i]]
             w3 == [w2 EXCEPT !.rar = r, !.over = 0, !.used = 1, !.mtaUse = 0, !.mfe = FALSE, !.mta = {}]
             w4 == ixgbe_init_uta_tables_generic(w3)
  <1>1. AddrReset(w) = ReserveSan(w4)
    BY DEF AddrReset, ixgbe_init_rx_addrs_generic
  <1>2. RegShape(w0) /\ w0.num = NumRar /\ w0.high = w.high
    BY DEF RegShape, AFields
  <1> HIDE DEF w0
  <1>3. RarIs(w1, w0, 0, Own)  BY <1>2, SetRarIs
  <1> HIDE DEF w1
  <1>4. RegSame(w1, w0) /\ w1.rar[0] = Own
    BY <1>2, <1>3, RarsAre DEF RarIs
  <1>5. PoolsLeft(w2, w1, 0, VMDQ_ALL)  BY <1>4, ClearVmdqIs DEF RegSame
  <1> HIDE DEF w2
  <1>6. RegSame(w2, w1) /\ w2.rar[0] = Own
    BY <1>4, <1>5, RarsAre DEF PoolsLeft
  <1>7. RegShape(w2) /\ w2.num = NumRar /\ w2.high = w.high
    BY <1>2, <1>4, <1>6 DEF RegSame
  <1>8. DOMAIN r = Rars /\ r[0] = Own /\ \A i \in Rars : i # 0 => r[i] = NoAddr
    BY <1>2, <1>6, RarsAre
  <1> HIDE DEF r
  <1>9. /\ RegShape(w3) /\ w3.num = NumRar /\ w3.high = w.high /\ w3.rar = r
        /\ w3.over = 0 /\ w3.used = 1
    BY <1>7, <1>8 DEF RegShape, AFields
  <1> HIDE DEF w3
  <1>10. /\ RegShape(w4) /\ w4.num = NumRar /\ w4.high = w.high /\ w4.rar = r
         /\ w4.over = 0 /\ w4.used = 1
    BY <1>9 DEF RegShape, AFields, ixgbe_init_uta_tables_generic
  <1> HIDE DEF w4
  <1>11. CASE San = NoAddr
    <2>1. ReserveSan(w4) = w4  BY <1>11 DEF ReserveSan
    <2>2. AddrWasReset(w4, w)  BY <1>8, <1>10 DEF AddrWasReset, AddrShape
    <2> QED BY <1>1, <2>1, <2>2
  <1>12. CASE San # NoAddr
    <2> DEFINE y == ixgbe_set_rar_generic(w4, NumRar - 1, San, 0)
               z == [y EXCEPT !.num = NumRar - 1]
    <2>1. ReserveSan(w4) = z
      BY <1>10, <1>12 DEF ReserveSan
    <2>2. NumRar - 1 \in Nat /\ NumRar - 1 # 0 /\ NumRar - 1 < NumRar  BY RarsAre
    <2>3. RarIs(y, w4, NumRar - 1, San)  BY <1>10, <2>2, SetRarIs
    <2> HIDE DEF y
    <2>4. /\ RegSame(y, w4) /\ y.rar[0] = Own
          /\ \A i \in Rars : i # 0 /\ i < NumRar - 1 => y.rar[i] = NoAddr
      BY <1>8, <1>10, <2>2, <2>3, RarsAre DEF RarIs
    <2>5. /\ RegShape(z) /\ z.num = NumRar - 1 /\ z.rar = y.rar /\ z.high = y.high
          /\ z.used = y.used /\ z.over = y.over
      BY <2>4 DEF RegSame, RegShape, AFields
    <2> HIDE DEF z
    <2>6. AddrWasReset(z, w)
      BY <1>10, <2>4, <2>5 DEF AddrWasReset, AddrShape, RegSame
    <2> QED BY <1>1, <2>1, <2>6
  <1> QED BY <1>11, <1>12

\* Virtual functions: the port's own address reaches its pool.
HostRar(x, w, n) ==
    /\ RegSame(x, w) /\ \A i \in Rars : x.rar[i] = w.rar[i]
    /\ n # 0 => x.mp[0] \ {0} # {}

\* HostAddr does that.
LEMMA HostAddrIs ==
    ASSUME NEW w, RegShape(w), NEW n \in Nat
    PROVE  HostRar(HostAddr(w, n), w, n)
  <1>1. CASE n = 0
    <2>1. HostAddr(w, n) = w  BY <1>1 DEF HostAddr
    <2> QED BY <1>1, <2>1 DEF HostRar, RegSame
  <1>2. CASE n # 0
    <2> DEFINE b == ixgbe_clear_vmdq_generic(w, 0, VMDQ_ALL)
               c == IF b.num \in Rars THEN [b EXCEPT !.mp[b.num] = {}] ELSE b
               d == ixgbe_set_vmdq_generic(c, 0, n)
    <2>1. HostAddr(w, n) = d  BY <1>2 DEF HostAddr
    <2>2. PoolsLeft(b, w, 0, VMDQ_ALL)  BY ClearVmdqIs
    <2> HIDE DEF b
    <2>3. RegSame(b, w) /\ (\A i \in Rars : b.rar[i] = w.rar[i]) /\ RegShape(b)
      BY <2>2 DEF PoolsLeft, RegSame
    <2>4. RegSame(c, b) /\ c.rar = b.rar
      BY <2>3 DEF RegSame, RegShape, AFields
    <2> HIDE DEF c
    <2>5. PoolAdded(d, c, 0, n)
      BY <2>4, SetVmdqIs DEF RegSame
    <2> HIDE DEF d
    <2>6. RegSame(d, w) /\ \A i \in Rars : d.rar[i] = w.rar[i]
      BY <2>3, <2>4, <2>5 DEF PoolAdded, RegSame
    <2>7. n \in d.mp[0]
      <3>1. 0 < c.num  BY <2>4, RarsAre DEF RegSame, RegShape
      <3> QED BY <3>1, <2>5, RarsAre DEF PoolAdded
    <2> QED BY <1>2, <2>1, <2>6, <2>7 DEF HostRar
  <1> QED BY <1>1, <1>2

\* ixgbe_update_uc_addr_list_generic is a loop over the list.
UcCleared(w) ==
    [w EXCEPT !.rar = [i \in Rars |-> IF i \in 1 .. w.used - 1 THEN NoAddr ELSE w.rar[i]],
              !.used = 1, !.over = 0]

\* The loop over the addresses is LoopOf.
LEMMA UcLoop ==
    ASSUME NEW w, NEW list
    PROVE  LET new == LoopOf("list", list, UcCleared(w), Len(list))
           IN  ixgbe_update_uc_addr_list_generic(w, list) =
                  [new EXCEPT !.upe = IF (new.over > 0) # (w.over > 0) THEN new.over > 0 ELSE new.upe]
  <1> DEFINE K == Len(list)
             z == UcCleared(w)
             Is(g) == g = [n \in 0 .. K |->
                              IF n = 0 THEN UcCleared(w)
                              ELSE ixgbe_add_uc_addr(g[n - 1], list[n].addr, list[n].pool)]
             new == (CHOOSE g : Is(g))[K]
  <1>1. ixgbe_update_uc_addr_list_generic(w, list) =
           [new EXCEPT !.upe = IF (new.over > 0) # (w.over > 0) THEN new.over > 0 ELSE new.upe]
    BY DEF ixgbe_update_uc_addr_list_generic, UcCleared
  <1>2. \A g : Loop(g, "list", list, z, K) <=> Is(g)
    BY DEF Loop, Round
  <1> HIDE DEF z, K, Is
  <1>3. (CHOOSE g : Loop(g, "list", list, z, K)) = (CHOOSE g : Is(g))
    BY <1>2, Zenon
  <1>4. new = LoopOf("list", list, z, K)
    BY <1>3 DEF LoopOf
  <1> HIDE DEF new
  <1> QED BY <1>1, <1>4 DEF z, K

\* One address of the list.
LEMMA AddUcIs ==
    ASSUME NEW w, NEW d, NEW n \in Nat, NEW x, AddrsDone(w, d, n, x), NEW addr, NEW p, addr = d[n + 1].addr
    PROVE  AddrsDone(w, d, n + 1, ixgbe_add_uc_addr(x, addr, p))
  <1> DEFINE y == ixgbe_set_rar_generic(x, x.used, addr, p)
             z == ixgbe_add_uc_addr(x, addr, p)
  <1>0. /\ AddrShape(x) /\ x.mp[0] = w.mp[0] /\ x.upe = w.upe /\ x.high = w.high /\ x.num = w.num
        /\ x.mta = w.mta /\ x.mtaShadow = w.mtaShadow
        /\ x.over = 0 => \A m \in 1..n : \E i \in 1..x.used - 1 : i \in Rars /\ x.rar[i] = d[m].addr
    BY DEF AddrsDone
  <1>a. RegShape(x) /\ x.used \in Nat /\ x.used # 0 /\ x.over \in Nat /\ x.num \in Nat
    BY <1>0, RarsAre DEF AddrShape, RegShape
  <1>1. CASE x.used < x.num
    <2>1. z = [y EXCEPT !.used = y.used + 1]  BY <1>1 DEF ixgbe_add_uc_addr
    <2>2. RarIs(y, x, x.used, addr)  BY <1>a, SetRarIs
    <2>3. x.used \in Rars  BY <1>1, <1>a, RarsAre DEF RegShape, Rars
    <2> HIDE DEF y, z
    <2>4. /\ RegSame(y, x)
          /\ y.rar[x.used] = addr /\ \A j \in Rars : j # x.used => y.rar[j] = x.rar[j] /\ y.mp[j] = x.mp[j]
      BY <1>1, <2>2, <2>3 DEF RarIs
    <2>5. /\ RegShape(z) /\ z.rar = y.rar /\ z.mp = y.mp /\ z.used = x.used + 1 /\ z.over = x.over
          /\ z.upe = x.upe /\ z.high = x.high /\ z.num = x.num /\ z.mta = x.mta /\ z.mtaShadow = x.mtaShadow
      BY <2>1, <2>4 DEF RegSame, RegShape, AFields
    <2>6. AddrShape(z) /\ z.mp[0] = x.mp[0]
      BY <1>0, <1>a, <2>4, <2>5, RarsAre DEF AddrShape
    <2>7. ASSUME z.over = 0, NEW m \in 1..n + 1
          PROVE  \E i \in 1..z.used - 1 : i \in Rars /\ z.rar[i] = d[m].addr
      <3>1. CASE m = n + 1
        <4>1. x.used \in 1..z.used - 1  BY <1>a, <2>5
        <4> QED BY <4>1, <3>1, <2>3, <2>4, <2>5
      <3>2. CASE m # n + 1
        <4>1. m \in 1..n  BY <3>2
        <4>2. PICK i \in 1..x.used - 1 : i \in Rars /\ x.rar[i] = d[m].addr
          BY <1>0, <2>5, <2>7, <4>1
        <4>3. i \in 1..z.used - 1 /\ i # x.used  BY <1>a, <2>5
        <4> QED BY <4>2, <4>3, <2>4, <2>5
      <3> QED BY <3>1, <3>2
    <2>8. AddrsDone(w, d, n + 1, z)
      BY <1>0, <2>5, <2>6, <2>7 DEF AddrsDone
    <2> QED BY <2>8 DEF z
  <1>2. CASE ~(x.used < x.num)
    <2>1. z = [x EXCEPT !.over = x.over + 1]  BY <1>2 DEF ixgbe_add_uc_addr
    <2> HIDE DEF y, z
    <2>2. /\ RegShape(z) /\ z.rar = x.rar /\ z.mp = x.mp /\ z.used = x.used /\ z.over = x.over + 1
          /\ z.upe = x.upe /\ z.high = x.high /\ z.num = x.num /\ z.mta = x.mta /\ z.mtaShadow = x.mtaShadow
      BY <2>1, <1>a DEF RegShape, AFields
    <2>3. AddrShape(z) /\ z.over # 0  BY <1>0, <1>a, <2>2 DEF AddrShape
    <2>4. AddrsDone(w, d, n + 1, z)
      BY <1>0, <2>2, <2>3 DEF AddrsDone
    <2> QED BY <2>4 DEF z
  <1> QED BY <1>1, <1>2

\* A list of addresses: each has a register, or the port receives everything.
UcDone(x, w, list) ==
    /\ AddrShape(x) /\ x.mp[0] = w.mp[0] /\ x.high = w.high /\ x.num = w.num
    /\ x.mta = w.mta /\ x.mtaShadow = w.mtaShadow
    /\ x.over = 0 => \A n \in DOMAIN list : InRegister(x, list[n].addr)
    /\ x.over > 0 /\ w.over = 0 => x.upe
    /\ x.over > 0 /\ w.over > 0 /\ w.upe => x.upe

\* ixgbe_update_uc_addr_list_generic does that.
LEMMA UcListIs ==
    ASSUME NEW w, AddrShape(w), NEW T, NEW list \in Seq(T)
    PROVE  UcDone(ixgbe_update_uc_addr_list_generic(w, list), w, list)
  <1> DEFINE z == UcCleared(w)
             K == Len(list)
             new == LoopOf("list", list, z, K)
             up == IF (new.over > 0) # (w.over > 0) THEN new.over > 0 ELSE new.upe
             x == ixgbe_update_uc_addr_list_generic(w, list)
  <1>0. K \in Nat /\ DOMAIN list = 1..K  OBVIOUS
  <1>1. Holds("list", z, list, 0, z)
    <2> DEFINE r == [i \in Rars |-> IF i \in 1 .. w.used - 1 THEN NoAddr ELSE w.rar[i]]
    <2>1. z = [w EXCEPT !.rar = r, !.used = 1, !.over = 0]  BY DEF UcCleared
    <2>2. DOMAIN r = Rars /\ r[0] = Own  BY RarsAre DEF AddrShape
    <2> HIDE DEF z, r
    <2>3. AddrShape(z)
      BY <2>1, <2>2 DEF AddrShape, RegShape, AFields
    <2>4. AddrsDone(z, list, 0, z)  BY <2>3 DEF AddrsDone
    <2> QED BY <2>4 DEF Holds
  <1>2. /\ z.mp = w.mp /\ z.upe = w.upe /\ z.high = w.high /\ z.num = w.num
        /\ z.mta = w.mta /\ z.mtaShadow = w.mtaShadow
    BY DEF UcCleared, AddrShape, RegShape, AFields
  <1> HIDE DEF z
  <1>3. ASSUME NEW n \in 0..K, NEW y, n + 1 <= K, Holds("list", z, list, n, y)
        PROVE  Holds("list", z, list, n + 1, Round("list", list, n + 1, y))
    <2>1. AddrsDone(z, list, n, y)  BY <1>3 DEF Holds
    <2>2. Round("list", list, n + 1, y) = ixgbe_add_uc_addr(y, list[n + 1].addr, list[n + 1].pool)
      BY DEF Round
    <2>3. n \in Nat  BY <1>0
    <2>4. AddrsDone(z, list, n + 1, ixgbe_add_uc_addr(y, list[n + 1].addr, list[n + 1].pool))
      BY <2>1, <2>3, AddUcIs
    <2> QED BY <2>2, <2>4 DEF Holds
  <1> HIDE DEF K
  <1>4. Holds("list", z, list, K, new)
    BY <1>0, <1>1, <1>3, LoopHolds
  <1> HIDE DEF new
  <1>5. /\ AddrShape(new) /\ new.mp[0] = z.mp[0] /\ new.upe = z.upe /\ new.high = z.high /\ new.num = z.num
        /\ new.mta = z.mta /\ new.mtaShadow = z.mtaShadow
        /\ new.over = 0 => \A m \in 1..K : \E i \in 1..new.used - 1 : i \in Rars /\ new.rar[i] = list[m].addr
    BY <1>4 DEF Holds, AddrsDone
  <1>6. x = [new EXCEPT !.upe = up]
    BY UcLoop DEF z, K, new
  <1>7. up = IF (new.over > 0) # (w.over > 0) THEN new.over > 0 ELSE new.upe
    OBVIOUS
  <1> HIDE DEF x, up
  <1>8. /\ AddrShape(x) /\ x.rar = new.rar /\ x.mp = new.mp /\ x.high = new.high /\ x.num = new.num
        /\ x.mta = new.mta /\ x.mtaShadow = new.mtaShadow /\ x.over = new.over /\ x.upe = up
    BY <1>5, <1>6 DEF AddrShape, RegShape, AFields
  <1>9. x.over = 0 => \A n \in DOMAIN list : InRegister(x, list[n].addr)
    BY <1>0, <1>5, <1>8 DEF InRegister
  <1>10. w.over \in Nat /\ new.over \in Nat  BY <1>5 DEF AddrShape
  <1>11. x.over > 0 /\ w.over = 0 => x.upe
    <2> SUFFICES ASSUME x.over > 0, w.over = 0 PROVE x.upe
      OBVIOUS
    <2>1. (new.over > 0) = TRUE /\ (w.over > 0) = FALSE  BY <1>8, <1>10
    <2>2. up = TRUE  BY <1>7, <2>1, Zenon
    <2> QED BY <1>8, <2>2, Zenon
  <1>12. x.over > 0 /\ w.over > 0 /\ w.upe => x.upe
    BY <1>2, <1>5, <1>7, <1>8, <1>10
  <1>13. UcDone(x, w, list)
    BY <1>2, <1>5, <1>8, <1>9, <1>11, <1>12 DEF UcDone
  <1> QED BY <1>13 DEF x

-----------------------------------------------------------------------------
(* Addresses as asked for.                                                 *)

\* What the registers x and the requests k keep between calls of a family.
AddrsHeld(x, k, fam) ==
    /\ AddrShape(x)
    /\ k.addr \subseteq Addrs \cup {Own}
    /\ x.over = 0 => \A y \in k.addr : InRegister(x, y)
    /\ x.over > 0 => x.upe \/ k.upeOff
    /\ \A m \in k.mc : ixgbe_mta_vector(m) \in x.mta /\ ixgbe_mta_vector(m) \in x.mtaShadow
    /\ fam # "list" => x.over = 0
    /\ fam = "insert" => \A i \in Rars : x.high <= i /\ i < x.num => x.rar[i] = NoAddr

\* The port's own address reaches a pool that no call takes it from.
PoolReached(x) == x.mp[0] \ {0} # {}

\* Only what the properties speak of matters.
LEMMA HeldSame ==
    ASSUME NEW w, NEW k, NEW fam, AddrsHeld(w, k, fam), NEW x, RegSame(x, w),
           \A i \in Rars : x.rar[i] = w.rar[i], NEW l, SameAddrsAsked(l, k)
    PROVE  AddrsHeld(x, l, fam)
  <1>1. AddrShape(x)  BY RarsAre DEF AddrsHeld, AddrShape, RegSame
  <1>2. \A y : InRegister(w, y) => InRegister(x, y)  BY DEF InRegister
  <1> QED BY <1>1, <1>2 DEF AddrsHeld, RegSame, SameAddrsAsked

\* Where the registers do not overflow it is enough to find the addresses.
LEMMA HeldFound ==
    ASSUME NEW w, NEW k, NEW fam, AddrsHeld(w, k, fam), fam # "list",
           NEW x, AddrShape(x), x.over = w.over, x.mta = w.mta, x.mtaShadow = w.mtaShadow,
           NEW l, l.mc = k.mc, l.addr \subseteq Addrs \cup {Own},
           \A y \in l.addr : InRegister(x, y),
           fam = "insert" => \A i \in Rars : x.high <= i /\ i < x.num => x.rar[i] = NoAddr
    PROVE  AddrsHeld(x, l, fam)
  BY DEF AddrsHeld

\* Each stage of a start keeps it.
AddrOk(s, fam) ==
    /\ IsState(s) /\ AddrsHeld(s.a, s.asked, fam)
    /\ s.v.vt => PoolReached(s.a)

\* The stages of a start: after the reset nothing but the port's own address is
\* asked for, and whoever turns pools on puts that into one.
LEMMA AddrStages ==
    ASSUME Pools # {0}, vfs \in Nat, NEW fam, NEW s, AddrOk(s, fam), TableOk(s), NEW c,
           NEW s1, s1 = ResetFilters(s), NEW s2, s2 = HostFilters(s1),
           NEW s3, s3 = ModeFilters(s2, c), NEW s4, s4 = OffloadFilters(s3, c),
           NEW s5, s5 = DcbFilters(s4, c)
    PROVE  AddrOk(s1, fam) /\ AddrOk(s3, fam) /\ AddrOk(s5, fam)
  <1>0. TableOk(s1) /\ TableOk(s2) /\ TableOk(s3) /\ TableOk(s4)
    BY TableStages
  <1>a. /\ IsState(s) /\ IsState(s1) /\ IsState(s2) /\ IsState(s3) /\ IsState(s4) /\ AddrsHeld(s.a, s.asked, fam)
        /\ DOMAIN s.v = VFields /\ DOMAIN s1.v = VFields /\ DOMAIN s2.v = VFields
        /\ DOMAIN s3.v = VFields /\ DOMAIN s4.v = VFields
    BY <1>0 DEF TableOk, TableInv, AddrOk
  <1>b. ASSUME NEW x, NEW y, AddrOk(x, fam), PooledTo(y, x, c)
        PROVE  AddrOk(y, fam)
    <2>0. IsState(x) /\ AddrsHeld(x.a, x.asked, fam) /\ RegShape(x.a) /\ (x.v.vt => PoolReached(x.a))
      BY <1>b DEF AddrOk, AddrsHeld, AddrShape
    <2>1. CASE SameFilters(y, x)
      BY <2>0, <2>1 DEF SameFilters, SameVlan, AddrOk
    <2>2. CASE PoolTo(y, x, c)
      <3>1. y.a = [x.a EXCEPT !.mp[0] = Pools] /\ IsState(y)
        BY <2>2 DEF PoolTo
      <3>2. SameAddrsAsked(y.asked, x.asked)
        <4>1. y.asked = MapAsked(x.asked, c.map, HalvesOf(c))  BY <2>2 DEF PoolTo
        <4>2. MapAskedTo(y.asked, x.asked, c.map, HalvesOf(c))
          BY <2>0, <4>1, MapAskedIs, Zenon DEF IsState
        <4> QED BY <4>2, Zenon DEF MapAskedTo
      <3> DEFINE ya == y.a
                 xa == x.a
                 yk == y.asked
                 xk == x.asked
      <3>3. RegSame(ya, xa) /\ ya.rar = xa.rar /\ ya.mp[0] = Pools
        BY <3>1, <2>0, RarsAre DEF RegSame, RegShape, AFields
      <3>a. AddrsHeld(xa, xk, fam) /\ SameAddrsAsked(yk, xk) /\ \A i \in Rars : ya.rar[i] = xa.rar[i]
        BY <2>0, <3>2, <3>3
      <3> HIDE DEF ya, xa, yk, xk
      <3>4. AddrsHeld(ya, yk, fam)
        BY <3>a, <3>3, HeldSame
      <3>5. PoolReached(ya)  BY <3>3, AddrAssumption DEF PoolReached
      <3> QED BY <3>1, <3>4, <3>5 DEF AddrOk, ya, yk
    <2> QED BY <1>b, <2>1, <2>2 DEF PooledTo
  <1>1. AddrOk(s1, fam) /\ s1.v.vt = FALSE
    <2>1. ResetTo(s1, s)  BY <1>a, ResetIs
    <2>2. /\ s1.a = AddrReset(s.a) /\ s1.v = VlanReset(s.v)
          /\ s1.asked.addr = {Own} /\ s1.asked.mc = {}
      BY <2>1 DEF ResetTo
    <2>z. WasReset(s1.v, s.v)  BY <1>a, <2>2, VlanResetIs
    <2>3. s1.v.vt = FALSE  BY <2>z DEF WasReset
    <2>4. AddrWasReset(s1.a, s.a)
      BY <1>a, <2>2, AddrResetIs DEF AddrsHeld, AddrShape
    <2>5. InRegister(s1.a, Own)  BY <2>4, RarsAre DEF InRegister, AddrWasReset, AddrShape
    <2>6. \A i \in Rars : s1.a.high <= i /\ i < s1.a.num => s1.a.rar[i] = NoAddr
      BY <2>4, RarsAre DEF AddrWasReset, AddrShape
    <2>7. AddrsHeld(s1.a, s1.asked, fam)
      BY <2>2, <2>4, <2>5, <2>6 DEF AddrsHeld, AddrWasReset
    <2> QED BY <1>a, <2>3, <2>7 DEF AddrOk
  <1>2. AddrOk(s2, fam)
    <2> DEFINE w == ixgbe_clear_vfta_generic(s1.v)
    <2>1. HostTo(s2, s1)  BY <1>a, HostFiltersIs
    <2>2. /\ s2.a = HostAddr(s1.a, vfs) /\ s2.v = ixgbe_pf_host_configure(w, vfs)
          /\ SameAddrsAsked(s2.asked, s1.asked)
      BY <2>1 DEF HostTo
    <2>3. VftaCleared(w, s1.v)  BY <1>a, ClearVftaIs
    <2> HIDE DEF w
    <2>4. HostSet(s2.v, w, vfs)  BY <2>2, <2>3, HostIs DEF VftaCleared
    <2>5. vfs = 0 => s2.v.vt = FALSE
      BY <1>1, <2>3, <2>4 DEF HostSet, VftaCleared
    <2>6. HostRar(s2.a, s1.a, vfs)
      BY <1>1, <2>2, HostAddrIs DEF AddrOk, AddrsHeld, AddrShape
    <2>7. AddrsHeld(s2.a, s2.asked, fam)
      BY <1>1, <2>2, <2>6, HeldSame DEF AddrOk, HostRar
    <2> QED BY <1>a, <2>5, <2>6, <2>7 DEF AddrOk, HostRar, PoolReached
  <1>3. AddrOk(s3, fam)
    <2>1. PooledTo(s3, s2, c)  BY <1>a, ModeIs
    <2> QED BY <1>2, <1>b, <2>1
  <1>4. AddrOk(s4, fam)
    <2>1. OffloadTo(s4, s3, c)  BY <1>a, OffloadFiltersIs
    <2>2. /\ s4.a = s3.a /\ s4.v.vt = s3.v.vt /\ SameAddrsAsked(s4.asked, s3.asked)
      BY <2>1 DEF OffloadTo
    <2> QED BY <1>a, <1>3, <2>2 DEF AddrOk, AddrsHeld, SameAddrsAsked
  <1>5. AddrOk(s5, fam)
    <2>1. PooledTo(s5, s4, c) \/ OpenTo(s5, s4)  BY <1>a, DcbIs
    <2>2. CASE OpenTo(s5, s4)
      <3>1. /\ IsState(s5) /\ s5.a = s4.a /\ (s5.v.vt => s4.v.vt) /\ SameAddrsAsked(s5.asked, s4.asked)
        BY <2>2 DEF OpenTo, DcbSet
      <3> QED BY <1>4, <3>1 DEF AddrOk, AddrsHeld, SameAddrsAsked
    <2> QED BY <1>4, <1>b, <2>1, <2>2
  <1> QED BY <1>1, <1>3, <1>5

\* The calls of each family keep it.
AddrInv ==
    /\ DOMAIN asked = KFields /\ AddrsHeld(a, asked, family)
    /\ v.vt => PoolReached(a)
    /\ vfs \in Nat

AddrKept == AddrsHeld(a', asked', family) /\ (PoolReached(a) => PoolReached(a'))

\* An address written into a register: the others stay.
LEMMA AddRarHeld ==
    ASSUME AddrInv, NEW addr \in Addrs, NEW i \in RarIndex, NEW p, ixgbe_add_rar(addr, i, p)
    PROVE  AddrKept
  <1>0. /\ DOMAIN asked = KFields /\ AddrsHeld(a, asked, family) /\ AddrShape(a) /\ RegShape(a)
        /\ family = "rar" /\ i \in Nat /\ i # 0
    BY FilterAssumption DEF AddrInv, AddrsHeld, AddrShape, ixgbe_add_rar, Call
  <1> DEFINE x == ixgbe_set_rar_generic(a, i, addr, p)
  <1>1. /\ a' = x
        /\ i < a.num => asked' = [asked EXCEPT !.addr = Others(i) \cup {addr}]
        /\ ~(i < a.num) => asked' = asked
    BY DEF ixgbe_add_rar
  <1>2. RarIs(x, a, i, addr)  BY <1>0, SetRarIs
  <1> HIDE DEF x
  <1>3. /\ RegSame(x, a) /\ x.mp[0] = a.mp[0]
        /\ \A j \in Rars : x.rar[j] = IF j = i /\ i < a.num THEN addr ELSE a.rar[j]
    BY <1>0, <1>2, RarsAre DEF RarIs
  <1>4. AddrShape(x)  BY <1>0, <1>3, RarsAre DEF RegSame, AddrShape
  <1>5. PoolReached(a) => PoolReached(a')  BY <1>1, <1>3 DEF PoolReached
  <1>6. CASE ~(i < a.num)
    <2>1. AddrsHeld(a', asked', family)
      BY <1>0, <1>1, <1>3, <1>6, HeldSame DEF SameAddrsAsked
    <2> QED BY <1>5, <2>1 DEF AddrKept
  <1>7. CASE i < a.num
    <2>1. asked'.addr = Others(i) \cup {addr} /\ asked'.mc = asked.mc
      BY <1>0, <1>1, <1>7 DEF KFields
    <2>2. i \in Rars  BY <1>0, <1>7, RarsAre DEF RegShape, Rars
    <2>3. ASSUME NEW y \in asked'.addr PROVE InRegister(x, y)
      <3>1. CASE y = addr
        BY <1>3, <1>7, <2>2, <3>1 DEF InRegister
      <3>2. CASE y \in Others(i)
        <4>1. PICK j \in Rars \ {i} : y = a.rar[j]  BY <3>2 DEF Others
        <4> QED BY <1>3, <4>1 DEF InRegister
      <3> QED BY <2>1, <2>3, <3>1, <3>2
    <2>4. asked'.addr \subseteq Addrs \cup {Own}
      BY <1>0, <2>1 DEF Others, AddrsHeld
    <2>5. AddrsHeld(x, asked', family)
      BY <1>0, <1>3, <1>4, <2>1, <2>3, <2>4, HeldFound DEF RegSame
    <2> QED BY <1>1, <1>5, <2>5 DEF AddrKept
  <1> QED BY <1>6, <1>7

\* A register cleared: the others stay.
LEMMA RemoveRarHeld ==
    ASSUME AddrInv, NEW i \in RarIndex, ixgbe_remove_rar(i)
    PROVE  AddrKept
  <1>0. /\ DOMAIN asked = KFields /\ AddrsHeld(a, asked, family) /\ AddrShape(a) /\ RegShape(a)
        /\ family = "rar" /\ i \in Nat /\ i # 0
    BY FilterAssumption DEF AddrInv, AddrsHeld, AddrShape, ixgbe_remove_rar, Call
  <1> DEFINE x == ixgbe_clear_rar_generic(a, i)
  <1>1. /\ a' = x
        /\ i < a.num => asked' = [asked EXCEPT !.addr = Others(i)]
        /\ ~(i < a.num) => asked' = asked
    BY DEF ixgbe_remove_rar
  <1>2. RarIs(x, a, i, NoAddr)  BY <1>0, ClearRarIs
  <1> HIDE DEF x
  <1>3. /\ RegSame(x, a) /\ x.mp[0] = a.mp[0]
        /\ \A j \in Rars : x.rar[j] = IF j = i /\ i < a.num THEN NoAddr ELSE a.rar[j]
    BY <1>0, <1>2, RarsAre DEF RarIs
  <1>4. AddrShape(x)  BY <1>0, <1>3, RarsAre DEF RegSame, AddrShape
  <1>5. PoolReached(a) => PoolReached(a')  BY <1>1, <1>3 DEF PoolReached
  <1>6. CASE ~(i < a.num)
    <2>1. AddrsHeld(a', asked', family)
      BY <1>0, <1>1, <1>3, <1>6, HeldSame DEF SameAddrsAsked
    <2> QED BY <1>5, <2>1 DEF AddrKept
  <1>7. CASE i < a.num
    <2>1. asked'.addr = Others(i) /\ asked'.mc = asked.mc
      BY <1>0, <1>1, <1>7 DEF KFields
    <2>2. ASSUME NEW y \in asked'.addr PROVE InRegister(x, y)
      <3>1. PICK j \in Rars \ {i} : y = a.rar[j]  BY <2>1, <2>2 DEF Others
      <3> QED BY <1>3, <3>1 DEF InRegister
    <2>3. asked'.addr \subseteq Addrs \cup {Own}
      BY <1>0, <2>1 DEF Others, AddrsHeld
    <2>4. AddrsHeld(x, asked', family)
      BY <1>0, <1>3, <1>4, <2>1, <2>2, <2>3, HeldFound DEF RegSame
    <2> QED BY <1>1, <1>5, <2>4 DEF AddrKept
  <1> QED BY <1>6, <1>7

\* An address is inserted where it is already, or where there is none.
LEMMA InsertAtIs ==
    ASSUME NEW x, AddrShape(x), NEW addr, NEW i, i = InsertAt(x, addr)
    PROVE  \/ i \in Rars /\ i < x.high /\ x.rar[i] = addr
           \/ i \in Rars /\ i < x.high /\ x.rar[i] = NoAddr
           \/ i = x.high
  <1> DEFINE below == {j \in Rars : j < x.high}
             same == {j \in below : x.rar[j] = addr}
             free == {j \in below : x.rar[j] = NoAddr}
             Least(S) == CHOOSE j \in S : \A m \in S : j <= m
  <1>1. i = IF same # {} THEN Least(same) ELSE IF free # {} THEN Least(free) ELSE x.high
    BY DEF InsertAt
  <1>2. ASSUME NEW S, S \subseteq Rars, S # {} PROVE Least(S) \in S
    <2>1. S \subseteq Nat  BY <1>2, RarsAre
    <2>2. \E j \in S : \A m \in S : j <= m  BY <1>2, <2>1, LeastOf
    <2> QED BY <2>2
  <1>3. same \subseteq Rars /\ free \subseteq Rars  OBVIOUS
  <1>4. CASE same # {}
    <2>1. i \in same  BY <1>1, <1>2, <1>3, <1>4
    <2> QED BY <2>1
  <1>5. CASE same = {} /\ free # {}
    <2>1. i \in free  BY <1>1, <1>2, <1>3, <1>5
    <2> QED BY <2>1
  <1>6. CASE same = {} /\ free = {}
    BY <1>1, <1>6
  <1> QED BY <1>4, <1>5, <1>6

\* x is w with addr in register i, and the high-water mark moved when it is the
\* register at the mark.
Inserted(x, w, i, addr) ==
    /\ AddrShape(x) /\ x.num = w.num /\ x.over = w.over /\ x.mta = w.mta /\ x.mtaShadow = w.mtaShadow
    /\ \A j \in Rars : x.rar[j] = IF j = i /\ i < w.num THEN addr ELSE w.rar[j]
    /\ x.high = IF i = w.high THEN w.high + 1 ELSE w.high
    /\ PoolReached(w) => PoolReached(x)

\* ixgbe_insert_mac_addr_generic does that.
LEMMA InsertIs ==
    ASSUME NEW w, AddrShape(w), NEW addr \in Addrs \cup {Own}, NEW p, NEW i, i = InsertAt(w, addr)
    PROVE  Inserted(ixgbe_insert_mac_addr_generic(w, addr, p), w, i, addr)
  <1> DEFINE b1 == ixgbe_set_vmdq_generic(w, i, p)
             y == ixgbe_set_rar_generic(w, i, addr, p)
             h == IF i = y.high THEN y.high + 1 ELSE y.high
             b2 == [y EXCEPT !.high = h]
             here == i < w.high /\ i \in Rars /\ w.rar[i] = addr
             b == IF here THEN b1 ELSE b2
             x == ixgbe_insert_mac_addr_generic(w, addr, p)
  <1>1. x = IF i = 0 THEN ixgbe_clear_vmdq_generic(b, 0, {0}) ELSE b
    BY DEF ixgbe_insert_mac_addr_generic
  <1>2. \/ i \in Rars /\ i < w.high /\ w.rar[i] = addr
        \/ i \in Rars /\ i < w.high /\ w.rar[i] = NoAddr
        \/ i = w.high
    BY InsertAtIs
  <1>3. /\ RegShape(w) /\ w.rar[0] = Own /\ w.high \in Nat /\ w.high # 0 /\ w.used \in Nat \ {0}
        /\ w.over \in Nat /\ w.num \in Nat /\ i \in Nat /\ Own # NoAddr
    BY <1>2, RarsAre, AddrAssumption DEF AddrShape, RegShape
  <1>4. i = 0 => addr = Own
    BY <1>2, <1>3
  <1> DEFINE Rar(z) == \A j \in Rars : z.rar[j] = IF j = i /\ i < w.num THEN addr ELSE w.rar[j]
             High(z) == z.high = IF i = w.high THEN w.high + 1 ELSE w.high
             Rest(z) == /\ RegShape(z) /\ z.num = w.num /\ z.used = w.used /\ z.over = w.over
                        /\ z.mta = w.mta /\ z.mtaShadow = w.mtaShadow
             Pool(z) == \A q : q # 0 /\ q \in w.mp[0] => q \in z.mp[0]
  <1>5. ASSUME here PROVE Rar(b) /\ High(b) /\ Rest(b) /\ Pool(b)
    <2>1. PoolAdded(b1, w, i, p)  BY <1>3, SetVmdqIs
    <2>2. b = b1  BY <1>5
    <2> HIDE DEF b, b1
    <2>3. RegSame(b, w) /\ b.rar = w.rar
          /\ (\A j \in Rars : b.mp[j] = IF j = i /\ i < w.num THEN w.mp[j] \cup {p} ELSE w.mp[j])
      BY <2>1, <2>2 DEF PoolAdded
    <2>4. Rar(b) /\ High(b)  BY <1>3, <1>5, <2>3 DEF RegSame
    <2>5. Rest(b) /\ Pool(b)  BY <2>3, RarsAre DEF RegSame
    <2> QED BY <2>4, <2>5
  <1>6. ASSUME ~here PROVE Rar(b) /\ High(b) /\ Rest(b) /\ Pool(b)
    <2>1. RarIs(y, w, i, addr)  BY <1>3, SetRarIs
    <2>2. b = b2  BY <1>6
    <2>3. i >= w.num => y = w  BY <1>3, SetRarIs
    <2>a. i < w.num => PoolAdded(b1, w, i, p) /\ y = [b1 EXCEPT !.rar[i] = addr]
      BY <1>3, SetVmdqIs DEF ixgbe_set_rar_generic
    <2>b. i < w.num => y.mp = b1.mp
      BY <2>a DEF PoolAdded, RegSame, RegShape, AFields
    <2>c. Pool(y)
      <3>1. CASE i < w.num
        <4> HIDE DEF y, b1
        <4> QED BY <2>a, <2>b, <3>1, RarsAre DEF PoolAdded
      <3>2. CASE i >= w.num
        BY <2>3, <3>2
      <3> QED BY <1>3, <3>1, <3>2
    <2> HIDE DEF b, y
    <2>4. RegSame(y, w) /\ Rar(y)  BY <2>1 DEF RarIs
    <2>5. /\ DOMAIN b = AFields /\ b.rar = y.rar /\ b.mp = y.mp /\ b.high = h /\ b.num = y.num
          /\ b.used = y.used /\ b.over = y.over /\ b.mta = y.mta /\ b.mtaShadow = y.mtaShadow
      BY <2>2, <2>4 DEF RegSame, RegShape, AFields
    <2>6. Rar(b) /\ High(b)  BY <2>4, <2>5 DEF RegSame
    <2>7. Rest(b)  BY <2>4, <2>5 DEF RegSame, RegShape
    <2>8. Pool(b)  BY <2>5, <2>c
    <2> QED BY <2>6, <2>7, <2>8
  <1> HIDE DEF b, x
  <1>7. Rar(x) /\ High(x) /\ Rest(x) /\ Pool(x)
    <2>1. CASE i # 0
      BY <1>1, <1>5, <1>6, <2>1
    <2>2. CASE i = 0
      <3>1. Rar(b) /\ High(b) /\ Rest(b) /\ Pool(b)  BY <1>5, <1>6
      <3>2. x = ixgbe_clear_vmdq_generic(b, 0, {0})  BY <1>1, <2>2
      <3>3. PoolsLeft(x, b, 0, {0})  BY <3>1, <3>2, ClearVmdqIs
      <3>4. RegSame(x, b) /\ \A j \in Rars : x.rar[j] = b.rar[j]
        BY <3>3 DEF PoolsLeft
      <3>5. Rar(x) /\ High(x) /\ Rest(x)  BY <3>1, <3>4 DEF RegSame
      <3>6. x.mp[0] = b.mp[0] \ {0} \/ x.mp[0] = b.mp[0]  BY <3>3, RarsAre DEF PoolsLeft
      <3>7. Pool(x)  BY <3>1, <3>6
      <3> QED BY <3>5, <3>7
    <2> QED BY <2>1, <2>2
  <1>8. PoolReached(w) => PoolReached(x)  BY <1>7 DEF PoolReached
  <1>9. AddrShape(x)
    <2>1. x.rar[0] = Own  BY <1>3, <1>4, <1>7, RarsAre
    <2>2. x.high \in Nat \ {0}  BY <1>3, <1>7
    <2> QED BY <1>3, <1>7, <2>1, <2>2 DEF AddrShape
  <1>10. Inserted(x, w, i, addr)  BY <1>7, <1>8, <1>9 DEF Inserted
  <1> QED BY <1>10 DEF x

\* An inserted address displaces none: the register held it, or was free, or
\* is the one at the high-water mark, above which all are free.
LEMMA InsertHeld ==
    ASSUME AddrInv, NEW addr \in Addrs \cup {Own}, NEW p, InsertAddr(addr, p)
    PROVE  AddrKept
  <1> DEFINE i == InsertAt(a, addr)
             x == ixgbe_insert_mac_addr_generic(a, addr, p)
  <1>0. /\ DOMAIN asked = KFields /\ AddrsHeld(a, asked, family) /\ AddrShape(a) /\ RegShape(a)
        /\ family = "insert"
    BY DEF AddrInv, AddrsHeld, AddrShape, InsertAddr, Call
  <1>1. /\ a' = x /\ family' = family
        /\ i < a.num => asked' = [asked EXCEPT !.addr = @ \cup {addr}]
        /\ ~(i < a.num) => asked' = asked
    BY DEF InsertAddr, Call
  <1>2. Inserted(x, a, i, addr)  BY <1>0, InsertIs
  <1>3. \/ i \in Rars /\ i < a.high /\ a.rar[i] = addr
        \/ i \in Rars /\ i < a.high /\ a.rar[i] = NoAddr
        \/ i = a.high
    BY <1>0, InsertAtIs
  <1> HIDE DEF i, x
  <1>4. a.high \in Nat /\ a.num \in Nat /\ i \in Nat /\ (i < a.num => i \in Rars)
    BY <1>0, <1>3, RarsAre DEF AddrShape, RegShape, Rars
  <1>5. /\ AddrShape(x) /\ x.num = a.num /\ x.over = a.over /\ x.mta = a.mta /\ x.mtaShadow = a.mtaShadow
        /\ \A j \in Rars : x.rar[j] = IF j = i /\ i < a.num THEN addr ELSE a.rar[j]
        /\ x.high = IF i = a.high THEN a.high + 1 ELSE a.high
        /\ PoolReached(a) => PoolReached(x)
    BY <1>2 DEF Inserted
  <1>6. /\ asked.addr \subseteq Addrs \cup {Own}
        /\ \A y \in asked.addr : InRegister(a, y)
        /\ \A j \in Rars : a.high <= j /\ j < a.num => a.rar[j] = NoAddr
    BY <1>0 DEF AddrsHeld
  <1>7. ASSUME NEW y \in asked.addr PROVE InRegister(x, y)
    <2>1. PICK j \in Rars : a.rar[j] = y  BY <1>6 DEF InRegister
    <2>2. y # NoAddr  BY <1>6, AddrAssumption
    <2>3. CASE ~(j = i /\ i < a.num)
      BY <1>5, <2>1, <2>3 DEF InRegister
    <2>4. CASE j = i /\ i < a.num
      <3>1. a.rar[i] = addr \/ a.rar[i] = NoAddr
        BY <1>3, <1>4, <1>6, <2>4
      <3>2. y = addr  BY <2>1, <2>2, <2>4, <3>1
      <3> QED BY <1>5, <2>4, <3>2 DEF InRegister
    <2> QED BY <2>3, <2>4
  <1>8. i < a.num => InRegister(x, addr)  BY <1>4, <1>5 DEF InRegister
  <1>9. asked'.mc = asked.mc /\ asked'.addr = IF i < a.num THEN asked.addr \cup {addr} ELSE asked.addr
    BY <1>0, <1>1 DEF KFields
  <1>10. \A y \in asked'.addr : InRegister(x, y)  BY <1>7, <1>8, <1>9
  <1>11. \A j \in Rars : x.high <= j /\ j < x.num => x.rar[j] = NoAddr
    <2> SUFFICES ASSUME NEW j \in Rars, x.high <= j, j < x.num PROVE x.rar[j] = NoAddr
      OBVIOUS
    <2>1. j \in Nat  BY RarsAre
    <2>2. a.high <= j /\ j # i  BY <1>3, <1>4, <1>5, <2>1
    <2> QED BY <1>5, <1>6, <2>2
  <1>12. asked'.addr \subseteq Addrs \cup {Own}  BY <1>6, <1>9
  <1>13. AddrsHeld(x, asked', family)
    BY <1>0, <1>5, <1>9, <1>10, <1>11, <1>12, HeldFound
  <1> QED BY <1>1, <1>5, <1>13 DEF AddrKept

\* An address that lost its pools is no longer asked for.
LEMMA ClearVmdqHeld ==
    ASSUME AddrInv, NEW i \in RarIndex, NEW ps, ClearVmdq(i, ps)
    PROVE  AddrKept
  <1> DEFINE x == ixgbe_clear_vmdq_generic(a, i, ps)
  <1>0. /\ DOMAIN asked = KFields /\ AddrsHeld(a, asked, family) /\ AddrShape(a) /\ RegShape(a)
        /\ family = "insert" /\ i \in Nat /\ i # 0
    BY FilterAssumption DEF AddrInv, AddrsHeld, AddrShape, ClearVmdq, Call
  <1>1. /\ a' = x /\ family' = family
        /\ asked' = [asked EXCEPT !.addr = {y \in @ : y = Own \/ \E j \in Rars : a'.rar[j] = y}]
    BY DEF ClearVmdq, Call
  <1>2. PoolsLeft(x, a, i, ps)  BY <1>0, ClearVmdqIs
  <1> HIDE DEF x
  <1>3. /\ RegSame(x, a) /\ x.rar[0] = Own /\ x.mp[0] = a.mp[0]
        /\ \A j \in Rars : x.rar[j] = a.rar[j] \/ x.rar[j] = NoAddr
    BY <1>0, <1>2, RarsAre DEF PoolsLeft, AddrShape
  <1>4. /\ asked'.mc = asked.mc
        /\ asked'.addr = {y \in asked.addr : y = Own \/ \E j \in Rars : x.rar[j] = y}
    BY <1>0, <1>1 DEF KFields
  <1>5. \A y \in asked'.addr : InRegister(x, y)
    BY <1>3, <1>4, RarsAre DEF InRegister
  <1>6. AddrShape(x)  BY <1>0, <1>3 DEF AddrShape, RegSame
  <1>7. \A j \in Rars : x.high <= j /\ j < x.num => x.rar[j] = NoAddr
    BY <1>0, <1>3 DEF AddrsHeld, RegSame
  <1>8. asked'.addr \subseteq Addrs \cup {Own}  BY <1>0, <1>4 DEF AddrsHeld
  <1>9. AddrsHeld(x, asked', family)
    BY <1>0, <1>3, <1>4, <1>5, <1>6, <1>7, <1>8, HeldFound DEF RegSame
  <1> QED BY <1>1, <1>3, <1>9 DEF AddrKept, PoolReached

\* Calls that touch neither registers nor the multicast table.
LEMMA SameHeld ==
    ASSUME AddrInv, RegSame(a', a), \A i \in Rars : a'.rar[i] = a.rar[i], a'.mp[0] = a.mp[0],
           SameAddrsAsked(asked', asked), family' = family
    PROVE  AddrKept
  <1>1. AddrsHeld(a, asked, family)  BY DEF AddrInv
  <1>2. AddrsHeld(a', asked', family)  BY <1>1, HeldSame
  <1> QED BY <1>2 DEF AddrKept, PoolReached

\* They are these.  The SAN address has the last register.
LEMMA OtherHeld ==
    ASSUME AddrInv, San # NoAddr, NEW p, NEW on \in BOOLEAN, NEW addr,
           SetVmdqSan(p) \/ AllMulticast(on) \/ EnableMc(on) \/ UcAllHash(on) \/ UcHash(addr, on)
    PROVE  AddrKept
  <1>0. RegShape(a) /\ DOMAIN a = AFields  BY DEF AddrInv, AddrsHeld, AddrShape, RegShape
  <1>1. family' = family /\ asked' = asked
    BY DEF SetVmdqSan, AllMulticast, EnableMc, UcAllHash, UcHash, Call
  <1>2. SameAddrsAsked(asked', asked)  BY <1>1 DEF SameAddrsAsked
  <1> DEFINE Same(x) == RegSame(x, a) /\ x.rar = a.rar /\ x.mp[0] = a.mp[0]
  <1>3. ASSUME SetVmdqSan(p) PROVE Same(a')
    <2>1. a' = [a EXCEPT !.mp[NumRar - 1] = {p}]
      BY <1>3 DEF SetVmdqSan, ixgbe_set_vmdq_san_mac_generic, SanRar
    <2>2. a'.mp = [a.mp EXCEPT ![NumRar - 1] = {p}] /\ RegSame(a', a) /\ a'.rar = a.rar
      BY <1>0, <2>1 DEF RegSame, RegShape, AFields
    <2>3. NumRar - 1 # 0  BY RarsAre
    <2> QED BY <1>0, <2>2, <2>3, RarsAre DEF RegShape
  <1>4. ASSUME AllMulticast(on) PROVE Same(a')
    <2> DEFINE w == IF on THEN ixgbe_dev_allmulticast_enable(a) ELSE ixgbe_dev_allmulticast_disable(a)
    <2>1. a' = [w EXCEPT !.allmulti = on]  BY <1>4 DEF AllMulticast
    <2>2. DOMAIN w = AFields /\ Same(w)
      BY <1>0 DEF ixgbe_dev_allmulticast_enable, ixgbe_dev_allmulticast_disable, RegSame, RegShape, AFields
    <2> HIDE DEF w
    <2> QED BY <2>1, <2>2 DEF RegSame, RegShape, AFields
  <1>5. ASSUME EnableMc(on) PROVE Same(a')
    <2>1. a' = IF on THEN ixgbe_enable_mc_generic(a) ELSE ixgbe_disable_mc_generic(a)
      BY <1>5 DEF EnableMc
    <2> QED BY <1>0, <2>1 DEF ixgbe_enable_mc_generic, ixgbe_disable_mc_generic, RegSame, RegShape, AFields
  <1>6. ASSUME UcAllHash(on) PROVE Same(a')
    <2>1. a' = ixgbe_uc_all_hash_table_set(a, on)  BY <1>6 DEF UcAllHash
    <2> QED BY <1>0, <2>1 DEF ixgbe_uc_all_hash_table_set, RegSame, RegShape, AFields
  <1>7. ASSUME UcHash(addr, on) PROVE Same(a')
    <2> DEFINE vec == ixgbe_uta_vector(addr)
               x == ixgbe_uc_hash_table_set(a, addr, on)
    <2>1. a' = x  BY <1>7 DEF UcHash
    <2>2. CASE (vec \in a.utaShadow) = on
      <3>1. x = a  BY <2>2 DEF ixgbe_uc_hash_table_set
      <3> QED BY <1>0, <2>1, <3>1 DEF RegSame
    <2>3. CASE ~((vec \in a.utaShadow) = on)
      <3>1. RegSame(x, a) /\ x.rar = a.rar /\ x.mp = a.mp
        BY <1>0, <2>3 DEF ixgbe_uc_hash_table_set, RegSame, RegShape, AFields
      <3> QED BY <2>1, <3>1
    <2> QED BY <2>2, <2>3
  <1>8. Same(a')  BY <1>3, <1>4, <1>5, <1>6, <1>7
  <1> QED BY <1>1, <1>2, <1>8, SameHeld

\* A member of a sequence.
LEMMA SeqMember == ASSUME NEW T, NEW q \in Seq(T), NEW n \in DOMAIN q PROVE q[n] \in T
  OBVIOUS

\* A list: what has no register is received promiscuously, unless a caller
\* ended that mode while the registers overflowed.
LEMMA UcListHeld ==
    ASSUME AddrInv, NEW list \in UcLists, UpdateUcList(list)
    PROVE  AddrKept
  <1> DEFINE x == ixgbe_update_uc_addr_list_generic(a, list)
  <1>0. /\ DOMAIN asked = KFields /\ AddrsHeld(a, asked, family) /\ AddrShape(a)
        /\ family = "list" /\ a.over \in Nat
    BY DEF AddrInv, AddrsHeld, AddrShape, UpdateUcList, Call
  <1>1. /\ a' = x /\ family' = family
        /\ asked' = [asked EXCEPT !.addr = {Own} \cup {list[n].addr : n \in DOMAIN list},
                                  !.upeOff = @ /\ a'.over > 0]
    BY DEF UpdateUcList, Call
  <1>2. list \in Seq([addr : Addrs, pool : Pools])  BY FilterAssumption
  <1>3. UcDone(x, a, list)  BY <1>0, <1>2, UcListIs
  <1> HIDE DEF x
  <1>4. /\ AddrShape(x) /\ x.mp[0] = a.mp[0] /\ x.mta = a.mta /\ x.mtaShadow = a.mtaShadow
        /\ x.over \in Nat
    BY <1>3 DEF UcDone, AddrShape
  <1>5. /\ asked'.addr = {Own} \cup {list[n].addr : n \in DOMAIN list} /\ asked'.mc = asked.mc
        /\ asked'.upeOff = (asked.upeOff /\ x.over > 0)
    BY <1>0, <1>1 DEF KFields
  <1>6. ASSUME NEW n \in DOMAIN list PROVE list[n].addr \in Addrs
    <2>1. list[n] \in [addr : Addrs, pool : Pools]  BY <1>2, SeqMember
    <2> QED BY <2>1
  <1>7. asked'.addr \subseteq Addrs \cup {Own}  BY <1>5, <1>6
  <1>8. x.over = 0 => \A y \in asked'.addr : InRegister(x, y)
    <2>1. InRegister(x, Own)  BY <1>4, RarsAre DEF AddrShape, InRegister
    <2> QED BY <1>3, <1>5, <2>1 DEF UcDone
  <1>9. x.over > 0 => x.upe \/ asked'.upeOff
    <2>1. CASE a.over = 0
      BY <1>3, <2>1 DEF UcDone
    <2>2. CASE a.over > 0 /\ a.upe
      BY <1>3, <2>2 DEF UcDone
    <2>3. CASE a.over > 0 /\ ~a.upe
      <3>1. asked.upeOff  BY <1>0, <2>3 DEF AddrsHeld
      <3> QED BY <1>5, <3>1
    <2> QED BY <1>0, <2>1, <2>2, <2>3
  <1>10. AddrsHeld(x, asked', family)
    BY <1>0, <1>4, <1>5, <1>7, <1>8, <1>9 DEF AddrsHeld
  <1> QED BY <1>1, <1>4, <1>10 DEF AddrKept, PoolReached

\* Promiscuous mode switched: ending it in an overflow is remembered.
LEMMA PromiscuousHeld ==
    ASSUME AddrInv, NEW on \in BOOLEAN, Promiscuous(on)
    PROVE  AddrKept
  <1>0. /\ DOMAIN asked = KFields /\ AddrsHeld(a, asked, family) /\ AddrShape(a) /\ RegShape(a)
        /\ DOMAIN a = AFields /\ family = "list"
    BY DEF AddrInv, AddrsHeld, AddrShape, RegShape, Promiscuous, Call
  <1> DEFINE w == IF on THEN ixgbe_dev_promiscuous_enable(a) ELSE ixgbe_dev_promiscuous_disable(a)
             up == IF on THEN asked.upeOff ELSE asked.upeOff \/ a.over > 0
  <1>1. /\ a' = [w EXCEPT !.promisc = on] /\ family' = family
        /\ asked' = [asked EXCEPT !.upeOff = up]
    BY DEF Promiscuous, Call
  <1>2. /\ DOMAIN w = AFields /\ w.rar = a.rar /\ w.mp = a.mp /\ w.num = a.num /\ w.high = a.high
        /\ w.used = a.used /\ w.over = a.over /\ w.mta = a.mta /\ w.mtaShadow = a.mtaShadow
        /\ on => w.upe = TRUE
    BY <1>0 DEF ixgbe_dev_promiscuous_enable, ixgbe_dev_promiscuous_disable, AFields
  <1>3. ~on => up = (asked.upeOff \/ a.over > 0)  OBVIOUS
  <1> HIDE DEF w, up
  <1>4. /\ DOMAIN a' = AFields /\ a'.rar = w.rar /\ a'.mp = w.mp /\ a'.num = w.num /\ a'.high = w.high
        /\ a'.used = w.used /\ a'.over = w.over /\ a'.mta = w.mta /\ a'.mtaShadow = w.mtaShadow
        /\ a'.upe = w.upe
    BY <1>1, <1>2 DEF AFields
  <1>5. AddrShape(a')  BY <1>0, <1>2, <1>4 DEF AddrShape, RegShape
  <1>6. asked'.addr = asked.addr /\ asked'.mc = asked.mc /\ asked'.upeOff = up
    BY <1>0, <1>1 DEF KFields
  <1>7. a'.over > 0 => a'.upe \/ asked'.upeOff
    BY <1>2, <1>3, <1>4, <1>6
  <1>8. a'.over = 0 => \A y \in asked'.addr : InRegister(a', y)
    BY <1>0, <1>2, <1>4, <1>6 DEF AddrsHeld, InRegister
  <1>9. AddrsHeld(a', asked', family)
    BY <1>0, <1>2, <1>4, <1>5, <1>6, <1>7, <1>8 DEF AddrsHeld
  <1> QED BY <1>1, <1>2, <1>4, <1>9 DEF AddrKept, PoolReached

\* The multicast table is written whole from its copy, which has every bit.
LEMMA McListHeld ==
    ASSUME AddrInv, NEW on \in BOOLEAN, NEW list \in SUBSET McAddrs, UpdateMcList(list, on)
    PROVE  AddrKept
  <1>0. /\ DOMAIN asked = KFields /\ AddrsHeld(a, asked, family) /\ AddrShape(a) /\ RegShape(a)
        /\ DOMAIN a = AFields /\ family = "hash" /\ a.over = 0
    BY DEF AddrInv, AddrsHeld, AddrShape, RegShape, UpdateMcList, Call
  <1> DEFINE k == IF on THEN {} ELSE a.mtaShadow
             z == [a EXCEPT !.mtaUse = 0, !.mtaShadow = k]
             w == ixgbe_set_mta(z, list)
             en == w.mfe \/ w.mtaUse > 0
             bits == {ixgbe_mta_vector(m) : m \in list}
  <1>1. /\ a' = [w EXCEPT !.mta = w.mtaShadow, !.mfe = en] /\ family' = family
        /\ asked' = [asked EXCEPT !.mc = IF on THEN list ELSE asked.mc \cup list]
    BY DEF UpdateMcList, Call, ixgbe_update_mc_addr_list_generic
  <1> HIDE DEF k
  <1>2. /\ DOMAIN z = AFields /\ z.rar = a.rar /\ z.mp = a.mp /\ z.num = a.num /\ z.high = a.high
        /\ z.used = a.used /\ z.over = a.over /\ z.upe = a.upe /\ z.mtaShadow = k
    BY <1>0 DEF AFields
  <1> HIDE DEF z
  <1>3. /\ DOMAIN w = AFields /\ w.rar = a.rar /\ w.mp = a.mp /\ w.num = a.num /\ w.high = a.high
        /\ w.used = a.used /\ w.over = a.over /\ w.upe = a.upe /\ w.mtaShadow = k \cup bits
    BY <1>2 DEF ixgbe_set_mta, AFields
  <1> HIDE DEF w, en
  <1>4. /\ DOMAIN a' = AFields /\ a'.rar = a.rar /\ a'.mp = a.mp /\ a'.num = a.num /\ a'.high = a.high
        /\ a'.used = a.used /\ a'.over = a.over
        /\ a'.mta = k \cup bits /\ a'.mtaShadow = k \cup bits
    BY <1>1, <1>3 DEF AFields
  <1>5. AddrShape(a')  BY <1>0, <1>4 DEF AddrShape, RegShape
  <1>6. asked'.addr = asked.addr /\ asked'.mc = IF on THEN list ELSE asked.mc \cup list
    BY <1>0, <1>1 DEF KFields
  <1>7. \A m \in asked'.mc : ixgbe_mta_vector(m) \in k \cup bits
    BY <1>0, <1>6 DEF k, AddrsHeld
  <1>8. \A y \in asked'.addr : InRegister(a', y)
    BY <1>0, <1>4, <1>6 DEF AddrsHeld, InRegister
  <1>9. AddrsHeld(a', asked', family)
    BY <1>0, <1>4, <1>5, <1>6, <1>7, <1>8 DEF AddrsHeld
  <1> QED BY <1>1, <1>4, <1>9 DEF AddrKept, PoolReached

\* No call about VLANs gives the port pools or takes them.
LEMMA VlanCallPools ==
    ASSUME VlanInv, VlanCall
    PROVE  /\ v'.vt = v.vt /\ a' = a /\ family' = family /\ vfs' = vfs
           /\ SameAddrsAsked(asked', asked)
  <1>0. DOMAIN asked = KFields /\ DOMAIN v = VFields  BY DEF VlanInv, TableInv
  <1>1. a' = a /\ family' = family /\ vfs' = vfs
    BY DEF VlanCall, VlanFilterSet, SetPoolVlanFilter, VlanStripQueueSet, SetPool, VlanOffloadSet, Mirror, Call
  <1>2. ASSUME NEW on \in BOOLEAN, NEW vlan \in Vlans, VlanFilterSet(vlan, on)
        PROVE  v'.vt = v.vt /\ SameAddrsAsked(asked', asked)
    <2>1. PICK mark, left : asked' = [asked EXCEPT !.vlan = mark, !.open = left]
      BY <1>2, Zenon DEF VlanFilterSet
    <2>2. SameAddrsAsked(asked', asked)  BY <1>0, <2>1 DEF KFields, SameAddrsAsked
    <2>3. FilterSet(v', v, vlan, on)  BY <1>0, <1>2, FilterSetIs DEF VlanFilterSet
    <2> QED BY <2>2, <2>3 DEF FilterSet
  <1>3. ASSUME NEW on \in BOOLEAN, NEW vlan \in Vlans, NEW ps \in SUBSET Pools, SetPoolVlanFilter(vlan, ps, on)
        PROVE  v'.vt = v.vt /\ SameAddrsAsked(asked', asked)
    <2> DEFINE o == ixgbe_set_pool_vlan_filter(v, vlan, ps, on)
               H == GrantedAfter(asked, vlan, ps, on, o)
               T == TakenAfter(asked, vlan, ps, o)
    <2>1. v' = o.v /\ asked' = [asked EXCEPT !.granted = H, !.taken = T]
      BY <1>3, Zenon DEF SetPoolVlanFilter, GrantedAfter, TakenAfter, DoneBy
    <2>2. Framed(o.v, v)  BY <1>0, PoolFilterFrame
    <2> HIDE DEF o, H, T
    <2>3. SameAddrsAsked(asked', asked)  BY <1>0, <2>1 DEF KFields, SameAddrsAsked
    <2> QED BY <2>1, <2>2, <2>3 DEF Framed
  <1>a. SameAddrsAsked(asked, asked)  BY DEF SameAddrsAsked
  <1>4. ASSUME NEW on \in BOOLEAN, NEW q \in RxQueues, VlanStripQueueSet(q, on)
        PROVE  v'.vt = v.vt /\ SameAddrsAsked(asked', asked)
    BY <1>0, <1>4, <1>a, StripIs DEF VlanStripQueueSet, SameVlan
  <1>5. ASSUME NEW on \in BOOLEAN, NEW p \in Pools, SetPool(p, on)
        PROVE  v'.vt = v.vt /\ SameAddrsAsked(asked', asked)
    BY <1>0, <1>5, <1>a, PoolIs DEF SetPool, SameVlan
  <1>6. ASSUME NEW r \in Rules, Mirror(r)
        PROVE  v'.vt = v.vt /\ SameAddrsAsked(asked', asked)
    BY <1>0, <1>6, <1>a, MirrorIs DEF Mirror, SameVlan
  <1>7. ASSUME NEW c \in Confs, VlanOffloadSet(c)
        PROVE  v'.vt = v.vt /\ SameAddrsAsked(asked', asked)
    <2>1. PICK mask, left : v' = ixgbe_vlan_offload_set(v, mask, c) /\ asked' = [asked EXCEPT !.open = left]
      BY <1>7, Zenon DEF VlanOffloadSet
    <2>2. SameAddrsAsked(asked', asked)  BY <1>0, <2>1 DEF KFields, SameAddrsAsked
    <2>3. Offloaded(v', v, mask, c)  BY <1>0, <2>1, OffloadIs
    <2> QED BY <2>2, <2>3 DEF Offloaded
  <1> QED BY <1>1, <1>2, <1>3, <1>4, <1>5, <1>6, <1>7 DEF VlanCall

\* The calls about addresses.
LEMMA AddrCallHeld ==
    ASSUME AddrInv, San # NoAddr, AddrCall
    PROVE  AddrKept
  BY AddRarHeld, RemoveRarHeld, InsertHeld, ClearVmdqHeld, UcListHeld, PromiscuousHeld,
     McListHeld, OtherHeld DEF AddrCall

\* Every step keeps it.
LEMMA AddrStep == Pools # {0} /\ San # NoAddr /\ VlanInv /\ AddrInv /\ [Next]_vars => AddrInv'
  <1> SUFFICES ASSUME Pools # {0}, San # NoAddr, VlanInv, AddrInv, [Next]_vars PROVE AddrInv'
    OBVIOUS
  <1>0. /\ DOMAIN asked = KFields /\ AddrsHeld(a, asked, family) /\ TableInv(v, asked)
        /\ (v.vt => PoolReached(a)) /\ vfs \in Nat
    BY DEF AddrInv, VlanInv
  <1>a. TableOk(State) /\ AddrOk(State, family)
    BY <1>0, StateIs DEF TableOk, AddrOk
  <1>b. ASSUME NEW x, AddrOk(x, family), Become(x), family' = family, vfs' = vfs PROVE AddrInv'
    BY <1>0, <1>b DEF AddrOk, IsState, Become, AddrInv
  <1>1. ASSUME NEW c \in Confs, ixgbe_dev_start(c) PROVE AddrInv'
    <2> DEFINE s1 == ResetFilters(State)
               s3 == ModeFilters(HostFilters(s1), c)
               s5 == DcbFilters(OffloadFilters(s3, c), c)
    <2>1. StartLeaves(c) /\ family' = family /\ vfs' = vfs  BY <1>0, <1>1, StartLeft
    <2>2. AddrOk(s1, family) /\ AddrOk(s3, family) /\ AddrOk(s5, family)
      BY <1>0, <1>a, AddrStages
    <2>3. \/ \E x \in {State, s1, s3} : Become(x)
          \/ \E g : Become([s5 EXCEPT !.f = g])
      BY <2>1, Zenon DEF StartLeaves
    <2> HIDE DEF s1, s3, s5
    <2>4. ASSUME NEW g PROVE AddrOk([s5 EXCEPT !.f = g], family)
      BY <2>2 DEF AddrOk, IsState, SFields
    <2> QED BY <1>a, <1>b, <2>1, <2>2, <2>3, <2>4
  <1>2. CASE ixgbe_dev_stop
    <2>1. PICK x \in {State, ResetFilters(State)} : Become(x)  BY <1>2 DEF ixgbe_dev_stop
    <2>2. family' = family /\ vfs' = vfs  BY <1>2 DEF ixgbe_dev_stop
    <2>3. AddrOk(ResetFilters(State), family)  BY <1>0, <1>a, AddrStages
    <2> QED BY <1>a, <1>b, <2>1, <2>2, <2>3
  <1>3. CASE AddrCall
    BY <1>0, <1>3, AddrCallLeaves, AddrCallHeld DEF AddrFrame, AddrKept, AddrInv
  <1>4. CASE VlanCall
    <2>1. /\ v'.vt = v.vt /\ a' = a /\ family' = family /\ vfs' = vfs
          /\ SameAddrsAsked(asked', asked)
      BY <1>4, VlanCallPools
    <2>2. DOMAIN asked' = KFields  BY <1>0, <1>4, VlanCallTable
    <2>3. AddrsHeld(a', asked', family')  BY <1>0, <2>1 DEF AddrsHeld, SameAddrsAsked
    <2> QED BY <1>0, <2>1, <2>2, <2>3 DEF AddrInv
  <1>5. CASE FdirCall
    <2>1. a' = a /\ v' = v /\ asked' = asked /\ family' = family /\ vfs' = vfs
      BY <1>5 DEF FdirCall, AddPerfect, AddSignature, RemoveSignature, RemovePerfect, SetMasks, Director, Call
    <2> QED BY <2>1, <1>0 DEF AddrInv
  <1>6. CASE UNCHANGED vars
    BY <1>6, <1>0 DEF vars, AddrInv
  <1> QED BY <1>1, <1>2, <1>3, <1>4, <1>5, <1>6, NextIs

\* It holds at first.
LEMMA AddrInvInit == Init => AddrInv
  <1> SUFFICES ASSUME Init PROVE AddrInv
    OBVIOUS
  <1>1. a = AddrReset(NewAddr) /\ v = NewVlan /\ asked = NothingAsked /\ vfs \in Nat
    BY FilterAssumption DEF Init
  <1>2. RegShape(NewAddr) /\ NewAddr.high = 1
    BY AddrAssumption DEF NewAddr, RegShape, AFields
  <1>3. AddrWasReset(a, NewAddr)  BY <1>1, <1>2, AddrResetIs
  <1>4. InRegister(a, Own)  BY <1>3, RarsAre DEF InRegister, AddrWasReset, AddrShape
  <1>5. \A i \in Rars : a.high <= i /\ i < a.num => a.rar[i] = NoAddr
    BY <1>3, RarsAre DEF AddrWasReset, AddrShape
  <1>6. AddrsHeld(a, asked, family)
    BY <1>1, <1>3, <1>4, <1>5, NewAsked DEF AddrsHeld, AddrWasReset
  <1> QED BY <1>1, <1>6, NewAsked, NewVlanIs DEF AddrInv

\* Every unicast address asked for since the last reset is in a receive
\* register, or there were more than registers and the port receives
\* everything (unless a caller ended that); the port's own address reaches
\* one of its pools; and every multicast address has its bit in the table.
\* VMDq has no mode with one pool: the insertion of the port's own address
\* takes it out of pool 0, which would be its last; and a port has a SAN
\* address, for without one the call for that would take the own one's pools.
THEOREM AddressesAreReceived == Pools # {0} /\ San # NoAddr => (Spec => []AddrReceived)
  <1> SUFFICES ASSUME Pools # {0}, San # NoAddr PROVE Spec => []AddrReceived
    OBVIOUS
  <1>1. Init => VlanInv /\ AddrInv
    BY VlanInvInit, AddrInvInit
  <1>2. VlanInv /\ AddrInv /\ [Next]_vars => (VlanInv /\ AddrInv)'
    BY VlanStep, AddrStep
  <1>3. AddrInv => AddrReceived
    <2> SUFFICES ASSUME AddrInv PROVE AddrReceived
      OBVIOUS
    <2>1. AddrsHeld(a, asked, family) /\ (v.vt => PoolReached(a))  BY DEF AddrInv
    <2>2. a.rar[0] = Own /\ a.over \in Nat  BY <2>1 DEF AddrsHeld, AddrShape
    <2>3. v.vt => a.mp[0] # {}  BY <2>1 DEF PoolReached
    <2>4. \A x \in asked.addr : a.upe \/ asked.upeOff \/ \E i \in Rars : a.rar[i] = x
      BY <2>1, <2>2 DEF AddrsHeld, InRegister
    <2>5. \A m \in asked.mc : ixgbe_mta_vector(m) \in a.mta  BY <2>1 DEF AddrsHeld
    <2> QED BY <2>2, <2>3, <2>4, <2>5 DEF AddrReceived
  <1> QED BY <1>1, <1>2, <1>3, PTL DEF Spec


=============================================================================
