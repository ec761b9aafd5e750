----------------------------- MODULE IxgbeFilter -----------------------------
(***************************************************************************)
(* The receive filters of one port of the ixgbe driver through starts,     *)
(* stops and the calls of struct eth_dev_ops and ixgbe_mac_operations that *)
(* change them.  What hardware and driver hold is in IxgbeAddr, IxgbeVlan  *)
(* and IxgbeFdir; this module puts the calls in sequence and remembers     *)
(* what the callers asked for.                                             *)
(*                                                                         *)
(* The calls are serialised.  A behaviour uses one family of calls besides *)
(* starts and stops: the families have no register in common but those a   *)
(* start sets up, and the calls of IxgbeAddr that manage the same          *)
(* registers each in their own way are not mixed by a caller.              *)
(***************************************************************************)
EXTENDS IxgbeVlan, IxgbeFdir

CONSTANTS
    Confs,          \* dev_conf: queue mode, VLAN offloads, pool map, flow director
    Vfs,            \* numbers of virtual functions a port may have
    UcLists,        \* lists of secondary addresses with their pools
    Rules,          \* mirror rules
    Flows,          \* flows of the flow director
    Masks,          \* its input masks
    RarIndex,       \* registers the callers of add_rar and remove_rar name
    MaxCalls        \* bound on the calls

ASSUME FilterAssumption ==
    /\ Vfs \subseteq Nat
    /\ RarIndex \subseteq Nat \ {0}     \* the port's own address is not removed
    /\ UcLists \subseteq Seq([addr : Addrs, pool : Pools])
    /\ MaxCalls \in Nat

ETH_DCB_NUM_QUEUES == 128

Families == {"rar", "insert", "list", "hash", "vlan", "fdir"}

VARIABLES
    family,     \* the calls of this behaviour
    vfs,        \* hw->num_vfs
    a, v, f,    \* addresses, VLANs and pools, flow director
    conf,       \* dev->data->dev_conf
    started,    \* the last start succeeded and no stop came since
    asked,      \* history: what the callers asked for and have not undone
    calls       \* calls so far

vars == <<family, vfs, a, v, f, conf, started, asked, calls>>

\* No address but the port's own, no VLAN, no pool of a VLAN.
\* upeOff   a caller ended promiscuous mode while the registers overflowed
\* open     the VLANs a start with traffic classes let through, filtered before
\* first    the pools of the VLAN that a start put in slot 0, if it is not VLAN 0
\* taken    VLAN 0 got slot 0 after that, with the pools it had
NothingAsked == [addr |-> {Own}, mc |-> {}, vlan |-> [w \in Vlans |-> "off"], open |-> {},
                 granted |-> {}, first |-> {}, taken |-> FALSE, upeOff |-> FALSE]

\* queues  nb_rx_queues;   num, tcs, txNum  the pools and classes of the queue
\* modes mq and tx;   map  the VLANs with their pools
NoConf == [mq |-> "none", tx |-> "none", queues |-> 1, num |-> 0, tcs |-> 4, txNum |-> 0,
           strip |-> FALSE, filter |-> FALSE, extend |-> FALSE, map |-> <<>>,
           fdir |-> [mode |-> "none", alloc |-> 64, drop |-> 0]]

\* The probe has reset and started the hardware once.
Init ==
    /\ family \in Families
    /\ vfs \in Vfs
    /\ a = AddrReset(NewAddr)
    /\ v = NewVlan
    /\ f = NewFdir
    /\ conf = NoConf
    /\ started = FALSE
    /\ asked = NothingAsked
    /\ calls = 0

State == [a |-> a, v |-> v, f |-> f, asked |-> asked]

-----------------------------------------------------------------------------
(* Starts and stops *)

\* ixgbe_pf_reset_hw: what was asked of the address registers is gone.
ResetFilters(s) ==
    [s EXCEPT !.a = AddrReset(@), !.v = VlanReset(@), !.f = FdirReset(@),
              !.asked = [@ EXCEPT !.addr = {Own}, !.mc = {}, !.upeOff = FALSE]]

\* start_hw and ixgbe_pf_host_configure
HostFilters(s) ==
    [s EXCEPT !.a = HostAddr(@, vfs),
              !.v = ixgbe_pf_host_configure(ixgbe_clear_vfta_generic(@), vfs),
              !.asked = [@ EXCEPT !.open = {}, !.granted = {}, !.first = {}, !.taken = FALSE]]

\* What a caller is owed of a map: the pools in the halves that are written.
MapAsked(k, map, half) ==
    LET pools(n) == {map[n].vlan} \X (map[n].pools \cap half[n])
        own == {n \in {1} \cap DOMAIN map : map[n].vlan # 0}
    IN  [k EXCEPT !.granted = UNION {pools(n) : n \in DOMAIN map \ own},
                  !.first = UNION {pools(n) : n \in own}, !.taken = FALSE]

\* The pools of VMDq; the first register is open to all of them.
PoolFilters(s, c) ==
    CASE c.mq = "vmdq" ->
            [s EXCEPT !.a.mp[0] = Pools, !.v = VmdqVlans(@, c),
                      !.asked = MapAsked(@, c.map, VmdqHalves(c.map))]
      [] c.mq = "vmdq_dcb" /\ c.num \in {SomePools, HalfPools} ->
            [s EXCEPT !.a.mp[0] = Pools, !.v = ixgbe_vmdq_dcb_configure(@, c),
                      !.asked = MapAsked(@, c.map, DcbHalves(c.map))]
      [] OTHER -> s

\* ixgbe_dev_mq_tx_configure and ixgbe_dev_mq_rx_configure
ModeFilters(s, c) ==
    LET tx == IF c.tx = "vmdq" THEN [s EXCEPT !.v = ixgbe_vmdq_tx_hw_configure(@)] ELSE s
    IN  IF vfs # 0 THEN s ELSE PoolFilters(tx, c)

OffloadFilters(s, c) ==
    LET w == ixgbe_vlan_offload_set(s.v, {"strip", "filter", "extend"}, c)
    IN  [s EXCEPT !.v = IF c.mq = "vmdq" THEN ixgbe_vmdq_vlan_hw_filter_enable(w) ELSE w,
                  !.asked.open = IF c.filter THEN {} ELSE @]

\* ixgbe_configure_dcb, with and without virtual functions
DcbFilters(s, c) ==
    LET rx == IF c.mq = "vmdq_dcb" THEN PoolFilters(s, c)
              ELSE [s EXCEPT !.v = ixgbe_dcb_rx_hw_config(@, c), !.asked.open = Vlans]
    IN  IF c.mq \notin {"vmdq_dcb", "dcb"} \/ c.queues # ETH_DCB_NUM_QUEUES THEN s
        ELSE IF c.tx = "vmdq_dcb" THEN [rx EXCEPT !.v = ixgbe_vmdq_dcb_hw_tx_config(@, c)] ELSE rx

\* The states a start may leave, and whether it succeeds.  It may fail before
\* the reset, in it, when the link is set up, and at the flow director.
StartOutcomes(s, c) ==
    LET s1 == ResetFilters(s)
        s2 == HostFilters(s1)
        s3 == ModeFilters(s2, c)
        s4 == OffloadFilters(s3, c)
        s5 == DcbFilters(s4, c)
        last == IF c.fdir.mode = "none" THEN {[f |-> s5.f, ret |-> "ok"]}
                ELSE ixgbe_fdir_configure(s5.f, c.fdir)
    IN  {[s |-> x, ok |-> FALSE] : x \in {s, s1, s3}}
        \cup {[s |-> [s5 EXCEPT !.f = o.f], ok |-> o.ret = "ok"] : o \in last}

Become(s) == a' = s.a /\ v' = s.v /\ f' = s.f /\ asked' = s.asked

ixgbe_dev_start(c) ==
    /\ calls < MaxCalls /\ calls' = calls + 1
    /\ conf' = c
    /\ \E o \in StartOutcomes(State, c) : Become(o.s) /\ started' = o.ok
    /\ UNCHANGED <<family, vfs>>

ixgbe_dev_stop ==
    /\ calls < MaxCalls /\ calls' = calls + 1
    /\ started
    /\ started' = FALSE
    /\ \E s \in {State, ResetFilters(State)} : Become(s)
    /\ UNCHANGED <<family, vfs, conf>>

-----------------------------------------------------------------------------
(* Addresses *)

Call(fam) ==
    /\ family = fam
    /\ calls < MaxCalls /\ calls' = calls + 1
    /\ UNCHANGED <<family, vfs, conf, started>>

\* The addresses in registers a call may change, but for register i.
Others(i) == {a.rar[j] : j \in Rars \ {i}} \cap asked.addr

ixgbe_add_rar(addr, i, p) ==
    /\ Call("rar")
    /\ a' = ixgbe_set_rar_generic(a, i, addr, p)
    /\ asked' = IF i < a.num THEN [asked EXCEPT !.addr = Others(i) \cup {addr}] ELSE asked
    /\ UNCHANGED <<v, f>>

ixgbe_remove_rar(i) ==
    /\ Call("rar")
    /\ a' = ixgbe_clear_rar_generic(a, i)
    /\ asked' = IF i < a.num THEN [asked EXCEPT !.addr = Others(i)] ELSE asked
    /\ UNCHANGED <<v, f>>

InsertAddr(addr, p) ==
    /\ Call("insert")
    /\ a.high < HighMax
    /\ a' = ixgbe_insert_mac_addr_generic(a, addr, p)
    /\ asked' = IF InsertAt(a, addr) < a.num THEN [asked EXCEPT !.addr = @ \cup {addr}] ELSE asked
    /\ UNCHANGED <<v, f>>

\* A pool gives an inserted address up.
ClearVmdq(i, ps) ==
    /\ Call("insert")
    /\ a' = ixgbe_clear_vmdq_generic(a, i, ps)
    /\ asked' = [asked EXCEPT !.addr = {x \in @ : x = Own \/ \E j \in Rars : a'.rar[j] = x}]
    /\ UNCHANGED <<v, f>>

SetVmdqSan(p) ==
    /\ Call("insert")
    /\ a' = ixgbe_set_vmdq_san_mac_generic(a, p)
    /\ UNCHANGED <<v, f, asked>>

UpdateUcList(list) ==
    /\ Call("list")
    /\ a' = ixgbe_update_uc_addr_list_generic(a, list)
    /\ asked' = [asked EXCEPT !.addr = {Own} \cup {list[n].addr : n \in DOMAIN list},
                              !.upeOff = @ /\ a'.over > 0]
    /\ UNCHANGED <<v, f>>

Promiscuous(on) ==
    /\ Call("list")
    /\ a' = [(IF on THEN ixgbe_dev_promiscuous_enable(a)
              ELSE ixgbe_dev_promiscuous_disable(a)) EXCEPT !.promisc = on]
    /\ asked' = [asked EXCEPT !.upeOff = IF on THEN @ ELSE @ \/ a.over > 0]
    /\ UNCHANGED <<v, f>>

AllMulticast(on) ==
    /\ Call("list")
    /\ a' = [(IF on THEN ixgbe_dev_allmulticast_enable(a)
              ELSE ixgbe_dev_allmulticast_disable(a)) EXCEPT !.allmulti = on]
    /\ UNCHANGED <<v, f, asked>>

\* Without clear the list is added to what the driver remembers.
UpdateMcList(list, clear) ==
    /\ Call("hash")
    /\ a' = ixgbe_update_mc_addr_list_generic(a, list, clear)
    /\ asked' = [asked EXCEPT !.mc = IF clear THEN list ELSE @ \cup list]
    /\ UNCHANGED <<v, f>>

EnableMc(on) ==
    /\ Call("hash")
    /\ a' = IF on THEN ixgbe_enable_mc_generic(a) ELSE ixgbe_disable_mc_generic(a)
    /\ UNCHANGED <<v, f, asked>>

UcHash(addr, on) ==
    /\ Call("hash")
    /\ a' = ixgbe_uc_hash_table_set(a, addr, on)
    /\ UNCHANGED <<v, f, asked>>

UcAllHash(on) ==
    /\ Call("hash")
    /\ a' = ixgbe_uc_all_hash_table_set(a, on)
    /\ UNCHANGED <<v, f, asked>>

-----------------------------------------------------------------------------
(* VLANs and pools *)

\* The copy of a register takes the bits of the other VLANs in it as well:
\* those that the table does not have as asked are lost with it, where the
\* table is not in use (it was cleared, or every VLAN passes) or is open.
VlanFilterSet(vlan, on) ==
    LET idle(w) == v.vt \/ ~v.vfe \/ w \in asked.open
        wrong(w) == (asked.vlan[w] = "on") # (w \in v.vfta)
    IN  /\ Call("vlan")
        /\ v' = ixgbe_vlan_filter_set(v, vlan, on)
        /\ asked' = [asked EXCEPT
              !.vlan = [w \in Vlans |->
                          IF w = vlan THEN IF on THEN "on" ELSE "off"
                          ELSE IF w \in Word(vlan) /\ idle(w) /\ wrong(w) THEN "unknown" ELSE @[w]],
              !.open = @ \ {vlan}]
        /\ UNCHANGED <<a, f>>

\* The caller changes dev_conf and names what changed.
VlanOffloadSet(c) ==
    /\ Call("vlan")
    /\ \E mask \in {{"filter"}, {"strip", "extend"}} :
          /\ v' = ixgbe_vlan_offload_set(v, mask, c)
          /\ asked' = [asked EXCEPT !.open = IF "filter" \in mask /\ c.filter THEN {} ELSE @]
    /\ UNCHANGED <<a, f>>

VlanStripQueueSet(q, on) ==
    /\ Call("vlan")
    /\ v' = ixgbe_vlan_strip_queue_set(v, q, on)
    /\ UNCHANGED <<a, f, asked>>

\* Granted are the pools whose part of the call was done.
SetPoolVlanFilter(vlan, pools, on) ==
    LET o == ixgbe_set_pool_vlan_filter(v, vlan, pools, on)
        done == IF o.ret = "ok" THEN {vlan} \X pools ELSE {}
    IN  /\ Call("vlan")
        /\ v' = o.v
        /\ asked' = [asked EXCEPT !.granted = IF on THEN @ \cup done ELSE @ \ done,
                                  !.taken = @ \/ (vlan = 0 /\ asked.first # {} /\ done # {})]
        /\ UNCHANGED <<a, f>>

SetPool(p, on) ==
    /\ Call("vlan")
    /\ \/ v' = ixgbe_set_pool_rx(v, p, on)
       \/ v' = ixgbe_set_pool_tx(v, p, on)
       \/ v' = ixgbe_set_pool_rx_mode(v, p, RxModes, on)
    /\ UNCHANGED <<a, f, asked>>

Mirror(r) ==
    /\ Call("vlan")
    /\ \/ \E on \in BOOLEAN : v' = ixgbe_mirror_rule_set(v, r, on)
       \/ v' = ixgbe_mirror_rule_reset(v)
    /\ UNCHANGED <<a, f, asked>>

-----------------------------------------------------------------------------
(* Flow director *)

Soft(flow) == flow.id
Director(outcomes) == Call("fdir") /\ (\E o \in outcomes : f' = o.f) /\ UNCHANGED <<a, v, asked>>

AddSignature(flow, q) == Director(fdir_add_update_signature_filter(f, conf.fdir, flow, q))
RemoveSignature(flow) == Director(ixgbe_fdir_remove_signature_filter(f, conf.fdir, flow))
AddPerfect(flow, q, drop) ==
    Director(fdir_add_update_perfect_filter(f, conf.fdir, flow, Soft(flow), q, drop))
RemovePerfect(flow) == Director(ixgbe_fdir_remove_perfect_filter(f, conf.fdir, flow, Soft(flow)))
SetMasks(m) == Director(ixgbe_fdir_set_masks(f, m))

Next ==
    \/ \E c \in Confs : ixgbe_dev_start(c)
    \/ ixgbe_dev_stop
    \/ \E addr \in Addrs, p \in Pools :
          \/ \E i \in RarIndex : ixgbe_add_rar(addr, i, p)
          \/ InsertAddr(addr, p)
    \/ \E i \in RarIndex : ixgbe_remove_rar(i)
    \/ \E p \in Pools : InsertAddr(Own, p) \/ SetVmdqSan(p)
    \/ \E i \in RarIndex, ps \in {{p} : p \in Pools} \cup {VMDQ_ALL} : ClearVmdq(i, ps)
    \/ \E list \in UcLists : UpdateUcList(list)
    \/ \E on \in BOOLEAN :
          \/ Promiscuous(on) \/ AllMulticast(on) \/ EnableMc(on) \/ UcAllHash(on)
          \/ \E addr \in Addrs : UcHash(addr, on)
          \/ \E list \in SUBSET McAddrs : UpdateMcList(list, on)
          \/ \E vlan \in Vlans : VlanFilterSet(vlan, on)
          \/ \E vlan \in Vlans, ps \in SUBSET Pools \ {{}} : SetPoolVlanFilter(vlan, ps, on)
          \/ \E q \in RxQueues : VlanStripQueueSet(q, on)
          \/ \E p \in Pools : SetPool(p, on)
          \/ \E flow \in Flows, q \in RxQueues : AddPerfect(flow, q, on)
    \/ \E c \in Confs : VlanOffloadSet(c)
    \/ \E r \in Rules : Mirror(r)
    \/ \E flow \in Flows : RemoveSignature(flow) \/ RemovePerfect(flow)
    \/ \E flow \in Flows, q \in RxQueues : AddSignature(flow, q)
    \/ \E m \in Masks : SetMasks(m)

Spec == Init /\ [][Next]_vars

-----------------------------------------------------------------------------
(* Properties *)

\* Every unicast address that was asked for since the last reset is in a
\* receive register or the port receives everything; and while the port runs
\* with pools its own address reaches one of them.  Every multicast address
\* asked for since then has its bit in the table.  (set_rar, clear_vmdq, the
\* address lists and the registers a reset rewrites.)
AddrReceived ==
    /\ a.rar[0] = Own
    /\ started /\ v.vt => a.mp[0] # {}
    /\ \A x \in asked.addr : a.upe \/ asked.upeOff \/ \E i \in Rars : a.rar[i] = x
    /\ \A m \in asked.mc : ixgbe_mta_vector(m) \in a.mta

\* While VLANs are filtered and there are no pools, a VLAN passes exactly if
\* the last call of ixgbe_vlan_filter_set for it said so, through restarts,
\* configurations with pools, and times without the filter in between (but
\* for VLANs whose bit was wrong when the register was copied while the table
\* was not in use, and VLANs that a start with traffic classes let through,
\* until the filter is switched on again or they are named in a call).
VlanAsAsked ==
    v.vfe /\ ~v.vt =>
        \A w \in Vlans : /\ asked.vlan[w] = "on" => w \in v.vfta
                         /\ asked.vlan[w] = "off" /\ w \notin asked.open => w \notin v.vfta

Pairs(S) == UNION {{v.vlvf[s]} \X v.vlvfb[s] : s \in S}

\* The slots hold exactly the VLANs and pools of the map and of the calls that
\* succeeded: a VLAN has one slot, a slot without pools is free again, and a
\* call that finds no slot changes nothing.  Slot 0 holds the first entry of
\* the map, or VLAN 0 when there is none (after a call for VLAN 0 in spite of
\* an entry nothing is said of it).
SlotsExact ==
    /\ Pairs(Slots \ {0}) = {g \in asked.granted : g[1] # 0}
    /\ ~asked.taken =>
          Pairs({0}) = IF asked.first # {} THEN asked.first ELSE {g \in asked.granted : g[1] = 0}
    /\ \A s, t \in Slots \ {0} : v.vlvf[s] = v.vlvf[t] /\ s # t => v.vlvf[s] = NoVlan
    /\ \A s \in Slots \ {0} : (v.vlvf[s] = NoVlan) <=> (v.vlvfb[s] = {})

\* While the flow director runs every filter in its tables was written under
\* the masks in force, and a removal by its own kind of call will look for it
\* in the bucket it was put in, of tables of the size that runs.
FiltersCurrent ==
    started /\ f.mode # "none" =>
        \A e \in f.filters :
            /\ e.masks = f.masks
            /\ e.key = IF e.kind = "perfect"
                       THEN [bucket |-> atr_compute_perfect_hash_82599(e.flow, f.alloc),
                             index |-> Soft(e.flow)]
                       ELSE atr_compute_sig_hash_82599(e.flow, f.alloc)

=============================================================================
