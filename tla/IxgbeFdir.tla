------------------------------ MODULE IxgbeFdir ------------------------------
(***************************************************************************)
(* The flow director of a port of the ixgbe driver (ixgbe_fdir.c).         *)
(*                                                                         *)
(* A function of the driver is an operator on the record f that returns    *)
(* the set of its outcomes, [f, ret]:                                      *)
(* f.mode     FDIRCTRL: off, signature or perfect filters                  *)
(* f.alloc    FDIRCTRL_PBALLOC: the packet memory of the tables in KB      *)
(* f.drop     FDIRCTRL_DROP_Q                                              *)
(* f.pb0      RXPBSIZE of the first packet buffer in KB                    *)
(* f.masks    FDIRM and the mask registers                                 *)
(* f.filters  the filters in the tables: kind, flow and queue, FDIRHASH,   *)
(*            which names them, and the masks in force                     *)
(*                                                                         *)
(* A flow is a record: its layer 4, whether it names ports, and its hash   *)
(* under either key.  FDIRHASH has two parts, a bucket and an index.       *)
(***************************************************************************)
EXTENDS Integers, FiniteSets

NIC_RX_BUFFER_KB == 512
NoMasks == [only_ip |-> FALSE, ports |-> FALSE, vlan |-> FALSE]
NewFdir == [mode |-> "none", alloc |-> 0, drop |-> 0, pb0 |-> NIC_RX_BUFFER_KB,
            masks |-> NoMasks, filters |-> {}]

\* What a reset of the MAC leaves: the tables are in packet memory.
FdirReset(f) == NewFdir

Done(f) == {[f |-> f, ret |-> "ok"]}
Fails(f, e) == {[f |-> f, ret |-> e]}

-----------------------------------------------------------------------------
(* Set-up *)

configure_fdir_flags(c) == c.alloc \in {64, 128, 256}

\* A timeout of the hardware's initialisation is only logged.
fdir_enable_82599(f, c) ==
    [f EXCEPT !.mode = c.mode, !.alloc = c.alloc, !.drop = IF c.mode = "perfect" THEN c.drop ELSE 0]

ixgbe_fdir_configure(f, c) ==
    IF ~configure_fdir_flags(c) THEN Fails(f, "EINVAL")
    ELSE Done(fdir_enable_82599([f EXCEPT !.pb0 = @ - c.alloc], c))

-----------------------------------------------------------------------------
(* Filters *)

ixgbe_atr_compute_hash_82599(flow, key) == flow.hash[key]

\* The tables of a size have so many buckets: two flows may share one.
Buckets(alloc, kind) ==
    CASE alloc = 256 -> IF kind = "perfect" THEN 2^13 ELSE 2^15
      [] alloc = 128 -> IF kind = "perfect" THEN 2^12 ELSE 2^14
      [] OTHER       -> IF kind = "perfect" THEN 2^11 ELSE 2^13

\* The index of a signature filter is a second hash.
atr_compute_perfect_hash_82599(flow, alloc) ==
    ixgbe_atr_compute_hash_82599(flow, "bucket") % Buckets(alloc, "perfect")
atr_compute_sig_hash_82599(flow, alloc) ==
    [bucket |-> ixgbe_atr_compute_hash_82599(flow, "bucket") % Buckets(alloc, "signature"),
     index  |-> ixgbe_atr_compute_hash_82599(flow, "signature")]

\* Flows without ports of their own cannot name any.
fdir_filter_to_atr_input(flow) == ~(flow.l4 \in {"sctp", "none"} /\ flow.ports)

\* The hardware replaces the filter that the same command would find.
Put(f, e) == [f EXCEPT !.filters = {g \in @ : g.key # e.key \/ g.flow # e.flow} \cup {e}]

\* No command waits until the one before it is finished, nor for its own end.
fdir_add_signature_filter_82599(f, flow, q, key) ==
    Put(f, [kind |-> "signature", flow |-> flow, queue |-> q, key |-> key, masks |-> f.masks])
fdir_write_perfect_filter_82599(f, flow, q, key) ==
    Put(f, [kind |-> "perfect", flow |-> flow, queue |-> q, key |-> key, masks |-> f.masks])

\* c is dev_conf.fdir_conf
fdir_add_update_signature_filter(f, c, flow, q) ==
    IF ~fdir_filter_to_atr_input(flow) THEN Fails(f, "EINVAL")
    ELSE Done(fdir_add_signature_filter_82599(f, flow, q, atr_compute_sig_hash_82599(flow, c.alloc)))

fdir_add_update_perfect_filter(f, c, flow, soft, q, drop) ==
    IF ~fdir_filter_to_atr_input(flow) THEN Fails(f, "EINVAL")
    ELSE Done(fdir_write_perfect_filter_82599(f, flow, IF drop THEN c.drop ELSE q,
                [bucket |-> atr_compute_perfect_hash_82599(flow, c.alloc), index |-> soft]))

\* The filter is looked up by its hash and removed when there is one.  When
\* the answer does not come in time the call fails, yet it still removes
\* if the last answer read says so.
fdir_erase_filter_82599(f, key) ==
    LET found == {e \in f.filters : e.key = key}
        without == {[f EXCEPT !.filters = @ \ {e}] : e \in found}
    IN  {[f |-> g, ret |-> "ok"] : g \in IF found = {} THEN {f} ELSE without}
        \cup {[f |-> g, ret |-> "EIO"] : g \in {f} \cup without}

ixgbe_fdir_remove_signature_filter(f, c, flow) ==
    IF ~fdir_filter_to_atr_input(flow) THEN Fails(f, "EINVAL")
    ELSE fdir_erase_filter_82599(f, atr_compute_sig_hash_82599(flow, c.alloc))

ixgbe_fdir_remove_perfect_filter(f, c, flow, soft) ==
    IF ~fdir_filter_to_atr_input(flow) THEN Fails(f, "EINVAL")
    ELSE fdir_erase_filter_82599(f, [bucket |-> atr_compute_perfect_hash_82599(flow, c.alloc),
                                     index |-> soft])

-----------------------------------------------------------------------------
(* Masks *)

\* The previous command may not end, and neither may the initialisation.
ixgbe_reinit_fdir_tables_82599(f) ==
    LET cleared == [f EXCEPT !.filters = {}]
    IN  Fails(f, "REINIT_FAILED") \cup Done(cleared) \cup Fails(cleared, "REINIT_FAILED")

fdir_set_input_mask_82599(f, m) ==
    IF m.only_ip /\ m.ports THEN Fails(f, "EINVAL") ELSE Done([f EXCEPT !.masks = m])

\* Mutant of ixgbe_fdir_set_masks: the order swapped.
masks_before_tables(f, m) ==
    UNION {ixgbe_reinit_fdir_tables_82599(o.f) : o \in fdir_set_input_mask_82599(f, m)}

ixgbe_fdir_set_masks(f, m) ==
    UNION {IF o.ret = "ok" THEN fdir_set_input_mask_82599(o.f, m) ELSE Fails(o.f, "EIO")
           : o \in ixgbe_reinit_fdir_tables_82599(f)}

=============================================================================
