------------------------------ MODULE IxgbeAddr ------------------------------
(***************************************************************************)
(* The address filters of a port of the ixgbe driver: the receive address  *)
(* registers and the pools they feed, the hash tables for multicast and    *)
(* unicast addresses, and the promiscuous modes.                           *)
(*                                                                         *)
(* A function of the driver is an operator on the record a:                *)
(* a.rar     RAL and RAH: the address, NoAddr when RAH_AV is not set       *)
(* a.mp      MPSAR: the pools that receive it                              *)
(* a.num     mac.num_rar_entries;   a.high  mac.rar_highwater              *)
(* a.used, a.over   addr_ctrl.rar_used_count and overflow_promisc          *)
(* a.upe, a.mpe     the promiscuous bits of FCTRL                          *)
(* a.promisc, a.allmulti   dev->data->promiscuous and all_multicast        *)
(* a.mta, a.mtaShadow, a.mtaUse   the multicast table, its copy, its count *)
(* a.uta, a.utaShadow, a.utaUse   the same for the unicast table           *)
(* a.mfe     MCSTCTRL_MFE: the hash tables are looked at                   *)
(*                                                                         *)
(* addr_ctrl.user_set_promisc is never set by this driver.                 *)
(***************************************************************************)
EXTENDS Integers, Sequences, FiniteSets

CONSTANTS
    Own,            \* the port's own address
    San,            \* the SAN address, NoAddr when the EEPROM has none
    NoAddr,         \* a register that is not valid
    Addrs,          \* other unicast addresses
    McAddrs,        \* multicast addresses
    Vectors,        \* bits of the hash tables
    Vector,         \* the bit of a hashed address (mta_vector, uta_vector)
    Pools,          \* pools of VMDq or SR-IOV
    NumRar          \* receive address registers of the hardware

ASSUME AddrAssumption ==
    /\ Own \notin Addrs /\ San \notin Addrs \cup {Own}
    /\ NoAddr \notin Addrs \cup {Own}
    /\ Vector \in [Addrs \cup McAddrs -> Vectors]
    /\ Pools \subseteq Nat /\ 0 \in Pools
    /\ NumRar \in Nat /\ NumRar > 1

Rars == 0 .. NumRar - 1
VMDQ_ALL == Pools
HighMax == NumRar + 1       \* bound: how far rar_highwater is followed

\* What the driver and the registers hold before the first reset: the
\* hardware has put the EEPROM's address into the first register.
NewAddr ==
    [rar |-> [i \in Rars |-> IF i = 0 THEN Own ELSE NoAddr], mp |-> [i \in Rars |-> {}],
     num |-> NumRar, high |-> 1, used |-> 0, over |-> 0, upe |-> FALSE, mpe |-> FALSE,
     promisc |-> FALSE, allmulti |-> FALSE, mta |-> {}, mtaShadow |-> {}, mtaUse |-> 0,
     uta |-> {}, utaShadow |-> {}, utaUse |-> 0, mfe |-> FALSE]

-----------------------------------------------------------------------------
(* Receive address registers *)

ixgbe_set_vmdq_generic(a, i, p) ==
    IF i >= a.num THEN a ELSE [a EXCEPT !.mp[i] = @ \cup {p}]

\* An entry that loses its last pool is cleared, the port's own excepted.
ixgbe_clear_vmdq_generic(a, i, ps) ==
    IF i >= a.num \/ a.mp[i] = {} THEN a
    ELSE LET left == a.mp[i] \ ps
         IN  [a EXCEPT !.mp[i] = left,
                       !.rar[i] = IF left = {} /\ i # 0 THEN NoAddr ELSE @]

\* The pools of an earlier address of the register stay.
ixgbe_set_rar_generic(a, i, addr, p) ==
    IF i >= a.num THEN a
    ELSE [ixgbe_set_vmdq_generic(a, i, p) EXCEPT !.rar[i] = addr]

ixgbe_clear_rar_generic(a, i) ==
    IF i >= a.num THEN a
    ELSE ixgbe_clear_vmdq_generic([a EXCEPT !.rar[i] = NoAddr], i, VMDQ_ALL)

\* The SAN address takes the last register and puts it out of reach.
\* Without one san_mac_rar_index is 0, the register of the port's own.
SanRar == IF San = NoAddr THEN 0 ELSE NumRar - 1
ixgbe_set_vmdq_san_mac_generic(a, p) == [a EXCEPT !.mp[SanRar] = {p}]
ReserveSan(a) ==
    IF San = NoAddr THEN a
    ELSE [ixgbe_set_rar_generic(a, a.num - 1, San, 0) EXCEPT !.num = a.num - 1]

ixgbe_init_uta_tables_generic(a) == [a EXCEPT !.uta = {}]

\* The pools of the other registers are not touched, nor is a shadow table.
ixgbe_init_rx_addrs_generic(a) ==
    LET own == ixgbe_clear_vmdq_generic(ixgbe_set_rar_generic(a, 0, Own, 0), 0, VMDQ_ALL)
    IN  ixgbe_init_uta_tables_generic(
          [own EXCEPT !.rar = [i \in Rars |-> IF i = 0 THEN @[0] ELSE IF i < a.num THEN NoAddr ELSE @[i]],
                      !.over = 0, !.used = 1, !.mtaUse = 0, !.mfe = FALSE, !.mta = {}])

\* What ixgbe_reset_hw_82599 does to the addresses once the MAC is reset.
AddrReset(a) ==
    ReserveSan(ixgbe_init_rx_addrs_generic([a EXCEPT !.num = NumRar, !.upe = FALSE, !.mpe = FALSE]))

\* Mutant of ixgbe_add_uc_addr: overflow is not counted.
forget_overflow(a, addr, p) ==
    IF a.used < a.num THEN [ixgbe_set_rar_generic(a, a.used, addr, p) EXCEPT !.used = @ + 1] ELSE a

ixgbe_add_uc_addr(a, addr, p) ==
    IF a.used < a.num
    THEN [ixgbe_set_rar_generic(a, a.used, addr, p) EXCEPT !.used = @ + 1]
    ELSE [a EXCEPT !.over = @ + 1]

\* list is a sequence of addresses with their pools.  When the registers do
\* not suffice the port receives everything.
ixgbe_update_uc_addr_list_generic(a, list) ==
    LET old == a.over
        cleared == [a EXCEPT !.rar = [i \in Rars |-> IF i \in 1 .. a.used - 1 THEN NoAddr ELSE @[i]],
                             !.used = 1, !.over = 0]
        added[n \in 0 .. Len(list)] ==
            IF n = 0 THEN cleared ELSE ixgbe_add_uc_addr(added[n - 1], list[n].addr, list[n].pool)
        new == added[Len(list)]
    IN  [new EXCEPT !.upe = IF (new.over > 0) # (old > 0) THEN new.over > 0 ELSE @]

\* The register an address is inserted in: its own, else the first that is
\* free below the high-water mark, else the one at the mark.  That one may
\* be out of range, where nothing is written.
InsertAt(a, addr) ==
    LET below == {i \in Rars : i < a.high}
        same  == {i \in below : a.rar[i] = addr}
        free  == {i \in below : a.rar[i] = NoAddr}
        Least(S) == CHOOSE i \in S : \A j \in S : i <= j
    IN  IF same # {} THEN Least(same) ELSE IF free # {} THEN Least(free) ELSE a.high

ixgbe_insert_mac_addr_generic(a, addr, p) ==
    LET i == InsertAt(a, addr)
        b == IF i < a.high /\ i \in Rars /\ a.rar[i] = addr THEN ixgbe_set_vmdq_generic(a, i, p)
             ELSE [ixgbe_set_rar_generic(a, i, addr, p) EXCEPT !.high = IF i = @ THEN @ + 1 ELSE @]
    IN  IF i = 0 THEN ixgbe_clear_vmdq_generic(b, 0, {0}) ELSE b

-----------------------------------------------------------------------------
(* Hash tables and promiscuous modes *)

\* Twelve bits of the address; mc_filter_type says which.
ixgbe_mta_vector(addr) == Vector[addr]
ixgbe_uta_vector(addr) == Vector[addr]

\* For every address of the list; some share a bit.
ixgbe_set_mta(a, list) == [a EXCEPT !.mtaUse = @ + Cardinality(list),
                                    !.mtaShadow = @ \cup {ixgbe_mta_vector(m) : m \in list}]

\* The table is written whole from its copy.
ixgbe_update_mc_addr_list_generic(a, list, clear) ==
    LET marked == ixgbe_set_mta([a EXCEPT !.mtaUse = 0, !.mtaShadow = IF clear THEN {} ELSE @], list)
    IN  [marked EXCEPT !.mta = marked.mtaShadow, !.mfe = @ \/ marked.mtaUse > 0]

ixgbe_enable_mc_generic(a) == [a EXCEPT !.mfe = @ \/ a.mtaUse > 0]
ixgbe_disable_mc_generic(a) == [a EXCEPT !.mfe = @ /\ a.mtaUse = 0]

\* Nothing is done when the copy says the bit is as wanted already.
ixgbe_uc_hash_table_set(a, addr, on) ==
    LET v == ixgbe_uta_vector(addr)
        Mark(S) == IF on THEN S \cup {v} ELSE S \ {v}
        use == (a.utaUse + (IF on THEN 1 ELSE -1)) % 65536     \* uint16_t
    IN  IF (v \in a.utaShadow) = on THEN a
        ELSE [a EXCEPT !.uta = Mark(@), !.utaShadow = Mark(@), !.utaUse = use, !.mfe = use # 0]

ixgbe_uc_all_hash_table_set(a, on) ==
    [a EXCEPT !.uta = IF on THEN Vectors ELSE {}, !.utaShadow = IF on THEN Vectors ELSE {}]

\* The flags of dev->data are the caller's, set before a disabling call.
ixgbe_dev_promiscuous_enable(a) == [a EXCEPT !.upe = TRUE, !.mpe = TRUE]
ixgbe_dev_promiscuous_disable(a) == [a EXCEPT !.upe = FALSE, !.mpe = a.allmulti]
ixgbe_dev_allmulticast_enable(a) == [a EXCEPT !.mpe = TRUE]
ixgbe_dev_allmulticast_disable(a) == IF a.promisc THEN a ELSE [a EXCEPT !.mpe = FALSE]

=============================================================================
