------------------------------ MODULE IxgbeSync ------------------------------
(***************************************************************************)
(* The semaphores between the drivers of the two ports of an 82599 and its *)
(* firmware: ixgbe/ixgbe_common.c, and the functions of IxgbeAccess that   *)
(* use them.                                                               *)
(*                                                                         *)
(* GSSR holds one bit per resource for software and one for the firmware.  *)
(* It is read and written back as a whole, under two more semaphores of    *)
(* the register SWSM: SMBI between the drivers (reading it takes it), then *)
(* SWESMBI between the driver that has SMBI and the firmware.              *)
(*                                                                         *)
(* A driver may stop for good at any step (its process is killed), and so  *)
(* may the firmware.  The waits for SMBI and SWESMBI (100 ms each, for a   *)
(* few register accesses) end early only if the holder has stopped; the    *)
(* wait for a resource may end early whenever it is taken.                 *)
(***************************************************************************)
EXTENDS IxgbeAccess, FiniteSets

CONSTANTS
    Calls0,     \* the calls port 0 makes, names of Paths below
    Calls1,     \* the calls port 1 makes
    MaxStops    \* bound: drivers and firmware that stop

ASSUME SyncAssumption == MaxStops \in Nat

Lans == {"lan0", "lan1"}
Calls == [d \in Lans |-> IF d = "lan0" THEN Calls0 ELSE Calls1]

VARIABLES
    smbi,       \* who has SMBI: a port or "none"
    swesmbi,    \* who has SWESMBI: a port, "fw" or "none"
    gssr,       \* <<"sw", m>> and <<"fw", m>>: the bits that are set
    drv,        \* per port: the call in progress
    fw,         \* the firmware
    own         \* history: what each driver has acquired and not released

vars == <<smbi, swesmbi, gssr, drv, fw, own>>

\* What the firmware uses of what the driver uses.
FwMasks == {"EEP", "PHY0"} \cup (IF Lesm THEN {"MAC_CSR"} ELSE {})
\* What one port's driver and the other's share.
Common == {"EEP", "SW_MNG"}

Paths(call, lan) ==
    CASE call = "read_eeprom"    -> ixgbe_read_eeprom_buffer_82599
      [] call = "write_eeprom"   -> ixgbe_write_eeprom_buffer_bit_bang_generic
                                        \cup ixgbe_write_eewr_generic
      [] call = "checksum"       -> ixgbe_update_eeprom_checksum_generic
                                        \cup ixgbe_validate_eeprom_checksum_generic
      [] call = "phy_reg"        -> ixgbe_read_phy_reg_generic(lan)
                                        \cup ixgbe_write_phy_reg_generic(lan)
      [] call = "i2c"            -> ixgbe_read_i2c_eeprom_generic(lan)
                                        \cup ixgbe_write_i2c_eeprom_generic(lan)
      [] call = "link"           -> UpdateAutoc
      [] call = "sfp"            -> ixgbe_setup_sfp_modules_82599
      [] call = "loopback"       -> ixgbe_setup_loopback_link_82599
      [] call = "fw_drv_ver"     -> ixgbe_set_fw_drv_ver_generic

\* Of the status only success matters to a caller.
Brief(P) == {[ev |-> p.ev, ok |-> p.ret = "ok"] : p \in P}
Script ==
    [d \in Lans |-> [c \in Calls[d] |-> {[p EXCEPT !.ok = TRUE] : p \in Brief(Paths(c, d))}]]
Word == Brief(ixgbe_read_eeprom_82599)

\* todo: what may be left of the call; caller: what is left of the call that
\* reads a word of the EEPROM; op, mask: the semaphore call in progress;
\* gssr: the value it will write.
Idle == [pc |-> "idle", todo |-> {}, caller |-> {},
         op |-> "none", mask |-> "none", gssr |-> {}]

Init ==
    /\ smbi = "none" /\ swesmbi = "none" /\ gssr = {}
    /\ drv = [d \in Lans |-> Idle]
    /\ fw = [pc |-> "idle", mask |-> "none", own |-> {}]
    /\ own = [d \in Lans |-> {}]

Step(d, pc) == drv' = [drv EXCEPT ![d].pc = pc]

\* What d may do next, and what is left once it has done e.
Heads(d) == {Head(p.ev) : p \in {q \in drv[d].todo : q.ev # <<>>}}
After(P, e) ==
    {[p EXCEPT !.ev = Tail(@)] : p \in {q \in P : q.ev # <<>> /\ Head(q.ev) = e}}

\* The semaphore call in progress ended with event e.
Done(d, e) ==
    drv' = [drv EXCEPT ![d] = [Idle EXCEPT !.pc = "run", !.todo = After(drv[d].todo, e),
                                           !.caller = drv[d].caller]]

-----------------------------------------------------------------------------
(* Calls *)

Begin(d, c) ==
    /\ drv[d].pc = "idle"
    /\ drv' = [drv EXCEPT ![d] = [Idle EXCEPT !.pc = "run", !.todo = Script[d][c]]]
    /\ UNCHANGED <<smbi, swesmbi, gssr, fw, own>>

\* An access to a resource.
Access(d) ==
    \E e \in Heads(d) :
        /\ drv[d].pc = "run" /\ e[1] \in {"use", "poke"}
        /\ drv' = [drv EXCEPT ![d].todo = After(@, e)]
        /\ UNCHANGED <<smbi, swesmbi, gssr, fw, own>>

\* acquire_swfw_sync or release_swfw_sync is called.
Sync(d) ==
    \E e \in Heads(d) :
        /\ drv[d].pc = "run" /\ e[1] \in {"acq", "rel"}
        /\ drv' = [drv EXCEPT ![d].pc = "smbi", ![d].op = e[1], ![d].mask = e[2]]
        /\ UNCHANGED <<smbi, swesmbi, gssr, fw, own>>

\* A word of the EEPROM is read.
CallRead(d) ==
    /\ drv[d].pc = "run" /\ drv[d].caller = {}
    /\ \E e \in Heads(d) : e[1] = "word"
    /\ drv' = [drv EXCEPT ![d].todo = Word, ![d].caller = drv[d].todo]
    /\ UNCHANGED <<smbi, swesmbi, gssr, fw, own>>

\* The call returns: to the caller if it was the reading of a word.
Return(d) ==
    \E p \in drv[d].todo :
        /\ drv[d].pc = "run" /\ p.ev = <<>>
        /\ drv' = [drv EXCEPT ![d] =
                IF @.caller = {} THEN Idle
                ELSE [Idle EXCEPT !.pc = "run",
                                  !.todo = After(drv[d].caller, <<"word", IF p.ok THEN "ok" ELSE "err">>)
                                               \cup After(drv[d].caller, <<"word", "any">>)]]
        /\ UNCHANGED <<smbi, swesmbi, gssr, fw, own>>

-----------------------------------------------------------------------------
(* ixgbe_get_eeprom_semaphore *)

Stopped(d) == d \in Lans /\ drv[d].pc = "stopped"

\* Both bits are cleared whoever has them; the firmware's hold is its own.
ixgbe_release_eeprom_semaphore ==
    /\ smbi' = "none"
    /\ swesmbi' = IF swesmbi = "fw" THEN "fw" ELSE "none"

TakeSmbi(d) ==
    /\ drv[d].pc = "smbi" /\ smbi = "none"
    /\ smbi' = d /\ Step(d, "swesmbi")
    /\ UNCHANGED <<swesmbi, gssr, fw, own>>

\* The loop ran out: clear the bits for whoever left them set.
SmbiTimeout(d) ==
    /\ drv[d].pc = "smbi" /\ Stopped(smbi)
    /\ ixgbe_release_eeprom_semaphore
    /\ Step(d, "smbi_last")
    /\ UNCHANGED <<gssr, fw, own>>

\* One last try.
SmbiLastTry(d) ==
    /\ drv[d].pc = "smbi_last"
    /\ smbi' = IF smbi = "none" THEN d ELSE smbi
    /\ Step(d, IF smbi = "none" THEN "swesmbi" ELSE "failed")
    /\ UNCHANGED <<swesmbi, gssr, fw, own>>

TakeSwesmbi(d) ==
    /\ drv[d].pc = "swesmbi" /\ swesmbi = "none"
    /\ swesmbi' = d /\ Step(d, "read")
    /\ UNCHANGED <<smbi, gssr, fw, own>>

SwesmbiTimeout(d) ==
    /\ drv[d].pc = "swesmbi" /\ swesmbi = "fw" /\ fw.pc = "stopped"
    /\ ixgbe_release_eeprom_semaphore
    /\ Step(d, "failed")
    /\ UNCHANGED <<gssr, fw, own>>

ixgbe_get_eeprom_semaphore(d) ==
    \/ TakeSmbi(d) \/ SmbiTimeout(d) \/ SmbiLastTry(d)
    \/ TakeSwesmbi(d) \/ SwesmbiTimeout(d)

-----------------------------------------------------------------------------
(* ixgbe_acquire_swfw_sync, ixgbe_release_swfw_sync *)

\* The bits that keep a driver from taking m.
Taken(m) == gssr \cap {<<"sw", m>>, <<"fw", m>>}

AcquireRead(d) ==
    LET m == drv[d].mask
    IN  /\ drv[d].pc = "read" /\ drv[d].op = "acq"
        /\ IF Taken(m) = {}
           THEN /\ drv' = [drv EXCEPT ![d].pc = "write", ![d].gssr = gssr \cup {<<"sw", m>>}]
                /\ UNCHANGED <<smbi, swesmbi>>
           ELSE ixgbe_release_eeprom_semaphore /\ Step(d, "wait")
        /\ UNCHANGED <<gssr, fw, own>>

\* Taken: look again after 5 ms, or give up.
AcquireAgain(d) ==
    /\ drv[d].pc = "wait" /\ Step(d, "smbi")
    /\ UNCHANGED <<smbi, swesmbi, gssr, fw, own>>

\* Without the semaphore, or out of time.
AcquireFails(d) ==
    /\ drv[d].pc \in {"wait", "failed"} /\ drv[d].op = "acq"
    /\ Done(d, <<"busy", drv[d].mask>>)
    /\ UNCHANGED <<smbi, swesmbi, gssr, fw, own>>

\* Mutant of ReleaseRead: does not try for the semaphore.
release_read_unlocked(d) ==
    /\ drv[d].pc \in {"smbi", "read", "failed"} /\ drv[d].op = "rel"
    /\ drv' = [drv EXCEPT ![d].pc = "write", ![d].gssr = gssr \ {<<"sw", drv[d].mask>>}]
    /\ UNCHANGED <<smbi, swesmbi, gssr, fw, own>>

\* The result of ixgbe_get_eeprom_semaphore is ignored.
ReleaseRead(d) ==
    /\ drv[d].pc \in {"read", "failed"} /\ drv[d].op = "rel"
    /\ drv' = [drv EXCEPT ![d].pc = "write", ![d].gssr = gssr \ {<<"sw", drv[d].mask>>}]
    /\ UNCHANGED <<smbi, swesmbi, gssr, fw, own>>

\* The register is written as it was read, but for the one bit.
WriteGssr(d) ==
    LET m == drv[d].mask
    IN  /\ drv[d].pc = "write"
        /\ gssr' = drv[d].gssr
        /\ own' = [own EXCEPT ![d] = IF drv[d].op = "acq" THEN @ \cup {m} ELSE @ \ {m}]
        /\ Step(d, "drop")
        /\ UNCHANGED <<smbi, swesmbi, fw>>

Drop(d) ==
    /\ drv[d].pc = "drop"
    /\ ixgbe_release_eeprom_semaphore
    /\ Done(d, <<drv[d].op, drv[d].mask>>)
    /\ UNCHANGED <<gssr, fw, own>>

ixgbe_acquire_swfw_sync(d) == AcquireRead(d) \/ AcquireAgain(d) \/ AcquireFails(d)
ixgbe_release_swfw_sync(d) == ReleaseRead(d)

-----------------------------------------------------------------------------
(* The firmware takes SWESMBI, changes one of its bits, and releases it *)

FwTake(m) ==
    /\ fw.pc = "idle" /\ swesmbi = "none"
    /\ swesmbi' = "fw"
    /\ fw' = [fw EXCEPT !.pc = "held", !.mask = m]
    /\ UNCHANGED <<smbi, gssr, drv, own>>

\* It takes a resource software does not have, or gives its own back.
FwDrop ==
    LET m == fw.mask
    IN  /\ fw.pc = "held"
        /\ swesmbi' = "none"
        /\ IF m \in fw.own
           THEN gssr' = gssr \ {<<"fw", m>>} /\ fw' = [pc |-> "idle", mask |-> "none", own |-> fw.own \ {m}]
           ELSE IF <<"sw", m>> \in gssr
           THEN gssr' = gssr /\ fw' = [fw EXCEPT !.pc = "idle", !.mask = "none"]
           ELSE gssr' = gssr \cup {<<"fw", m>>}
                /\ fw' = [pc |-> "idle", mask |-> "none", own |-> fw.own \cup {m}]
        /\ UNCHANGED <<smbi, drv, own>>

Stops == Cardinality({d \in Lans : drv[d].pc = "stopped"})
             + (IF fw.pc = "stopped" THEN 1 ELSE 0)

DriverStops(d) ==
    /\ Stops < MaxStops /\ drv[d].pc \notin {"idle", "stopped"}
    /\ drv' = [drv EXCEPT ![d] = [Idle EXCEPT !.pc = "stopped"]]
    /\ UNCHANGED <<smbi, swesmbi, gssr, fw, own>>

FirmwareStops ==
    /\ Stops < MaxStops /\ fw.pc # "stopped"
    /\ fw' = [fw EXCEPT !.pc = "stopped"]
    /\ UNCHANGED <<smbi, swesmbi, gssr, drv, own>>

-----------------------------------------------------------------------------

Driver(d) ==
    \/ Access(d) \/ Sync(d) \/ CallRead(d) \/ Return(d)
    \/ ixgbe_get_eeprom_semaphore(d)
    \/ ixgbe_acquire_swfw_sync(d) \/ ixgbe_release_swfw_sync(d)
    \/ WriteGssr(d) \/ Drop(d)

Next ==
    \/ \E d \in Lans : \E c \in Calls[d] : Begin(d, c)
    \/ \E d \in Lans : Driver(d) \/ DriverStops(d)
    \/ \E m \in FwMasks : FwTake(m)
    \/ FwDrop \/ FirmwareStops

Spec == Init /\ [][Next]_vars

-----------------------------------------------------------------------------
(* Properties *)

\* Every variable holds a value of its C type.
TypeOK ==
    /\ smbi \in Lans \cup {"none"} /\ swesmbi \in Lans \cup {"fw", "none"}
    /\ \A b \in gssr : b[1] \in {"sw", "fw"}
    /\ \A d \in Lans : own[d] \subseteq {"EEP", "PHY0", "PHY1", "MAC_CSR", "SW_MNG"}

\* ixgbe_acquire_swfw_sync gives a resource to one driver at a time, and not
\* while the firmware has it.
OneOwner ==
    /\ \A d, e \in Lans : d # e => own[d] \cap own[e] = {}
    /\ \A d \in Lans : own[d] \cap fw.own = {}

\* Nobody else touches what a driver is touching: the pins and the buffer the
\* ports share, and what the firmware also uses.
Accessed(d) ==
    IF drv[d].pc = "run" THEN {e[2] : e \in {h \in Heads(d) : h[1] = "use"}} ELSE {}
UsedAlone ==
    \A d \in Lans :
        /\ Accessed(d) \cap fw.own = {}
        /\ \A e \in Lans \ {d} : Accessed(d) \cap Accessed(e) \cap Common = {}

\* While the firmware runs, the software bits of GSSR are exactly what the
\* drivers hold: no update is lost, nothing is released for another.
GssrExact ==
    fw.pc # "stopped" =>
        {b[2] : b \in {x \in gssr : x[1] = "sw"}} = UNION {own[d] : d \in Lans}

\* A call leaves nothing acquired, on any of its error paths.
NothingKept == \A d \in Lans : drv[d].pc = "idle" => own[d] = {}

=============================================================================
