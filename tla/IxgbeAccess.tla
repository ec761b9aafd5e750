----------------------------- MODULE IxgbeAccess -----------------------------
(***************************************************************************)
(* The functions of the ixgbe driver that touch what a port shares with    *)
(* the other port's driver and with the firmware: the pins of the EEPROM,  *)
(* the MDIO and I2C buses of the PHY, the link registers (AUTOC, CORECTL)  *)
(* and the buffer of the management firmware.                              *)
(*                                                                         *)
(* A function denotes the set of its paths.  A path is the sequence of     *)
(* what it does to the shared resources and the status it returns:         *)
(*   <<"acq", m>>, <<"busy", m>>  acquire_swfw_sync succeeds, fails        *)
(*   <<"rel", m>>                 release_swfw_sync                        *)
(*   <<"use", m>>                 an access to what m protects             *)
(*   <<"poke", m>>                an access known not to be protected      *)
(*   <<"word", s>>                a call of eeprom.ops.read returns s      *)
(* Consecutive accesses to one resource are one access.  Whether hardware  *)
(* answers, and what the EEPROM holds, is nondeterministic.                *)
(***************************************************************************)
EXTENDS Integers, Sequences

CONSTANTS
    Lesm,       \* the firmware manages the link (FW_LESM_STATE_ENABLED)
    MaxLoop,    \* bound: rounds of a loop over the EEPROM's contents
    MaxRetry    \* max_retry of ixgbe_read_i2c_byte_generic

ASSUME AccessAssumption ==
    Lesm \in BOOLEAN /\ MaxLoop \in Nat \ {0} /\ MaxRetry \in Nat \ {0}

-----------------------------------------------------------------------------
(* Paths *)

Ret(r) == {[ev |-> <<>>, ret |-> r]}
Ok == Ret("ok")
Do(e) == {[ev |-> <<e>>, ret |-> "ok"]}

Join(s, t) ==
    IF s # <<>> /\ t # <<>> /\ s[Len(s)] = t[1] /\ t[1][1] \in {"use", "poke"}
    THEN s \o Tail(t) ELSE s \o t

\* P, then what its status leads to.
Then(P, K(_)) ==
    UNION {{[ev |-> Join(p.ev, q.ev), ret |-> q.ret] : q \in K(p.ret)} : p \in P}

\* P, then Q whatever P returned; P, then Q if P succeeded.
P ++ Q == Then(P, LAMBDA r : Q)
P && Q == Then(P, LAMBDA r : IF r = "ok" THEN Q ELSE Ret(r))

\* P, then Q, returning what P returned.
Finally(P, Q) == Then(P, LAMBDA r : Q ++ Ret(r))

\* At most MaxLoop rounds; the status is that of the last one.
Rounds(P) ==
    LET n[i \in 0..MaxLoop] == IF i = 0 THEN Ok ELSE Ok \cup (P ++ n[i - 1])
    IN  n[MaxLoop]

\* The same, ended by the first failure.
RoundsWhileOk(P) ==
    LET n[i \in 0..MaxLoop] == IF i = 0 THEN Ok ELSE Ok \cup (P && n[i - 1])
    IN  n[MaxLoop]

Use(m) == Do(<<"use", m>>)
Poke(m) == Do(<<"poke", m>>)
Acquire(m) == Do(<<"acq", m>>) \cup (Do(<<"busy", m>>) ++ Ret("ERR_SWFW_SYNC"))
Release(m) == Do(<<"rel", m>>)

-----------------------------------------------------------------------------
(* The EEPROM, bit by bit *)

ixgbe_raise_eeprom_clk == Use("EEP")
ixgbe_lower_eeprom_clk == Use("EEP")
ixgbe_shift_out_eeprom_bits == Use("EEP") ++ ixgbe_raise_eeprom_clk ++ ixgbe_lower_eeprom_clk
ixgbe_shift_in_eeprom_bits == Use("EEP") ++ ixgbe_raise_eeprom_clk ++ ixgbe_lower_eeprom_clk
ixgbe_standby_eeprom == Use("EEP")

\* Mutant of ixgbe_acquire_eeprom: the semaphore is kept without the grant.
acquire_eeprom_no_release ==
    Acquire("EEP") && (Use("EEP") ++ (Ok \cup Ret("ERR_EEPROM")))

\* The semaphore, then the grant of the pins (EEC_REQ, EEC_GNT); without the
\* grant the semaphore is given back.
ixgbe_acquire_eeprom ==
    Acquire("EEP") && (Use("EEP") ++ (Ok \cup (Release("EEP") ++ Ret("ERR_EEPROM"))))

ixgbe_release_eeprom == Use("EEP") ++ Release("EEP")

\* Wait for the status register to say ready.
ixgbe_ready_eeprom ==
    ixgbe_shift_out_eeprom_bits ++ ixgbe_shift_in_eeprom_bits
        ++ (Ok \cup (ixgbe_standby_eeprom ++ Ret("ERR_EEPROM")))

\* Mutant of WhenReady: the pins are released before the access.
when_ready_released(P) ==
    ixgbe_acquire_eeprom
        && Then(ixgbe_ready_eeprom, LAMBDA r :
                IF r = "ok" THEN ixgbe_release_eeprom ++ P
                ELSE ixgbe_release_eeprom ++ Ret("ERR_EEPROM"))

\* An access: get the pins and wait; nothing is held when either fails.
WhenReady(P) ==
    ixgbe_acquire_eeprom
        && Then(ixgbe_ready_eeprom, LAMBDA r :
                IF r = "ok" THEN P ++ ixgbe_release_eeprom
                ELSE ixgbe_release_eeprom ++ Ret("ERR_EEPROM"))

\* A page of words, or word by word.
ixgbe_write_eeprom_buffer_bit_bang ==
    WhenReady(ixgbe_standby_eeprom ++ ixgbe_shift_out_eeprom_bits ++ ixgbe_standby_eeprom)

ixgbe_read_eeprom_buffer_bit_bang ==
    WhenReady(ixgbe_standby_eeprom ++ ixgbe_shift_out_eeprom_bits
                  ++ ixgbe_shift_in_eeprom_bits)

\* Write a page of markers and see what the first word became.
ixgbe_detect_eeprom_page_size_generic ==
    ixgbe_write_eeprom_buffer_bit_bang && ixgbe_read_eeprom_buffer_bit_bang

\* The checks of the arguments, before anything is touched.
BadArguments == Ret("ERR_INVALID_ARGUMENT") \cup Ret("ERR_EEPROM")

\* By portions; the semaphore is given back between two of them.
ixgbe_write_eeprom_buffer_bit_bang_generic ==
    BadArguments
        \cup ((Ok \cup ixgbe_detect_eeprom_page_size_generic)
                  ++ RoundsWhileOk(ixgbe_write_eeprom_buffer_bit_bang))

ixgbe_read_eeprom_buffer_bit_bang_generic ==
    BadArguments \cup RoundsWhileOk(ixgbe_read_eeprom_buffer_bit_bang)

ixgbe_write_eeprom_generic == Ret("ERR_EEPROM") \cup ixgbe_write_eeprom_buffer_bit_bang
ixgbe_read_eeprom_bit_bang_generic == Ret("ERR_EEPROM") \cup ixgbe_read_eeprom_buffer_bit_bang

-----------------------------------------------------------------------------
(* The EEPROM through EERD and EEWR, which the hardware arbitrates *)

ixgbe_poll_eerd_eewr_done == Ok \cup Ret("ERR_EEPROM")
ixgbe_read_eerd_buffer_generic == BadArguments \cup RoundsWhileOk(ixgbe_poll_eerd_eewr_done)
ixgbe_read_eerd_generic == ixgbe_read_eerd_buffer_generic
ixgbe_write_eewr_buffer_generic ==
    BadArguments
        \cup RoundsWhileOk(ixgbe_poll_eerd_eewr_done && ixgbe_poll_eerd_eewr_done)
ixgbe_write_eewr_generic == ixgbe_write_eewr_buffer_generic

\* EERD reaches only the first words, and only an SPI EEPROM.
ixgbe_read_eeprom_82599 == ixgbe_read_eerd_generic \cup ixgbe_read_eeprom_bit_bang_generic
ixgbe_read_eeprom_buffer_82599 ==
    ixgbe_read_eerd_buffer_generic \cup ixgbe_read_eeprom_buffer_bit_bang_generic

\* A call of hw->eeprom.ops.read, ixgbe_read_eeprom_82599: its own paths are
\* taken when the call is made.
ReadWord == Do(<<"word", "ok">>) \cup (Do(<<"word", "err">>) ++ Ret("ERR_EEPROM"))

\* The same where the status is ignored.
ReadWordAnyhow == Do(<<"word", "any">>)

\* The words up to the first that cannot be read, then every section.
ixgbe_calc_eeprom_checksum_generic ==
    RoundsWhileOk(ReadWord) ++ Rounds(ReadWordAnyhow) ++ Ok

ixgbe_validate_eeprom_checksum_generic ==
    ReadWord
        && (ixgbe_calc_eeprom_checksum_generic ++ ReadWordAnyhow
                ++ (Ok \cup Ret("ERR_EEPROM_CHECKSUM")))

ixgbe_update_eeprom_checksum_generic ==
    ReadWord
        && (ixgbe_calc_eeprom_checksum_generic ++ ixgbe_write_eeprom_generic)

-----------------------------------------------------------------------------
(* The PHY: MDIO.  Each port has its own semaphore. *)

PhySm(lan) == IF lan = "lan1" THEN "PHY1" ELSE "PHY0"

\* Two commands; the second only if the first completes.
MdioCommands(m) == (Use(m) ++ (Ok \cup Ret("ERR_PHY"))) && (Use(m) ++ (Ok \cup Ret("ERR_PHY")))

ixgbe_read_phy_reg_generic(lan) ==
    Acquire(PhySm(lan)) && Finally(MdioCommands(PhySm(lan)), Release(PhySm(lan)))

ixgbe_write_phy_reg_generic(lan) ==
    Acquire(PhySm(lan)) && Finally(MdioCommands(PhySm(lan)), Release(PhySm(lan)))

-----------------------------------------------------------------------------
(* The PHY: I2C, bit by bit; A is the access, protected or not *)

ixgbe_set_i2c_data(A) == A ++ (Ok \cup Ret("ERR_I2C"))
ixgbe_get_i2c_data(A) == A
ixgbe_raise_i2c_clk(A) == A
ixgbe_lower_i2c_clk(A) == A
ixgbe_i2c_start(A) == ixgbe_set_i2c_data(A) ++ ixgbe_raise_i2c_clk(A) ++ ixgbe_lower_i2c_clk(A)
ixgbe_i2c_stop(A) == ixgbe_set_i2c_data(A) ++ ixgbe_raise_i2c_clk(A)
ixgbe_clock_in_i2c_bit(A) == ixgbe_raise_i2c_clk(A) ++ ixgbe_get_i2c_data(A) ++ ixgbe_lower_i2c_clk(A)
ixgbe_clock_in_i2c_byte(A) == ixgbe_clock_in_i2c_bit(A)
ixgbe_clock_out_i2c_bit(A) ==
    ixgbe_set_i2c_data(A) && (ixgbe_raise_i2c_clk(A) ++ ixgbe_lower_i2c_clk(A))
\* SDA is released whatever became of the bits.
ixgbe_clock_out_i2c_byte(A) == Finally(ixgbe_clock_out_i2c_bit(A), A)
ixgbe_get_i2c_ack(A) ==
    ixgbe_raise_i2c_clk(A)
        ++ Finally(ixgbe_get_i2c_data(A) ++ (Ok \cup Ret("ERR_I2C")), ixgbe_lower_i2c_clk(A))

ixgbe_i2c_bus_clear(A) ==
    ixgbe_i2c_start(A) ++ ixgbe_set_i2c_data(A) ++ ixgbe_raise_i2c_clk(A)
        ++ ixgbe_lower_i2c_clk(A) ++ ixgbe_i2c_start(A) ++ ixgbe_i2c_stop(A)

SendByte(A) == ixgbe_clock_out_i2c_byte(A) && ixgbe_get_i2c_ack(A)

\* One attempt is made with the semaphore.  A failure gives it back before
\* the bus is cleared, without it; after the last retry it is given back once
\* more.
ixgbe_read_i2c_byte_generic(lan) ==
    LET m == PhySm(lan)
        A == Use(m)
        Attempt == ixgbe_i2c_start(A)
                       ++ (SendByte(A) && SendByte(A) && (ixgbe_i2c_start(A) ++ SendByte(A))
                               && ixgbe_clock_in_i2c_byte(A) && ixgbe_clock_out_i2c_bit(A)
                               && (ixgbe_i2c_stop(A) ++ Ok))
        try[n \in 0..MaxRetry] ==
            IF n = 0 THEN Release(m) ++ Ret("ERR_I2C")
            ELSE Acquire(m) && Then(Attempt, LAMBDA r :
                     IF r = "ok" THEN Release(m)
                     ELSE Release(m) ++ ixgbe_i2c_bus_clear(Poke(m)) ++ try[n - 1])
    IN  try[MaxRetry]

\* Here the attempt and the clearing are made under one acquisition.
ixgbe_write_i2c_byte_generic(lan) ==
    LET m == PhySm(lan)
        A == Use(m)
        Attempt == ixgbe_i2c_start(A)
                       ++ (SendByte(A) && SendByte(A) && SendByte(A) && (ixgbe_i2c_stop(A) ++ Ok))
        Cleared == Then(Attempt, LAMBDA r : IF r = "ok" THEN Ok
                                            ELSE ixgbe_i2c_bus_clear(A) ++ Ret(r))
    IN  Acquire(m) && Finally(Cleared, Release(m))

ixgbe_read_i2c_eeprom_generic(lan) == ixgbe_read_i2c_byte_generic(lan)
ixgbe_write_i2c_eeprom_generic(lan) == ixgbe_write_i2c_byte_generic(lan)

-----------------------------------------------------------------------------
(* The link registers *)

\* "lesm" and "none" are what the EEPROM says; "unread" is false without
\* knowing: a word could not be read.
ixgbe_verify_lesm_fw_enabled_82599 ==
    LET Says == Ret(IF Lesm THEN "lesm" ELSE "none")
        Absent == IF Lesm THEN {} ELSE Ret("none")
        Words == ReadWord && (Absent \cup (ReadWord && (Absent \cup (ReadWord && Says))))
    IN  Then(Words, LAMBDA r : Ret(IF r \in {"lesm", "none"} THEN r ELSE "unread"))

\* The link restarts and AUTOC is restored, whether or not it came up.
ixgbe_reset_pipeline_82599(Access) == Access ++ (Ok \cup Ret("ERR_RESET_FAILED"))

\* How every writer of AUTOC does it (ixgbe_setup_fc, ixgbe_start_mac_link,
\* ixgbe_setup_mac_link, ixgbe_reset_hw, the LEDs): with the semaphore if the
\* firmware manages the link.
UpdateAutoc ==
    Then(ixgbe_verify_lesm_fw_enabled_82599, LAMBDA r :
         CASE r = "lesm"   -> Acquire("MAC_CSR")
                                  && Finally(ixgbe_reset_pipeline_82599(Use("MAC_CSR")),
                                             Release("MAC_CSR"))
           [] r = "none"   -> ixgbe_reset_pipeline_82599(Use("MAC_CSR"))
           [] r = "unread" -> ixgbe_reset_pipeline_82599(Poke("MAC_CSR")))

\* Where the init sequence of the module starts: a list in the EEPROM is
\* searched for its type.  Only the search itself notices that a word could
\* not be read.
ixgbe_get_sfp_init_sequence_offsets ==
    LET Found == ReadWordAnyhow ++ (Ok \cup Ret("ERR_SFP_NOT_SUPPORTED"))
        Search == Then(RoundsWhileOk(ReadWord), LAMBDA r :
                       IF r = "ok" THEN Found \cup Ret("ERR_SFP_NOT_SUPPORTED") ELSE Ret("ERR_PHY"))
    IN  Ret("ERR_SFP_NOT_SUPPORTED") \cup Ret("ERR_SFP_NOT_PRESENT")
            \cup (ReadWordAnyhow ++ (Ret("ERR_SFP_NO_INIT_SEQ_PRESENT") \cup (ReadWordAnyhow ++ Search)))

\* The module's values are read from the EEPROM while the link registers are
\* held: two semaphores, one inside the other.
ixgbe_setup_sfp_modules_82599 ==
    LET Core == ReadWordAnyhow ++ Rounds(Use("MAC_CSR") ++ ReadWordAnyhow)
        Link == Then(UpdateAutoc, LAMBDA r :
                     IF r = "ERR_RESET_FAILED" THEN Ret("ERR_SFP_SETUP_NOT_COMPLETE") ELSE Ret(r))
    IN  Ok \cup (ixgbe_get_sfp_init_sequence_offsets
                     && Acquire("MAC_CSR") && (Core ++ Release("MAC_CSR") ++ Link))

\* The semaphore is taken if the firmware manages the link, and given back
\* always.
ixgbe_setup_loopback_link_82599 ==
    Then(ixgbe_verify_lesm_fw_enabled_82599, LAMBDA r :
         (IF r = "lesm" THEN Acquire("MAC_CSR") ELSE Ok)
             && (ixgbe_reset_pipeline_82599(IF r = "unread" THEN Poke("MAC_CSR") ELSE Use("MAC_CSR"))
                     ++ Release("MAC_CSR")))

-----------------------------------------------------------------------------
(* The management firmware *)

ixgbe_host_interface_command ==
    Ret("ERR_HOST_INTERFACE_COMMAND")
        \cup (Use("SW_MNG") ++ (Ok \cup Ret("ERR_HOST_INTERFACE_COMMAND")))

\* Retried until it is answered; the answer may be a refusal.
ixgbe_set_fw_drv_ver_generic ==
    LET tries[n \in 0..MaxLoop] ==
            Then(ixgbe_host_interface_command, LAMBDA r :
                 IF r = "ok" THEN Ok \cup Ret("ERR_HOST_INTERFACE_COMMAND")
                 ELSE IF n = 0 THEN Ret(r) ELSE tries[n - 1])
    IN  Acquire("SW_MNG") && Finally(tries[MaxLoop], Release("SW_MNG"))

=============================================================================
