------------------------------- MODULE IxgbeHw -------------------------------
(***************************************************************************)
(* The shared code of the ixgbe driver for one port of an 82599: finding   *)
(* the PHY and the SFP+ module, choosing and setting up the link, stopping,*)
(* resetting and starting the adapter.                                     *)
(*                                                                         *)
(* A function of the driver is an operator from the record h, what struct  *)
(* ixgbe_hw and the registers hold, to the set of its outcomes [h, ret]:   *)
(* what the hardware answers (the link, the PHY, the I2C bus, a semaphore, *)
(* a poll that times out) is an alternative.                               *)
(*                                                                         *)
(* h.dev       device_id: an SFP+ port, a backplane, a T3_LOM copper port  *)
(* h.phy       phy.type; the optical types are one, and so are the direct  *)
(*             attach cables of known and unknown vendors                  *)
(* h.sfp       phy.sfp_type, without the core's number                     *)
(* h.link      mac.ops.setup_link;  h.phyReset  phy.ops.reset # NULL       *)
(* h.media     phy.media_type, as start_hw left it                         *)
(* h.autoc     AUTOC: link mode, technologies and pause bits offered       *)
(* h.orig      mac.orig_autoc, or NoAutoc before it is stored              *)
(* h.core      the module whose sequence was last written to CORECTL, or   *)
(*             "failed" when the last set-up was given up                  *)
(* h.phyAdv    the speeds and h.ana the pause bits in the negotiation      *)
(*             registers of the copper PHY, or (pause) in PCS1GANA         *)
(* h.deal      what the last negotiation of flow control was between       *)
(* h.rxen, h.queues, h.irq   RXCTRL_RXEN, RXDCTL/TXDCTL enable, EIMS       *)
(* h.fresh     the MAC was reset since the caller last looked              *)
(* The rest is named as in the code.  The 82598 and the X540, which have   *)
(* no file in this repository, are left out.                               *)
(***************************************************************************)
EXTENDS Integers, Sequences, FiniteSets

CONSTANTS
    Lesm,       \* the firmware manages the link (FW_LESM_STATE_ENABLED)
    AnySfp      \* IXGBE_DEVICE_CAPS_ALLOW_ANY_SFP or allow_unsupported_sfp

ASSUME HwAssumption == Lesm \in BOOLEAN /\ AnySfp \in BOOLEAN

Devices == {"sfp", "backplane", "t3"}
Speeds == {"10G", "1G", "100M"}

\* The SFP+ modules: the cable, what the 1G and 10G codes say, the vendor.
NoModule == [tech |-> "absent", g1 |-> {}, g10 |-> {}, vendor |-> "none"]
Dac == [tech |-> "passive", g1 |-> {}, g10 |-> {}, vendor |-> "other"]
Sr == [tech |-> "optic", g1 |-> {"SX"}, g10 |-> {"SR"}, vendor |-> "intel"]
LrOther == [tech |-> "optic", g1 |-> {}, g10 |-> {"LR"}, vendor |-> "other"]
OneG == [tech |-> "optic", g1 |-> {"T"}, g10 |-> {}, vendor |-> "other"]

-----------------------------------------------------------------------------
(* Outcomes *)

Ret(h, r) == {[h |-> h, ret |-> r]}
Ok(h) == Ret(h, "ok")

\* Go on whatever the status was; go on only after a success.
Then(P, K(_, _)) == UNION {K(p.h, p.ret) : p \in P}
AndThen(P, K(_)) == UNION {IF p.ret = "ok" THEN K(p.h) ELSE {p} : p \in P}

\* AUTOC is written under a semaphore where the firmware also writes it.
\* verify_lesm_fw_enabled may fail to read the EEPROM and answer no.
LinkLocked == IF Lesm THEN {"ok", "ERR_SWFW_SYNC"} ELSE {"ok"}

Choose(h, rets) == {[h |-> h, ret |-> r] : r \in rets}

-----------------------------------------------------------------------------
(* What the hardware says, and its reset *)

\* AUTOC as the EEPROM loads it.
Modes == [no_an_1G |-> 0, no_an_10G |-> 1, an_1G |-> 2, serial_10G |-> 3,
          kx_kr |-> 4, sgmii |-> 5, kx_kr_1G_an |-> 6, kx_kr_sgmii |-> 7]
NoAutoc == [lms |-> -1, supp |-> {}, pause |-> {}]
EepromAutoc(dev) ==
    CASE dev = "sfp" -> [lms |-> Modes.serial_10G, supp |-> {}, pause |-> {}]
      [] dev = "backplane" ->
            [lms |-> Modes.kx_kr, supp |-> {"KX", "KX4", "KR"}, pause |-> {}]
      [] dev = "t3" -> [lms |-> Modes.no_an_10G, supp |-> {}, pause |-> {}]

KxModes == {Modes.kx_kr, Modes.kx_kr_1G_an, Modes.kx_kr_sgmii}

\* The speeds a link mode can come up at.
Offered(autoc) ==
    CASE autoc.lms \in {Modes.no_an_10G, Modes.serial_10G} -> {"10G"}
      [] autoc.lms \in {Modes.no_an_1G, Modes.an_1G} -> {"1G"}
      [] OTHER -> {s \in {"10G", "1G"} : \E t \in autoc.supp :
                       IF s = "1G" THEN t = "KX" ELSE t # "KX"}

\* *speed and *link_up: what LINKS shows now, waited for or not.
ixgbe_check_mac_link_generic(h) ==
    {[up |-> FALSE, speed |-> "unknown"]} \cup
    {[up |-> TRUE, speed |-> s] :
        s \in IF h.dev = "t3" THEN h.phyAdv ELSE Offered(h.autoc)}

\* The pipeline reset restores AUTOC; the negotiation may not start.
ixgbe_reset_pipeline_82599(h) == Choose(h, {"ok", "ERR_RESET_FAILED"})

-----------------------------------------------------------------------------
(* The PHY and the module *)

ixgbe_get_media_type_82599(h) ==
    IF h.phy \in {"cu_unknown", "tn"} THEN "copper"
    ELSE CASE h.dev = "sfp" -> "fiber"
           [] h.dev = "backplane" -> "backplane"
           [] h.dev = "t3" -> "copper"

\* A PHY answers at an MDIO address or none does.
ixgbe_validate_phy_addr(h) == IF h.dev = "t3" THEN BOOLEAN ELSE {FALSE}

\* The identifier, or nothing when the second read of it fails.
ixgbe_get_phy_type_from_id(h) == {"tn", "unknown"}

ixgbe_identify_phy_generic(h) ==
    IF h.phy # "unknown" THEN Ok(h)
    ELSE UNION {IF ~valid THEN Ret(h, "ERR_PHY_ADDR_INVALID")
                ELSE UNION {IF t # "unknown" THEN Ok([h EXCEPT !.phy = t])
                            ELSE {[h |-> [h EXCEPT !.phy = g], ret |-> "ok"] :
                                      g \in {"cu_unknown", "generic"}} :
                            t \in ixgbe_get_phy_type_from_id(h)} :
                valid \in ixgbe_validate_phy_addr(h)}

OneGig == {"1g_cu", "1g_sx"}

SfpType(m) ==
    CASE m.tech = "passive" -> "da_cu"
      [] m.tech = "active" -> "da_act_lmt"
      [] OTHER -> CASE m.g10 \cap {"SR", "LR"} # {} -> "srlr"
                    [] m.g10 = {} /\ "T" \in m.g1 -> "1g_cu"
                    [] m.g10 = {} /\ "T" \notin m.g1 /\ "SX" \in m.g1 -> "1g_sx"
                    [] OTHER -> "unknown"

MultiSpeed(m) == \/ "SX" \in m.g1 /\ "SR" \in m.g10
                 \/ "LX" \in m.g1 /\ "LR" \in m.g10

\* phy.type, of which the driver only tells cables from optics.
VendorType(m) == IF m.tech \in {"passive", "active"} THEN m.tech ELSE "sfp"

\* Any cable, any 1G module; others are Intel's unless any vendor will do.
Supported(m) ==
    \/ m.tech \in {"passive", "active"}
    \/ SfpType(m) \in OneGig
    \/ m.g10 # {} /\ (AnySfp \/ m.vendor = "intel")

\* The bytes of the module are read over I2C; a read may fail at any point,
\* before or after sfp_type and the flags were set.
ixgbe_identify_sfp_module_generic(h, m) ==
    IF ixgbe_get_media_type_82599(h) # "fiber"
    THEN Ret([h EXCEPT !.sfp = "not_present"], "ERR_SFP_NOT_PRESENT")
    ELSE LET h1 == [h EXCEPT !.sfp = SfpType(m), !.multispeed = MultiSpeed(m),
                             !.setupNeeded = @ \/ SfpType(m) # h.sfp]
             h2 == [h1 EXCEPT !.phy = VendorType(m)]
             lost(g) == Ret([g EXCEPT !.sfp = "not_present", !.phy = "unknown"],
                            "ERR_SFP_NOT_PRESENT")
             refused == Ret([h2 EXCEPT !.phy = "unsupported"], "ERR_SFP_NOT_SUPPORTED")
         IN  IF m = NoModule THEN lost(h)
             ELSE lost(h) \cup lost(h1) \cup
                  (IF Supported(m) THEN Ok(h2) ELSE refused)

ixgbe_identify_module_generic(h, m) ==
    IF ixgbe_get_media_type_82599(h) = "fiber"
    THEN ixgbe_identify_sfp_module_generic(h, m)
    ELSE Ret([h EXCEPT !.sfp = "not_present"], "ERR_SFP_NOT_PRESENT")

\* A port without a recognised PHY or module counts as phy_none, for good:
\* identify_phy_generic succeeds at once when the type is not unknown.
ixgbe_identify_phy_82599(h, m) ==
    Then(ixgbe_identify_phy_generic(h), LAMBDA h1, r1 :
        IF r1 # "ok" /\ ixgbe_get_media_type_82599(h1) = "copper" THEN Ret(h1, r1)
        ELSE Then(IF r1 = "ok" THEN Ok(h1) ELSE ixgbe_identify_module_generic(h1, m),
                  LAMBDA h2, r2 :
                  CASE h2.phy = "unknown" -> Ok([h2 EXCEPT !.phy = "none"])
                    [] h2.phy = "unsupported" -> Ret(h2, "ERR_SFP_NOT_SUPPORTED")
                    [] OTHER -> Ret(h2, r2)))

\* Whether the EEPROM holds a sequence for the module, or can be read.
ixgbe_get_sfp_init_sequence_offsets(h) ==
    CASE h.sfp = "unknown" -> {"ERR_SFP_NOT_SUPPORTED"}
      [] h.sfp = "not_present" -> {"ERR_SFP_NOT_PRESENT"}
      [] OTHER -> {"ok", "ERR_SFP_NO_INIT_SEQ_PRESENT", "ERR_SFP_NOT_SUPPORTED"}

\* The copper PHY is reset, unless it is too hot or nothing is there; the
\* callers ignore the result.
ixgbe_reset_phy_generic(h) ==
    Then(IF h.phy = "unknown" THEN ixgbe_identify_phy_generic(h) ELSE Ok(h),
         LAMBDA h1, r : IF r # "ok" \/ h1.phy = "none" THEN Ret(h1, r)
                        ELSE Choose(h1, {"ok", "ERR_RESET_FAILED"}))

-----------------------------------------------------------------------------
(* The functions that set up the link of this PHY *)

ixgbe_init_mac_link_ops_82599(h) ==
    {[h EXCEPT !.link = l] : l \in
        CASE h.multispeed -> {"multispeed"}
          [] ~h.multispeed /\ ixgbe_get_media_type_82599(h) = "backplane" ->
                IF Lesm THEN {"82599", "smartspeed"} ELSE {"smartspeed"}
          [] OTHER -> {"82599"}}

ixgbe_init_phy_ops_82599(h, m) ==
    Then(ixgbe_identify_phy_82599(h, m), LAMBDA h1, r :
        IF r = "ERR_SFP_NOT_SUPPORTED" THEN Ret(h1, r)
        ELSE {[h |-> [h2 EXCEPT
                       !.phyReset = @ /\ h2.sfp = "unknown",
                       !.link = IF ixgbe_get_media_type_82599(h2) = "copper"
                                THEN "copper" ELSE @],
               ret |-> r] : h2 \in ixgbe_init_mac_link_ops_82599(h1)})

\* AUTOC |= LMS_10G_SERIAL
SerialLms(lms) == IF lms < 4 THEN 3 ELSE 7

ixgbe_setup_sfp_modules_82599(h) ==
    IF h.sfp = "unknown" THEN Ok(h)
    ELSE UNION {LET h1 == [g EXCEPT !.phyReset = FALSE, !.core = "failed"]
                    h2 == [h1 EXCEPT !.core = h.sfp]
                    h3 == [h2 EXCEPT !.autoc.lms = SerialLms(@)]
                IN  Choose(h1, ixgbe_get_sfp_init_sequence_offsets(h1) \ {"ok"})
                    \cup (IF "ok" \notin ixgbe_get_sfp_init_sequence_offsets(h1)
                          THEN {}
                          ELSE Choose(h1, {"ERR_SWFW_SYNC"}) \cup
                               Choose(h2, LinkLocked \ {"ok"}) \cup
                               Choose(h3, {"ok", "ERR_SFP_SETUP_NOT_COMPLETE"})) :
                g \in ixgbe_init_mac_link_ops_82599(h)}

-----------------------------------------------------------------------------
(* The link *)

Caps(r, s, an) == [ret |-> r, speeds |-> s, autoneg |-> an]

ixgbe_get_link_capabilities_82599(h) ==
    LET autoc == IF h.orig # NoAutoc THEN h.orig ELSE h.autoc
        more == IF h.multispeed THEN {"10G", "1G"} ELSE {}
    IN  CASE h.sfp \in OneGig -> Caps("ok", {"1G"}, TRUE)
          [] autoc.lms \in KxModes /\ h.sfp \notin OneGig ->
                Caps("ok", Offered(autoc) \cup more \cup
                           (IF autoc.lms = Modes.kx_kr_sgmii THEN {"100M"} ELSE {}),
                     TRUE)
          [] OTHER -> Caps("ok", Offered(autoc) \cup more,
                           autoc.lms = Modes.an_1G \/ h.multispeed)

\* The abilities of the copper PHY, when MDIO works.
ixgbe_get_copper_link_capabilities_generic(h) ==
    {Caps("ok", Speeds, TRUE), Caps("ERR_PHY", {}, TRUE)}

ixgbe_get_link_capabilities(h) ==
    IF h.link = "copper" THEN ixgbe_get_copper_link_capabilities_generic(h)
    ELSE {ixgbe_get_link_capabilities_82599(h)}

\* AUTOC for the speeds: what the EEPROM allowed, not what was offered last.
LinkMode(h, speed, autoneg) ==
    LET orig == IF h.orig # NoAutoc THEN h.orig ELSE h.autoc
        kx == (IF "10G" \in speed
               THEN (orig.supp \cap {"KX4"}) \cup
                    (IF h.smart THEN {} ELSE orig.supp \cap {"KR"})
               ELSE {}) \cup (IF "1G" \in speed THEN {"KX"} ELSE {})
    IN  CASE h.autoc.lms \in KxModes -> [h.autoc EXCEPT !.supp = kx]
          [] h.autoc.lms \in {Modes.no_an_1G, Modes.an_1G} /\ speed = {"10G"} ->
                [h.autoc EXCEPT !.lms = Modes.serial_10G]
          [] h.autoc.lms = Modes.serial_10G /\ speed = {"1G"} ->
                [h.autoc EXCEPT !.lms = IF autoneg THEN Modes.an_1G ELSE Modes.no_an_1G]
          [] OTHER -> h.autoc

\* Nobody waits for the negotiation, whose result would be the status.
ixgbe_setup_mac_link_82599(h, speed) ==
    UNION {LET s == speed \cap caps.speeds
               new == LinkMode(h, s, caps.autoneg)
           IN  CASE caps.ret # "ok" -> Ret(h, caps.ret)
                 [] caps.ret = "ok" /\ s = {} -> Ret(h, "ERR_LINK_SETUP")
                 [] OTHER -> IF new = h.autoc THEN Ok(h)
                             ELSE Ok([h EXCEPT !.autoc = new]) \cup
                                  Choose(h, LinkLocked \ {"ok"}) :
           caps \in ixgbe_get_link_capabilities(h)}

ixgbe_flap_tx_laser_multispeed_fiber(h) ==
    IF h.autotry THEN [h EXCEPT !.laser = TRUE, !.autotry = FALSE] ELSE h

\* One speed: "out" when the link is up, "next" when it stays down.
TrySpeed(h, s) ==
    {[h |-> h, ret |-> "out"] :
        l \in {l \in ixgbe_check_mac_link_generic(h) : l.up /\ l.speed = s}} \cup
    AndThen(ixgbe_setup_mac_link_82599(h, {s}), LAMBDA h1 :
            Choose(ixgbe_flap_tx_laser_multispeed_fiber(h1), {"out", "next"}))

\* The fastest speed is set up again when no other came up.
ixgbe_setup_mac_link_multispeed_fiber(h, speed) ==
    UNION {LET s == speed \cap caps.speeds
               done(g, r) == Ret([g EXCEPT !.advertised = s \cap {"10G", "1G"}], r)
               next(P, K(_)) == Then(P, LAMBDA g, r :
                                    CASE r = "out" -> done(g, "ok")
                                      [] r = "next" -> K(g)
                                      [] OTHER -> Ret(g, r))
               start(t, g) == IF t \in s THEN TrySpeed(g, t) ELSE Choose(g, {"next"})
               again(g) == IF {"10G", "1G"} \subseteq s
                           THEN Then(TrySpeed(g, "10G"), LAMBDA g1, r :
                                     done(g1, IF r \in {"out", "next"} THEN "ok" ELSE r))
                           ELSE done(g, "ok")
           IN  IF caps.ret # "ok" THEN Ret(h, caps.ret)
               ELSE next(start("10G", h), LAMBDA g : next(start("1G", g), again)) :
           caps \in ixgbe_get_link_capabilities(h)}

\* The tries with all technologies are alike; then one without KR.
ixgbe_setup_mac_link_smartspeed(h, speed) ==
    LET h1 == [h EXCEPT !.advertised = speed, !.smart = FALSE]
        both == "KR" \in h.autoc.supp /\ h.autoc.supp \cap {"KX4", "KX"} # {}
    IN  AndThen(ixgbe_setup_mac_link_82599(h1, speed), LAMBDA g :
            Ok(g) \cup
            (IF ~both THEN {}
             ELSE AndThen(ixgbe_setup_mac_link_82599([g EXCEPT !.smart = TRUE], speed),
                          LAMBDA g1 : Ok(g1) \cup
                          ixgbe_setup_mac_link_82599([g1 EXCEPT !.smart = FALSE], speed))))

\* The PHY's registers follow autoneg_advertised for each speed it has; no
\* failure of MDIO is reported.
ixgbe_setup_phy_link_generic(h) ==
    {IF c.ret = "ok" THEN [h EXCEPT !.phyAdv = h.advertised \cap c.speeds] ELSE h :
        c \in ixgbe_get_copper_link_capabilities_generic(h)}

ixgbe_setup_phy_link_tnx(h) == ixgbe_setup_phy_link_generic(h)

ixgbe_setup_phy_link_speed_generic(h, speed) ==
    LET h1 == [h EXCEPT !.advertised = speed]
    IN  {[h |-> g, ret |-> "ok"] : g \in IF h.phy = "tn"
            THEN ixgbe_setup_phy_link_tnx(h1) ELSE ixgbe_setup_phy_link_generic(h1)}

\* Restarts the negotiation of the MAC, which changes nothing here.
ixgbe_start_mac_link_82599(h) == Choose(h, LinkLocked)

ixgbe_setup_copper_link_82599(h, speed) ==
    Then(ixgbe_setup_phy_link_speed_generic(h, speed), LAMBDA g, r :
         Then(ixgbe_start_mac_link_82599(g), LAMBDA g1, ignored : Ret(g1, r)))

ixgbe_setup_link(h, speed) ==
    CASE h.link = "multispeed" -> ixgbe_setup_mac_link_multispeed_fiber(h, speed)
      [] h.link = "smartspeed" -> ixgbe_setup_mac_link_smartspeed(h, speed)
      [] h.link = "copper" -> ixgbe_setup_copper_link_82599(h, speed)
      [] OTHER -> ixgbe_setup_mac_link_82599(h, speed)

-----------------------------------------------------------------------------
(* Stopping, resetting and starting *)

\* Bus mastering stops in time, only the requests drain, or neither.
ixgbe_disable_pcie_master(h) ==
    Ok(h) \cup Choose([h EXCEPT !.double = TRUE],
                      {"ok", "ERR_MASTER_REQUESTS_PENDING"})

ixgbe_stop_adapter_generic(h) ==
    ixgbe_disable_pcie_master([h EXCEPT !.stopped = TRUE, !.rxen = FALSE,
                                        !.irq = {}, !.queues = FALSE])

\* What the reset of the MAC does to the registers: AUTOC is reloaded from
\* the EEPROM with the link, and kept by the reset used while it is up.
MacReset(h) ==
    LET g == [h EXCEPT !.fresh = TRUE, !.rxen = FALSE, !.queues = FALSE, !.irq = {}, !.laser = TRUE,
                       !.ana = IF h.dev = "t3" THEN @ ELSE {}]
        full == [g EXCEPT !.autoc = EepromAutoc(h.dev)]
        kept == {g : l \in {l \in ixgbe_check_mac_link_generic(h) : l.up}}
    IN  UNION {Choose(x, {"ok", "ERR_RESET_FAILED"}) : x \in {full} \cup kept}

\* The loop at mac_reset_top; status is overwritten only by a failure.
mac_reset(h, status) ==
    LET once(g, s) == {[p EXCEPT !.ret = IF p.ret = "ok" THEN s ELSE p.ret] : p \in MacReset(g)}
    IN  IF h.double
        THEN UNION {once([p.h EXCEPT !.double = FALSE], p.ret) : p \in once(h, status)}
        ELSE once(h, status)

\* Mutant: the settings are stored and never put back.
store_autoc_only(h, status) == Ret([h EXCEPT !.orig = IF @ = NoAutoc THEN h.autoc ELSE @], status)

\* The link settings found after the first reset are stored, later ones are
\* undone, unless the semaphore is busy.  Getting it overwrites the status of
\* a reset that failed.
ixgbe_restore_autoc(h, status) ==
    CASE h.orig = NoAutoc -> Ret([h EXCEPT !.orig = h.autoc], status)
      [] h.orig # NoAutoc /\ h.autoc = h.orig -> Ret(h, status)
      [] OTHER -> Choose([h EXCEPT !.autoc = h.orig], IF Lesm THEN {status, "ok"} ELSE {status})
                  \cup Choose(h, LinkLocked \ {"ok"})

ixgbe_reset_hw_82599(h, m) ==
    AndThen(ixgbe_stop_adapter_generic(h), LAMBDA h1 :
    Then(ixgbe_init_phy_ops_82599(h1, m), LAMBDA h2, r2 :
        IF r2 = "ERR_SFP_NOT_SUPPORTED" THEN Ret(h2, r2)
        ELSE Then(IF h2.setupNeeded
                  THEN {[p EXCEPT !.h.setupNeeded = FALSE] :
                            p \in ixgbe_setup_sfp_modules_82599(h2)}
                  ELSE Ret(h2, r2), LAMBDA h3, r3 :
             IF r3 = "ERR_SFP_NOT_SUPPORTED" THEN Ret(h3, r3)
             ELSE Then(IF h3.phyReset THEN ixgbe_reset_phy_generic(h3) ELSE Ok(h3),
                       LAMBDA h4, ignored :
                       Then(mac_reset(h4, r3),
                            LAMBDA h5, r5 : ixgbe_restore_autoc(h5, r5))))))

ixgbe_pf_reset_hw(h, m) == ixgbe_reset_hw_82599(h, m)

\* The pause bits to advertise for a mode.
PauseBits(mode) == CASE mode = "none" -> {}
                     [] mode = "tx" -> {"asm"}
                     [] OTHER -> {"sym", "asm"}

ixgbe_device_supports_autoneg_fc(h) == h.dev = "t3"

\* The pause bits go to AUTOC on a backplane, to the copper PHY or PCS1GANA.
ixgbe_setup_fc(h) ==
    LET bits == PauseBits(h.requested)
        pcs == [h EXCEPT !.ana = IF h.media = "copper" /\ h.dev = "t3" THEN @ ELSE bits]
    IN  CASE h.media = "backplane" ->
                Ok([pcs EXCEPT !.autoc.pause = bits]) \cup Choose(pcs, LinkLocked \ {"ok"})
          [] h.media = "copper" /\ ixgbe_device_supports_autoneg_fc(h) ->
                Ok([pcs EXCEPT !.ana = bits])
          [] OTHER -> Ok(pcs)

ixgbe_start_hw_generic(h) ==
    AndThen(ixgbe_setup_fc([h EXCEPT !.media = ixgbe_get_media_type_82599(h)]),
            LAMBDA h1 : Ok([h1 EXCEPT !.stopped = FALSE]))

\* The firmware of a fibre port must be recent enough.
ixgbe_verify_fw_version_82599(h) ==
    Choose(h, IF h.media = "fiber" THEN {"ok", "ERR_EEPROM_VERSION"} ELSE {"ok"})

ixgbe_start_hw_82599(h) ==
    AndThen(ixgbe_start_hw_generic(h),
            LAMBDA h1 : ixgbe_verify_fw_version_82599([h1 EXCEPT !.autotry = TRUE]))

ixgbe_init_hw_generic(h, m) ==
    AndThen(ixgbe_reset_hw_82599(h, m), ixgbe_start_hw_82599)

-----------------------------------------------------------------------------
(* Flow control *)

FcModes == {"none", "rx", "tx", "full"}
TxModes == {"tx", "full"}
RxModes == {"rx", "full"}

\* Mutant: any bit of the partner will do.
negotiate_any_bit(requested, adv, lp) ==
    CASE "sym" \in adv /\ "sym" \in lp -> IF requested = "full" THEN "full" ELSE "rx"
      [] adv = {"asm"} /\ lp # {} -> "tx"
      [] adv = {"sym", "asm"} /\ lp = {"asm"} -> "rx"
      [] OTHER -> "none"

\* The mode two ends agree on, from the bits each one advertises.
ixgbe_negotiate_fc(requested, adv, lp) ==
    CASE "sym" \in adv /\ "sym" \in lp -> IF requested = "full" THEN "full" ELSE "rx"
      [] adv = {"asm"} /\ lp = {"sym", "asm"} -> "tx"
      [] adv = {"sym", "asm"} /\ lp = {"asm"} -> "rx"
      [] OTHER -> "none"

\* The bits the partner advertises: any.  The registers may read as zero.
Partner == SUBSET {"sym", "asm"}
NoDeal == [adv |-> {}, lp |-> {}, made |-> FALSE]
Deals(adv) == {[adv |-> adv, lp |-> lp, made |-> TRUE] : lp \in Partner} \cup {NoDeal}

ixgbe_fc_autoneg_fiber(h) == Deals(h.ana)
ixgbe_fc_autoneg_backplane(h) == Deals(h.autoc.pause)
ixgbe_fc_autoneg_copper(h) == Deals(h.ana)

\* Without a negotiation the mode is the one asked for.
ixgbe_fc_autoneg(h) ==
    UNION {LET deals == CASE l.up /\ h.media = "fiber" /\ l.speed = "1G" ->
                                    ixgbe_fc_autoneg_fiber(h)
                          [] l.up /\ h.media = "backplane" -> ixgbe_fc_autoneg_backplane(h)
                          [] l.up /\ h.media = "copper" /\
                             ixgbe_device_supports_autoneg_fc(h) -> ixgbe_fc_autoneg_copper(h)
                          [] OTHER -> {NoDeal}
           IN  {[h EXCEPT !.deal = d,
                          !.current = IF d.made
                                      THEN ixgbe_negotiate_fc(h.requested, d.adv, d.lp)
                                      ELSE h.requested] : d \in deals} :
           l \in ixgbe_check_mac_link_generic(h)}

=============================================================================
