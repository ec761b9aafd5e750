------------------------------ MODULE IxgbeMbx ------------------------------
(***************************************************************************)
(* The mailbox between a virtual function and the physical function that   *)
(* owns the port: ixgbe/ixgbe_mbx.c and its user ixgbe/ixgbe_vf.c.         *)
(*                                                                         *)
(* The two sides share one buffer per VF.  A side reserves it (VFU, PFU;   *)
(* the hardware refuses a reservation while the other's stands), copies    *)
(* its message in or out and releases it with the write that signals the   *)
(* other: REQ and ACK from the VF, STS and ACK from the PF.                *)
(*                                                                         *)
(* Both sides run the code of ixgbe_mbx.c and interleave at the register   *)
(* accesses the other side can notice.  A buffer of two words stands for   *)
(* the sixteen, so that a copy can be caught half way.  What the PF does   *)
(* with a message is external: its handlers are commented out in           *)
(* ixgbe_pf.c; the loop here polls in their order.                         *)
(***************************************************************************)
EXTENDS Integers, Sequences, FiniteSets

CONSTANTS
    MbxTimeout,     \* IXGBE_VF_MBX_INIT_TIMEOUT: polls before giving up
    InitTimeout,    \* IXGBE_VF_INIT_TIMEOUT: polls for the PF's reset to end
    MaxQueues,      \* IXGBE_VF_MAX_TX_QUEUES, IXGBE_VF_MAX_RX_QUEUES
    MaxCalls,       \* bound: requests the VF makes
    MaxPfResets     \* bound: resets of the PF

ASSUME BoundAssumption ==
    /\ MbxTimeout \in Nat \ {0} /\ InitTimeout \in Nat \ {0}
    /\ MaxQueues \in Nat \ {0} /\ MaxCalls \in Nat /\ MaxPfResets \in Nat

VARIABLES
    owner,      \* who has reserved the buffer: VFU, PFU
    mem,        \* the buffer
    reg,        \* VFMAILBOX status bits: PFSTS, PFACK, RSTD, and RSTI
    icr,        \* MBVFICR of the PF: VFREQ, VFACK
    vflre,      \* VFLRE: the VF was reset
    hw,         \* struct ixgbe_hw of the VF
    vf,         \* the call the VF driver is in
    pf,         \* the PF's message loop
    unseen,     \* history: a reset of the PF the VF has not been told of
    resets,     \* history: resets of the PF
    lastReset   \* history: the VF's last reset request

vars == <<owner, mem, reg, icr, vflre, hw, vf, pf, unseen, resets, lastReset>>

R2C_BITS == {"PFSTS", "PFACK", "RSTD"}
Request(op, id) == [kind |-> "req", op |-> op, id |-> id, st |-> "-", q |-> 0]
Reply(msg, st, q) == [msg EXCEPT !.kind = "rep", !.st = st, !.q = q]
Unsolicited == [kind |-> "rep", op |-> "none", id |-> 0, st |-> "NACK", q |-> 0]
NoMsg == [kind |-> "none", op |-> "none", id |-> 0, st |-> "-", q |-> 0]

\* Requests that wait for the answer; the multicast list does not.
Asks == {"SET_MAC", "SET_VLAN", "SET_MACVLAN", "SET_LPE", "API_NEGOTIATE", "GET_QUEUES"}
Ops == Asks \cup {"RESET", "SET_MULTICAST"}

IdleVf == [pc |-> "idle", op |-> "none", id |-> 0, acked |-> FALSE,
           countdown |-> 0, msg |-> <<NoMsg, NoMsg>>, ret |-> "ok"]

\* Mailbox silent (timeout 0) until ixgbe_reset_hw_vf sets the timeout.
ixgbe_init_mbx_params_vf == [v2p_mailbox |-> {}, timeout |-> 0]

\* ixgbe_init_ops_vf, with the fields of the mac the calls below write.
ixgbe_init_ops_vf(mbx) ==
    [v2p_mailbox |-> mbx.v2p_mailbox, timeout |-> mbx.timeout, api_version |-> 10,
     perm_addr |-> "none", addr |-> "none",
     max_tx_queues |-> 1, max_rx_queues |-> 1, adapter_stopped |-> FALSE]

\* The PF's side starts with no reservation and nothing pending.
ixgbe_init_mbx_params_pf == [pc |-> "rst", msg |-> <<NoMsg, NoMsg>>, agreed |-> 0]

Init ==
    /\ owner = "none" /\ mem = <<NoMsg, NoMsg>>
    /\ reg = {} /\ icr = {} /\ vflre = FALSE
    /\ hw = ixgbe_init_ops_vf(ixgbe_init_mbx_params_vf)
    /\ vf = IdleVf /\ pf = ixgbe_init_mbx_params_pf
    /\ unseen = FALSE /\ resets = 0 /\ lastReset = 0

-----------------------------------------------------------------------------
(* VF: status bits *)

\* Mutant of ixgbe_read_v2p_mailbox: the cleared bits are not kept.
read_v2p_dropped(h) == h

\* What a read of VFMAILBOX returns and leaves in hw->mbx.v2p_mailbox: the
\* bits the read clears in the register are kept.
ixgbe_read_v2p_mailbox(h) == [h EXCEPT !.v2p_mailbox = @ \cup (reg \cap R2C_BITS)]

\* The bits are tested in what was read and in what was kept, and then
\* forgotten.
ixgbe_check_for_bit_vf(h, mask) ==
    LET r == ixgbe_read_v2p_mailbox(h)
    IN  [found |-> (reg \cup h.v2p_mailbox) \cap mask # {},
         hw    |-> [r EXCEPT !.v2p_mailbox = @ \ mask]]

\* The read clears the bits in the register.
ReadClears == reg' = reg \ R2C_BITS

ixgbe_check_for_msg_vf(h) == ixgbe_check_for_bit_vf(h, {"PFSTS"})
ixgbe_check_for_ack_vf(h) == ixgbe_check_for_bit_vf(h, {"PFACK"})
ixgbe_check_for_rst_vf(h) == ixgbe_check_for_bit_vf(h, {"RSTI", "RSTD"})

-----------------------------------------------------------------------------
(* VF: the buffer *)

\* The write of VFU takes effect if the PF has not reserved the buffer; the
\* read that follows tells.
ixgbe_obtain_mbx_lock_vf ==
    /\ owner' = IF owner = "none" THEN "vf" ELSE owner
    /\ ReadClears

\* A call failed before it had an answer, or did not wait for one.
Return(v, r) == [v EXCEPT !.pc = "end", !.ret = r]

read_posted(v) == [v EXCEPT !.pc = "poll_msg", !.countdown = hw.timeout]

\* ixgbe_reset_hw_vf ignores the result of write_posted and reads anyway.
WriteFailed(v) == IF v.op = "RESET" THEN read_posted(v) ELSE Return(v, "ERR_MBX")

\* Mutant of ixgbe_write_mbx_vf: what is pending is not dropped.
write_mbx_vf_unflushed ==
    LET locked == owner = "none"
    IN  /\ vf.pc = "write"
        /\ ixgbe_obtain_mbx_lock_vf
        /\ hw' = ixgbe_read_v2p_mailbox(hw)
        /\ vf' = IF locked THEN [vf EXCEPT !.pc = "put1"] ELSE WriteFailed(vf)
        /\ UNCHANGED <<mem, icr, vflre, pf, unseen, resets, lastReset>>

\* Reserve the buffer and drop what is pending: the message about to be
\* overwritten and the acknowledgement of an older one.
ixgbe_write_mbx_vf ==
    LET locked == owner = "none"
        h0 == ixgbe_read_v2p_mailbox(hw)
        flushed == [h0 EXCEPT !.v2p_mailbox = @ \ {"PFSTS", "PFACK"}]
    IN  /\ vf.pc = "write"
        /\ ixgbe_obtain_mbx_lock_vf
        /\ hw' = IF locked THEN flushed ELSE h0
        /\ vf' = IF locked THEN [vf EXCEPT !.pc = "put1"] ELSE WriteFailed(vf)
        /\ UNCHANGED <<mem, icr, vflre, pf, unseen, resets, lastReset>>

\* The words of the message, then REQ, which also drops VFU.
put_msg_vf ==
    \/ /\ vf.pc = "put1"
       /\ mem' = [mem EXCEPT ![1] = Request(vf.op, vf.id)]
       /\ vf' = [vf EXCEPT !.pc = "put2"]
       /\ UNCHANGED <<owner, reg, icr, vflre, hw, pf, unseen, resets, lastReset>>
    \/ /\ vf.pc = "put2"
       /\ mem' = [mem EXCEPT ![2] = Request(vf.op, vf.id)]
       /\ owner' = "none" /\ icr' = icr \cup {"VFREQ"}
       /\ vf' = [vf EXCEPT !.pc = "poll_ack", !.countdown = hw.timeout]
       /\ UNCHANGED <<reg, vflre, hw, pf, unseen, resets, lastReset>>

\* One turn of the loop of ixgbe_poll_for_ack.
ixgbe_poll_for_ack ==
    LET c == ixgbe_check_for_ack_vf(hw)
    IN  /\ vf.pc = "poll_ack"
        /\ hw' = c.hw /\ ReadClears
        /\ vf' = IF c.found
                   THEN IF vf.op = "SET_MULTICAST" THEN Return(vf, "ok")
                        ELSE read_posted([vf EXCEPT !.acked = TRUE])
                   ELSE IF vf.countdown = 1 THEN WriteFailed(vf)
                        ELSE [vf EXCEPT !.countdown = @ - 1]
        /\ UNCHANGED <<owner, mem, icr, vflre, pf, unseen, resets, lastReset>>

\* One turn of the loop of ixgbe_poll_for_msg, from ixgbe_read_posted_mbx.
ixgbe_poll_for_msg ==
    LET c == ixgbe_check_for_msg_vf(hw)
    IN  /\ vf.pc = "poll_msg"
        /\ hw' = c.hw /\ ReadClears
        /\ vf' = IF c.found THEN [vf EXCEPT !.pc = "read"]
                 ELSE IF vf.countdown = 1 THEN Return(vf, "ERR_MBX")
                 ELSE [vf EXCEPT !.countdown = @ - 1]
        /\ UNCHANGED <<owner, mem, icr, vflre, pf, unseen, resets, lastReset>>

ixgbe_read_mbx_vf ==
    /\ vf.pc = "read"
    /\ ixgbe_obtain_mbx_lock_vf
    /\ hw' = ixgbe_read_v2p_mailbox(hw)
    /\ vf' = IF owner = "none" THEN [vf EXCEPT !.pc = "get1"] ELSE Return(vf, "ERR_MBX")
    /\ UNCHANGED <<mem, icr, vflre, pf, unseen, resets, lastReset>>

\* The words of the message, then ACK, which also drops VFU.
get_msg_vf ==
    \/ /\ vf.pc = "get1"
       /\ vf' = [vf EXCEPT !.pc = "get2", !.msg[1] = mem[1]]
       /\ UNCHANGED <<owner, mem, reg, icr, vflre, hw, pf, unseen, resets, lastReset>>
    \/ /\ vf.pc = "get2"
       /\ vf' = [vf EXCEPT !.pc = "answered", !.msg[2] = mem[2]]
       /\ owner' = "none" /\ icr' = icr \cup {"VFACK"}
       /\ UNCHANGED <<mem, reg, vflre, hw, pf, unseen, resets, lastReset>>

-----------------------------------------------------------------------------
(* VF: the calls of ixgbe_vf.c *)

\* The request is handed to write_posted, which sends nothing while the
\* timeout is 0.
write_posted(op) ==
    vf' = LET v == [IdleVf EXCEPT !.op = op, !.id = vf.id + 1]
          IN  IF hw.timeout = 0 THEN Return(v, "ERR_MBX") ELSE [v EXCEPT !.pc = "write"]

Call == vf.pc = "idle" /\ vf.id < MaxCalls

Post(op) ==
    /\ Call /\ write_posted(op)
    /\ UNCHANGED <<owner, mem, reg, icr, vflre, hw, pf, unseen, resets, lastReset>>

ixgbe_set_rar_vf == Post("SET_MAC")
ixgbe_update_mc_addr_list_vf == Post("SET_MULTICAST")
ixgbe_set_vfta_vf == Post("SET_VLAN")
ixgbevf_set_uc_addr_vf == Post("SET_MACVLAN")
ixgbevf_rlpml_set_vf == Post("SET_LPE")
ixgbevf_negotiate_api_version == Post("API_NEGOTIATE")
ixgbevf_get_queues == hw.api_version = 11 /\ Post("GET_QUEUES")

\* Transmit and receive stopped, the API version forgotten, then the reset of
\* the function, which the PF is told of.
ixgbe_stop_adapter_vf(h) == [h EXCEPT !.adapter_stopped = TRUE]
ixgbe_reset_hw_vf ==
    /\ Call
    /\ hw' = [ixgbe_stop_adapter_vf(hw) EXCEPT !.api_version = 10]
    /\ vflre' = TRUE
    /\ vf' = [IdleVf EXCEPT !.op = "RESET", !.id = vf.id + 1, !.pc = "rst_poll",
                            !.countdown = InitTimeout]
    /\ lastReset' = vf.id + 1
    /\ UNCHANGED <<owner, mem, reg, icr, pf, unseen, resets>>

\* Waits while RSTI or RSTD is seen, then makes the mailbox usable and sends
\* IXGBE_VF_RESET.
reset_wait_vf ==
    LET c == ixgbe_check_for_rst_vf(hw)
    IN  /\ vf.pc = "rst_poll"
        /\ ReadClears /\ unseen' = (unseen /\ ~c.found)
        /\ \/ /\ c.found /\ vf.countdown > 0
              /\ vf' = [vf EXCEPT !.countdown = @ - 1] /\ hw' = c.hw
           \/ /\ ~(c.found /\ vf.countdown > 0)
              /\ IF vf.countdown = 0
                   THEN vf' = Return(vf, "ERR_INVALID_MAC_ADDR") /\ hw' = c.hw
                   ELSE /\ hw' = [c.hw EXCEPT !.timeout = MbxTimeout]
                        /\ vf' = [vf EXCEPT !.pc = "write"]
        /\ UNCHANGED <<owner, mem, icr, vflre, pf, resets, lastReset>>

\* Out-of-range counts from the PF become the driver's maximum.
ClampQueues(n) == IF n = 0 \/ n > MaxQueues THEN MaxQueues ELSE n

ixgbe_get_mac_addr_vf(h) == [h EXCEPT !.addr = h.perm_addr]

\* What the caller does with the answer it read.
OnAnswer(op, a, h) ==
    CASE op = "RESET" /\ a.op = "RESET" /\ a.st = "ACK" -> [h EXCEPT !.perm_addr = "given"]
      [] op = "SET_MAC" /\ a.op = "SET_MAC" /\ a.st = "NACK" -> ixgbe_get_mac_addr_vf(h)
      [] op = "API_NEGOTIATE" /\ a.op = op /\ a.st = "ACK" -> [h EXCEPT !.api_version = 11]
      [] op = "GET_QUEUES" /\ a.op = op /\ a.st = "ACK" ->
            [h EXCEPT !.max_tx_queues = ClampQueues(a.q), !.max_rx_queues = ClampQueues(a.q)]
      [] OTHER -> h

AnswerResult(op, a) ==
    CASE op = "RESET" /\ ~(a.op = "RESET" /\ a.st = "ACK") -> "ERR_INVALID_MAC_ADDR"
      [] op = "SET_MACVLAN" /\ a.op = op /\ a.st = "NACK" -> "ERR_OUT_OF_MEM"
      [] op = "SET_VLAN" /\ a.st = "NACK" -> "NACK"
      [] op = "API_NEGOTIATE" /\ ~(a.op = op /\ a.st = "ACK") -> "ERR_INVALID_ARGUMENT"
      [] op = "GET_QUEUES" /\ ~(a.op = op /\ a.st = "ACK") -> "ERR_MBX"
      [] OTHER -> "ok"

Answered ==
    /\ vf.pc = "answered"
    /\ hw' = OnAnswer(vf.op, vf.msg[1], hw)
    /\ vf' = Return(vf, AnswerResult(vf.op, vf.msg[1]))
    /\ UNCHANGED <<owner, mem, reg, icr, vflre, pf, unseen, resets, lastReset>>

\* The call returns; a reset that succeeded is followed by ixgbe_init_hw_vf.
ixgbe_start_hw_vf(h) == [h EXCEPT !.adapter_stopped = FALSE]
ixgbe_init_hw_vf(h) == ixgbe_get_mac_addr_vf(ixgbe_start_hw_vf(h))
End ==
    /\ vf.pc = "end"
    /\ vf' = [IdleVf EXCEPT !.id = vf.id]
    /\ hw' = IF vf.op = "RESET" /\ vf.ret = "ok" THEN ixgbe_init_hw_vf(hw) ELSE hw
    /\ UNCHANGED <<owner, mem, reg, icr, vflre, pf, unseen, resets, lastReset>>

\* Looks for a reset of the PF before it trusts the link register.
ixgbe_check_mac_link_vf ==
    LET c == ixgbe_check_for_rst_vf(hw)
    IN  /\ vf.pc = "idle"
        /\ hw' = c.hw /\ ReadClears
        /\ unseen' = (unseen /\ ~c.found)
        /\ UNCHANGED <<owner, mem, icr, vflre, vf, pf, resets, lastReset>>

-----------------------------------------------------------------------------
(* PF: ixgbe_mbx.c from the other side *)

\* A status bit of MBVFICR, cleared by writing it back.
ixgbe_check_for_bit_pf(mask) ==
    [found |-> icr \cap mask # {}, icr |-> icr \ mask]

PfGoes(to) == pf' = [pf EXCEPT !.pc = to]

ixgbe_check_for_rst_pf ==
    /\ pf.pc = "rst"
    /\ vflre' = FALSE
    /\ PfGoes("msg")
    /\ UNCHANGED <<owner, mem, reg, icr, hw, vf, unseen, resets, lastReset>>

ixgbe_check_for_msg_pf ==
    LET c == ixgbe_check_for_bit_pf({"VFREQ"})
    IN  /\ pf.pc = "msg"
        /\ icr' = c.icr
        /\ PfGoes(IF c.found THEN "read" ELSE "ack")
        /\ UNCHANGED <<owner, mem, reg, vflre, hw, vf, unseen, resets, lastReset>>

ixgbe_check_for_ack_pf ==
    LET c == ixgbe_check_for_bit_pf({"VFACK"})
    IN  /\ pf.pc = "ack"
        /\ icr' = c.icr
        /\ \/ /\ c.found
              /\ pf' = [pf EXCEPT !.pc = "write", !.msg = <<Unsolicited, Unsolicited>>]
           \/ PfGoes("rst")
        /\ UNCHANGED <<owner, mem, reg, vflre, hw, vf, unseen, resets, lastReset>>

ixgbe_obtain_mbx_lock_pf == owner' = IF owner = "none" THEN "pf" ELSE owner

\* Mutant of ixgbe_read_mbx_pf: reads without the lock.
read_mbx_pf_unlocked ==
    /\ pf.pc = "read"
    /\ ixgbe_obtain_mbx_lock_pf
    /\ PfGoes("get1")
    /\ UNCHANGED <<mem, reg, icr, vflre, hw, vf, unseen, resets, lastReset>>

ixgbe_read_mbx_pf ==
    /\ pf.pc = "read"
    /\ ixgbe_obtain_mbx_lock_pf
    /\ PfGoes(IF owner = "none" THEN "get1" ELSE "ack")
    /\ UNCHANGED <<mem, reg, icr, vflre, hw, vf, unseen, resets, lastReset>>

get_msg_pf ==
    \/ /\ pf.pc = "get1"
       /\ pf' = [pf EXCEPT !.pc = "get2", !.msg[1] = mem[1]]
       /\ UNCHANGED <<owner, mem, reg, icr, vflre, hw, vf, unseen, resets, lastReset>>
    \/ /\ pf.pc = "get2"
       /\ pf' = [pf EXCEPT !.pc = "handle", !.msg[2] = mem[2]]
       /\ owner' = "none" /\ reg' = reg \cup {"PFACK"}
       /\ UNCHANGED <<mem, icr, vflre, hw, vf, unseen, resets, lastReset>>

\* The answer of the PF's handler.
Handle ==
    /\ pf.pc = "handle"
    /\ \E st \in {"ACK", "NACK"},
          q \in IF pf.msg[1].op = "GET_QUEUES" THEN {0, 1, MaxQueues + 1} ELSE {0} :
          LET r == Reply(pf.msg[1], st, q)
          IN  pf' = [pc |-> "write", msg |-> <<r, r>>,
                     agreed |-> IF r.op = "API_NEGOTIATE" /\ st = "ACK"
                                  THEN r.id ELSE pf.agreed]
    /\ UNCHANGED <<owner, mem, reg, icr, vflre, hw, vf, unseen, resets, lastReset>>

write_mbx_pf_unflushed ==
    /\ pf.pc = "write"
    /\ ixgbe_obtain_mbx_lock_pf
    /\ PfGoes(IF owner = "none" THEN "put1" ELSE "ack")
    /\ UNCHANGED <<mem, reg, icr, vflre, hw, vf, unseen, resets, lastReset>>

\* Reserve the buffer and drop what is pending: the request about to be
\* overwritten and the acknowledgement of an older answer.
ixgbe_write_mbx_pf ==
    /\ pf.pc = "write"
    /\ ixgbe_obtain_mbx_lock_pf
    /\ icr' = IF owner = "none" THEN icr \ {"VFREQ", "VFACK"} ELSE icr
    /\ PfGoes(IF owner = "none" THEN "put1" ELSE "ack")
    /\ UNCHANGED <<mem, reg, vflre, hw, vf, unseen, resets, lastReset>>

\* The words of the message, then STS, which also drops PFU.
put_msg_pf ==
    \/ /\ pf.pc = "put1"
       /\ mem' = [mem EXCEPT ![1] = pf.msg[1]]
       /\ PfGoes("put2")
       /\ UNCHANGED <<owner, reg, icr, vflre, hw, vf, unseen, resets, lastReset>>
    \/ /\ pf.pc = "put2"
       /\ mem' = [mem EXCEPT ![2] = pf.msg[2]]
       /\ owner' = "none" /\ reg' = reg \cup {"PFSTS"}
       /\ PfGoes("ack")
       /\ UNCHANGED <<icr, vflre, hw, vf, unseen, resets, lastReset>>

\* The PF is reset: RSTI while it lasts, RSTD when it is done.  The mailbox
\* loop is between two messages.
PfReset ==
    /\ pf.pc = "rst" /\ "RSTI" \notin reg /\ resets < MaxPfResets
    /\ reg' = reg \cup {"RSTI"} /\ resets' = resets + 1
    /\ PfGoes("down")
    /\ unseen' = TRUE
    /\ UNCHANGED <<owner, mem, icr, vflre, hw, vf, lastReset>>
PfResetDone ==
    /\ pf.pc = "down"
    /\ reg' = (reg \ {"RSTI"}) \cup {"RSTD"}
    /\ unseen' = TRUE
    /\ PfGoes("rst")
    /\ UNCHANGED <<owner, mem, icr, vflre, hw, vf, resets, lastReset>>

VfCalls ==
    \/ ixgbe_set_rar_vf \/ ixgbe_update_mc_addr_list_vf \/ ixgbe_set_vfta_vf
    \/ ixgbevf_set_uc_addr_vf \/ ixgbevf_rlpml_set_vf \/ ixgbevf_negotiate_api_version
    \/ ixgbevf_get_queues \/ ixgbe_reset_hw_vf
VfSteps ==
    \/ reset_wait_vf \/ ixgbe_write_mbx_vf \/ put_msg_vf \/ ixgbe_poll_for_ack
    \/ ixgbe_poll_for_msg \/ ixgbe_read_mbx_vf \/ get_msg_vf \/ Answered \/ End
PfSteps ==
    \/ ixgbe_check_for_rst_pf \/ ixgbe_check_for_msg_pf \/ ixgbe_read_mbx_pf \/ get_msg_pf
    \/ Handle \/ ixgbe_write_mbx_pf \/ put_msg_pf \/ ixgbe_check_for_ack_pf

Next == VfCalls \/ VfSteps \/ ixgbe_check_mac_link_vf \/ PfSteps \/ PfReset \/ PfResetDone
Spec == Init /\ [][Next]_vars

-----------------------------------------------------------------------------
VfPcs == {"idle", "rst_poll", "write", "put1", "put2", "poll_ack", "poll_msg",
          "read", "get1", "get2", "answered", "end"}
PfPcs == {"rst", "msg", "ack", "read", "get1", "get2", "handle", "write",
          "put1", "put2", "down"}
Words == [kind : {"none", "req", "rep"}, op : Ops \cup {"none"}, id : 0..MaxCalls,
          st : {"-", "ACK", "NACK"}, q : {0, 1, MaxQueues + 1}]
Results == {"ok", "NACK", "ERR_MBX", "ERR_INVALID_MAC_ADDR", "ERR_OUT_OF_MEM",
            "ERR_INVALID_ARGUMENT"}

HwType == [v2p_mailbox : SUBSET R2C_BITS, timeout : {0, MbxTimeout},
           api_version : {10, 11}, perm_addr : {"none", "given"}, addr : {"none", "given"},
           max_tx_queues : 1..MaxQueues, max_rx_queues : 1..MaxQueues,
           adapter_stopped : BOOLEAN]
VfType == [pc : VfPcs, op : Ops \cup {"none"}, id : 0..MaxCalls, acked : BOOLEAN,
           countdown : 0..(MbxTimeout + InitTimeout), msg : Words \X Words, ret : Results]
PfType == [pc : PfPcs, msg : Words \X Words, agreed : 0..MaxCalls]

TypeOK ==
    /\ owner \in {"none", "vf", "pf"} /\ mem \in Words \X Words
    /\ reg \subseteq R2C_BITS \cup {"RSTI"} /\ icr \subseteq {"VFREQ", "VFACK"}
    /\ vflre \in BOOLEAN /\ unseen \in BOOLEAN
    /\ resets \in 0..MaxPfResets /\ lastReset \in 0..MaxCalls
    /\ hw \in HwType /\ vf \in VfType /\ pf \in PfType

\* The answer a call takes is whole, is an answer, and is the answer to the
\* request the call sent and the PF acknowledged, however late the PF reads
\* and replies and whatever requests the VF gave up before (ixgbe_write_mbx_vf
\* drops what is pending, ixgbe_write_mbx_pf drops what it overwrites).  Only
\* a reset, which ignores the result of write_posted, reads an answer without
\* an acknowledgement, and that may answer an earlier request.
AnswerIsOwn ==
    vf.pc = "answered" =>
        /\ vf.msg[1] = vf.msg[2] /\ vf.msg[1].kind = "rep"
        /\ vf.acked => vf.msg[1].id = vf.id
        /\ ~vf.acked => vf.op = "RESET"

\* The PF acts only on whole requests: ixgbe_read_mbx_pf never returns part of
\* a message, an answer of its own, or what was in the buffer before.
HandledWhole ==
    pf.pc = "handle" => pf.msg[1] = pf.msg[2] /\ pf.msg[1].kind = "req"

\* A reset of the PF is not lost: until the VF's driver asks for it, it is in
\* the register or among the bits that were kept when another check read the
\* register (ixgbe_read_v2p_mailbox).
ResetKept == unseen => (reg \cup hw.v2p_mailbox) \cap {"RSTI", "RSTD"} # {}

\* The VF uses API 1.1 only if the PF agreed to a request for it that the VF
\* made since its own last reset (ixgbe_reset_hw_vf returns to 1.0 before it
\* resets the function, ixgbevf_negotiate_api_version stores only what was
\* acknowledged).
ApiAgreed == hw.api_version = 11 => pf.agreed > lastReset
=============================================================================
