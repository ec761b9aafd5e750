--------------------------- MODULE IxgbeMbxProofs ---------------------------
(***************************************************************************)
(* Proofs about the mailbox of IxgbeMbx, for every timeout and every number *)
(* of calls and resets.                                                    *)
(*                                                                         *)
(* A reset of the PF is not lost (ResetKept): this invariant is inductive  *)
(* as it stands.  The PF acts only on whole requests (HandledWhole) and a  *)
(* call takes only the answer to its own request (AnswerIsOwn): both need  *)
(* MbxInv below, which says what a reservation, a pending VFREQ, a pending *)
(* PFSTS and a pending PFACK each tell about the buffer and the other side.*)
(***************************************************************************)
EXTENDS IxgbeMbx, TLAPS

\* A reservation stands exactly while its side copies.
LockHeld ==
    /\ owner = "vf" <=> vf.pc \in {"put1", "put2", "get1", "get2"}
    /\ owner = "pf" <=> pf.pc \in {"get1", "get2", "put1", "put2"}

\* The status bits the VF has not dealt with: in the register or kept.
Pending == reg \cup hw.v2p_mailbox

Whole(kind, msg) == msg[1] = msg[2] /\ msg[1].kind = kind

\* While a request is pending at the PF or being read, the buffer holds
\* requests, half of a new one while the VF copies it in.
RequestStands ==
    "VFREQ" \in icr \/ pf.pc \in {"read", "get1", "get2"} =>
        /\ mem[1].kind = "req" /\ mem[2].kind = "req"
        /\ mem[1] = mem[2] \/ vf.pc = "put2"

\* While an answer is pending at the VF or being read, the buffer holds
\* answers, half of a new one while the PF copies it in.
AnswerStands ==
    "PFSTS" \in Pending \/ vf.pc \in {"read", "get1", "get2"} =>
        /\ mem[1].kind = "rep" /\ mem[2].kind = "rep"
        /\ mem[1] = mem[2] \/ pf.pc = "put2"

\* What each side knows of the message it is copying.
CopiesAgree ==
    /\ vf.pc \in {"put1", "put2"} => {"PFSTS", "PFACK"} \cap Pending = {}
    /\ vf.pc = "put2" => mem[1] = Request(vf.op, vf.id)
    /\ vf.pc = "get2" => vf.msg[1] = mem[1]
    /\ vf.pc = "answered" => Whole("rep", vf.msg)
    /\ pf.pc \in {"put1", "put2"} => icr = {}
    /\ pf.pc = "put2" => mem[1] = pf.msg[1]
    /\ pf.pc = "get2" => pf.msg[1] = mem[1]
    /\ pf.pc = "handle" => Whole("req", pf.msg)
    /\ pf.pc \in {"write", "put1", "put2"} => Whole("rep", pf.msg)

\* Until the PF has acknowledged it, a request that is pending or being read
\* is the one the call sent, and no answer is pending.
Unacknowledged ==
    /\ vf.pc = "poll_ack" /\ "PFACK" \notin Pending
    /\ "VFREQ" \in icr \/ pf.pc \in {"read", "get1", "get2"}
    =>  /\ mem[1].id = vf.id /\ mem[2].id = vf.id
        /\ "PFSTS" \notin Pending

\* The call's request was read by the PF: the acknowledgement is pending, or
\* was seen and the answer is awaited or being read.
Acknowledged ==
    \/ vf.pc = "poll_ack" /\ "PFACK" \in Pending
    \/ vf.pc \in {"poll_msg", "read", "get1", "get2"} /\ vf.acked

\* From then on the PF is on its way to the answer, or the answer is in the
\* buffer and nothing makes the PF write again.
AnswerComes ==
    Acknowledged =>
        \/ /\ pf.pc \in {"handle", "write", "put1", "put2"}
           /\ vf.pc \in {"poll_ack", "poll_msg"}
           /\ pf.msg[1].id = vf.id /\ "PFSTS" \notin Pending
        \/ /\ pf.pc \in {"ack", "rst", "msg", "down"} /\ icr = {}
           /\ mem[1].id = vf.id /\ mem[2].id = vf.id

\* Only a reset goes on without an acknowledgement.
AckedOrReset ==
    vf.pc \in {"poll_msg", "read", "get1", "get2", "answered"} =>
        vf.acked \/ vf.op = "RESET"

AnswerOwn == vf.pc = "answered" /\ vf.acked => vf.msg[1].id = vf.id

\* A call that writes or polls runs with a timeout: the countdown stops at 1.
Armed ==
    /\ vf.pc \in {"write", "put1", "put2", "poll_ack", "poll_msg"} => hw.timeout = MbxTimeout
    /\ vf.pc \in {"poll_ack", "poll_msg"} => vf.countdown > 0
    /\ vf.pc \in {"rst_poll", "write", "put1", "put2", "poll_ack"} => ~vf.acked

MbxInv ==
    /\ TypeOK /\ Armed /\ LockHeld /\ RequestStands /\ AnswerStands /\ CopiesAgree
    /\ Unacknowledged /\ AnswerComes /\ AckedOrReset /\ AnswerOwn
-----------------------------------------------------------------------------
(* Types *)

\* The messages the two sides make are words of the buffer.
LEMMA WordTypes ==
    /\ \A op \in Ops, id \in 0..MaxCalls :
          /\ Request(op, id) \in Words
          /\ Request(op, id).kind = "req" /\ Request(op, id).id = id
    /\ Unsolicited \in Words /\ Unsolicited.kind = "rep" /\ NoMsg \in Words
  BY BoundAssumption DEF Words, Request, Unsolicited, NoMsg, Ops, Asks

\* An answer keeps the operation and the number of its request.
LEMMA ReplyTypes ==
    ASSUME NEW w \in Words, NEW st \in {"ACK", "NACK"}, NEW q \in {0, 1, MaxQueues + 1}
    PROVE  /\ Reply(w, st, q) \in Words /\ Reply(w, st, q).kind = "rep"
           /\ Reply(w, st, q).id = w.id /\ Reply(w, st, q).op = w.op
<1> DEFINE w1 == [w EXCEPT !.kind = "rep"]
           w2 == [w1 EXCEPT !.st = st]
           w3 == [w2 EXCEPT !.q = q]
<1>1. w1 \in Words /\ w1.kind = "rep" /\ w1.id = w.id /\ w1.op = w.op
  BY DEF Words
<1>2. w2 \in Words /\ w2.kind = w1.kind /\ w2.id = w1.id /\ w2.op = w1.op
  <2> HIDE DEF w1
  <2> QED BY <1>1 DEF Words
<1>3. w3 \in Words /\ w3.kind = w2.kind /\ w3.id = w2.id /\ w3.op = w2.op
  <2> HIDE DEF w2
  <2> QED BY <1>2 DEF Words
<1>4. Reply(w, st, q) = w3
  BY Zenon DEF Reply
<1> QED BY <1>1, <1>2, <1>3, <1>4

\* The two sides before any call.
LEMMA IdleTypes ==
    /\ IdleVf \in VfType /\ IdleVf.pc = "idle" /\ IdleVf.acked = FALSE
    /\ ixgbe_init_mbx_params_pf \in PfType /\ ixgbe_init_mbx_params_pf.pc = "rst"
<1>1. <<NoMsg, NoMsg>> \in Words \X Words
  BY WordTypes
<1> QED
  BY <1>1, BoundAssumption DEF IdleVf, VfType, VfPcs, Results, PfType, PfPcs, ixgbe_init_mbx_params_pf

\* The updates of a call: what each changes, and that it keeps the rest.
SameCall(n, v) == n.op = v.op /\ n.id = v.id /\ n.acked = v.acked

\* The VF's call goes on at another place.
LEMMA PcStep ==
    ASSUME NEW v \in VfType, NEW p \in VfPcs
    PROVE  LET n == [v EXCEPT !.pc = p] IN
           /\ n \in VfType /\ n.pc = p /\ SameCall(n, v)
           /\ n.msg = v.msg /\ n.countdown = v.countdown /\ n.ret = v.ret
  BY DEF VfType, SameCall

\* The VF's call counts down.
LEMMA CountdownStep ==
    ASSUME NEW v \in VfType, NEW c \in 0..(MbxTimeout + InitTimeout)
    PROVE  LET n == [v EXCEPT !.countdown = c] IN
           n \in VfType /\ n.pc = v.pc /\ SameCall(n, v) /\ n.msg = v.msg /\ n.countdown = c
  BY DEF VfType, SameCall

\* The VF's call notes its result.
LEMMA RetStep ==
    ASSUME NEW v \in VfType, NEW r \in Results
    PROVE  LET n == [v EXCEPT !.ret = r] IN
           n \in VfType /\ n.pc = v.pc /\ SameCall(n, v) /\ n.msg = v.msg /\ n.ret = r
  BY DEF VfType, SameCall

\* The VF's call ends with a result.
LEMMA ReturnFields ==
    ASSUME NEW v \in VfType, NEW r \in Results
    PROVE  LET n == Return(v, r) IN
           n \in VfType /\ n.pc = "end" /\ n.ret = r /\ SameCall(n, v) /\ n.msg = v.msg
<1> DEFINE v1 == [v EXCEPT !.pc = "end"]
           v2 == [v1 EXCEPT !.ret = r]
<1>1. "end" \in VfPcs
  BY DEF VfPcs
<1>2. v1 \in VfType /\ v1.pc = "end" /\ SameCall(v1, v) /\ v1.msg = v.msg
  BY <1>1, PcStep
<1>3. v2 \in VfType /\ v2.pc = "end" /\ v2.ret = r /\ SameCall(v2, v) /\ v2.msg = v.msg
  <2> HIDE DEF v1
  <2> QED BY <1>2, RetStep DEF SameCall
<1>4. Return(v, r) = v2
  BY Zenon DEF Return
<1> QED BY <1>3, <1>4

GoPoll(v, p, c) == [v EXCEPT !.pc = p, !.countdown = c]
Take1(v, p, w) == [v EXCEPT !.pc = p, !.msg[1] = w]
Take2(v, p, w) == [v EXCEPT !.pc = p, !.msg[2] = w]

\* The VF's call starts to poll.
LEMMA PollFields ==
    ASSUME NEW v \in VfType, NEW p \in VfPcs, NEW c \in 0..(MbxTimeout + InitTimeout)
    PROVE  LET n == GoPoll(v, p, c) IN
           n \in VfType /\ n.pc = p /\ n.countdown = c /\ SameCall(n, v) /\ n.msg = v.msg
<1> DEFINE v1 == [v EXCEPT !.pc = p]
           v2 == [v1 EXCEPT !.countdown = c]
<1>1. v1 \in VfType /\ v1.pc = p /\ SameCall(v1, v) /\ v1.msg = v.msg
  BY PcStep
<1>2. v2 \in VfType /\ v2.pc = p /\ v2.countdown = c /\ SameCall(v2, v) /\ v2.msg = v.msg
  <2> HIDE DEF v1
  <2> QED BY <1>1, CountdownStep DEF SameCall
<1>3. GoPoll(v, p, c) = v2
  BY Zenon DEF GoPoll
<1> QED BY <1>2, <1>3

\* The VF's call has copied the first word in.
LEMMA Take1Fields ==
    ASSUME NEW v \in VfType, NEW p \in VfPcs, NEW w \in Words
    PROVE  LET n == Take1(v, p, w) IN
           n \in VfType /\ n.pc = p /\ SameCall(n, v) /\ n.msg[1] = w
<1> DEFINE v1 == [v EXCEPT !.pc = p]
           m1 == [v1.msg EXCEPT ![1] = w]
           n1 == [v1 EXCEPT !.msg = m1]
<1>1. v1 \in VfType /\ v1.pc = p /\ SameCall(v1, v) /\ v1.msg = v.msg
  BY PcStep
<1>2. v1.msg \in Words \X Words
  BY <1>1 DEF VfType
<1> HIDE DEF v1
<1>3. m1 \in Words \X Words /\ m1[1] = w
  BY <1>2
<1> HIDE DEF m1
<1>4. n1 \in VfType /\ n1.pc = v1.pc /\ SameCall(n1, v1) /\ n1.msg = m1
  BY <1>1, <1>3 DEF VfType, SameCall
<1>5. Take1(v, p, w) = n1
  BY Zenon DEF n1, m1, v1, Take1
<1> HIDE DEF n1
<1> QED BY <1>1, <1>3, <1>4, <1>5 DEF SameCall

\* The VF's call has copied the second word in.
LEMMA Take2Fields ==
    ASSUME NEW v \in VfType, NEW p \in VfPcs, NEW w \in Words
    PROVE  LET n == Take2(v, p, w) IN
           n \in VfType /\ n.pc = p /\ SameCall(n, v) /\ n.msg[1] = v.msg[1] /\ n.msg[2] = w
<1> DEFINE v1 == [v EXCEPT !.pc = p]
           m2 == [v1.msg EXCEPT ![2] = w]
           n2 == [v1 EXCEPT !.msg = m2]
<1>1. v1 \in VfType /\ v1.pc = p /\ SameCall(v1, v) /\ v1.msg = v.msg
  BY PcStep
<1>2. v1.msg \in Words \X Words
  BY <1>1 DEF VfType
<1> HIDE DEF v1
<1>3. m2 \in Words \X Words /\ m2[2] = w /\ m2[1] = v1.msg[1]
  BY <1>2
<1> HIDE DEF m2
<1>4. n2 \in VfType /\ n2.pc = v1.pc /\ SameCall(n2, v1) /\ n2.msg = m2
  BY <1>1, <1>3 DEF VfType, SameCall
<1>5. Take2(v, p, w) = n2
  BY Zenon DEF n2, m2, v1, Take2
<1> HIDE DEF n2
<1> QED BY <1>1, <1>3, <1>4, <1>5 DEF SameCall

\* A check of the register: the bits it reads and has not asked for are kept.
LEMMA CheckFields ==
    ASSUME TypeOK, NEW mask \in SUBSET (R2C_BITS \cup {"RSTI"})
    PROVE  LET c == ixgbe_check_for_bit_vf(hw, mask) IN
           /\ c.found = (Pending \cap mask # {})
           /\ c.hw \in HwType
           /\ c.hw.v2p_mailbox = (hw.v2p_mailbox \cup (reg \cap R2C_BITS)) \ mask
           /\ c.hw.timeout = hw.timeout
<1> DEFINE h0 == ixgbe_read_v2p_mailbox(hw)
           h1 == [h0 EXCEPT !.v2p_mailbox = h0.v2p_mailbox \ mask]
<1>1. /\ h0 \in HwType /\ h0.timeout = hw.timeout
      /\ h0.v2p_mailbox = hw.v2p_mailbox \cup (reg \cap R2C_BITS)
  BY DEF TypeOK, HwType, ixgbe_read_v2p_mailbox
<1>2. h1 \in HwType /\ h1.timeout = h0.timeout /\ h1.v2p_mailbox = h0.v2p_mailbox \ mask
  <2> HIDE DEF h0
  <2> QED BY <1>1 DEF HwType
<1>3. /\ ixgbe_check_for_bit_vf(hw, mask).hw = h1
      /\ ixgbe_check_for_bit_vf(hw, mask).found = ((reg \cup hw.v2p_mailbox) \cap mask # {})
  BY DEF ixgbe_check_for_bit_vf
<1> HIDE DEF h0, h1
<1> QED BY <1>1, <1>2, <1>3 DEF Pending

-----------------------------------------------------------------------------
(* Steps of the VF *)

\* A call of the VF starts.
LEMMA PostStep ==
    ASSUME MbxInv, NEW op \in Ops, Post(op)
    PROVE  MbxInv'
<1> DEFINE v1 == [IdleVf EXCEPT !.op = op]
           v2 == [v1 EXCEPT !.id = vf.id + 1]
           v3 == IF hw.timeout = 0 THEN Return(v2, "ERR_MBX") ELSE [v2 EXCEPT !.pc = "write"]
<1>1. v1 \in VfType /\ v1.pc = "idle" /\ v1.acked = FALSE /\ v1.op = op
  BY IdleTypes DEF VfType
<1>2. v2 \in VfType /\ v2.acked = FALSE
  <2>1. vf.id + 1 \in 0..MaxCalls
    BY BoundAssumption DEF Post, Call, MbxInv, TypeOK, VfType
  <2> HIDE DEF v1
  <2> QED BY <1>1, <2>1 DEF VfType
<1>3. v3 \in VfType /\ v3.acked = FALSE /\ v3.pc \in {"end", "write"}
      /\ (v3.pc = "write" => hw.timeout # 0)
  <2> HIDE DEF v2
  <2>1. "ERR_MBX" \in Results /\ "write" \in VfPcs
    BY DEF Results, VfPcs
  <2> QED BY <1>2, <2>1, ReturnFields, PcStep DEF SameCall
<1>4. vf' = v3
  BY Zenon DEF Post, write_posted
<1> HIDE DEF v3
<1>5. vf.pc = "idle" /\ UNCHANGED <<owner, mem, reg, icr, vflre, hw, pf, unseen, resets, lastReset>>
  BY DEF Post, Call
<1> QED
  BY <1>3, <1>4, <1>5 DEF MbxInv, TypeOK, Armed, LockHeld, RequestStands, AnswerStands, CopiesAgree,
    Unacknowledged, Acknowledged, AnswerComes, AckedOrReset, AnswerOwn, Pending, Whole, HwType

\* ixgbe_reset_hw_vf sets the VF up again.
LEMMA ResetStep ==
    ASSUME MbxInv, ixgbe_reset_hw_vf
    PROVE  MbxInv'
<1> DEFINE v1 == [IdleVf EXCEPT !.op = "RESET"]
           v2 == [v1 EXCEPT !.id = vf.id + 1]
           v3 == [v2 EXCEPT !.pc = "rst_poll"]
           v4 == [v3 EXCEPT !.countdown = InitTimeout]
           h1 == [hw EXCEPT !.adapter_stopped = TRUE]
           h2 == [h1 EXCEPT !.api_version = 10]
<1>0. vf.id + 1 \in 0..MaxCalls
  BY BoundAssumption DEF ixgbe_reset_hw_vf, Call, MbxInv, TypeOK, VfType
<1>1. v1 \in VfType /\ v1.acked = FALSE
  BY IdleTypes DEF VfType, Ops
<1>2. v2 \in VfType /\ v2.acked = FALSE
  <2> HIDE DEF v1
  <2> QED BY <1>0, <1>1 DEF VfType
<1>3. v3 \in VfType /\ v3.acked = FALSE /\ v3.pc = "rst_poll"
  <2> HIDE DEF v2
  <2> QED BY <1>2 DEF VfType, VfPcs
<1>4. v4 \in VfType /\ v4.acked = FALSE /\ v4.pc = "rst_poll"
  <2> HIDE DEF v3
  <2> QED BY <1>3, BoundAssumption DEF VfType
<1>5. h1 \in HwType /\ h1.v2p_mailbox = hw.v2p_mailbox
  BY DEF MbxInv, TypeOK, HwType
<1>6. h2 \in HwType /\ h2.v2p_mailbox = hw.v2p_mailbox
  <2> HIDE DEF h1
  <2> QED BY <1>5 DEF HwType
<1>7. vf' = v4
  BY Zenon DEF ixgbe_reset_hw_vf
<1>8. hw' = h2
  BY Zenon DEF ixgbe_reset_hw_vf, ixgbe_stop_adapter_vf
<1>9. /\ vf.pc = "idle" /\ vflre' = TRUE /\ lastReset' = vf.id + 1
      /\ UNCHANGED <<owner, mem, reg, icr, pf, unseen, resets>>
  BY DEF ixgbe_reset_hw_vf, Call
<1> HIDE DEF v4, h2
<1> QED
  BY <1>0, <1>4, <1>6, <1>7, <1>8, <1>9 DEF MbxInv, TypeOK, Armed, LockHeld, RequestStands, AnswerStands, CopiesAgree,
    Unacknowledged, Acknowledged, AnswerComes, AckedOrReset, AnswerOwn, Pending, Whole, R2C_BITS

\* The VF waits for the PF's reset to be over.
LEMMA ResetWaitStep ==
    ASSUME MbxInv, reset_wait_vf
    PROVE  MbxInv'
<1> DEFINE c == ixgbe_check_for_rst_vf(hw)
           h2 == [c.hw EXCEPT !.timeout = MbxTimeout]
<1>1. /\ c.hw \in HwType /\ c.hw.timeout = hw.timeout
      /\ c.hw.v2p_mailbox = (hw.v2p_mailbox \cup (reg \cap R2C_BITS)) \ {"RSTI", "RSTD"}
  BY CheckFields DEF MbxInv, R2C_BITS, ixgbe_check_for_rst_vf
<1>2. /\ vf.pc = "rst_poll" /\ reg' = reg \ R2C_BITS /\ unseen' \in BOOLEAN
      /\ UNCHANGED <<owner, mem, icr, vflre, pf, resets, lastReset>>
  BY DEF reset_wait_vf, ReadClears
<1>3. /\ hw' \in HwType /\ hw'.v2p_mailbox = c.hw.v2p_mailbox
      /\ vf' \in VfType /\ SameCall(vf', vf) /\ vf'.pc \in {"rst_poll", "end", "write"}
      /\ vf'.pc = "write" => hw'.timeout = MbxTimeout
  <2> HIDE DEF c
  <2>0. vf \in VfType /\ vf.countdown \in Nat
    BY DEF MbxInv, TypeOK, VfType
  <2>1. CASE vf' = [vf EXCEPT !.countdown = @ - 1] /\ hw' = c.hw /\ vf.countdown > 0
    <3>1. vf.countdown - 1 \in 0..(MbxTimeout + InitTimeout)
      BY <2>0, <2>1, BoundAssumption DEF VfType
    <3> QED BY <1>1, <1>2, <2>0, <2>1, <3>1, CountdownStep
  <2>2. CASE vf' = Return(vf, "ERR_INVALID_MAC_ADDR") /\ hw' = c.hw
    <3>1. "ERR_INVALID_MAC_ADDR" \in Results
      BY DEF Results
    <3> QED BY <1>1, <2>0, <2>2, <3>1, ReturnFields
  <2>3. CASE hw' = h2 /\ vf' = [vf EXCEPT !.pc = "write"]
    <3>1. "write" \in VfPcs
      BY DEF VfPcs
    <3>2. h2 \in HwType /\ h2.v2p_mailbox = c.hw.v2p_mailbox /\ h2.timeout = MbxTimeout
      BY <1>1 DEF HwType
    <3> HIDE DEF h2
    <3> QED BY <1>1, <2>0, <2>3, <3>1, <3>2, PcStep
  <2> QED BY <2>1, <2>2, <2>3 DEF reset_wait_vf, c
<1> HIDE DEF c
<1> QED
  BY <1>1, <1>2, <1>3 DEF MbxInv, TypeOK, Armed, LockHeld, RequestStands, AnswerStands, CopiesAgree,
    Unacknowledged, Acknowledged, AnswerComes, AckedOrReset, AnswerOwn, Pending, Whole, R2C_BITS, SameCall

\* The write that follows a failed write_posted: a reset polls for the answer
\* all the same, every other call returns.
LEMMA WriteFailedFields ==
    ASSUME TypeOK
    PROVE  LET n == WriteFailed(vf) IN
           /\ n \in VfType /\ SameCall(n, vf)
           /\ \/ n.pc = "end"
              \/ n.pc = "poll_msg" /\ vf.op = "RESET" /\ n.countdown = hw.timeout
<1>1. "ERR_MBX" \in Results /\ "poll_msg" \in VfPcs /\ vf \in VfType
      /\ hw.timeout \in 0..(MbxTimeout + InitTimeout)
  BY BoundAssumption DEF TypeOK, HwType, Results, VfPcs
<1>2. CASE vf.op = "RESET"
  <2>1. WriteFailed(vf) = GoPoll(vf, "poll_msg", hw.timeout)
    BY <1>2, Zenon DEF WriteFailed, read_posted, GoPoll
  <2> QED BY <1>1, <1>2, <2>1, PollFields
<1>3. CASE vf.op # "RESET"
  BY <1>1, <1>3, ReturnFields DEF WriteFailed
<1> QED BY <1>2, <1>3

\* The VF reserves the buffer for its request.
LEMMA WriteVfStep ==
    ASSUME MbxInv, ixgbe_write_mbx_vf
    PROVE  MbxInv'
<1> DEFINE h0 == ixgbe_read_v2p_mailbox(hw)
           h1 == [h0 EXCEPT !.v2p_mailbox = h0.v2p_mailbox \ {"PFSTS", "PFACK"}]
<1>1. /\ h0 \in HwType /\ h0.timeout = hw.timeout
      /\ h0.v2p_mailbox = hw.v2p_mailbox \cup (reg \cap R2C_BITS)
  BY DEF MbxInv, TypeOK, HwType, ixgbe_read_v2p_mailbox
<1> HIDE DEF h0
<1>2. /\ h1 \in HwType /\ h1.timeout = hw.timeout
      /\ h1.v2p_mailbox = h0.v2p_mailbox \ {"PFSTS", "PFACK"}
  BY <1>1 DEF HwType
<1>3. /\ vf.pc = "write" /\ reg' = reg \ R2C_BITS
      /\ UNCHANGED <<mem, icr, vflre, pf, unseen, resets, lastReset>>
  BY DEF ixgbe_write_mbx_vf, ixgbe_obtain_mbx_lock_vf, ReadClears
<1>4. CASE owner = "none"
  <2>1. owner' = "vf" /\ hw' = h1 /\ vf' = [vf EXCEPT !.pc = "put1"]
    BY <1>4 DEF ixgbe_write_mbx_vf, ixgbe_obtain_mbx_lock_vf, h0
  <2>2. vf' \in VfType /\ vf'.pc = "put1" /\ SameCall(vf', vf)
    <3>1. "put1" \in VfPcs /\ vf \in VfType
      BY DEF VfPcs, MbxInv, TypeOK
    <3> QED BY <2>1, <3>1, PcStep
  <2> HIDE DEF h1
  <2> QED
    BY <1>1, <1>2, <1>3, <1>4, <2>1, <2>2 DEF MbxInv, TypeOK, Armed, LockHeld, RequestStands, AnswerStands, CopiesAgree,
    Unacknowledged, Acknowledged, AnswerComes, AckedOrReset, AnswerOwn, Pending, Whole, R2C_BITS, SameCall
<1>5. CASE owner # "none"
  <2>1. owner' = owner /\ hw' = h0 /\ vf' = WriteFailed(vf)
    BY <1>5 DEF ixgbe_write_mbx_vf, ixgbe_obtain_mbx_lock_vf, h0
  <2>2. /\ vf' \in VfType /\ SameCall(vf', vf)
        /\ \/ vf'.pc = "end"
           \/ vf'.pc = "poll_msg" /\ vf.op = "RESET" /\ vf'.countdown = hw.timeout
    BY <2>1, WriteFailedFields DEF MbxInv
  <2>3. vf.acked = FALSE
    BY <1>3 DEF MbxInv, TypeOK, Armed, LockHeld, RequestStands, AnswerStands, CopiesAgree,
    Unacknowledged, Acknowledged, AnswerComes, AckedOrReset, AnswerOwn, Pending, Whole, R2C_BITS
  <2> QED
    BY <1>1, <1>3, <1>5, <2>1, <2>2, <2>3, BoundAssumption DEF MbxInv, TypeOK, Armed, LockHeld, RequestStands, AnswerStands, CopiesAgree,
    Unacknowledged, Acknowledged, AnswerComes, AckedOrReset, AnswerOwn, Pending, Whole, R2C_BITS, SameCall
<1> QED BY <1>4, <1>5

\* The VF copies its request in and sets VFREQ.
LEMMA PutVfStep ==
    ASSUME MbxInv, put_msg_vf
    PROVE  MbxInv'
<1> DEFINE r == Request(vf.op, vf.id)
<1>0. vf \in VfType /\ "put2" \in VfPcs /\ "poll_ack" \in VfPcs
      /\ hw.timeout \in 0..(MbxTimeout + InitTimeout) /\ mem \in Words \X Words
  BY BoundAssumption DEF VfPcs, MbxInv, TypeOK, HwType
<1>1. r \in Words /\ r.kind = "req" /\ r.id = vf.id
  BY <1>0, BoundAssumption DEF Request, Words, VfType
<1> HIDE DEF r
<1>2. CASE vf.pc = "put1"
  <2>1. /\ mem' = [mem EXCEPT ![1] = r] /\ vf' = [vf EXCEPT !.pc = "put2"]
        /\ UNCHANGED <<owner, reg, icr, vflre, hw, pf, unseen, resets, lastReset>>
    BY <1>2 DEF put_msg_vf, r
  <2>2. mem' \in Words \X Words /\ mem'[1] = r /\ mem'[2] = mem[2]
    BY <1>0, <1>1, <2>1
  <2>3. vf' \in VfType /\ vf'.pc = "put2" /\ SameCall(vf', vf)
    BY <1>0, <2>1, PcStep
  <2>4. mem'[1] = Request(vf'.op, vf'.id)
    BY <2>2, <2>3 DEF SameCall, r
  <2> QED
    BY <1>1, <1>2, <2>1, <2>2, <2>3, <2>4 DEF MbxInv, TypeOK, Armed, LockHeld, RequestStands, AnswerStands, CopiesAgree,
    Unacknowledged, Acknowledged, AnswerComes, AckedOrReset, AnswerOwn, Pending, Whole, R2C_BITS, SameCall
<1>3. CASE vf.pc = "put2"
  <2>1. /\ mem' = [mem EXCEPT ![2] = r] /\ owner' = "none" /\ icr' = icr \cup {"VFREQ"}
        /\ UNCHANGED <<reg, vflre, hw, pf, unseen, resets, lastReset>>
    BY <1>3 DEF put_msg_vf, r
  <2>2. mem' \in Words \X Words /\ mem'[2] = r /\ mem'[1] = mem[1]
    BY <1>0, <1>1, <2>1
  <2>3. vf' = GoPoll(vf, "poll_ack", hw.timeout)
    BY <1>3, Zenon DEF put_msg_vf, GoPoll
  <2>4. vf' \in VfType /\ vf'.pc = "poll_ack" /\ SameCall(vf', vf) /\ vf'.countdown = hw.timeout
    BY <1>0, <2>3, PollFields
  <2>5. mem[1] = r
    BY <1>3 DEF MbxInv, CopiesAgree, r
  <2> QED
    BY <1>1, <1>3, <2>1, <2>2, <2>4, <2>5, BoundAssumption DEF MbxInv, TypeOK, Armed, LockHeld, RequestStands, AnswerStands, CopiesAgree,
    Unacknowledged, Acknowledged, AnswerComes, AckedOrReset, AnswerOwn, Pending, Whole, R2C_BITS, SameCall
<1> QED BY <1>2, <1>3 DEF put_msg_vf

\* The VF polls for the acknowledgement of its request.
LEMMA PollAckStep ==
    ASSUME MbxInv, ixgbe_poll_for_ack
    PROVE  MbxInv'
<1> DEFINE c == ixgbe_check_for_ack_vf(hw)
           va == [vf EXCEPT !.acked = TRUE]
<1>1. /\ c.hw \in HwType /\ c.hw.timeout = hw.timeout
      /\ c.hw.v2p_mailbox = (hw.v2p_mailbox \cup (reg \cap R2C_BITS)) \ {"PFACK"}
      /\ c.found = ("PFACK" \in Pending)
  BY CheckFields DEF MbxInv, R2C_BITS, ixgbe_check_for_ack_vf
<1>2. /\ vf.pc = "poll_ack" /\ reg' = reg \ R2C_BITS /\ hw' = c.hw
      /\ UNCHANGED <<owner, mem, icr, vflre, pf, unseen, resets, lastReset>>
  BY DEF ixgbe_poll_for_ack, ReadClears
<1>3. vf \in VfType /\ "poll_msg" \in VfPcs /\ hw.timeout \in 0..(MbxTimeout + InitTimeout)
      /\ "ok" \in Results /\ vf.countdown \in Nat \ {0}
  BY <1>2, BoundAssumption DEF VfPcs, VfType, Results, MbxInv, TypeOK, HwType, Armed
<1>4. CASE "PFACK" \in Pending /\ vf.op = "SET_MULTICAST"
  <2>1. vf' = Return(vf, "ok")
    BY <1>1, <1>4, Zenon DEF ixgbe_poll_for_ack
  <2>2. vf' \in VfType /\ vf'.pc = "end" /\ SameCall(vf', vf)
    BY <1>3, <2>1, ReturnFields
  <2> HIDE DEF c
  <2> QED
    BY <1>1, <1>2, <1>4, <2>2 DEF MbxInv, TypeOK, Armed, LockHeld, RequestStands, AnswerStands, CopiesAgree,
    Unacknowledged, Acknowledged, AnswerComes, AckedOrReset, AnswerOwn, Pending, Whole, R2C_BITS, SameCall
<1>5. CASE "PFACK" \in Pending /\ vf.op # "SET_MULTICAST"
  <2>1. vf' = GoPoll(va, "poll_msg", hw.timeout)
    BY <1>1, <1>5, Zenon DEF ixgbe_poll_for_ack, read_posted, GoPoll
  <2>2. va \in VfType /\ va.acked = TRUE /\ va.op = vf.op /\ va.id = vf.id
    BY <1>3 DEF VfType
  <2> HIDE DEF va
  <2>3. /\ vf' \in VfType /\ vf'.pc = "poll_msg" /\ vf'.countdown = hw.timeout
        /\ vf'.op = vf.op /\ vf'.id = vf.id /\ vf'.acked = TRUE
    BY <1>3, <2>1, <2>2, PollFields DEF SameCall
  <2> HIDE DEF c
  <2> QED
    BY <1>1, <1>2, <1>5, <2>3, BoundAssumption DEF MbxInv, TypeOK, Armed, LockHeld, RequestStands, AnswerStands, CopiesAgree,
    Unacknowledged, Acknowledged, AnswerComes, AckedOrReset, AnswerOwn, Pending, Whole, R2C_BITS
<1>6. CASE "PFACK" \notin Pending /\ vf.countdown = 1
  <2>1. vf' = WriteFailed(vf)
    BY <1>1, <1>6, Zenon DEF ixgbe_poll_for_ack
  <2>2. /\ vf' \in VfType /\ SameCall(vf', vf)
        /\ \/ vf'.pc = "end"
           \/ vf'.pc = "poll_msg" /\ vf.op = "RESET" /\ vf'.countdown = hw.timeout
    BY <2>1, WriteFailedFields DEF MbxInv
  <2> HIDE DEF c
  <2> QED
    BY <1>1, <1>2, <1>6, <2>2, BoundAssumption DEF MbxInv, TypeOK, Armed, LockHeld, RequestStands, AnswerStands, CopiesAgree,
    Unacknowledged, Acknowledged, AnswerComes, AckedOrReset, AnswerOwn, Pending, Whole, R2C_BITS, SameCall
<1>7. CASE "PFACK" \notin Pending /\ vf.countdown # 1
  <2>1. vf' = [vf EXCEPT !.countdown = vf.countdown - 1]
    BY <1>1, <1>7, Zenon DEF ixgbe_poll_for_ack
  <2>2. vf.countdown - 1 \in 0..(MbxTimeout + InitTimeout) /\ vf.countdown - 1 > 0
    BY <1>3, <1>7, BoundAssumption DEF VfType
  <2>3. /\ vf' \in VfType /\ vf'.pc = "poll_ack" /\ SameCall(vf', vf)
        /\ vf'.countdown = vf.countdown - 1
    BY <1>2, <1>3, <2>1, <2>2, CountdownStep
  <2> HIDE DEF c
  <2> QED
    BY <1>1, <1>2, <1>7, <2>2, <2>3, BoundAssumption DEF MbxInv, TypeOK, Armed, LockHeld, RequestStands, AnswerStands, CopiesAgree,
    Unacknowledged, Acknowledged, AnswerComes, AckedOrReset, AnswerOwn, Pending, Whole, R2C_BITS, SameCall
<1> QED BY <1>4, <1>5, <1>6, <1>7

\* The VF polls for the answer.
LEMMA PollMsgStep ==
    ASSUME MbxInv, ixgbe_poll_for_msg
    PROVE  MbxInv'
<1> DEFINE c == ixgbe_check_for_msg_vf(hw)
<1>1. /\ c.hw \in HwType /\ c.hw.timeout = hw.timeout
      /\ c.hw.v2p_mailbox = (hw.v2p_mailbox \cup (reg \cap R2C_BITS)) \ {"PFSTS"}
      /\ c.found = ("PFSTS" \in Pending)
  BY CheckFields DEF MbxInv, R2C_BITS, ixgbe_check_for_msg_vf
<1>2. /\ vf.pc = "poll_msg" /\ reg' = reg \ R2C_BITS /\ hw' = c.hw
      /\ UNCHANGED <<owner, mem, icr, vflre, pf, unseen, resets, lastReset>>
  BY DEF ixgbe_poll_for_msg, ReadClears
<1>3. vf \in VfType /\ "read" \in VfPcs /\ "ERR_MBX" \in Results /\ vf.countdown \in Nat \ {0}
  BY <1>2, BoundAssumption DEF VfPcs, VfType, Results, MbxInv, TypeOK, Armed
<1>4. CASE "PFSTS" \in Pending
  <2>1. vf' = [vf EXCEPT !.pc = "read"]
    BY <1>1, <1>4, Zenon DEF ixgbe_poll_for_msg
  <2>2. vf' \in VfType /\ vf'.pc = "read" /\ SameCall(vf', vf)
    BY <1>3, <2>1, PcStep
  <2> HIDE DEF c
  <2> QED
    BY <1>1, <1>2, <1>4, <2>2 DEF MbxInv, TypeOK, Armed, LockHeld, RequestStands, AnswerStands, CopiesAgree,
    Unacknowledged, Acknowledged, AnswerComes, AckedOrReset, AnswerOwn, Pending, Whole, R2C_BITS, SameCall
<1>5. CASE "PFSTS" \notin Pending /\ vf.countdown = 1
  <2>1. vf' = Return(vf, "ERR_MBX")
    BY <1>1, <1>5, Zenon DEF ixgbe_poll_for_msg
  <2>2. vf' \in VfType /\ vf'.pc = "end" /\ SameCall(vf', vf)
    BY <1>3, <2>1, ReturnFields
  <2> HIDE DEF c
  <2> QED
    BY <1>1, <1>2, <1>5, <2>2 DEF MbxInv, TypeOK, Armed, LockHeld, RequestStands, AnswerStands, CopiesAgree,
    Unacknowledged, Acknowledged, AnswerComes, AckedOrReset, AnswerOwn, Pending, Whole, R2C_BITS, SameCall
<1>6. CASE "PFSTS" \notin Pending /\ vf.countdown # 1
  <2>1. vf' = [vf EXCEPT !.countdown = vf.countdown - 1]
    BY <1>1, <1>6, Zenon DEF ixgbe_poll_for_msg
  <2>2. vf.countdown - 1 \in 0..(MbxTimeout + InitTimeout) /\ vf.countdown - 1 > 0
    BY <1>3, <1>6, BoundAssumption DEF VfType
  <2>3. /\ vf' \in VfType /\ vf'.pc = "poll_msg" /\ SameCall(vf', vf)
        /\ vf'.countdown = vf.countdown - 1
    BY <1>2, <1>3, <2>1, <2>2, CountdownStep
  <2> HIDE DEF c
  <2> QED
    BY <1>1, <1>2, <1>6, <2>2, <2>3, BoundAssumption DEF MbxInv, TypeOK, Armed, LockHeld, RequestStands, AnswerStands, CopiesAgree,
    Unacknowledged, Acknowledged, AnswerComes, AckedOrReset, AnswerOwn, Pending, Whole, R2C_BITS, SameCall
<1> QED BY <1>4, <1>5, <1>6

\* The VF reserves the buffer for the answer.
LEMMA ReadVfStep ==
    ASSUME MbxInv, ixgbe_read_mbx_vf
    PROVE  MbxInv'
<1>1. /\ hw' \in HwType /\ hw'.timeout = hw.timeout
      /\ hw'.v2p_mailbox = hw.v2p_mailbox \cup (reg \cap R2C_BITS)
  BY DEF MbxInv, TypeOK, HwType, ixgbe_read_v2p_mailbox, ixgbe_read_mbx_vf
<1>2. /\ vf.pc = "read" /\ reg' = reg \ R2C_BITS
      /\ UNCHANGED <<mem, icr, vflre, pf, unseen, resets, lastReset>>
  BY DEF ixgbe_read_mbx_vf, ixgbe_obtain_mbx_lock_vf, ReadClears
<1>3. "get1" \in VfPcs /\ vf \in VfType /\ "ERR_MBX" \in Results
  BY DEF VfPcs, MbxInv, TypeOK, Results
<1>4. CASE owner = "none"
  <2>1. owner' = "vf" /\ vf' = [vf EXCEPT !.pc = "get1"]
    BY <1>4, Zenon DEF ixgbe_read_mbx_vf, ixgbe_obtain_mbx_lock_vf
  <2>2. vf' \in VfType /\ vf'.pc = "get1" /\ SameCall(vf', vf)
    BY <1>3, <2>1, PcStep
  <2> QED
    BY <1>1, <1>2, <1>4, <2>1, <2>2 DEF MbxInv, TypeOK, Armed, LockHeld, RequestStands, AnswerStands, CopiesAgree,
    Unacknowledged, Acknowledged, AnswerComes, AckedOrReset, AnswerOwn, Pending, Whole, R2C_BITS, SameCall
<1>5. CASE owner # "none"
  <2>1. owner' = owner /\ vf' = Return(vf, "ERR_MBX")
    BY <1>5, Zenon DEF ixgbe_read_mbx_vf, ixgbe_obtain_mbx_lock_vf
  <2>2. vf' \in VfType /\ SameCall(vf', vf) /\ vf'.pc = "end"
    BY <1>3, <2>1, ReturnFields
  <2> QED
    BY <1>1, <1>2, <1>5, <2>1, <2>2 DEF MbxInv, TypeOK, Armed, LockHeld, RequestStands, AnswerStands, CopiesAgree,
    Unacknowledged, Acknowledged, AnswerComes, AckedOrReset, AnswerOwn, Pending, Whole, R2C_BITS, SameCall
<1> QED BY <1>4, <1>5

\* The VF copies the answer out and acknowledges it.
LEMMA GetVfStep ==
    ASSUME MbxInv, get_msg_vf
    PROVE  MbxInv'
<1>0. vf \in VfType /\ "get2" \in VfPcs /\ "answered" \in VfPcs /\ mem[1] \in Words /\ mem[2] \in Words
  BY DEF VfPcs, MbxInv, TypeOK
<1>1. CASE vf.pc = "get1"
  <2>1. UNCHANGED <<owner, mem, reg, icr, vflre, hw, pf, unseen, resets, lastReset>>
    BY <1>1 DEF get_msg_vf
  <2>2. vf' = Take1(vf, "get2", mem[1])
    BY <1>1, Zenon DEF get_msg_vf, Take1
  <2>3. vf' \in VfType /\ vf'.pc = "get2" /\ SameCall(vf', vf) /\ vf'.msg[1] = mem[1]
    BY <1>0, <2>2, Take1Fields
  <2> QED
    BY <1>1, <2>1, <2>3 DEF MbxInv, TypeOK, Armed, LockHeld, RequestStands, AnswerStands, CopiesAgree,
    Unacknowledged, Acknowledged, AnswerComes, AckedOrReset, AnswerOwn, Pending, Whole, R2C_BITS, SameCall
<1>2. CASE vf.pc = "get2"
  <2>1. /\ owner' = "none" /\ icr' = icr \cup {"VFACK"}
        /\ UNCHANGED <<mem, reg, vflre, hw, pf, unseen, resets, lastReset>>
    BY <1>2 DEF get_msg_vf
  <2>2. vf' = Take2(vf, "answered", mem[2])
    BY <1>2, Zenon DEF get_msg_vf, Take2
  <2>3. /\ vf' \in VfType /\ vf'.pc = "answered" /\ SameCall(vf', vf)
        /\ vf'.msg[1] = vf.msg[1] /\ vf'.msg[2] = mem[2]
    BY <1>0, <2>2, Take2Fields
  <2> QED
    BY <1>2, <2>1, <2>3 DEF MbxInv, TypeOK, Armed, LockHeld, RequestStands, AnswerStands, CopiesAgree,
    Unacknowledged, Acknowledged, AnswerComes, AckedOrReset, AnswerOwn, Pending, Whole, R2C_BITS, SameCall
<1> QED BY <1>1, <1>2 DEF get_msg_vf

\* What a call does with an answer leaves the mailbox bits alone.
LEMMA AnswerFields ==
    ASSUME NEW h \in HwType, NEW op, NEW a \in Words
    PROVE  /\ OnAnswer(op, a, h) \in HwType
           /\ OnAnswer(op, a, h).v2p_mailbox = h.v2p_mailbox
           /\ AnswerResult(op, a) \in Results
<1>1. AnswerResult(op, a) \in Results
  BY DEF AnswerResult, Results
<1> DEFINE q == ClampQueues(a.q)
           g == [h EXCEPT !.perm_addr = "given"]
           m == ixgbe_get_mac_addr_vf(h)
           n == [h EXCEPT !.api_version = 11]
           q1 == [h EXCEPT !.max_tx_queues = q]
           q2 == [q1 EXCEPT !.max_rx_queues = q]
           Kept(x) == x \in HwType /\ x.v2p_mailbox = h.v2p_mailbox
<1>2. q \in 1..MaxQueues
  BY BoundAssumption DEF ClampQueues, Words
<1>3. Kept(g) /\ Kept(m) /\ Kept(n)
  BY DEF HwType, ixgbe_get_mac_addr_vf
<1> HIDE DEF q
<1>4. Kept(q1)
  BY <1>2 DEF HwType
<1>5. Kept(q2)
  <2> HIDE DEF q1
  <2> QED BY <1>2, <1>4 DEF HwType
<1>6. OnAnswer(op, a, h) \in {g, m, n, q2, h}
  BY Zenon DEF OnAnswer, q
<1> HIDE DEF g, m, n, q2
<1> QED BY <1>1, <1>3, <1>5, <1>6

\* A call looks at its answer.
LEMMA AnsweredStep ==
    ASSUME MbxInv, Answered
    PROVE  MbxInv'
<1>0. vf \in VfType /\ hw \in HwType /\ vf.msg[1] \in Words
  BY DEF MbxInv, TypeOK, VfType
<1>1. hw' \in HwType /\ hw'.v2p_mailbox = hw.v2p_mailbox
  BY <1>0, AnswerFields DEF Answered
<1>2. vf' \in VfType /\ vf'.pc = "end" /\ SameCall(vf', vf)
  BY <1>0, AnswerFields, ReturnFields DEF Answered
<1>3. vf.pc = "answered" /\ UNCHANGED <<owner, mem, reg, icr, vflre, pf, unseen, resets, lastReset>>
  BY DEF Answered
<1> QED
  BY <1>1, <1>2, <1>3 DEF MbxInv, TypeOK, Armed, LockHeld, RequestStands, AnswerStands, CopiesAgree,
    Unacknowledged, Acknowledged, AnswerComes, AckedOrReset, AnswerOwn, Pending, Whole, R2C_BITS, SameCall

\* A call of the VF returns.
LEMMA EndStep ==
    ASSUME MbxInv, End
    PROVE  MbxInv'
<1> DEFINE h1 == [hw EXCEPT !.adapter_stopped = FALSE]
           h2 == [h1 EXCEPT !.addr = h1.perm_addr]
<1>1. h1 \in HwType /\ h1.v2p_mailbox = hw.v2p_mailbox
  BY DEF MbxInv, TypeOK, HwType
<1>2. h2 \in HwType /\ h2.v2p_mailbox = hw.v2p_mailbox
  <2> HIDE DEF h1
  <2> QED BY <1>1 DEF HwType
<1>3. hw' = h2 \/ hw' = hw
  BY Zenon DEF End, ixgbe_init_hw_vf, ixgbe_get_mac_addr_vf, ixgbe_start_hw_vf
<1>4. hw' \in HwType /\ hw'.v2p_mailbox = hw.v2p_mailbox
  <2> HIDE DEF h2
  <2> QED BY <1>2, <1>3 DEF MbxInv, TypeOK
<1>5. vf' \in VfType /\ vf'.pc = "idle"
  BY IdleTypes DEF End, VfType, MbxInv, TypeOK
<1>6. vf.pc = "end" /\ UNCHANGED <<owner, mem, reg, icr, vflre, pf, unseen, resets, lastReset>>
  BY DEF End
<1> QED
  BY <1>4, <1>5, <1>6 DEF MbxInv, TypeOK, Armed, LockHeld, RequestStands, AnswerStands, CopiesAgree,
    Unacknowledged, Acknowledged, AnswerComes, AckedOrReset, AnswerOwn, Pending, Whole, R2C_BITS

\* The link check of the VF reads the mailbox.
LEMMA LinkStep ==
    ASSUME MbxInv, ixgbe_check_mac_link_vf
    PROVE  MbxInv'
<1> DEFINE c == ixgbe_check_for_rst_vf(hw)
<1>1. /\ c.hw \in HwType /\ c.hw.timeout = hw.timeout
      /\ c.hw.v2p_mailbox = (hw.v2p_mailbox \cup (reg \cap R2C_BITS)) \ {"RSTI", "RSTD"}
  BY CheckFields DEF MbxInv, R2C_BITS, ixgbe_check_for_rst_vf
<1>2. /\ vf.pc = "idle" /\ reg' = reg \ R2C_BITS /\ hw' = c.hw /\ unseen' \in BOOLEAN
      /\ UNCHANGED <<owner, mem, icr, vflre, vf, pf, resets, lastReset>>
  BY DEF ixgbe_check_mac_link_vf, ReadClears
<1> HIDE DEF c
<1> QED
  BY <1>1, <1>2 DEF MbxInv, TypeOK, Armed, LockHeld, RequestStands, AnswerStands, CopiesAgree,
    Unacknowledged, Acknowledged, AnswerComes, AckedOrReset, AnswerOwn, Pending, Whole, R2C_BITS

-----------------------------------------------------------------------------
(* Steps of the PF *)

\* The PF goes on at another place.
LEMMA PfPcStep ==
    ASSUME NEW f \in PfType, NEW p \in PfPcs
    PROVE  LET n == [f EXCEPT !.pc = p] IN n \in PfType /\ n.pc = p /\ n.msg = f.msg
  BY DEF PfType

PfTake(f, p, m) == [f EXCEPT !.pc = p, !.msg = m]
\* The PF has a message of two words to send.
LEMMA PfTakeFields ==
    ASSUME NEW f \in PfType, NEW p \in PfPcs, NEW m \in Words \X Words
    PROVE  LET n == PfTake(f, p, m) IN n \in PfType /\ n.pc = p /\ n.msg = m
<1> DEFINE f1 == [f EXCEPT !.pc = p]
           f2 == [f1 EXCEPT !.msg = m]
<1>1. f1 \in PfType /\ f1.pc = p
  BY PfPcStep
<1>2. f2 \in PfType /\ f2.pc = p /\ f2.msg = m
  <2> HIDE DEF f1
  <2> QED BY <1>1 DEF PfType
<1>3. PfTake(f, p, m) = f2
  BY Zenon DEF PfTake
<1> HIDE DEF f2
<1> QED BY <1>2, <1>3

\* The PF looks for resets and requests, and resets itself.
LEMMA PfPollSteps ==
    ASSUME MbxInv,
           ixgbe_check_for_rst_pf \/ ixgbe_check_for_msg_pf \/ PfReset \/ PfResetDone
    PROVE  MbxInv'
<1>0. pf \in PfType /\ {"msg", "read", "ack", "down", "rst"} \subseteq PfPcs
  BY DEF MbxInv, TypeOK, PfPcs
<1>1. CASE ixgbe_check_for_rst_pf
  <2>1. /\ pf.pc = "rst" /\ vflre' = FALSE
        /\ UNCHANGED <<owner, mem, reg, icr, hw, vf, unseen, resets, lastReset>>
    BY <1>1 DEF ixgbe_check_for_rst_pf
  <2>2. pf' \in PfType /\ pf'.pc = "msg" /\ pf'.msg = pf.msg
    BY <1>0, <1>1, PfPcStep DEF ixgbe_check_for_rst_pf, PfGoes
  <2> QED
    BY <2>1, <2>2, ZenonT(40) DEF MbxInv, TypeOK, Armed, LockHeld, RequestStands, AnswerStands, CopiesAgree,
    Unacknowledged, Acknowledged, AnswerComes, AckedOrReset, AnswerOwn, Pending, Whole, R2C_BITS
<1>2. CASE ixgbe_check_for_msg_pf
  <2>1. /\ pf.pc = "msg" /\ icr' = icr \ {"VFREQ"}
        /\ UNCHANGED <<owner, mem, reg, vflre, hw, vf, unseen, resets, lastReset>>
    BY <1>2 DEF ixgbe_check_for_msg_pf, ixgbe_check_for_bit_pf
  <2>2. /\ pf' \in PfType /\ pf'.pc = (IF "VFREQ" \in icr THEN "read" ELSE "ack")
        /\ pf'.msg = pf.msg
    <3>1. pf' = [pf EXCEPT !.pc = IF icr \cap {"VFREQ"} # {} THEN "read" ELSE "ack"]
      BY <1>2 DEF ixgbe_check_for_msg_pf, ixgbe_check_for_bit_pf, PfGoes
    <3> QED BY <1>0, <3>1, PfPcStep
  <2> QED
    BY <2>1, <2>2 DEF MbxInv, TypeOK, Armed, LockHeld, RequestStands, AnswerStands, CopiesAgree,
    Unacknowledged, Acknowledged, AnswerComes, AckedOrReset, AnswerOwn, Pending, Whole, R2C_BITS
<1>3. CASE PfReset
  <2>1. /\ pf.pc = "rst" /\ reg' = reg \cup {"RSTI"} /\ resets' = resets + 1 /\ unseen' = TRUE
        /\ resets < MaxPfResets
        /\ UNCHANGED <<owner, mem, icr, vflre, hw, vf, lastReset>>
    BY <1>3 DEF PfReset
  <2>2. pf' \in PfType /\ pf'.pc = "down" /\ pf'.msg = pf.msg
    BY <1>0, <1>3, PfPcStep DEF PfReset, PfGoes
  <2> QED
    BY <2>1, <2>2, BoundAssumption DEF MbxInv, TypeOK, Armed, LockHeld, RequestStands, AnswerStands, CopiesAgree,
    Unacknowledged, Acknowledged, AnswerComes, AckedOrReset, AnswerOwn, Pending, Whole, R2C_BITS
<1>4. CASE PfResetDone
  <2>1. /\ pf.pc = "down" /\ reg' = (reg \ {"RSTI"}) \cup {"RSTD"} /\ unseen' = TRUE
        /\ UNCHANGED <<owner, mem, icr, vflre, hw, vf, resets, lastReset>>
    BY <1>4 DEF PfResetDone
  <2>2. pf' \in PfType /\ pf'.pc = "rst" /\ pf'.msg = pf.msg
    BY <1>0, <1>4, PfPcStep DEF PfResetDone, PfGoes
  <2> QED
    BY <2>1, <2>2 DEF MbxInv, TypeOK, Armed, LockHeld, RequestStands, AnswerStands, CopiesAgree,
    Unacknowledged, Acknowledged, AnswerComes, AckedOrReset, AnswerOwn, Pending, Whole, R2C_BITS
<1> QED BY <1>1, <1>2, <1>3, <1>4

\* The PF notices an acknowledgement.
LEMMA AckPfStep ==
    ASSUME MbxInv, ixgbe_check_for_ack_pf
    PROVE  MbxInv'
<1>0. pf \in PfType /\ {"write", "rst"} \subseteq PfPcs
  BY DEF MbxInv, TypeOK, PfPcs
<1>1. /\ pf.pc = "ack" /\ icr' = icr \ {"VFACK"}
      /\ UNCHANGED <<owner, mem, reg, vflre, hw, vf, unseen, resets, lastReset>>
  BY DEF ixgbe_check_for_ack_pf, ixgbe_check_for_bit_pf
<1>2. CASE "VFACK" \in icr /\ pf' = PfTake(pf, "write", <<Unsolicited, Unsolicited>>)
  <2>1. /\ pf' \in PfType /\ pf'.pc = "write"
        /\ pf'.msg[1] = Unsolicited /\ pf'.msg[2] = Unsolicited
    BY <1>0, <1>2, WordTypes, PfTakeFields
  <2> QED
    BY <1>1, <1>2, <2>1, WordTypes DEF MbxInv, TypeOK, Armed, LockHeld, RequestStands, AnswerStands, CopiesAgree,
    Unacknowledged, Acknowledged, AnswerComes, AckedOrReset, AnswerOwn, Pending, Whole, R2C_BITS
<1>3. CASE PfGoes("rst")
  <2>1. pf' \in PfType /\ pf'.pc = "rst" /\ pf'.msg = pf.msg
    BY <1>0, <1>3, PfPcStep DEF PfGoes
  <2> QED
    BY <1>1, <2>1 DEF MbxInv, TypeOK, Armed, LockHeld, RequestStands, AnswerStands, CopiesAgree,
    Unacknowledged, Acknowledged, AnswerComes, AckedOrReset, AnswerOwn, Pending, Whole, R2C_BITS
<1>4. ("VFACK" \in icr /\ pf' = PfTake(pf, "write", <<Unsolicited, Unsolicited>>)) \/ PfGoes("rst")
  BY DEF ixgbe_check_for_ack_pf, ixgbe_check_for_bit_pf, PfTake
<1> QED BY <1>2, <1>3, <1>4

\* The PF tries to reserve the buffer.
LEMMA LockPfSteps ==
    ASSUME MbxInv, ixgbe_read_mbx_pf \/ ixgbe_write_mbx_pf
    PROVE  MbxInv'
<1>0. pf \in PfType /\ {"get1", "put1", "ack"} \subseteq PfPcs
  BY DEF MbxInv, TypeOK, PfPcs
<1>1. CASE ixgbe_read_mbx_pf
  <2>1. /\ pf.pc = "read" /\ owner' = IF owner = "none" THEN "pf" ELSE owner
        /\ UNCHANGED <<mem, reg, icr, vflre, hw, vf, unseen, resets, lastReset>>
    BY <1>1 DEF ixgbe_read_mbx_pf, ixgbe_obtain_mbx_lock_pf
  <2>2. /\ pf' \in PfType /\ pf'.pc = (IF owner = "none" THEN "get1" ELSE "ack")
        /\ pf'.msg = pf.msg
    <3>1. pf' = [pf EXCEPT !.pc = IF owner = "none" THEN "get1" ELSE "ack"]
      BY <1>1 DEF ixgbe_read_mbx_pf, PfGoes
    <3> QED BY <1>0, <3>1, PfPcStep
  <2> QED
    BY <2>1, <2>2 DEF MbxInv, TypeOK, Armed, LockHeld, RequestStands, AnswerStands, CopiesAgree,
    Unacknowledged, Acknowledged, AnswerComes, AckedOrReset, AnswerOwn, Pending, Whole, R2C_BITS
<1>2. CASE ixgbe_write_mbx_pf
  <2>1. /\ pf.pc = "write" /\ owner' = IF owner = "none" THEN "pf" ELSE owner
        /\ icr' = IF owner = "none" THEN icr \ {"VFREQ", "VFACK"} ELSE icr
        /\ UNCHANGED <<mem, reg, vflre, hw, vf, unseen, resets, lastReset>>
    BY <1>2 DEF ixgbe_write_mbx_pf, ixgbe_obtain_mbx_lock_pf
  <2>2. /\ pf' \in PfType /\ pf'.pc = (IF owner = "none" THEN "put1" ELSE "ack")
        /\ pf'.msg = pf.msg
    <3>1. pf' = [pf EXCEPT !.pc = IF owner = "none" THEN "put1" ELSE "ack"]
      BY <1>2 DEF ixgbe_write_mbx_pf, PfGoes
    <3> QED BY <1>0, <3>1, PfPcStep
  <2> QED
    BY <2>1, <2>2 DEF MbxInv, TypeOK, Armed, LockHeld, RequestStands, AnswerStands, CopiesAgree,
    Unacknowledged, Acknowledged, AnswerComes, AckedOrReset, AnswerOwn, Pending, Whole, R2C_BITS
<1> QED BY <1>1, <1>2

PfTake1(f, p, w) == [f EXCEPT !.pc = p, !.msg[1] = w]
PfTake2(f, p, w) == [f EXCEPT !.pc = p, !.msg[2] = w]
\* The PF has copied the first word in.
LEMMA PfTake1Fields ==
    ASSUME NEW f \in PfType, NEW p \in PfPcs, NEW w \in Words
    PROVE  LET n == PfTake1(f, p, w) IN n \in PfType /\ n.pc = p /\ n.msg[1] = w
<1> DEFINE f1 == [f EXCEPT !.pc = p]
           m1 == [f1.msg EXCEPT ![1] = w]
           n1 == [f1 EXCEPT !.msg = m1]
<1>1. f1 \in PfType /\ f1.pc = p /\ f1.msg = f.msg
  BY PfPcStep
<1>2. f1.msg \in Words \X Words
  BY <1>1 DEF PfType
<1> HIDE DEF f1
<1>3. m1 \in Words \X Words /\ m1[1] = w
  BY <1>2
<1> HIDE DEF m1
<1>4. n1 \in PfType /\ n1.pc = f1.pc /\ n1.msg = m1
  BY <1>1, <1>3 DEF PfType
<1>5. PfTake1(f, p, w) = n1
  BY Zenon DEF n1, m1, f1, PfTake1
<1> HIDE DEF n1
<1> QED BY <1>1, <1>3, <1>4, <1>5

\* The PF has copied the second word in.
LEMMA PfTake2Fields ==
    ASSUME NEW f \in PfType, NEW p \in PfPcs, NEW w \in Words
    PROVE  LET n == PfTake2(f, p, w) IN n \in PfType /\ n.pc = p /\ n.msg[1] = f.msg[1] /\ n.msg[2] = w
<1> DEFINE f1 == [f EXCEPT !.pc = p]
           m2 == [f1.msg EXCEPT ![2] = w]
           n2 == [f1 EXCEPT !.msg = m2]
<1>1. f1 \in PfType /\ f1.pc = p /\ f1.msg = f.msg
  BY PfPcStep
<1>2. f1.msg \in Words \X Words
  BY <1>1 DEF PfType
<1> HIDE DEF f1
<1>3. m2 \in Words \X Words /\ m2[2] = w /\ m2[1] = f1.msg[1]
  BY <1>2
<1> HIDE DEF m2
<1>4. n2 \in PfType /\ n2.pc = f1.pc /\ n2.msg = m2
  BY <1>1, <1>3 DEF PfType
<1>5. PfTake2(f, p, w) = n2
  BY Zenon DEF n2, m2, f1, PfTake2
<1> HIDE DEF n2
<1> QED BY <1>1, <1>3, <1>4, <1>5

\* The PF copies a request out and acknowledges it.
LEMMA GetPfStep ==
    ASSUME MbxInv, get_msg_pf
    PROVE  MbxInv'
<1>0. pf \in PfType /\ "get2" \in PfPcs /\ "handle" \in PfPcs /\ mem[1] \in Words /\ mem[2] \in Words
  BY DEF PfPcs, MbxInv, TypeOK
<1>1. CASE pf.pc = "get1"
  <2>1. UNCHANGED <<owner, mem, reg, icr, vflre, hw, vf, unseen, resets, lastReset>>
    BY <1>1 DEF get_msg_pf
  <2>2. pf' = PfTake1(pf, "get2", mem[1])
    BY <1>1, Zenon DEF get_msg_pf, PfTake1
  <2>3. pf' \in PfType /\ pf'.pc = "get2" /\ pf'.msg[1] = mem[1]
    BY <1>0, <2>2, PfTake1Fields
  <2> QED
    BY <1>1, <2>1, <2>3 DEF MbxInv, TypeOK, Armed, LockHeld, RequestStands, AnswerStands, CopiesAgree,
    Unacknowledged, Acknowledged, AnswerComes, AckedOrReset, AnswerOwn, Pending, Whole, R2C_BITS
<1>2. CASE pf.pc = "get2"
  <2>1. /\ owner' = "none" /\ reg' = reg \cup {"PFACK"}
        /\ UNCHANGED <<mem, icr, vflre, hw, vf, unseen, resets, lastReset>>
    BY <1>2 DEF get_msg_pf
  <2>2. pf' = PfTake2(pf, "handle", mem[2])
    BY <1>2, Zenon DEF get_msg_pf, PfTake2
  <2>3. pf' \in PfType /\ pf'.pc = "handle" /\ pf'.msg[1] = pf.msg[1] /\ pf'.msg[2] = mem[2]
    BY <1>0, <2>2, PfTake2Fields
  <2> QED
    BY <1>2, <2>1, <2>3 DEF MbxInv, TypeOK, Armed, LockHeld, RequestStands, AnswerStands, CopiesAgree,
    Unacknowledged, Acknowledged, AnswerComes, AckedOrReset, AnswerOwn, Pending, Whole, R2C_BITS
<1> QED BY <1>1, <1>2 DEF get_msg_pf

\* The PF handles the request it has copied out.
LEMMA HandleStep ==
    ASSUME MbxInv, Handle
    PROVE  MbxInv'
<1>0. /\ pf.pc = "handle" /\ pf \in PfType /\ pf.msg[1] \in Words
      /\ UNCHANGED <<owner, mem, reg, icr, vflre, hw, vf, unseen, resets, lastReset>>
  BY DEF MbxInv, TypeOK, PfType, Handle
<1>1. PICK st \in {"ACK", "NACK"}, q \in {0, 1, MaxQueues + 1} :
        pf' = [pc |-> "write", msg |-> <<Reply(pf.msg[1], st, q), Reply(pf.msg[1], st, q)>>,
               agreed |-> IF Reply(pf.msg[1], st, q).op = "API_NEGOTIATE" /\ st = "ACK"
                            THEN Reply(pf.msg[1], st, q).id ELSE pf.agreed]
  BY DEF Handle
<1> DEFINE r == Reply(pf.msg[1], st, q)
<1>2. r \in Words /\ r.kind = "rep" /\ r.id = pf.msg[1].id /\ r.id \in 0..MaxCalls
  <2>1. r \in Words /\ r.kind = "rep" /\ r.id = pf.msg[1].id
    BY <1>0, ReplyTypes
  <2> QED BY <1>0, <2>1 DEF Words
<1> HIDE DEF r
<1>3. pf' \in PfType /\ pf'.pc = "write" /\ pf'.msg[1] = r /\ pf'.msg[2] = r
  BY <1>0, <1>1, <1>2 DEF PfType, PfPcs, r
<1> QED
  BY <1>0, <1>2, <1>3 DEF MbxInv, TypeOK, Armed, LockHeld, RequestStands, AnswerStands, CopiesAgree,
    Unacknowledged, Acknowledged, AnswerComes, AckedOrReset, AnswerOwn, Pending, Whole, R2C_BITS

\* The PF copies its message in and sets PFSTS.
LEMMA PutPfStep ==
    ASSUME MbxInv, put_msg_pf
    PROVE  MbxInv'
<1>0. /\ pf \in PfType /\ "put2" \in PfPcs /\ "ack" \in PfPcs
      /\ pf.msg[1] \in Words /\ pf.msg[2] \in Words /\ mem \in Words \X Words
  BY DEF PfPcs, MbxInv, TypeOK, PfType
<1>1. CASE pf.pc = "put1"
  <2>1. /\ mem' = [mem EXCEPT ![1] = pf.msg[1]]
        /\ UNCHANGED <<owner, reg, icr, vflre, hw, vf, unseen, resets, lastReset>>
    BY <1>1 DEF put_msg_pf
  <2>2. mem' \in Words \X Words /\ mem'[1] = pf.msg[1] /\ mem'[2] = mem[2]
    BY <1>0, <2>1
  <2>3. pf' \in PfType /\ pf'.pc = "put2" /\ pf'.msg = pf.msg
    <3>1. pf' = [pf EXCEPT !.pc = "put2"]
      BY <1>1 DEF put_msg_pf, PfGoes
    <3> QED BY <1>0, <3>1, PfPcStep
  <2> QED
    BY <1>1, <2>1, <2>2, <2>3 DEF MbxInv, TypeOK, Armed, LockHeld, RequestStands, AnswerStands, CopiesAgree,
    Unacknowledged, Acknowledged, AnswerComes, AckedOrReset, AnswerOwn, Pending, Whole, R2C_BITS
<1>2. CASE pf.pc = "put2"
  <2>1. /\ mem' = [mem EXCEPT ![2] = pf.msg[2]] /\ owner' = "none" /\ reg' = reg \cup {"PFSTS"}
        /\ UNCHANGED <<icr, vflre, hw, vf, unseen, resets, lastReset>>
    BY <1>2 DEF put_msg_pf
  <2>2. mem' \in Words \X Words /\ mem'[1] = mem[1] /\ mem'[2] = pf.msg[2]
    BY <1>0, <2>1
  <2>3. pf' \in PfType /\ pf'.pc = "ack" /\ pf'.msg = pf.msg
    <3>1. pf' = [pf EXCEPT !.pc = "ack"]
      BY <1>2 DEF put_msg_pf, PfGoes
    <3> QED BY <1>0, <3>1, PfPcStep
  <2> QED
    BY <1>2, <2>1, <2>2, <2>3 DEF MbxInv, TypeOK, Armed, LockHeld, RequestStands, AnswerStands, CopiesAgree,
    Unacknowledged, Acknowledged, AnswerComes, AckedOrReset, AnswerOwn, Pending, Whole, R2C_BITS
<1> QED BY <1>1, <1>2 DEF put_msg_pf

-----------------------------------------------------------------------------
(* The theorems *)

\* The invariant holds after the probe.
LEMMA MbxInit == Init => MbxInv
<1> SUFFICES ASSUME Init PROVE MbxInv
  OBVIOUS
<1>1. vf \in VfType /\ vf.pc = "idle" /\ pf \in PfType /\ pf.pc = "rst"
  BY IdleTypes DEF Init
<1>2. mem \in Words \X Words
  BY WordTypes DEF Init
<1>3. hw \in HwType /\ hw.v2p_mailbox = {}
  BY BoundAssumption DEF Init, HwType, R2C_BITS, ixgbe_init_ops_vf, ixgbe_init_mbx_params_vf
<1>4. /\ owner = "none" /\ reg = {} /\ icr = {} /\ vflre = FALSE
      /\ unseen = FALSE /\ resets = 0 /\ lastReset = 0
  BY DEF Init
<1>5. TypeOK
  <2>1. vflre \in BOOLEAN /\ unseen \in BOOLEAN
    BY <1>4, Zenon
  <2>2. resets \in 0..MaxPfResets /\ lastReset \in 0..MaxCalls
    BY <1>4, BoundAssumption
  <2>3. owner \in {"none", "vf", "pf"} /\ reg \subseteq R2C_BITS \cup {"RSTI"}
        /\ icr \subseteq {"VFREQ", "VFACK"}
    BY <1>4
  <2> QED BY <1>1, <1>2, <1>3, <2>1, <2>2, <2>3 DEF TypeOK
<1> QED
  BY <1>1, <1>3, <1>4, <1>5 DEF MbxInv, Armed, LockHeld, RequestStands, AnswerStands, CopiesAgree,
    Unacknowledged, Acknowledged, AnswerComes, AckedOrReset, AnswerOwn, Pending

\* Every step keeps the invariant.
LEMMA MbxNext == MbxInv /\ [Next]_vars => MbxInv'
<1> SUFFICES ASSUME MbxInv, [Next]_vars PROVE MbxInv'
  OBVIOUS
<1>1. CASE VfCalls
  <2>1. CASE ixgbe_reset_hw_vf
    BY <2>1, ResetStep
  <2>2. CASE \E op \in Ops : Post(op)
    BY <2>2, PostStep
  <2> QED
    BY <1>1, <2>1, <2>2 DEF VfCalls, Ops, Asks, ixgbe_set_rar_vf, ixgbe_update_mc_addr_list_vf,
      ixgbe_set_vfta_vf, ixgbevf_set_uc_addr_vf, ixgbevf_rlpml_set_vf,
      ixgbevf_negotiate_api_version, ixgbevf_get_queues
<1>2. CASE VfSteps
  BY <1>2, ResetWaitStep, WriteVfStep, PutVfStep, PollAckStep, PollMsgStep, ReadVfStep,
    GetVfStep, AnsweredStep, EndStep DEF VfSteps
<1>3. CASE PfSteps
  BY <1>3, PfPollSteps, AckPfStep, LockPfSteps, GetPfStep, HandleStep, PutPfStep DEF PfSteps
<1>4. CASE UNCHANGED vars
  <2>1. UNCHANGED <<owner, mem, reg, icr, vflre, hw, vf, pf, unseen, resets, lastReset>>
    BY <1>4 DEF vars
  <2> QED
    BY <2>1 DEF MbxInv, TypeOK, Armed, LockHeld, RequestStands, AnswerStands, CopiesAgree,
    Unacknowledged, Acknowledged, AnswerComes, AckedOrReset, AnswerOwn, Pending, Whole, R2C_BITS
<1> QED
  BY <1>1, <1>2, <1>3, <1>4, LinkStep, PfPollSteps DEF Next

\* Every reachable state of the mailbox satisfies MbxInv: a reservation, a
\* pending request, a pending answer and a pending acknowledgement each mean
\* what the two sides of ixgbe_mbx.c take them to mean.
THEOREM MailboxInvariant == Spec => []MbxInv
<1>1. Init => MbxInv
  BY MbxInit
<1>2. MbxInv /\ [Next]_vars => MbxInv'
  BY MbxNext
<1> QED
  BY <1>1, <1>2, PTL DEF Spec

\* The variables keep their types; a poll never counts below one.
THEOREM MailboxTypes == Spec => []TypeOK
<1>1. MbxInv => TypeOK
  BY DEF MbxInv
<1> QED
  BY <1>1, MailboxInvariant, PTL

\* The PF acts only on whole requests (ixgbe_read_mbx_pf).
THEOREM RequestsHandledWhole == Spec => []HandledWhole
<1>1. MbxInv => HandledWhole
  BY DEF MbxInv, CopiesAgree, Whole, HandledWhole
<1> QED
  BY <1>1, MailboxInvariant, PTL

\* The answer a call takes is whole and, if its request was acknowledged, is
\* the answer to that request (ixgbe_read_posted_mbx after
\* ixgbe_write_posted_mbx).
THEOREM AnswersAreOwn == Spec => []AnswerIsOwn
<1>1. MbxInv => AnswerIsOwn
  BY DEF MbxInv, CopiesAgree, Whole, AnswerOwn, AckedOrReset, AnswerIsOwn
<1> QED
  BY <1>1, MailboxInvariant, PTL

-----------------------------------------------------------------------------
(* Resets of the PF *)

\* A step that looks for a reset: either it finds one, and the driver knows,
\* or nothing was pending.
LEMMA RstChecked ==
    ASSUME TypeOK, ResetKept,
           unseen' = (unseen /\ ~ixgbe_check_for_rst_vf(hw).found)
    PROVE  unseen' = FALSE
<1>1. ixgbe_check_for_rst_vf(hw).found = (Pending \cap {"RSTI", "RSTD"} # {})
  BY CheckFields DEF R2C_BITS, ixgbe_check_for_rst_vf
<1> QED BY <1>1, Zenon DEF ResetKept, Pending

\* A read of the register for anything else keeps RSTD, and does not clear
\* RSTI.
LEMMA RstRead ==
    ASSUME TypeOK, ResetKept, unseen' = unseen, reg' = reg \ R2C_BITS,
           NEW mask \in SUBSET {"PFSTS", "PFACK"},
           hw'.v2p_mailbox = (hw.v2p_mailbox \cup (reg \cap R2C_BITS)) \ mask
    PROVE  ResetKept'
  BY DEF ResetKept, R2C_BITS, TypeOK

\* Every step keeps a reset of the PF noticed.
LEMMA ResetKeptNext == MbxInv /\ ResetKept /\ [Next]_vars => ResetKept'
<1> SUFFICES ASSUME MbxInv, ResetKept, [Next]_vars PROVE ResetKept'
  OBVIOUS
<1>0. TypeOK /\ hw \in HwType
  BY DEF MbxInv, TypeOK
<1>1. CASE UNCHANGED <<reg, hw, unseen>>
  BY <1>1 DEF ResetKept
<1>2. CASE ixgbe_reset_hw_vf
  <2> DEFINE h1 == [hw EXCEPT !.adapter_stopped = TRUE]
             h2 == [h1 EXCEPT !.api_version = 10]
  <2>1. h1 \in HwType /\ h1.v2p_mailbox = hw.v2p_mailbox
    BY <1>0 DEF HwType
  <2>2. h2.v2p_mailbox = hw.v2p_mailbox
    <3> HIDE DEF h1
    <3> QED BY <2>1 DEF HwType
  <2>3. hw' = h2
    BY <1>2, Zenon DEF ixgbe_reset_hw_vf, ixgbe_stop_adapter_vf
  <2>4. UNCHANGED <<reg, unseen>>
    BY <1>2 DEF ixgbe_reset_hw_vf
  <2> HIDE DEF h2
  <2> QED BY <2>2, <2>3, <2>4 DEF ResetKept
<1>3. CASE reset_wait_vf \/ ixgbe_check_mac_link_vf
  <2>1. unseen' = (unseen /\ ~ixgbe_check_for_rst_vf(hw).found)
    BY <1>3 DEF reset_wait_vf, ixgbe_check_mac_link_vf
  <2> QED BY <1>0, <2>1, RstChecked DEF ResetKept
<1>4. CASE ixgbe_poll_for_ack
  <2>1. /\ hw' = ixgbe_check_for_ack_vf(hw).hw /\ reg' = reg \ R2C_BITS /\ unseen' = unseen
    BY <1>4 DEF ixgbe_poll_for_ack, ReadClears
  <2>2. hw'.v2p_mailbox = (hw.v2p_mailbox \cup (reg \cap R2C_BITS)) \ {"PFACK"}
    BY <1>0, <2>1, CheckFields DEF R2C_BITS, ixgbe_check_for_ack_vf
  <2> QED BY <1>0, <2>1, <2>2, RstRead
<1>5. CASE ixgbe_poll_for_msg
  <2>1. /\ hw' = ixgbe_check_for_msg_vf(hw).hw /\ reg' = reg \ R2C_BITS /\ unseen' = unseen
    BY <1>5 DEF ixgbe_poll_for_msg, ReadClears
  <2>2. hw'.v2p_mailbox = (hw.v2p_mailbox \cup (reg \cap R2C_BITS)) \ {"PFSTS"}
    BY <1>0, <2>1, CheckFields DEF R2C_BITS, ixgbe_check_for_msg_vf
  <2> QED BY <1>0, <2>1, <2>2, RstRead
<1>6. CASE ixgbe_write_mbx_vf \/ ixgbe_read_mbx_vf
  <2> DEFINE h0 == ixgbe_read_v2p_mailbox(hw)
             h1 == [h0 EXCEPT !.v2p_mailbox = h0.v2p_mailbox \ {"PFSTS", "PFACK"}]
  <2>1. h0 \in HwType /\ h0.v2p_mailbox = hw.v2p_mailbox \cup (reg \cap R2C_BITS)
    BY <1>0 DEF HwType, ixgbe_read_v2p_mailbox
  <2> HIDE DEF h0
  <2>2. h1.v2p_mailbox = h0.v2p_mailbox \ {"PFSTS", "PFACK"}
    BY <2>1 DEF HwType
  <2>3. (hw' = h0 \/ hw' = h1) /\ reg' = reg \ R2C_BITS /\ unseen' = unseen
    BY <1>6 DEF ixgbe_write_mbx_vf, ixgbe_read_mbx_vf, ixgbe_obtain_mbx_lock_vf, ReadClears, h0
  <2> HIDE DEF h1
  <2>4. \E mask \in SUBSET {"PFSTS", "PFACK"} :
            hw'.v2p_mailbox = (hw.v2p_mailbox \cup (reg \cap R2C_BITS)) \ mask
    <3>1. CASE hw' = h0
      <4>1. hw'.v2p_mailbox = (hw.v2p_mailbox \cup (reg \cap R2C_BITS)) \ {}
        BY <2>1, <3>1
      <4> QED BY <4>1
    <3>2. CASE hw' = h1
      <4>1. hw'.v2p_mailbox = (hw.v2p_mailbox \cup (reg \cap R2C_BITS)) \ {"PFSTS", "PFACK"}
        BY <2>1, <2>2, <3>2
      <4> QED BY <4>1
    <3> QED BY <2>3, <3>1, <3>2
  <2> QED BY <1>0, <2>3, <2>4, RstRead
<1>7. CASE Answered
  <2>1. hw'.v2p_mailbox = hw.v2p_mailbox /\ UNCHANGED <<reg, unseen>>
    <3>1. vf.msg[1] \in Words
      BY <1>0 DEF TypeOK, VfType
    <3> QED BY <1>0, <1>7, <3>1, AnswerFields DEF Answered
  <2> QED BY <2>1 DEF ResetKept
<1>8. CASE End
  <2> DEFINE h1 == [hw EXCEPT !.adapter_stopped = FALSE]
             h2 == [h1 EXCEPT !.addr = h1.perm_addr]
  <2>1. h1 \in HwType /\ h1.v2p_mailbox = hw.v2p_mailbox
    BY <1>0 DEF HwType
  <2>2. h2.v2p_mailbox = hw.v2p_mailbox
    <3> HIDE DEF h1
    <3> QED BY <2>1 DEF HwType
  <2>3. hw' = h2 \/ hw' = hw
    BY <1>8, Zenon DEF End, ixgbe_init_hw_vf, ixgbe_get_mac_addr_vf, ixgbe_start_hw_vf
  <2>4. UNCHANGED <<reg, unseen>>
    BY <1>8 DEF End
  <2> HIDE DEF h2
  <2> QED BY <2>2, <2>3, <2>4 DEF ResetKept
<1>9. CASE get_msg_pf \/ put_msg_pf
  <2>1. reg \subseteq reg' /\ UNCHANGED <<hw, unseen>>
    BY <1>9 DEF get_msg_pf, put_msg_pf
  <2> QED BY <2>1 DEF ResetKept
<1>10. CASE PfReset
  <2>1. "RSTI" \in reg'
    BY <1>10 DEF PfReset
  <2> QED BY <2>1 DEF ResetKept
<1>11. CASE PfResetDone
  <2>1. "RSTD" \in reg'
    BY <1>11 DEF PfResetDone
  <2> QED BY <2>1 DEF ResetKept
<1>12. UNCHANGED <<reg, hw, unseen>> \/ ixgbe_reset_hw_vf \/ reset_wait_vf \/ ixgbe_check_mac_link_vf
       \/ ixgbe_poll_for_ack \/ ixgbe_poll_for_msg \/ ixgbe_write_mbx_vf \/ ixgbe_read_mbx_vf
       \/ Answered \/ End \/ get_msg_pf \/ put_msg_pf \/ PfReset \/ PfResetDone
  <2>1. CASE VfCalls
    BY <2>1 DEF VfCalls, Post, ixgbe_set_rar_vf, ixgbe_update_mc_addr_list_vf,
      ixgbe_set_vfta_vf, ixgbevf_set_uc_addr_vf, ixgbevf_rlpml_set_vf,
      ixgbevf_negotiate_api_version, ixgbevf_get_queues
  <2>2. CASE VfSteps
    BY <2>2 DEF VfSteps, put_msg_vf, get_msg_vf
  <2>3. CASE PfSteps
    BY <2>3 DEF PfSteps, ixgbe_check_for_rst_pf, ixgbe_check_for_msg_pf, ixgbe_read_mbx_pf,
      Handle, ixgbe_write_mbx_pf, ixgbe_check_for_ack_pf
  <2>4. CASE UNCHANGED vars
    BY <2>4 DEF vars
  <2> QED BY <2>1, <2>2, <2>3, <2>4 DEF Next
<1> QED
  BY <1>1, <1>2, <1>3, <1>4, <1>5, <1>6, <1>7, <1>8, <1>9, <1>10, <1>11, <1>12

\* A reset of the PF stays in the register or among the kept bits until the
\* VF's driver asks for it, whatever it reads the register for meanwhile
\* (ixgbe_read_v2p_mailbox).
THEOREM ResetsAreKept == Spec => []ResetKept
<1>1. Init => ResetKept
  BY DEF Init, ResetKept
<1>2. MbxInv /\ ResetKept /\ [Next]_vars => ResetKept'
  BY ResetKeptNext
<1> QED
  BY <1>1, <1>2, MailboxInvariant, PTL DEF Spec
====
