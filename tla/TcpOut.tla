------------------------------- MODULE TcpOut -------------------------------
(***************************************************************************)
(* The sending half of TCP for one connection: net/tcp_out.c, and from     *)
(* net/tcp.c opening, closing, the receive window and the unified timer.   *)
(*                                                                         *)
(* Each C function is an operator from pcb to pcb; an action is one call   *)
(* of the application, one input event or one expiry of the timer, and     *)
(* runs to its end (one CPU serves a flow group).  The input half,         *)
(* tcp_in.c, is not in the repository: the actions of the peer are         *)
(* external and do to the pcb what the sender relies on.                   *)
(*                                                                         *)
(* bsys_tcp_sendv is the only caller of tcp_write and passes no flags, so  *)
(* data is never copied and unsent_oversize stays 0.  Sequence numbers     *)
(* start at 0 and do not wrap; a byte of data is the number it must have.  *)
(* Time: a timer field is set or not, and whether a set one is due when    *)
(* the hrtimer fires is open (the code mixes ns, us and ms).               *)
(***************************************************************************)
EXTENDS Integers, Sequences, FiniteSets, FiniteSetsExt, SequencesExt

CONSTANTS
    MSS,           \* agreed in the handshake
    SndBuf,        \* TCP_SND_BUF
    SndQueueLen,   \* TCP_SND_QUEUELEN, in pbufs
    TcpWnd,        \* TCP_WND
    MaxRtx,        \* TCP_MAXRTX
    SynMaxRtx,     \* TCP_SYNMAXRTX
    PeerWnds,      \* windows the peer announces
    MayShrink,     \* the peer may take back window it has announced
    MaxCwnd,       \* bound: congestion window
    MaxBytes,      \* bound: bytes written
    MaxRcv         \* bound: bytes received

ASSUME SizeAssumption ==
    /\ {MSS, SndBuf, SndQueueLen, TcpWnd} \subseteq Nat \ {0}
    /\ {MaxRtx, SynMaxRtx, MaxCwnd, MaxBytes, MaxRcv} \subseteq Nat
    /\ PeerWnds \subseteq Nat /\ MayShrink \in BOOLEAN

VARIABLES
    pcb,           \* struct tcp_pcb
    hung,          \* the CPU waits for its own timer callback to end
    \* history: received bytes that no segment has acknowledged yet; an
    \* allocation for an acknowledgement has failed
    owed, starved

vars == <<pcb, hung, owed, starved>>

\* struct tcp_seg: data is what the pbufs hold, bufs how many they are.
Seg(seq, data, ctl, bufs) == [seq |-> seq, data |-> data, ctl |-> ctl, bufs |-> bufs]
TCP_TCPLEN(s) == Len(s.data) + (IF s.ctl = {} THEN 0 ELSE 1)
End(s) == s.seq + TCP_TCPLEN(s)
Bytes(a, b) == [i \in 1..b - a |-> a + i - 1]     \* the bytes a .. b-1

\* The pbufs of a queue.
PbufCount(q) ==
    LET count[i \in 0..Len(q)] == IF i = 0 THEN 0 ELSE count[i - 1] + q[i].bufs
    IN count[Len(q)]

\* tcp_alloc and, in bsys_tcp_connect, tcp_nagle_disable.
tcp_alloc ==
    [state |-> "CLOSED", unsent |-> <<>>, unacked |-> <<>>, flags |-> {"NODELAY"},
     snd_lbb |-> 0, snd_nxt |-> 1, lastack |-> 0, snd_buf |-> SndBuf, snd_queuelen |-> 0,
     snd_wnd |-> TcpWnd, snd_wnd_max |-> 0, cwnd |-> 1, ssthresh |-> 10 * MSS, nrtx |-> 0,
     delack |-> FALSE, rexmit |-> FALSE, persist |-> FALSE, acks |-> 0, hrt |-> FALSE,
     rcv_nxt |-> 0, rcv_wnd |-> TcpWnd, rcv_ann_wnd |-> TcpWnd, right_edge |-> 0]

Init == pcb = tcp_alloc /\ hung = FALSE /\ owed = FALSE /\ starved = FALSE
-----------------------------------------------------------------------------
(* Sending *)

\* In every case the hrtimer ends up active if it was or if a field is set.
AnyTimer(p) == p.delack \/ p.rexmit \/ p.persist
tcp_recompute_timers(p) == [p EXCEPT !.hrt = p.hrt \/ AnyTimer(p)]

\* Every header carries the acknowledgement and the window.
tcp_output_alloc_header(p) == [p EXCEPT !.right_edge = p.rcv_nxt + p.rcv_ann_wnd]
AckSent(p) ==
    tcp_recompute_timers([p EXCEPT !.flags = @ \ {"ACK_NOW"}, !.delack = FALSE])
tcp_send_empty_ack(p, mem) == IF mem THEN AckSent(tcp_output_alloc_header(p)) ELSE p

tcp_do_output_nagle(p) ==
    \/ p.unacked = <<>> \/ p.flags \cap {"NODELAY", "INFR"} # {}
    \/ Len(p.unsent) > 1 \/ (p.unsent # <<>> /\ Len(p.unsent[1].data) >= MSS)
    \/ p.snd_buf = 0 \/ p.snd_queuelen >= SndQueueLen

Fits(p) ==
    LET s == Head(p.unsent)
    IN s.seq - p.lastack + Len(s.data) <= Min({p.snd_wnd, p.cwnd})
CanSend(p) ==
    /\ p.unsent # <<>> /\ Fits(p)
    /\ tcp_do_output_nagle(p) \/ p.flags \cap {"NAGLEMEMERR", "FIN"} # {}

tcp_output_segment(p) == tcp_recompute_timers([tcp_output_alloc_header(p) EXCEPT !.rexmit = TRUE])

\* Where a segment goes in a list sorted by sequence number.
Insert(q, s) ==
    InsertAt(q, Min({i \in 1..Len(q) + 1 : i > Len(q) \/ q[i].seq >= s.seq}), s)

\* One round of the loop in tcp_output.
SendHead(p) ==
    LET s == Head(p.unsent)
        q == [p EXCEPT !.unsent = Tail(@)]
        r == tcp_output_segment(IF p.state = "SYN_SENT" THEN q ELSE AckSent(q))
    IN [r EXCEPT !.snd_nxt = Max({@, End(s)}),
                 !.unacked = IF TCP_TCPLEN(s) > 0 THEN Insert(@, s) ELSE @]

\* Mutant of WantsEmptyAck: only when nothing is queued.
ack_if_idle(p) == "ACK_NOW" \in p.flags /\ p.unsent = <<>>

\* The test against tcp_input_pcb compares the address of a per-CPU variable
\* and never holds.
WantsEmptyAck(p) == "ACK_NOW" \in p.flags /\ (p.unsent = <<>> \/ ~Fits(p))
tcp_output(p, mem) ==
    LET round[n \in 0..Len(p.unsent)] ==
            IF n = 0 THEN p
            ELSE IF CanSend(round[n - 1]) THEN SendHead(round[n - 1]) ELSE round[n - 1]
    IN IF WantsEmptyAck(p) THEN tcp_send_empty_ack(p, mem)
       ELSE [round[Len(p.unsent)] EXCEPT !.flags = @ \ {"NAGLEMEMERR"}]

\* Did tcp_output(p, mem) send a header?
Sends(p, mem) == IF WantsEmptyAck(p) THEN mem ELSE CanSend(p)
NagleMemErr(p) == [p EXCEPT !.flags = @ \cup {"NAGLEMEMERR"}]
-----------------------------------------------------------------------------
(* Queueing *)

tcp_write_checks(p) == p.snd_queuelen < SndQueueLen
WriteStates == {"ESTABLISHED", "CLOSE_WAIT", "SYN_SENT", "SYN_RCVD"}

\* The room left in the last segment: none in one without data (SYN, FIN).
concat_len(p, mss, n) ==
    IF p.unsent = <<>> \/ Last(p.unsent).data = <<>> THEN 0
    ELSE Min({mss - Len(Last(p.unsent).data), n})

\* Mutant of write_queuelen: the header pbuf is not counted.
one_pbuf_each(p, cat, segs) == p.snd_queuelen + (IF cat > 0 THEN 1 ELSE 0) + segs

write_queuelen(p, cat, segs) == p.snd_queuelen + (IF cat > 0 THEN 1 ELSE 0) + 2 * segs

WriteResult(p, ok) == [pcb |-> p, ok |-> ok]

\* Extend the last segment, then new segments of two pbufs each.  With no
\* window announced yet mss_local is 0 and the loop only ends when the queue
\* is full; every failure undoes the call.
tcp_write(p, n, mem) ==
    LET mss_local == Min({MSS, p.snd_wnd_max \div 2})
        cat == concat_len(p, mss_local, n)
        segs == IF mss_local = 0 THEN 0 ELSE (n - cat + mss_local - 1) \div mss_local
        len == write_queuelen(p, cat, segs)
        at(k) == p.snd_lbb + Min({n, cat + k * mss_local})
        new == [k \in 1..segs |-> Seg(at(k - 1), Bytes(at(k - 1), at(k)), {}, 2)]
        m == Len(p.unsent)
        old == IF cat = 0 THEN p.unsent
               ELSE [p.unsent EXCEPT ![m].data = @ \o Bytes(p.snd_lbb, p.snd_lbb + cat),
                                     ![m].bufs = @ + 1]
    IN IF p.state \notin WriteStates THEN WriteResult(p, FALSE)
       ELSE IF \/ ~tcp_write_checks(p) \/ ~mem
               \/ (cat < n /\ (mss_local = 0 \/ len > SndQueueLen))
            THEN WriteResult(NagleMemErr(p), FALSE)
            ELSE WriteResult([p EXCEPT !.unsent = old \o new, !.snd_lbb = @ + n,
                                       !.snd_buf = @ - n, !.snd_queuelen = len], TRUE)

tcp_enqueue_flags(p, ctl, mem) ==
    IF p.snd_queuelen >= SndQueueLen \/ (p.snd_buf > 0 /\ ~mem)
    THEN WriteResult(NagleMemErr(p), FALSE)
    ELSE IF p.snd_buf = 0 THEN WriteResult(p, FALSE)
    ELSE WriteResult([p EXCEPT !.unsent = Append(@, Seg(p.snd_lbb, <<>>, ctl, 1)),
                               !.snd_lbb = @ + 1, !.snd_buf = @ - 1, !.snd_queuelen = @ + 1,
                               !.flags = @ \cup (ctl \cap {"FIN"})], TRUE)

\* A FIN that rides on the last unsent segment is not counted in snd_lbb.
tcp_send_fin(p, mem) ==
    IF p.unsent # <<>> /\ Last(p.unsent).ctl = {}
    THEN WriteResult([p EXCEPT !.unsent[Len(p.unsent)].ctl = {"FIN"},
                               !.flags = @ \cup {"FIN"}], TRUE)
    ELSE tcp_enqueue_flags(p, {"FIN"}, mem)
-----------------------------------------------------------------------------
(* Retransmission *)

\* Mutant of requeue_unacked: the unsent queue is replaced.
rexmit_rto_replace(p) == [p EXCEPT !.unsent = p.unacked, !.unacked = <<>>, !.nrtx = @ + 1]

requeue_unacked(p) == [p EXCEPT !.unsent = p.unacked \o @, !.unacked = <<>>, !.nrtx = @ + 1]
tcp_rexmit_rto(p, mem) ==
    IF p.unacked = <<>> THEN p ELSE tcp_output(requeue_unacked(p), mem)

tcp_rexmit(p) ==
    IF p.unacked = <<>> THEN p
    ELSE [p EXCEPT !.unacked = Tail(@), !.unsent = Insert(@, Head(p.unacked)), !.nrtx = @ + 1]

\* Half the window in use, and at least two segments.
Ssthresh(p) == Max({Min({p.cwnd, p.snd_wnd}) \div 2, 2 * MSS})

tcp_rexmit_fast(p) ==
    IF p.unacked = <<>> \/ "INFR" \in p.flags THEN p
    ELSE [tcp_rexmit(p) EXCEPT !.ssthresh = Ssthresh(p), !.cwnd = Min({Ssthresh(p) + 3 * MSS, MaxCwnd}),
                               !.flags = @ \cup {"INFR"}]

\* The probe carries the first byte again; the queues keep it.
tcp_zero_window_probe(p, mem) ==
    IF p.unacked \o p.unsent # <<>> /\ mem THEN tcp_output_alloc_header(p) ELSE p

\* tcp_pcb_purge; the pcb then leaves its list and goes back to the pool.
tcp_pcb_purge(p) ==
    [p EXCEPT !.unsent = <<>>, !.unacked = <<>>, !.hrt = FALSE]
Freed(p) == [tcp_pcb_purge(p) EXCEPT !.state = "FREE"]
TimeWait(p) == [tcp_pcb_purge(p) EXCEPT !.state = "TIME_WAIT"]
-----------------------------------------------------------------------------
(* Receive window *)

\* Mutant of tcp_update_rcv_ann_wnd: the announced window is never reduced.
room_kept(p) == p

\* The right edge moves in steps of at least a segment, and never back.
tcp_update_rcv_ann_wnd(p) ==
    IF p.rcv_nxt + p.rcv_wnd >= p.right_edge + Min({TcpWnd \div 2, MSS})
    THEN [p EXCEPT !.rcv_ann_wnd = p.rcv_wnd]
    ELSE [p EXCEPT !.rcv_ann_wnd = Max({0, p.right_edge - p.rcv_nxt})]

\* How much tcp_update_rcv_ann_wnd opens the window.
Inflation(p) ==
    LET d == p.rcv_nxt + p.rcv_wnd - p.right_edge
    IN IF d >= Min({TcpWnd \div 2, MSS}) THEN d ELSE 0

\* tcp_ack: every second packet is acknowledged at once, others by the timer.
tcp_ack(p) ==
    IF ~p.delack THEN tcp_recompute_timers([p EXCEPT !.acks = 1, !.delack = TRUE])
    ELSE IF p.acks + 1 >= 2
         THEN tcp_recompute_timers([p EXCEPT !.acks = @ + 1, !.delack = FALSE,
                                             !.flags = @ \cup {"ACK_NOW"}])
         ELSE [p EXCEPT !.acks = @ + 1]
tcp_ack_now(p) == [p EXCEPT !.flags = @ \cup {"ACK_NOW"}]
-----------------------------------------------------------------------------
(* The application *)

Running == ~hung /\ pcb.state # "FREE"

\* tcp_output(p, mem) is the last call of a step.
Output(p, mem) ==
    /\ pcb' = tcp_output(p, mem)
    /\ owed' = (owed /\ ~(Sends(p, mem) /\ p.state # "SYN_SENT"))
    /\ starved' = (starved \/ (WantsEmptyAck(p) /\ ~mem))
Quiet == UNCHANGED <<owed, starved>>

tcp_connect(mem) ==
    /\ Running /\ pcb.state = "CLOSED"
    /\ LET w == tcp_enqueue_flags(pcb, {"SYN"}, mem)
       IN IF w.ok THEN Output([w.pcb EXCEPT !.state = "SYN_SENT"], mem)
          ELSE pcb' = w.pcb /\ Quiet
    /\ UNCHANGED hung

\* bsys_tcp_sendv: as much of the entry as snd_buf has room for.
bsys_tcp_sendv(n, mem) ==
    /\ Running /\ pcb.state # "CLOSED" /\ pcb.snd_lbb + n <= MaxBytes + 1
    /\ LET len == Min({n, pcb.snd_buf})
           w == tcp_write(pcb, len, mem)
       IN /\ len > 0
          /\ IF w.ok THEN Output(w.pcb, mem) ELSE pcb' = w.pcb /\ Quiet
    /\ UNCHANGED hung

\* The application gives back len of the bytes it was handed.
tcp_recved(len, mem) ==
    /\ Running /\ pcb.rcv_wnd + len <= TcpWnd
    /\ LET p == [pcb EXCEPT !.rcv_wnd = @ + len]
           q == tcp_update_rcv_ann_wnd(p)
       IN IF Inflation(p) >= TcpWnd \div 4 THEN Output(tcp_ack_now(q), mem)
          ELSE pcb' = q /\ Quiet
    /\ UNCHANGED hung

\* Unread data turns a close into a reset.
ResetInstead(p, rst) ==
    rst /\ p.state \in {"ESTABLISHED", "CLOSE_WAIT"} /\ p.rcv_wnd # TcpWnd
AfterFin == [SYN_RCVD |-> "FIN_WAIT_1", ESTABLISHED |-> "FIN_WAIT_1", CLOSE_WAIT |-> "LAST_ACK"]

tcp_close_shutdown(p, rst, mem) ==
    IF ResetInstead(p, rst)
    THEN pcb' = (IF p.state = "ESTABLISHED" THEN TimeWait(p) ELSE Freed(p)) /\ Quiet
    ELSE IF p.state \in {"CLOSED", "SYN_SENT"} THEN pcb' = Freed(p) /\ Quiet
    ELSE IF p.state \in DOMAIN AfterFin
    THEN LET w == tcp_send_fin(p, mem)
         IN IF w.ok THEN Output([w.pcb EXCEPT !.state = AfterFin[p.state]], mem)
            ELSE pcb' = w.pcb /\ Quiet
    ELSE pcb' = p /\ Quiet

RxClosed(p) == [p EXCEPT !.flags = @ \cup {"RXCLOSED"}]
tcp_close(mem) == Running /\ tcp_close_shutdown(RxClosed(pcb), TRUE, mem) /\ UNCHANGED hung

\* Shutting both directions is tcp_close.
tcp_shutdown(rx, tx, mem) ==
    /\ Running /\ ~(rx /\ tx)
    /\ IF tx /\ pcb.state \in DOMAIN AfterFin THEN tcp_close_shutdown(pcb, FALSE, mem)
       ELSE pcb' = (IF rx THEN RxClosed(pcb) ELSE pcb) /\ Quiet
    /\ UNCHANGED hung
-----------------------------------------------------------------------------
(* The unified timer *)

\* Inside its own callback the hrtimer counts as active: tcp_recompute_timers
\* either does nothing or, when it finds an earlier expiry, cancels the timer
\* and so waits for the callback it is in.  No recomputation starts it again.
delayed_ack_due(p, mem) ==
    [tcp_output(tcp_ack_now(p), mem) EXCEPT !.flags = @ \ {"ACK_NOW"}, !.delack = FALSE]

GivesUp(p) == (p.state = "SYN_SENT" /\ p.nrtx = SynMaxRtx) \/ p.nrtx = MaxRtx
retransmit_due(p) == [p EXCEPT !.rexmit = FALSE, !.ssthresh = Ssthresh(p), !.cwnd = MSS]

\* due: the timers that have expired.  Giving up purges the pcb, which cancels
\* the timer from its own callback.  The end of the function returns nothing:
\* the timer is started again or not.
tcp_unified_timer_handler(due, mem) ==
    /\ Running /\ pcb.hrt
    /\ "delack" \in due => pcb.delack
    /\ "rexmit" \in due => pcb.rexmit /\ pcb.nrtx <= MaxRtx      \* bound
    /\ "persist" \in due => pcb.persist
    /\ LET now == tcp_ack_now(pcb)
           ack == "delack" \in due
           p == IF ack THEN delayed_ack_due(pcb, mem) ELSE pcb
           \* a segment sent for the acknowledgement re-arms the retransmission
           late == "rexmit" \in due /\ ~(ack /\ CanSend(now))
           again == late /\ p.unacked # <<>> /\ p.snd_wnd > 0
           rtx == retransmit_due(p)
           q == [p EXCEPT !.rexmit = @ /\ ~(late /\ p.unacked = <<>>)]
           r == IF "persist" \in due THEN tcp_zero_window_probe(q, mem) ELSE q
           last == IF again THEN tcp_rexmit_rto(rtx, mem) ELSE r
           acked == ack /\ Sends(now, mem)
           resent == again /\ Sends(requeue_unacked(rtx), mem)
           probed == ~again /\ "persist" \in due /\ mem /\ q.unacked \o q.unsent # <<>>
       IN /\ IF again /\ GivesUp(p)
             THEN pcb' = Freed(p) /\ hung' = TRUE
             ELSE /\ \E active \in IF again THEN {FALSE} ELSE BOOLEAN :
                         pcb' = [last EXCEPT !.hrt = active]
                  /\ hung' \in IF AnyTimer(last) /\ (again => acked \/ resent) THEN BOOLEAN ELSE {FALSE}
          /\ owed' = (owed /\ ~(acked \/ resent \/ probed))
          /\ starved' = (starved \/ (ack /\ WantsEmptyAck(now) /\ ~mem))
-----------------------------------------------------------------------------
(* The peer, through tcp_in.c *)

\* A window announced with acknowledgement a.
Window(p, w) ==
    [p EXCEPT !.snd_wnd = w, !.snd_wnd_max = Max({@, w}), !.persist = (w = 0)]
Announces(p, a, w) == w \in PeerWnds /\ (MayShrink \/ a + w >= p.lastack + p.snd_wnd)

\* The first segment that acknowledgement a does not cover to its end.
FirstLeft(q, a) == Min({i \in 1..Len(q) + 1 : i > Len(q) \/ End(q[i]) > a})
Left(q, a) == SubSeq(q, FirstLeft(q, a), Len(q))
Gone(q, a) == SubSeq(q, 1, FirstLeft(q, a) - 1)

Acked(p, a) ==
    LET q == Left(p.unacked, a)
    IN [p EXCEPT !.unacked = q, !.unsent = Left(@, a), !.lastack = a,
                 !.snd_buf = @ + a - p.lastack, !.nrtx = 0, !.flags = @ \ {"INFR"},
                 !.snd_queuelen = @ - PbufCount(Gone(p.unacked, a)) - PbufCount(Gone(p.unsent, a)),
                 !.rexmit = (q # <<>>),
                 !.cwnd = Min({MaxCwnd, IF "INFR" \in p.flags THEN p.ssthresh ELSE @ + MSS})]

Sequenced == pcb.state \notin {"CLOSED", "SYN_SENT", "FREE", "TIME_WAIT"}

\* The peer's SYN-ACK.
SynAcked(w, mem) ==
    /\ Running /\ pcb.state = "SYN_SENT" /\ pcb.snd_nxt > pcb.lastack
    /\ \E s \in ToSet(pcb.unacked) : "SYN" \in s.ctl
    /\ w \in PeerWnds
    /\ LET p == Window(Acked(pcb, 1), w)
       IN Output(tcp_ack_now(tcp_recompute_timers([p EXCEPT !.state = "ESTABLISHED"])), mem)
    /\ UNCHANGED hung

AfterFinAck(p, a) ==
    IF "FIN" \notin p.flags \/ a < p.snd_nxt \/ p.unsent # <<>> THEN p
    ELSE CASE p.state = "FIN_WAIT_1" -> [p EXCEPT !.state = "FIN_WAIT_2"]
           [] p.state = "CLOSING" -> TimeWait(p)
           [] p.state = "LAST_ACK" -> Freed(p)
           [] OTHER -> p

AckArrives(a, w, mem) ==
    /\ Running /\ Sequenced /\ a > pcb.lastack /\ a <= pcb.snd_nxt
    /\ Announces(pcb, a, w)
    /\ LET p == AfterFinAck(tcp_recompute_timers(Window(Acked(pcb, a), w)), a)
       IN IF p.state \in {"FREE", "TIME_WAIT"} THEN pcb' = p /\ Quiet ELSE Output(p, mem)
    /\ UNCHANGED hung

WindowArrives(w, mem) ==
    /\ Running /\ Sequenced /\ w # pcb.snd_wnd /\ Announces(pcb, pcb.lastack, w)
    /\ Output(tcp_recompute_timers(Window(pcb, w)), mem)
    /\ UNCHANGED hung

ThirdDupAck(mem) ==
    /\ Running /\ Sequenced /\ pcb.unacked # <<>>
    /\ Output(tcp_rexmit_fast(pcb), mem)
    /\ UNCHANGED hung

\* Data within the announced window, in order.
DataArrives(n, mem) ==
    /\ Running /\ pcb.state \in {"ESTABLISHED", "FIN_WAIT_1", "FIN_WAIT_2"}
    /\ pcb.rcv_nxt + n <= Min({pcb.right_edge, MaxRcv})
    /\ LET p == [pcb EXCEPT !.rcv_nxt = @ + n, !.rcv_wnd = @ - n]
           q == tcp_ack(tcp_update_rcv_ann_wnd(p))
       IN /\ pcb' = tcp_output(q, mem)
          /\ owed' = ~Sends(q, mem)
          /\ starved' = (starved \/ (WantsEmptyAck(q) /\ ~mem))
    /\ UNCHANGED hung

FinArrives(mem) ==
    /\ Running /\ pcb.state \in {"ESTABLISHED", "FIN_WAIT_1", "FIN_WAIT_2"}
    /\ LET p == tcp_ack_now([pcb EXCEPT !.state = CASE @ = "ESTABLISHED" -> "CLOSE_WAIT"
                                                    [] @ = "FIN_WAIT_1" -> "CLOSING"
                                                    [] OTHER -> "TIME_WAIT"])
       IN /\ pcb' = tcp_output(p, mem)
          /\ owed' = ~Sends(p, mem)
          /\ starved' = (starved \/ (WantsEmptyAck(p) /\ ~mem))
    /\ UNCHANGED hung

Next ==
    \E mem \in BOOLEAN :
        \/ tcp_connect(mem)
        \/ \E n \in 1..MaxBytes : bsys_tcp_sendv(n, mem)
        \/ \E n \in 1..TcpWnd : tcp_recved(n, mem)
        \/ tcp_close(mem)
        \/ \E rx, tx \in BOOLEAN : tcp_shutdown(rx, tx, mem)
        \/ \E due \in SUBSET {"delack", "rexmit", "persist"} : tcp_unified_timer_handler(due, mem)
        \/ \E w \in PeerWnds : SynAcked(w, mem)
        \/ \E a \in 1..pcb.snd_nxt, w \in PeerWnds : AckArrives(a, w, mem)
        \/ \E w \in PeerWnds : WindowArrives(w, mem)
        \/ ThirdDupAck(mem)
        \/ \E n \in 1..MaxRcv : DataArrives(n, mem)
        \/ FinArrives(mem)

Spec == Init /\ [][Next]_vars
-----------------------------------------------------------------------------
(* Properties *)

Alive == pcb.state \notin {"FREE", "TIME_WAIT", "CLOSED"}
Queued == pcb.unacked \o pcb.unsent
Ascending(q) == \A i \in 1..Len(q) - 1 : q[i].seq < q[i + 1].seq

\* Writing, sending, retransmitting (all of the queue or its first segment)
\* and acknowledging move segments between tcp_write's queue and the queue of
\* sent segments: every byte that is not acknowledged is in exactly one
\* segment, at its own sequence number, and each queue is in order.
StreamKept ==
    Alive =>
        /\ \A n \in pcb.lastack .. pcb.snd_lbb - 1 :
              Cardinality({i \in DOMAIN Queued : Queued[i].seq <= n /\ n < End(Queued[i])}) = 1
        /\ \A s \in ToSet(Queued) : s.data = Bytes(s.seq, s.seq + Len(s.data))
        /\ Ascending(pcb.unacked) /\ Ascending(pcb.unsent)

\* snd_buf and snd_queuelen, which every call adds to and takes from on its
\* own, count what the queues hold, so that the sender neither stops short
\* nor queues more than its limits.
AccountsAgree ==
    Alive =>
        /\ pcb.snd_buf + pcb.snd_lbb - pcb.lastack = SndBuf
        /\ pcb.snd_queuelen = PbufCount(Queued)
        /\ pcb.snd_queuelen <= SndQueueLen

\* Received data that nothing has acknowledged is marked for an immediate
\* acknowledgement or waits for the delayed one, whatever was sent, held back
\* by the window or retransmitted since, unless memory ran out for it.
AckNotForgotten ==
    (Alive /\ owed /\ ~starved) => ("ACK_NOW" \in pcb.flags \/ pcb.delack)

\* The window announced to the peer is covered by receive buffer: data up to
\* the announced edge never exceeds what rcv_wnd has room for.
PromiseKept ==
    Alive => pcb.right_edge <= pcb.rcv_nxt + pcb.rcv_wnd
=============================================================================
