------------------------------- MODULE TcpApi -------------------------------
(***************************************************************************)
(* The plumbing between the application and TCP: net/tcp_api.c, with what  *)
(* it calls in net/tcp.c reduced to the life of a pcb.                     *)
(*                                                                         *)
(* A connection has two control blocks.  The tcp_pcb belongs to the stack, *)
(* which may free it at any time (a reset, an abort); the tcpapi_pcb       *)
(* belongs to the application, which names it by a handle until it closes  *)
(* it.  Each points to the other (api->pcb, pcb->callback_arg).            *)
(*                                                                         *)
(* One CPU: its calls and the events of the stack are atomic and alternate *)
(* in any order.  The input half of the stack is not in the repository;    *)
(* the actions that deliver its events are external.  BUG_ON is compiled   *)
(* out, as in FlowGroup.                                                   *)
(***************************************************************************)
EXTENDS Integers, Sequences, FiniteSets, FiniteSetsExt, SequencesExt

CONSTANTS
    Apis,          \* elements of pcb_mempool; an element's index is its handle
    Pcbs,          \* elements of the stack's pcb mempool
    Ids,           \* elements of id_mempool
    NULL,
    BufLen,        \* bytes in a pbuf
    MaxChain,      \* bound: pbufs in a chain handed to on_recv
    MaxBufs,       \* bound: pbufs received on a connection
    MaxFilters,    \* perfect filters the NIC has room for
    SndBuf         \* TCP_SND_BUF

ASSUME BoundAssumption ==
    /\ NULL \notin Apis \cup Pcbs \cup Ids /\ IsFiniteSet(Apis)
    /\ BufLen \in Nat \ {0} /\ MaxChain \in Nat \ {0}
    /\ MaxBufs \in Nat /\ MaxFilters \in Nat
    /\ SndBuf \in Nat

VARIABLES
    apiFree,       \* pcb_mempool: the free elements, the head first
    idFree,        \* id_mempool: the free elements
    api,           \* struct tcpapi_pcb; a freed element keeps its contents
    pcb,           \* struct tcp_pcb: state, the list it is on, callback_arg,
                   \* bytes written and not yet acknowledged
    filters,       \* perfect filters set in the NIC
    fault,         \* the kernel followed a bad pointer, or called panic
    \* the application: handles it may use, bufs it was given on each, bytes
    \* it gave back
    open, told, acked,
    \* history: bufs the stack passed to on_recv, bytes of them freed
    rx, freed

apiVars == <<apiFree, idFree, api>>
appVars == <<open, told, acked>>
histVars == <<rx, freed>>
vars == <<apiVars, pcb, filters, fault, appVars, histVars>>

FreePcb == [state |-> "FREE", list |-> "none", arg |-> NULL, queued |-> 0]
FreeApi == [alive |-> FALSE, pcb |-> NULL, id |-> NULL, recvd |-> <<>>, accepted |-> FALSE]

\* A memory of zeroes, as the pages of the datastores are when the kernel
\* hands them out.
Init ==
    /\ apiFree = SetToSeq(Apis) /\ idFree = Ids
    /\ api = [a \in Apis |-> FreeApi]
    /\ pcb = [p \in Pcbs |-> FreePcb]
    /\ filters = 0 /\ fault = FALSE
    /\ open = {} /\ told = [a \in Apis |-> <<>>] /\ acked = [a \in Apis |-> 0]
    /\ rx = [a \in Apis |-> 0] /\ freed = [a \in Apis |-> 0]

Allocated(a) == a \notin Range(apiFree)
Live(p) == pcb[p].state # "FREE"
Crash == fault' = TRUE /\ UNCHANGED <<apiVars, pcb, filters, appVars, histVars>>

\* The pbufs in a list of chains: the j-th of the i-th chain.
Pbufs(q) == {b \in (DOMAIN q) \X (1..MaxChain) : b[2] <= q[b[1]]}
Bufs(q) == Cardinality(Pbufs(q))
-----------------------------------------------------------------------------
(* The stack *)

\* memp_free after the pcb left its list: TCP_RMV writes through link.pprev,
\* which is NULL in a pcb that is on no list.
Removable(p) == Live(p) /\ pcb[p].list # "none"
tcp_pcb_remove(p) == pcb' = [pcb EXCEPT ![p] = FreePcb]

\* tcp_close_with_reset: RST, purge, unlink, free; no event.
tcp_close_with_reset(p) == tcp_pcb_remove(p)

\* mark_dead: the filter of an id is removed (there is none for an accepted
\* connection, so the NIC is not changed), the handle is dead, the
\* application is told its number.
mark_dead(a) == [api[a] EXCEPT !.alive = FALSE]

\* Mutant of on_err: the element keeps its pointer to the pcb.
on_err_kept(a) == mark_dead(a)

\* on_err, for the errors the stack reports: ERR_ABRT, ERR_RST, ERR_CLSD.
on_err(a) == [mark_dead(a) EXCEPT !.pcb = NULL]

\* tcp_abandon: unlink and free the pcb, then TCP_EVENT_ERR with the argument
\* it had, which tells the application the handle.
tcp_abandon(p) ==
    /\ tcp_pcb_remove(p)
    /\ api' = [api EXCEPT ![pcb[p].arg] = on_err(pcb[p].arg)]
    /\ open' = open \cup {pcb[p].arg}

\* The peer resets the connection, refuses it, or the stack gives up.
PcbLost(p) ==
    /\ ~fault /\ pcb[p].list = "active"
    /\ tcp_abandon(p)
    /\ UNCHANGED <<apiFree, idFree, filters, fault, told, acked, histVars>>

\* lwip_tcp_event with LWIP_EVENT_ACCEPT: an element for the connection and
\* one for the name of the peer; the stack aborts the connection on ERR_MEM.
on_accept(p) ==
    /\ apiFree # <<>> /\ idFree # {}
    /\ LET a == Head(apiFree) IN
       /\ \E i \in idFree :
            /\ idFree' = idFree \ {i}
            /\ api' = [api EXCEPT ![a] = [FreeApi EXCEPT !.alive = TRUE, !.pcb = p, !.id = i]]
       /\ apiFree' = Tail(apiFree)
       /\ pcb' = [pcb EXCEPT ![p] = [FreePcb EXCEPT !.state = "ESTABLISHED", !.list = "active", !.arg = a]]
       /\ open' = open \cup {a}
       /\ told' = [told EXCEPT ![a] = <<>>] /\ acked' = [acked EXCEPT ![a] = 0]
       /\ rx' = [rx EXCEPT ![a] = 0] /\ freed' = [freed EXCEPT ![a] = 0]

\* The other outcome of on_accept, with what was allocated freed again, and
\* tcp_abort of a pcb that has no argument: nothing is left of it.
AcceptFails ==
    /\ apiFree = <<>> \/ idFree = {}
    /\ UNCHANGED <<apiVars, pcb, appVars, histVars>>

\* A handshake ends.
Accept(p) ==
    /\ ~fault /\ ~Live(p)
    /\ on_accept(p) \/ AcceptFails
    /\ UNCHANGED <<filters, fault>>

\* recv_a_pbuf: one event for each pbuf of the chain.
recv_a_pbuf(a, first, n) == [i \in 1..n |-> first + i - 1]

\* Mutant of on_recv: the application is told before it has accepted.
on_recv_always(a, n) ==
    /\ api' = [api EXCEPT ![a].recvd = Append(@, n)]
    /\ rx' = [rx EXCEPT ![a] = @ + n]
    /\ told' = [told EXCEPT ![a] = @ \o recv_a_pbuf(a, rx[a] + 1, n)]

\* on_recv with data: the chain goes to the end of the list, and to the
\* application if it has accepted the connection.
on_recv(a, n) ==
    /\ api' = [api EXCEPT ![a].recvd = Append(@, n)]
    /\ rx' = [rx EXCEPT ![a] = @ + n]
    /\ told' = IF api[a].accepted
               THEN [told EXCEPT ![a] = @ \o recv_a_pbuf(a, rx[a] + 1, n)]
               ELSE told

Receive(p, n) ==
    /\ ~fault /\ pcb[p].state = "ESTABLISHED" /\ rx[pcb[p].arg] + n <= MaxBufs
    /\ on_recv(pcb[p].arg, n)
    /\ UNCHANGED <<apiFree, idFree, pcb, filters, fault, open, acked, freed>>

\* on_recv without data: the peer has closed its side.
on_recv_closed(p) ==
    /\ ~fault /\ pcb[p].state = "ESTABLISHED"
    /\ api' = [api EXCEPT ![pcb[p].arg] = mark_dead(pcb[p].arg)]
    /\ pcb' = [pcb EXCEPT ![p].state = "CLOSE_WAIT"]
    /\ UNCHANGED <<apiFree, idFree, filters, fault, appVars, histVars>>

\* on_connected with ERR_OK.
on_connected(p) ==
    /\ ~fault /\ pcb[p].state = "SYN_SENT"
    /\ pcb' = [pcb EXCEPT ![p].state = "ESTABLISHED"]
    /\ UNCHANGED <<apiVars, filters, fault, appVars, histVars>>

\* on_sent: the peer has acknowledged data; the application is told.
on_sent(p, len) ==
    /\ ~fault /\ pcb[p].state # "SYN_SENT" /\ len <= pcb[p].queued
    /\ pcb' = [pcb EXCEPT ![p].queued = @ - len]
    /\ UNCHANGED <<apiVars, filters, fault, appVars, histVars>>
-----------------------------------------------------------------------------
(* The application's calls; the application uses a handle from the event   *)
(* that gave it until it closes it, accepts a connection once and gives    *)
(* back bytes it was given.                                                *)

\* handle_to_tcpapi: alive overlaps the link of a free element, which is NULL
\* in the last one: that element passes for an allocated one.
handle_to_tcpapi(h) == IF Allocated(h) THEN TRUE ELSE h = Last(apiFree)

bsys_tcp_accept(h) ==
    /\ ~fault /\ h \in open /\ handle_to_tcpapi(h) /\ ~api[h].accepted
    /\ idFree' = IF api[h].id = NULL THEN idFree ELSE idFree \cup {api[h].id}
    /\ api' = [api EXCEPT ![h].id = NULL, ![h].accepted = TRUE]
    /\ LET n == Bufs(api[h].recvd) IN
       told' = [told EXCEPT ![h] = @ \o recv_a_pbuf(h, rx[h] - n + 1, n)]
    /\ UNCHANGED <<apiFree, pcb, filters, fault, open, acked, histVars>>

\* bsys_tcp_sendv: -RET_CLOSED if the connection is dead, else as much as
\* snd_buf has room for is written to the pcb and sent.
bsys_tcp_sendv(h, len) ==
    /\ ~fault /\ h \in open /\ handle_to_tcpapi(h) /\ api[h].alive
    /\ IF api[h].pcb = NULL \/ ~Live(api[h].pcb)
       THEN Crash
       ELSE /\ pcb' = [pcb EXCEPT ![api[h].pcb].queued = Min({@ + len, SndBuf})]
            /\ UNCHANGED <<apiVars, filters, fault, appVars, histVars>>

\* Mutant of recv_done_rest: the whole list goes with the first chain.
recv_done_rest_all(q, len) == IF len < BufLen THEN q ELSE <<>>

\* The chains that are left when len bytes are given back: a chain is freed
\* when len covers the length of its FIRST pbuf, and only that length is taken
\* from len.
recv_done_rest(q, len) == SubSeq(q, len \div BufLen + 1, Len(q))

bsys_tcp_recv_done(h, len) ==
    /\ ~fault /\ h \in open /\ handle_to_tcpapi(h)
    /\ len \in 1..(Len(told[h]) * BufLen - acked[h])
    /\ LET rest == recv_done_rest(api[h].recvd, len) IN
       /\ api' = [api EXCEPT ![h].recvd = rest]
       /\ freed' = [freed EXCEPT ![h] = @ + (Bufs(api[h].recvd) - Bufs(rest)) * BufLen]
    /\ acked' = [acked EXCEPT ![h] = @ + len]
    /\ fault' = (api[h].pcb # NULL /\ ~Live(api[h].pcb))    \* tcp_recved
    /\ UNCHANGED <<apiFree, idFree, pcb, filters, open, told, rx>>

\* bsys_tcp_close: reset, free the list, the name and the element.  The
\* fields of the freed element stay as they are.
bsys_tcp_close(h) ==
    /\ ~fault /\ h \in open /\ handle_to_tcpapi(h)
    /\ IF \/ api[h].pcb # NULL /\ ~Removable(api[h].pcb)
          \/ api[h].id # NULL /\ api[h].id \in idFree
       THEN Crash
       ELSE /\ IF api[h].pcb = NULL THEN UNCHANGED pcb ELSE tcp_close_with_reset(api[h].pcb)
            /\ freed' = [freed EXCEPT ![h] = rx[h] * BufLen]
            /\ idFree' = IF api[h].id = NULL THEN idFree ELSE idFree \cup {api[h].id}
            /\ apiFree' = <<h>> \o apiFree
            /\ open' = open \ {h}
            /\ UNCHANGED <<api, filters, fault, told, acked, rx>>

\* get_local_port_and_set_queue: a perfect filter if the NIC has room for
\* one, else a port whose hash leads to this CPU.
get_local_port_and_set_queue ==
    filters' = IF filters < MaxFilters THEN filters + 1 ELSE filters

\* The element is filled in except for id, which keeps what it held.
NewApi(a, p) ==
    [api EXCEPT ![a] = [FreeApi EXCEPT !.alive = TRUE, !.pcb = p, !.id = api[a].id, !.accepted = TRUE]]

\* tcp_bind puts the pcb on the bound list, tcp_connect moves it to the
\* active one once the SYN is queued.  The port counter of the CPU never
\* gives a port that is in use.
Connect(a, p) ==
    /\ api' = NewApi(a, p)
    /\ pcb' = [pcb EXCEPT ![p] = [FreePcb EXCEPT !.state = "SYN_SENT", !.list = "active", !.arg = a]]

\* tcp_enqueue_flags found no memory: tcp_abort, whose event marks the new
\* element dead and tells the application its handle.
ConnectFails(a, p) ==
    /\ api' = [api EXCEPT ![a] = [NewApi(a, p)[a] EXCEPT !.alive = FALSE, !.pcb = NULL]]
    /\ UNCHANGED pcb

bsys_tcp_connect ==
    /\ ~fault
    /\ get_local_port_and_set_queue
    /\ \/ /\ apiFree # <<>>
          /\ LET a == Head(apiFree) IN
             /\ \E p \in Pcbs : ~Live(p) /\ (Connect(a, p) \/ ConnectFails(a, p))
             /\ apiFree' = Tail(apiFree) /\ open' = open \cup {a}
             /\ told' = [told EXCEPT ![a] = <<>>] /\ acked' = [acked EXCEPT ![a] = 0]
             /\ rx' = [rx EXCEPT ![a] = 0] /\ freed' = [freed EXCEPT ![a] = 0]
          /\ UNCHANGED <<idFree, fault>>
       \/ \* panic in tcp_alloc, or tcp_abort of a pcb that was never bound
          /\ apiFree = <<>> \/ \A p \in Pcbs : Live(p)
          /\ fault' = TRUE
          /\ UNCHANGED <<apiVars, pcb, appVars, histVars>>

Next ==
    \/ \E p \in Pcbs : PcbLost(p) \/ Accept(p) \/ on_recv_closed(p) \/ on_connected(p)
    \/ \E p \in Pcbs, n \in 1..MaxChain : Receive(p, n)
    \/ \E h \in Apis : bsys_tcp_accept(h) \/ bsys_tcp_close(h)
    \/ \E h \in Apis, len \in 1..(MaxBufs * BufLen) : bsys_tcp_recv_done(h, len)
    \/ \E p \in Pcbs, len \in 1..SndBuf : on_sent(p, len)
    \/ \E h \in Apis, len \in 1..SndBuf : bsys_tcp_sendv(h, len)
    \/ bsys_tcp_connect

Spec == Init /\ [][Next]_vars
-----------------------------------------------------------------------------
ApiType == [alive : BOOLEAN, pcb : Pcbs \cup {NULL}, id : Ids \cup {NULL},
            recvd : Seq(1..MaxChain), accepted : BOOLEAN]
PcbType == [state : {"FREE", "SYN_SENT", "ESTABLISHED", "CLOSE_WAIT"},
            list : {"none", "active"}, arg : Apis \cup {NULL}, queued : 0..SndBuf]

\* Every variable holds a value of its C type.
TypeOK ==
    /\ apiFree \in Seq(Apis) /\ idFree \subseteq Ids
    /\ api \in [Apis -> ApiType] /\ pcb \in [Pcbs -> PcbType]
    /\ filters \in 0..MaxFilters /\ fault \in BOOLEAN
    /\ open \subseteq Apis /\ told \in [Apis -> Seq(1..MaxBufs)]
    /\ acked \in [Apis -> Nat] /\ rx \in [Apis -> 0..MaxBufs] /\ freed \in [Apis -> Nat]

\* tcp_api.c keeps a block of its own because the stack frees its pcbs
\* whenever it likes: the two sides always agree.  An element that names a
\* pcb names one that exists and points back to it, a pcb points to an
\* element that is allocated, and a connection that is alive (which
\* bsys_tcp_sendv takes for having a pcb) has one.
BlocksAgree ==
    /\ \A a \in Apis : Allocated(a) =>
         /\ api[a].pcb # NULL => Live(api[a].pcb) /\ pcb[api[a].pcb].arg = a
         /\ api[a].alive => api[a].pcb # NULL
    /\ \A p \in Pcbs : Live(p) => Allocated(pcb[p].arg) /\ api[pcb[p].arg].pcb = p

\* Data that comes before the application accepts is kept and handed over
\* then: at every moment the application was given a prefix of what was
\* received, each pbuf once and in order, and all of it once it has accepted.
GivenInOrder == \A h \in open :
    /\ told[h] = [i \in 1..Len(told[h]) |-> i]
    /\ Len(told[h]) = IF api[h].accepted THEN rx[h] ELSE 0

\* The application reads the data where the driver put it: bsys_tcp_recv_done
\* frees no more than the application has given back, and what is on the list
\* and what is freed is all that was received.
FreedOnlyGivenBack == \A h \in open :
    /\ freed[h] <= acked[h]
    /\ freed[h] + Bufs(api[h].recvd) * BufLen = rx[h] * BufLen

\* "Otherwise, we'd be plagued by use-after-free problems" (tcp_api.c): the
\* calls of an application that keeps to its handles never make the kernel
\* follow a pointer to something freed or unlinked, nor stop it.
NoFault == ~fault
=============================================================================
