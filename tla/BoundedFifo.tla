---------------------------- MODULE BoundedFifo ----------------------------
(***************************************************************************)
(* What a kns ring promises its callers: a FIFO of at most Capacity        *)
(* objects.  A producer hands over a table of objects and a prefix of it   *)
(* enters the queue in one step, or nothing does; a consumer takes a       *)
(* prefix of the queue in one step and hands it to its caller later.       *)
(***************************************************************************)
EXTENDS Naturals, Sequences

CONSTANTS Producers, Consumers, Objs, Capacity, BurstSizes

VARIABLES
    queue,    \* the objects in the queue, oldest first
    pending,  \* pending[p]: objects p was asked to enqueue and has not yet
    taken     \* taken[c]: objects c removed and has not yet handed over

fifoVars == <<queue, pending, taken>>

Init ==
    /\ queue = << >>
    /\ pending = [p \in Producers |-> << >>]
    /\ taken = [c \in Consumers |-> << >>]

\* A caller starts an enqueue of the objects in objs.
Offer(p, objs) ==
    /\ pending[p] = << >>
    /\ pending' = [pending EXCEPT ![p] = objs]
    /\ UNCHANGED <<queue, taken>>

\* The first k pending objects enter the queue together; the others are
\* refused (k = 0: all are).
Put(p, k) ==
    /\ k \in 0..Len(pending[p])
    /\ Len(queue) + k <= Capacity
    /\ queue' = queue \o SubSeq(pending[p], 1, k)
    /\ pending' = [pending EXCEPT ![p] = << >>]
    /\ UNCHANGED taken

\* The k oldest objects leave the queue together.
Get(c, k) ==
    /\ taken[c] = << >>
    /\ k \in 1..Len(queue)
    /\ taken' = [taken EXCEPT ![c] = SubSeq(queue, 1, k)]
    /\ queue' = SubSeq(queue, k + 1, Len(queue))
    /\ UNCHANGED pending

\* c returns to its caller with what it took.
HandOver(c) ==
    /\ taken[c] # << >>
    /\ taken' = [taken EXCEPT ![c] = << >>]
    /\ UNCHANGED <<queue, pending>>

Next ==
    \/ \E p \in Producers :
          \/ \E n \in BurstSizes \ {0} : \E objs \in [1..n -> Objs] : Offer(p, objs)
          \/ \E k \in 0..Len(pending[p]) : Put(p, k)
    \/ \E c \in Consumers :
          \/ \E k \in 1..Len(queue) : Get(c, k)
          \/ HandOver(c)

Spec == Init /\ [][Next]_fifoVars
=============================================================================
