--------------------------- MODULE IxgbeSyncProofs --------------------------
(***************************************************************************)
(* Proofs about IxgbeAccess and IxgbeSync.  A function of IxgbeAccess is a *)
(* set of paths, so what it does with the semaphores is a predicate on the *)
(* set (Runs, Keeps) with a lemma for each way to build one and for each   *)
(* function; what is left of a call is then lawful from any state, and one *)
(* lemma for each action of IxgbeSync keeps the invariant.                 *)
(***************************************************************************)
EXTENDS IxgbeSync, SequenceTheorems, WellFoundedInduction, TLAPS

-----------------------------------------------------------------------------
(* What a path does with the semaphores *)

Masks == {"EEP", "PHY0", "PHY1", "MAC_CSR", "SW_MNG"}
\* What a port's driver takes.
MasksOf(lan) == {"EEP", "MAC_CSR", "SW_MNG", PhySm(lan)}
Events == ({"acq", "busy", "rel", "use", "poke"} \X Masks) \cup ({"word"} \X {"ok", "err", "any"})

\* With the semaphores A the driver may do e, and has B afterwards: it takes
\* what it does not have, gives back what it has (or the semaphore of its PHY,
\* which nobody else's driver takes), touches only what it has (or what the
\* firmware does not touch), and reads a word when it does not have the EEPROM.
Lawful(lan, A, e, B) ==
    \/ e[1] = "acq" /\ e[2] \in MasksOf(lan) \ A /\ B = A \cup {e[2]}
    \/ e[1] = "rel" /\ e[2] \in A \cup {PhySm(lan)} /\ B = A \ {e[2]}
    \/ e[1] = "use" /\ (e[2] \in A \/ (e[2] = "MAC_CSR" /\ ~Lesm)) /\ B = A
    \/ e[1] = "word" /\ "EEP" \notin A /\ B = A
    \/ e[1] \in {"busy", "poke"} /\ B = A

\* The path ev leads from the semaphores A to B; h says what is held between.
Steps(lan, ev, h) == \A i \in 1..Len(ev) : Lawful(lan, h[i - 1], ev[i], h[i])
Trace(lan, ev, A, B) ==
    \E h \in [0..Len(ev) -> SUBSET Masks] : h[0] = A /\ h[Len(ev)] = B /\ Steps(lan, ev, h)

\* Every path of P is lawful, and leads to B with success and to F without.
Runs(lan, P, A, B, F) ==
    \A p \in P : p.ev \in Seq(Events) /\ Trace(lan, p.ev, A, IF p.ret = "ok" THEN B ELSE F)
Keeps(lan, P, A) == Runs(lan, P, A, A, A)

\* The empty path.
LEMMA TraceEmpty ==
    ASSUME NEW lan, NEW A \in SUBSET Masks PROVE Trace(lan, << >>, A, A)
  <1> DEFINE h == [i \in 0..0 |-> A]
  <1>1. h \in [0..Len(<< >>) -> SUBSET Masks] /\ h[0] = A /\ Len(<< >>) = 0  OBVIOUS
  <1> HIDE DEF h
  <1> QED BY <1>1 DEF Trace, Steps

\* It leads nowhere else.
LEMMA TraceNone ==
    ASSUME NEW lan, NEW A, NEW B, Trace(lan, << >>, A, B) PROVE A = B
  BY DEF Trace

\* One event.
LEMMA TraceOne ==
    ASSUME NEW lan, NEW e, NEW A \in SUBSET Masks, NEW B \in SUBSET Masks, Lawful(lan, A, e, B)
    PROVE  Trace(lan, <<e>>, A, B)
  <1> DEFINE h == [i \in 0..1 |-> IF i = 0 THEN A ELSE B]
  <1>1. h \in [0..1 -> SUBSET Masks] /\ h[0] = A /\ h[1] = B  OBVIOUS
  <1>2. Len(<<e>>) = 1 /\ <<e>>[1] = e  OBVIOUS
  <1> HIDE DEF h
  <1>3. ASSUME NEW i \in 1..1 PROVE Lawful(lan, h[i - 1], <<e>>[i], h[i])
    <2>1. i = 1 /\ i - 1 = 0  OBVIOUS
    <2> QED BY <2>1, <1>1, <1>2
  <1>4. Steps(lan, <<e>>, h)  BY <1>2, <1>3 DEF Steps
  <1> QED BY <1>1, <1>2, <1>4 DEF Trace

\* One path after another.
LEMMA TraceConcat ==
    ASSUME NEW lan, NEW s \in Seq(Events), NEW t \in Seq(Events), NEW A, NEW B, NEW C,
           Trace(lan, s, A, B), Trace(lan, t, B, C)
    PROVE  Trace(lan, s \o t, A, C)
  <1>1. PICK g \in [0..Len(s) -> SUBSET Masks] : g[0] = A /\ g[Len(s)] = B /\ Steps(lan, s, g)
    BY DEF Trace
  <1>2. PICK h \in [0..Len(t) -> SUBSET Masks] : h[0] = B /\ h[Len(t)] = C /\ Steps(lan, t, h)
    BY DEF Trace
  <1> DEFINE m == Len(s)
             n == Len(t)
             f == [i \in 0..(m + n) |-> IF i <= m THEN g[i] ELSE h[i - m]]
  <1>3. m \in Nat /\ n \in Nat /\ Len(s \o t) = m + n
    BY LenProperties, ConcatProperties
  <1>4. /\ \A i \in 1..m : (s \o t)[i] = s[i]
        /\ \A i \in 1..n : (s \o t)[m + i] = t[i]
    BY ConcatProperties, LenProperties
  <1>5. f \in [0..(m + n) -> SUBSET Masks] /\ \A i \in 0..m : f[i] = g[i]
    BY <1>3
  <1>6. \A i \in 0..n : f[m + i] = h[i]
    <2> TAKE i \in 0..n
    <2>1. CASE i = 0
      <3>1. f[m] = g[m]  BY <1>3
      <3> QED BY <3>1, <2>1, <1>1, <1>2, <1>3
    <2>2. CASE i # 0
      <3>1. i \in Nat /\ ~(m + i <= m) /\ (m + i) - m = i /\ m + i \in 0..(m + n)  BY <2>2, <1>3
      <3> QED BY <3>1
    <2> QED BY <2>1, <2>2
  <1> HIDE DEF f, m, n
  <1>7. ASSUME NEW i \in 1..(m + n) PROVE Lawful(lan, f[i - 1], (s \o t)[i], f[i])
    <2>1. CASE i <= m
      <3>1. i \in 1..m /\ i - 1 \in 0..m /\ i \in 0..m  BY <2>1, <1>3
      <3>2. Lawful(lan, g[i - 1], s[i], g[i])  BY <1>1, <3>1 DEF Steps, m
      <3> QED BY <3>1, <3>2, <1>4, <1>5
    <2>2. CASE ~(i <= m)
      <3> DEFINE j == i - m
      <3>1. j \in 1..n /\ j - 1 \in 0..n /\ j \in 0..n /\ i = m + j /\ i - 1 = m + (j - 1)
        BY <2>2, <1>3
      <3> HIDE DEF j
      <3>2. Lawful(lan, h[j - 1], t[j], h[j])  BY <1>2, <3>1 DEF Steps, n
      <3> QED BY <3>1, <3>2, <1>4, <1>6
    <2> QED BY <2>1, <2>2
  <1>8. Steps(lan, s \o t, f)  BY <1>3, <1>7 DEF Steps
  <1>9. f[0] = A /\ f[m + n] = C
    <2>1. 0 \in 0..m /\ n \in 0..n  BY <1>3
    <2> QED BY <2>1, <1>1, <1>2, <1>5, <1>6 DEF m, n
  <1> QED BY <1>3, <1>5, <1>8, <1>9 DEF Trace

\* After its first event a path goes on from what that event leaves.
LEMMA TraceTail ==
    ASSUME NEW lan, NEW ev \in Seq(Events), ev # << >>, NEW A, NEW C, Trace(lan, ev, A, C)
    PROVE  \E B \in SUBSET Masks : Lawful(lan, A, Head(ev), B) /\ Trace(lan, Tail(ev), B, C)
  <1>1. PICK h \in [0..Len(ev) -> SUBSET Masks] : h[0] = A /\ h[Len(ev)] = C /\ Steps(lan, ev, h)
    BY DEF Trace
  <1> DEFINE n == Len(ev) - 1
             g == [i \in 0..n |-> h[i + 1]]
  <1>2. n \in Nat /\ Len(ev) = n + 1 /\ Len(Tail(ev)) = n /\ Head(ev) = ev[1]
    BY HeadTailProperties, LenProperties, EmptySeq
  <1>3. \A i \in 1..n : Tail(ev)[i] = ev[i + 1]
    BY HeadTailProperties, <1>2
  <1> HIDE DEF n
  <1>4. /\ \A i \in 0..n : g[i] = h[i + 1] /\ i + 1 \in 0..(n + 1)
        /\ g \in [0..n -> SUBSET Masks]
    BY <1>2, <1>1
  <1> HIDE DEF g
  <1>5. ASSUME NEW i \in 1..n PROVE Lawful(lan, g[i - 1], Tail(ev)[i], g[i])
    <2>1. i - 1 \in 0..n /\ i \in 0..n /\ (i - 1) + 1 = i /\ i + 1 \in 1..(n + 1) /\ (i + 1) - 1 = i
      BY <1>2
    <2>2. Lawful(lan, h[(i + 1) - 1], ev[i + 1], h[i + 1])
      BY <2>1, <1>1, <1>2 DEF Steps
    <2> QED BY <2>1, <2>2, <1>3, <1>4
  <1>6. Trace(lan, Tail(ev), h[1], C)
    <2>1. Steps(lan, Tail(ev), g)  BY <1>2, <1>5 DEF Steps
    <2>2. 0 \in 0..n /\ n \in 0..n /\ 0 + 1 = 1  BY <1>2
    <2>3. g[0] = h[1] /\ g[n] = C  BY <2>2, <1>1, <1>2, <1>4
    <2> QED BY <2>1, <2>3, <1>2, <1>4 DEF Trace
  <1>7. Lawful(lan, A, Head(ev), h[1]) /\ h[1] \in SUBSET Masks
    <2>1. 1 \in 1..Len(ev) /\ 1 - 1 = 0 /\ 1 \in 0..Len(ev)  BY <1>2
    <2>2. Lawful(lan, h[1 - 1], ev[1], h[1])  BY <2>1, <1>1 DEF Steps
    <2> QED BY <2>1, <2>2, <1>1, <1>2
  <1> QED BY <1>6, <1>7

\* Two accesses to one resource that meet are one.
LEMMA TraceJoin ==
    ASSUME NEW lan, NEW s \in Seq(Events), NEW t \in Seq(Events), NEW A, NEW B, NEW C,
           Trace(lan, s, A, B), Trace(lan, t, B, C)
    PROVE  Join(s, t) \in Seq(Events) /\ Trace(lan, Join(s, t), A, C)
  <1>1. CASE s # <<>> /\ t # <<>> /\ s[Len(s)] = t[1] /\ t[1][1] \in {"use", "poke"}
    <2>1. PICK D \in SUBSET Masks : Lawful(lan, B, Head(t), D) /\ Trace(lan, Tail(t), D, C)
      BY <1>1, TraceTail
    <2>2. Head(t) = t[1] /\ Tail(t) \in Seq(Events)  BY <1>1, HeadTailProperties
    <2>3. D = B  BY <1>1, <2>1, <2>2 DEF Lawful
    <2>4. Join(s, t) = s \o Tail(t)  BY <1>1 DEF Join
    <2> QED BY <2>1, <2>2, <2>3, <2>4, TraceConcat, ConcatProperties
  <1>2. CASE ~(s # <<>> /\ t # <<>> /\ s[Len(s)] = t[1] /\ t[1][1] \in {"use", "poke"})
    <2>1. Join(s, t) = s \o t  BY <1>2 DEF Join
    <2> QED BY <2>1, TraceConcat, ConcatProperties
  <1> QED BY <1>1, <1>2

\* P leads to Q: a path of one and then a path of the other.
LEMMA RunsJoined ==
    ASSUME NEW lan, NEW P, NEW A, NEW B, NEW F, NEW L, Runs(lan, P, A, B, F),
           NEW p \in P, NEW q, q.ev \in Seq(Events),
           Trace(lan, q.ev, IF p.ret = "ok" THEN B ELSE F, L)
    PROVE  Join(p.ev, q.ev) \in Seq(Events) /\ Trace(lan, Join(p.ev, q.ev), A, L)
  BY TraceJoin DEF Runs

\* The combinations of IxgbeAccess.  A status without an event.
LEMMA RunsRet ==
    ASSUME NEW lan, NEW r, NEW B \in SUBSET Masks, NEW F \in SUBSET Masks
    PROVE  Runs(lan, Ret(r), IF r = "ok" THEN B ELSE F, B, F)
  <1>1. << >> \in Seq(Events)  OBVIOUS
  <1>2. ASSUME NEW p \in Ret(r) PROVE p.ev = << >> /\ p.ret = r  BY <1>2 DEF Ret
  <1> QED BY <1>1, <1>2, TraceEmpty DEF Runs

\* A status keeps everything.
LEMMA KeepsRet ==
    ASSUME NEW lan, NEW r, NEW A \in SUBSET Masks PROVE Keeps(lan, Ret(r), A)
  BY RunsRet DEF Keeps

\* So does success.
LEMMA KeepsOk ==
    ASSUME NEW lan, NEW A \in SUBSET Masks PROVE Keeps(lan, Ok, A)
  BY KeepsRet DEF Ok

\* One event.
LEMMA RunsDo ==
    ASSUME NEW lan, NEW e \in Events, NEW A \in SUBSET Masks, NEW B \in SUBSET Masks, NEW F,
           Lawful(lan, A, e, B)
    PROVE  Runs(lan, Do(e), A, B, F)
  <1>1. <<e>> \in Seq(Events)  OBVIOUS
  <1>2. ASSUME NEW p \in Do(e) PROVE p.ev = <<e>> /\ p.ret = "ok"  BY <1>2 DEF Do
  <1> QED BY <1>1, <1>2, TraceOne DEF Runs

\* Either of two.
LEMMA RunsUnion ==
    ASSUME NEW lan, NEW P, NEW Q, NEW A, NEW B, NEW F, Runs(lan, P, A, B, F), Runs(lan, Q, A, B, F)
    PROVE  Runs(lan, P \cup Q, A, B, F)
  BY DEF Runs

\* Either of two that keep the semaphores.
LEMMA KeepsUnion ==
    ASSUME NEW lan, NEW P, NEW Q, NEW A, Keeps(lan, P, A), Keeps(lan, Q, A)
    PROVE  Keeps(lan, P \cup Q, A)
  BY RunsUnion DEF Keeps

\* One and then the other, whatever the first returned.
LEMMA RunsSeq ==
    ASSUME NEW lan, NEW P, NEW Q, NEW A, NEW B, NEW F, NEW C, NEW G, Runs(lan, P, A, B, F),
           Runs(lan, Q, B, C, G), Runs(lan, Q, F, C, G)
    PROVE  Runs(lan, P ++ Q, A, C, G)
  <1> SUFFICES ASSUME NEW x \in P ++ Q
               PROVE  x.ev \in Seq(Events) /\ Trace(lan, x.ev, A, IF x.ret = "ok" THEN C ELSE G)
    BY DEF Runs
  <1>1. PICK p \in P, q \in Q : x = [ev |-> Join(p.ev, q.ev), ret |-> q.ret]
    BY DEF ++, Then
  <1>2. x.ev = Join(p.ev, q.ev) /\ x.ret = q.ret  BY <1>1
  <1>3. q.ev \in Seq(Events)
        /\ Trace(lan, q.ev, IF p.ret = "ok" THEN B ELSE F, IF x.ret = "ok" THEN C ELSE G)
    BY <1>2 DEF Runs
  <1> DEFINE L == IF x.ret = "ok" THEN C ELSE G
  <1> HIDE DEF L
  <1>4. Trace(lan, q.ev, IF p.ret = "ok" THEN B ELSE F, L)  BY <1>3 DEF L
  <1>5. Join(p.ev, q.ev) \in Seq(Events) /\ Trace(lan, Join(p.ev, q.ev), A, L)
    BY <1>3, <1>4, RunsJoined, Zenon
  <1>6. Trace(lan, x.ev, A, L) /\ x.ev \in Seq(Events)  BY <1>2, <1>5
  <1> QED BY <1>6 DEF L

\* Two in a row that keep the semaphores.
LEMMA KeepsSeq ==
    ASSUME NEW lan, NEW P, NEW Q, NEW A, Keeps(lan, P, A), Keeps(lan, Q, A)
    PROVE  Keeps(lan, P ++ Q, A)
  BY RunsSeq DEF Keeps

\* One, and if it succeeds the other.
LEMMA RunsAnd ==
    ASSUME NEW lan, NEW P, NEW Q, NEW A, NEW B, NEW F \in SUBSET Masks, NEW C, Runs(lan, P, A, B, F),
           Runs(lan, Q, B, C, F)
    PROVE  Runs(lan, P && Q, A, C, F)
  <1> SUFFICES ASSUME NEW x \in P && Q
               PROVE  x.ev \in Seq(Events) /\ Trace(lan, x.ev, A, IF x.ret = "ok" THEN C ELSE F)
    BY DEF Runs
  <1>0. PICK p \in P : \E q \in (IF p.ret = "ok" THEN Q ELSE Ret(p.ret)) :
            x = [ev |-> Join(p.ev, q.ev), ret |-> q.ret]
    BY DEF &&, Then
  <1>1. PICK q \in (IF p.ret = "ok" THEN Q ELSE Ret(p.ret)) :
            x = [ev |-> Join(p.ev, q.ev), ret |-> q.ret]
    BY <1>0
  <1>2. x.ev = Join(p.ev, q.ev) /\ x.ret = q.ret  BY <1>1
  <1>3. q.ev \in Seq(Events)
        /\ Trace(lan, q.ev, IF p.ret = "ok" THEN B ELSE F, IF x.ret = "ok" THEN C ELSE F)
    <2>1. CASE p.ret = "ok"  BY <1>2, <2>1 DEF Runs
    <2>2. CASE p.ret # "ok"
      <3>1. q.ev = << >> /\ q.ret = p.ret  BY <2>2 DEF Ret
      <3>2. << >> \in Seq(Events)  OBVIOUS
      <3> QED BY <1>2, <3>1, <3>2, <2>2, TraceEmpty
    <2> QED BY <2>1, <2>2
  <1> DEFINE L == IF x.ret = "ok" THEN C ELSE F
  <1> HIDE DEF L
  <1>4. Trace(lan, q.ev, IF p.ret = "ok" THEN B ELSE F, L)  BY <1>3 DEF L
  <1>5. Join(p.ev, q.ev) \in Seq(Events) /\ Trace(lan, Join(p.ev, q.ev), A, L)
    BY <1>3, <1>4, RunsJoined, Zenon
  <1>6. Trace(lan, x.ev, A, L) /\ x.ev \in Seq(Events)  BY <1>2, <1>5
  <1> QED BY <1>6 DEF L

\* The same of two that keep the semaphores.
LEMMA KeepsAnd ==
    ASSUME NEW lan, NEW P, NEW Q, NEW A \in SUBSET Masks, Keeps(lan, P, A), Keeps(lan, Q, A)
    PROVE  Keeps(lan, P && Q, A)
  BY RunsAnd DEF Keeps

\* One, then the other, and the status of the first.
LEMMA RunsFinally ==
    ASSUME NEW lan, NEW P, NEW Q, NEW A, NEW B, NEW F, NEW C \in SUBSET Masks, Runs(lan, P, A, B, F),
           Runs(lan, Q, B, C, C), Runs(lan, Q, F, C, C)
    PROVE  Runs(lan, Finally(P, Q), A, C, C)
  <1> SUFFICES ASSUME NEW x \in Finally(P, Q)
               PROVE  x.ev \in Seq(Events) /\ Trace(lan, x.ev, A, C)
    BY DEF Runs
  <1>0. PICK p \in P : \E q \in Q ++ Ret(p.ret) : x = [ev |-> Join(p.ev, q.ev), ret |-> q.ret]
    BY DEF Finally, Then
  <1>1. PICK q \in Q ++ Ret(p.ret) : x = [ev |-> Join(p.ev, q.ev), ret |-> q.ret]
    BY <1>0
  <1>2. x.ev = Join(p.ev, q.ev) /\ x.ret = q.ret  BY <1>1
  <1>3. Keeps(lan, Ret(p.ret), C)  BY KeepsRet
  <1>4. Runs(lan, Q ++ Ret(p.ret), IF p.ret = "ok" THEN B ELSE F, C, C)
    BY <1>3, RunsSeq DEF Keeps
  <1>5. q.ev \in Seq(Events) /\ Trace(lan, q.ev, IF p.ret = "ok" THEN B ELSE F, C)
    BY <1>4 DEF Runs
  <1>6. Join(p.ev, q.ev) \in Seq(Events) /\ Trace(lan, Join(p.ev, q.ev), A, C)
    BY <1>5, RunsJoined, Zenon
  <1> QED BY <1>2, <1>6

\* The same of two that keep the semaphores.
LEMMA KeepsFinally ==
    ASSUME NEW lan, NEW P, NEW Q, NEW A \in SUBSET Masks, Keeps(lan, P, A), Keeps(lan, Q, A)
    PROVE  Keeps(lan, Finally(P, Q), A)
  BY RunsFinally DEF Keeps

\* An access to what the driver has.
LEMMA RunsUse ==
    ASSUME NEW lan, NEW A \in SUBSET Masks, NEW m \in A PROVE Keeps(lan, Use(m), A)
  <1>1. <<"use", m>> \in Events /\ Lawful(lan, A, <<"use", m>>, A)
    BY DEF Events, Lawful
  <1> QED BY <1>1, RunsDo DEF Use, Keeps

\* An access to what the firmware does not touch.
LEMMA RunsPoke ==
    ASSUME NEW lan, NEW A \in SUBSET Masks, NEW m \in Masks PROVE Keeps(lan, Poke(m), A)
  <1>1. <<"poke", m>> \in Events /\ Lawful(lan, A, <<"poke", m>>, A)
    BY DEF Events, Lawful
  <1> QED BY <1>1, RunsDo DEF Poke, Keeps

\* A release.
LEMMA RunsRelease ==
    ASSUME NEW lan, NEW A \in SUBSET Masks, NEW m \in Masks, m \in A \cup {PhySm(lan)}
    PROVE  Runs(lan, Release(m), A, A \ {m}, A \ {m})
  <1>1. <<"rel", m>> \in Events /\ Lawful(lan, A, <<"rel", m>>, A \ {m})
    BY DEF Events, Lawful
  <1> QED BY <1>1, RunsDo DEF Release

\* An acquisition, which may fail.
LEMMA RunsAcquire ==
    ASSUME NEW lan, NEW A \in SUBSET Masks, NEW m \in MasksOf(lan), m \notin A, m \in Masks
    PROVE  Runs(lan, Acquire(m), A, A \cup {m}, A)
  <1>1. <<"acq", m>> \in Events /\ Lawful(lan, A, <<"acq", m>>, A \cup {m})
    BY DEF Events, Lawful
  <1>2. <<"busy", m>> \in Events /\ Lawful(lan, A, <<"busy", m>>, A)
    BY DEF Events, Lawful
  <1>3. Runs(lan, Do(<<"acq", m>>), A, A \cup {m}, A)  BY <1>1, RunsDo
  <1>4. Runs(lan, Do(<<"busy", m>>), A, A, A)  BY <1>2, RunsDo
  <1>5. Runs(lan, Ret("ERR_SWFW_SYNC"), IF "ERR_SWFW_SYNC" = "ok" THEN A \cup {m} ELSE A, A \cup {m}, A)
    BY RunsRet
  <1>6. Runs(lan, Ret("ERR_SWFW_SYNC"), A, A \cup {m}, A)  BY <1>5
  <1>7. Runs(lan, Do(<<"busy", m>>) ++ Ret("ERR_SWFW_SYNC"), A, A \cup {m}, A)
    BY <1>4, <1>6, RunsSeq
  <1> QED BY <1>3, <1>7, RunsUnion DEF Acquire

\* A word may be read by a caller that does not have the EEPROM.
LEMMA RunsWord ==
    ASSUME NEW lan, NEW A \in SUBSET Masks, "EEP" \notin A
    PROVE  Keeps(lan, ReadWord, A) /\ Keeps(lan, ReadWordAnyhow, A)
  <1>1. ASSUME NEW w \in {"ok", "err", "any"} PROVE Keeps(lan, Do(<<"word", w>>), A)
    <2>1. <<"word", w>> \in Events /\ Lawful(lan, A, <<"word", w>>, A)
      BY DEF Events, Lawful
    <2> QED BY <2>1, RunsDo DEF Keeps
  <1>2. Keeps(lan, Do(<<"word", "err">>) ++ Ret("ERR_EEPROM"), A)
    BY <1>1, KeepsRet, KeepsSeq
  <1> QED BY <1>1, <1>2, KeepsUnion DEF ReadWord, ReadWordAnyhow


-----------------------------------------------------------------------------
(* Loops and what follows a status.                                        *)

\* Induction over the natural numbers, for a set instead of a predicate.
LEMMA SetInduction ==
    ASSUME NEW S, 0 \in S, \A n \in Nat : n \in S => n + 1 \in S
    PROVE  \A n \in Nat : n \in S
  <1> SUFFICES ASSUME NEW k \in Nat, k \notin S PROVE FALSE
    OBVIOUS
  <1> DEFINE T == {n \in Nat : n \notin S}
  <1>1. PICK x \in T : \A y \in T : <<y, x>> \notin OpToRel(<, Nat)
    <2>1. T \subseteq Nat /\ T # {}  OBVIOUS
    <2> HIDE DEF T
    <2> QED BY <2>1, WFMin, NatLessThanWellFounded
  <1>2. x \in Nat /\ x # 0  OBVIOUS
  <1>3. x - 1 \in T  BY <1>2
  <1>4. <<x - 1, x>> \in OpToRel(<, Nat)
    BY <1>2, <1>3 DEF OpToRel
  <1> QED BY <1>1, <1>3, <1>4

\* x is the path p and then a path of Q.
Follows(x, p, Q) == \E q \in Q : x = [ev |-> Join(p.ev, q.ev), ret |-> q.ret]

\* What a path leads to, and what follows it.
LEMMA Followed ==
    ASSUME NEW lan, NEW P, NEW A, NEW B, NEW C, NEW G, Runs(lan, P, A, B, B), NEW p \in P,
           NEW Q, Runs(lan, Q, B, C, G), NEW x, Follows(x, p, Q)
    PROVE  x.ev \in Seq(Events) /\ Trace(lan, x.ev, A, IF x.ret = "ok" THEN C ELSE G)
  <1>1. PICK q \in Q : x = [ev |-> Join(p.ev, q.ev), ret |-> q.ret]
    BY DEF Follows
  <1>2. x.ev = Join(p.ev, q.ev) /\ x.ret = q.ret  BY <1>1
  <1> DEFINE L == IF q.ret = "ok" THEN C ELSE G
  <1>3. q.ev \in Seq(Events) /\ Trace(lan, q.ev, B, L)
    BY DEF Runs
  <1> HIDE DEF L
  <1>4. Trace(lan, q.ev, IF p.ret = "ok" THEN B ELSE B, L)  BY <1>3
  <1>5. Join(p.ev, q.ev) \in Seq(Events) /\ Trace(lan, Join(p.ev, q.ev), A, L)
    BY <1>3, <1>4, RunsJoined, Zenon
  <1>6. x.ev \in Seq(Events) /\ Trace(lan, x.ev, A, L)  BY <1>2, <1>5
  <1>7. L = IF x.ret = "ok" THEN C ELSE G  BY <1>2 DEF L
  <1> QED BY <1>6, <1>7

\* The loops of IxgbeAccess: rounds whatever happens, rounds up to the first
\* failure, the attempts to read a byte, the attempts to send a command.
Again(kind, lan, P, Q) ==
    CASE kind = "rounds" -> Ok \cup (P ++ Q)
      [] kind = "while ok" -> Ok \cup (P && Q)
      [] kind = "i2c" -> Acquire(PhySm(lan)) && Then(P, LAMBDA r :
                             IF r = "ok" THEN Release(PhySm(lan))
                             ELSE Release(PhySm(lan)) ++ ixgbe_i2c_bus_clear(Poke(PhySm(lan))) ++ Q)
      [] kind = "command" -> Then(P, LAMBDA r :
                                 IF r = "ok" THEN Ok \cup Ret("ERR_HOST_INTERFACE_COMMAND") ELSE Q)
Last0(kind, lan, P) ==
    CASE kind \in {"rounds", "while ok"} -> Ok
      [] kind = "i2c" -> Release(PhySm(lan)) ++ Ret("ERR_I2C")
      [] kind = "command" -> Then(P, LAMBDA r :
                                 IF r = "ok" THEN Ok \cup Ret("ERR_HOST_INTERFACE_COMMAND") ELSE Ret(r))
Loop(g, kind, lan, P, k) ==
    g = [i \in 0..k |-> IF i = 0 THEN Last0(kind, lan, P) ELSE Again(kind, lan, P, g[i - 1])]
LoopSome(kind, lan, P, k) == \E g : Loop(g, kind, lan, P, k)

\* There is such a function for any number of rounds.
LEMMA LoopExists ==
    ASSUME NEW kind, NEW lan, NEW P
    PROVE  \A k \in Nat : LoopSome(kind, lan, P, k)
  <1> DEFINE Z == Last0(kind, lan, P)
  <1>1. LoopSome(kind, lan, P, 0)
    <2> DEFINE f == [i \in 0..0 |-> Z]
    <2>1. f = [i \in 0..0 |-> IF i = 0 THEN Z ELSE Again(kind, lan, P, f[i - 1])]
      OBVIOUS
    <2> HIDE DEF f
    <2>2. Loop(f, kind, lan, P, 0)  BY <2>1 DEF Loop
    <2> QED BY <2>2 DEF LoopSome
  <1>2. ASSUME NEW k \in Nat, LoopSome(kind, lan, P, k) PROVE LoopSome(kind, lan, P, k + 1)
    <2>1. PICK g : Loop(g, kind, lan, P, k)
      BY <1>2 DEF LoopSome
    <2> DEFINE h == [i \in 0..(k + 1) |-> IF i <= k THEN g[i] ELSE Again(kind, lan, P, g[k])]
    <2>2. /\ \A i \in 0..k : h[i] = g[i]
          /\ h[k + 1] = Again(kind, lan, P, g[k])
          /\ h = [i \in 0..(k + 1) |-> h[i]]
      OBVIOUS
    <2>3. \A i \in 0..k : g[i] = IF i = 0 THEN Z ELSE Again(kind, lan, P, g[i - 1])
      BY <2>1 DEF Loop
    <2> HIDE DEF h, Z
    <2>4. ASSUME NEW i \in 0..(k + 1)
          PROVE  h[i] = IF i = 0 THEN Z ELSE Again(kind, lan, P, h[i - 1])
      <3>1. CASE i = 0
        <4>1. 0 \in 0..k  OBVIOUS
        <4> QED BY <4>1, <3>1, <2>2, <2>3
      <3>2. CASE i \in 1..k
        <4>0. i \in 0..k /\ i - 1 \in 0..k /\ i # 0  BY <3>2
        <4>1. h[i] = g[i] /\ h[i - 1] = g[i - 1]  BY <4>0, <2>2
        <4> QED BY <4>0, <4>1, <2>3
      <3>3. CASE i = k + 1
        <4>1. i - 1 = k /\ i # 0 /\ k \in 0..k  BY <3>3
        <4>2. h[i - 1] = g[k]  BY <4>1, <2>2
        <4> QED BY <4>1, <4>2, <3>3, <2>2
      <3> QED BY <3>1, <3>2, <3>3
    <2>5. Loop(h, kind, lan, P, k + 1)
      BY <2>4, <2>2, ZenonT(60) DEF Loop, Z
    <2> QED BY <2>5 DEF LoopSome
  <1> DEFINE S == {k \in Nat : LoopSome(kind, lan, P, k)}
  <1>3. 0 \in S /\ \A n \in Nat : n \in S => n + 1 \in S
    BY <1>1, <1>2
  <1>4. \A n \in Nat : n \in S
    <2> HIDE DEF S
    <2> QED BY <1>3, SetInduction
  <1> QED BY <1>4

\* The last value of the function, which the definitions choose.
LoopOf(kind, lan, P, k) == (CHOOSE g : Loop(g, kind, lan, P, k))[k]

\* A loop keeps what every round of it keeps.
LEMMA LoopHolds ==
    ASSUME NEW kind, NEW lan, NEW P, NEW A, NEW k \in Nat, NEW g, Loop(g, kind, lan, P, k),
           Keeps(lan, Last0(kind, lan, P), A),
           \A Q : Keeps(lan, Q, A) => Keeps(lan, Again(kind, lan, P, Q), A)
    PROVE  Keeps(lan, g[k], A)
  <1> DEFINE S == {n \in Nat : n <= k => Keeps(lan, g[n], A)}
  <1>3. \A i \in 0..k : g[i] = IF i = 0 THEN Last0(kind, lan, P) ELSE Again(kind, lan, P, g[i - 1])
    BY DEF Loop
  <1>4. 0 \in S
    <2>1. 0 \in 0..k  OBVIOUS
    <2>2. g[0] = Last0(kind, lan, P)  BY <1>3, <2>1
    <2> QED BY <2>2
  <1>5. ASSUME NEW n \in Nat, n \in S PROVE n + 1 \in S
    <2> SUFFICES ASSUME n + 1 <= k PROVE Keeps(lan, g[n + 1], A)
      OBVIOUS
    <2>1. n + 1 \in 0..k /\ n + 1 # 0 /\ (n + 1) - 1 = n /\ n <= k  OBVIOUS
    <2>2. g[n + 1] = Again(kind, lan, P, g[n])  BY <1>3, <2>1
    <2>3. Keeps(lan, g[n], A)  BY <1>5, <2>1
    <2> QED BY <2>2, <2>3
  <1>6. \A n \in Nat : n \in S
    <2> HIDE DEF S
    <2> QED BY <1>4, <1>5, SetInduction
  <1> QED BY <1>6

\* The loop that a definition chooses.
LEMMA LoopKeeps ==
    ASSUME NEW kind, NEW lan, NEW P, NEW A, NEW k \in Nat,
           Keeps(lan, Last0(kind, lan, P), A),
           \A Q : Keeps(lan, Q, A) => Keeps(lan, Again(kind, lan, P, Q), A)
    PROVE  Keeps(lan, LoopOf(kind, lan, P, k), A)
  <1> DEFINE g == CHOOSE x : Loop(x, kind, lan, P, k)
  <1>1. \E x : Loop(x, kind, lan, P, k)
    BY LoopExists DEF LoopSome
  <1>2. Loop(g, kind, lan, P, k)
    BY <1>1
  <1> HIDE DEF g
  <1>3. Keeps(lan, g[k], A)
    BY <1>2, LoopHolds
  <1> QED BY <1>3 DEF g, LoopOf

\* Rounds of a loop that keep the semaphores.
LEMMA KeepsRounds ==
    ASSUME NEW lan, NEW P, NEW A \in SUBSET Masks, Keeps(lan, P, A)
    PROVE  Keeps(lan, Rounds(P), A) /\ Keeps(lan, RoundsWhileOk(P), A)
  <1>0. MaxLoop \in Nat  BY AccessAssumption
  <1>1. ASSUME NEW Q, Keeps(lan, Q, A)
        PROVE  Keeps(lan, Ok \cup (P ++ Q), A) /\ Keeps(lan, Ok \cup (P && Q), A)
    BY <1>1, KeepsOk, KeepsSeq, KeepsAnd, KeepsUnion
  <1>2. Keeps(lan, LoopOf("rounds", lan, P, MaxLoop), A)
    <2>1. Last0("rounds", lan, P) = Ok  BY DEF Last0
    <2>2. \A Q : Again("rounds", lan, P, Q) = Ok \cup (P ++ Q)  BY DEF Again
    <2> QED BY <1>0, <1>1, <2>1, <2>2, KeepsOk, LoopKeeps
  <1>3. Keeps(lan, LoopOf("while ok", lan, P, MaxLoop), A)
    <2>1. Last0("while ok", lan, P) = Ok  BY DEF Last0
    <2>2. \A Q : Again("while ok", lan, P, Q) = Ok \cup (P && Q)  BY DEF Again
    <2> QED BY <1>0, <1>1, <2>1, <2>2, KeepsOk, LoopKeeps
  <1>4. Rounds(P) = LoopOf("rounds", lan, P, MaxLoop)
    <2>1. Last0("rounds", lan, P) = Ok  BY DEF Last0
    <2>2. \A Q : Again("rounds", lan, P, Q) = Ok \cup (P ++ Q)  BY DEF Again
    <2> QED BY <2>1, <2>2, ZenonT(60) DEF Rounds, LoopOf, Loop
  <1>5. RoundsWhileOk(P) = LoopOf("while ok", lan, P, MaxLoop)
    <2>1. Last0("while ok", lan, P) = Ok  BY DEF Last0
    <2>2. \A Q : Again("while ok", lan, P, Q) = Ok \cup (P && Q)  BY DEF Again
    <2> QED BY <2>1, <2>2, ZenonT(60) DEF RoundsWhileOk, LoopOf, Loop
  <1> QED BY <1>2, <1>3, <1>4, <1>5

-----------------------------------------------------------------------------
(* The EEPROM.  A is what the caller has acquired before.                   *)

\* A status without an event: success where there is success, else failure.
LEMMA RunsStatus ==
    ASSUME NEW lan, NEW B \in SUBSET Masks, NEW F \in SUBSET Masks
    PROVE  Runs(lan, Ok, B, B, F) /\ \A r : r # "ok" => Runs(lan, Ret(r), F, B, F)
  <1>1. Runs(lan, Ret("ok"), IF "ok" = "ok" THEN B ELSE F, B, F)  BY RunsRet
  <1>2. ASSUME NEW r, r # "ok" PROVE Runs(lan, Ret(r), F, B, F)
    <2>1. Runs(lan, Ret(r), IF r = "ok" THEN B ELSE F, B, F)  BY RunsRet
    <2> QED BY <1>2, <2>1
  <1> QED BY <1>1, <1>2 DEF Ok

\* With the EEPROM's semaphore its pins may be used.
LEMMA PinsKeep ==
    ASSUME NEW lan, NEW E \in SUBSET Masks, "EEP" \in E
    PROVE  /\ Keeps(lan, Use("EEP"), E) /\ Keeps(lan, ixgbe_standby_eeprom, E)
           /\ Keeps(lan, ixgbe_shift_out_eeprom_bits, E) /\ Keeps(lan, ixgbe_shift_in_eeprom_bits, E)
           /\ Keeps(lan, ixgbe_ready_eeprom, E)
  <1>1. Keeps(lan, Use("EEP"), E)  BY RunsUse
  <1>2. Keeps(lan, ixgbe_standby_eeprom, E)  BY <1>1 DEF ixgbe_standby_eeprom
  <1>3. Keeps(lan, ixgbe_raise_eeprom_clk, E) /\ Keeps(lan, ixgbe_lower_eeprom_clk, E)
    BY <1>1 DEF ixgbe_raise_eeprom_clk, ixgbe_lower_eeprom_clk
  <1>4. Keeps(lan, ixgbe_shift_out_eeprom_bits, E) /\ Keeps(lan, ixgbe_shift_in_eeprom_bits, E)
    <2>1. Keeps(lan, Use("EEP") ++ ixgbe_raise_eeprom_clk, E)  BY <1>1, <1>3, KeepsSeq
    <2>2. Keeps(lan, (Use("EEP") ++ ixgbe_raise_eeprom_clk) ++ ixgbe_lower_eeprom_clk, E)
      BY <1>3, <2>1, KeepsSeq
    <2> QED BY <2>2 DEF ixgbe_shift_out_eeprom_bits, ixgbe_shift_in_eeprom_bits
  <1>5. Keeps(lan, ixgbe_ready_eeprom, E)
    <2>1. Keeps(lan, ixgbe_shift_out_eeprom_bits ++ ixgbe_shift_in_eeprom_bits, E)
      BY <1>4, KeepsSeq
    <2>2. Keeps(lan, ixgbe_standby_eeprom ++ Ret("ERR_EEPROM"), E)
      BY <1>2, KeepsRet, KeepsSeq
    <2>3. Keeps(lan, Ok \cup (ixgbe_standby_eeprom ++ Ret("ERR_EEPROM")), E)
      BY <2>2, KeepsOk, KeepsUnion
    <2>4. Keeps(lan, (ixgbe_shift_out_eeprom_bits ++ ixgbe_shift_in_eeprom_bits)
                         ++ (Ok \cup (ixgbe_standby_eeprom ++ Ret("ERR_EEPROM"))), E)
      BY <2>1, <2>3, KeepsSeq
    <2> QED BY <2>4 DEF ixgbe_ready_eeprom
  <1> QED BY <1>1, <1>2, <1>4, <1>5

\* The semaphore is kept only when the pins are granted.
LEMMA AcquireEepromRuns ==
    ASSUME NEW lan, NEW A \in SUBSET Masks, "EEP" \notin A
    PROVE  /\ Runs(lan, ixgbe_acquire_eeprom, A, A \cup {"EEP"}, A)
           /\ Runs(lan, ixgbe_release_eeprom, A \cup {"EEP"}, A, A)
  <1> DEFINE E == A \cup {"EEP"}
  <1>0. E \in SUBSET Masks /\ "EEP" \in E /\ E \ {"EEP"} = A /\ "EEP" \in Masks /\ "EEP" \in MasksOf(lan)
    BY DEF Masks, MasksOf
  <1> HIDE DEF E
  <1>1. Runs(lan, Acquire("EEP"), A, E, A)  BY <1>0, RunsAcquire DEF E
  <1>2. Runs(lan, Use("EEP"), E, E, E)  BY <1>0, PinsKeep DEF Keeps
  <1>3. Runs(lan, Release("EEP"), E, A, A)
    <2>1. Runs(lan, Release("EEP"), E, E \ {"EEP"}, E \ {"EEP"})  BY <1>0, RunsRelease
    <2> QED BY <1>0, <2>1
  <1>4. Runs(lan, Ret("ERR_EEPROM"), A, E, A) /\ Runs(lan, Ok, E, E, A)
    BY <1>0, RunsStatus
  <1>5. Runs(lan, Release("EEP") ++ Ret("ERR_EEPROM"), E, E, A)
    BY <1>3, <1>4, RunsSeq
  <1>6. Runs(lan, Ok \cup (Release("EEP") ++ Ret("ERR_EEPROM")), E, E, A)
    BY <1>4, <1>5, RunsUnion
  <1>7. Runs(lan, Use("EEP") ++ (Ok \cup (Release("EEP") ++ Ret("ERR_EEPROM"))), E, E, A)
    BY <1>2, <1>6, RunsSeq
  <1>8. Runs(lan, ixgbe_acquire_eeprom, A, E, A)
    BY <1>1, <1>7, RunsAnd DEF ixgbe_acquire_eeprom
  <1>9. Runs(lan, ixgbe_release_eeprom, E, A, A)
    BY <1>2, <1>3, RunsSeq DEF ixgbe_release_eeprom
  <1> QED BY <1>8, <1>9 DEF E

\* An access between the two leaves things as they were.
LEMMA WhenReadyKeeps ==
    ASSUME NEW lan, NEW A \in SUBSET Masks, "EEP" \notin A, NEW P, Keeps(lan, P, A \cup {"EEP"})
    PROVE  Keeps(lan, WhenReady(P), A)
  <1> DEFINE E == A \cup {"EEP"}
             K == Then(ixgbe_ready_eeprom, LAMBDA r :
                       IF r = "ok" THEN P ++ ixgbe_release_eeprom
                       ELSE ixgbe_release_eeprom ++ Ret("ERR_EEPROM"))
  <1>0. E \in SUBSET Masks /\ "EEP" \in E  BY DEF Masks
  <1>1. Runs(lan, ixgbe_acquire_eeprom, A, E, A) /\ Runs(lan, ixgbe_release_eeprom, E, A, A)
    BY AcquireEepromRuns
  <1>2. Runs(lan, P, E, E, E)  BY DEF Keeps
  <1> HIDE DEF E
  <1>3. Runs(lan, ixgbe_ready_eeprom, E, E, E)  BY <1>0, PinsKeep DEF Keeps
  <1>4. Runs(lan, P ++ ixgbe_release_eeprom, E, A, A)
    BY <1>1, <1>2, RunsSeq
  <1>5. Runs(lan, ixgbe_release_eeprom ++ Ret("ERR_EEPROM"), E, A, A)
    <2>1. Runs(lan, Ret("ERR_EEPROM"), A, A, A)  BY RunsStatus
    <2> QED BY <1>1, <2>1, RunsSeq
  <1>6. ASSUME NEW x \in K
        PROVE  x.ev \in Seq(Events) /\ Trace(lan, x.ev, E, IF x.ret = "ok" THEN A ELSE A)
    <2>1. PICK p \in ixgbe_ready_eeprom :
              Follows(x, p, IF p.ret = "ok" THEN P ++ ixgbe_release_eeprom
                            ELSE ixgbe_release_eeprom ++ Ret("ERR_EEPROM"))
      BY <1>6 DEF Then, Follows
    <2> DEFINE Q == IF p.ret = "ok" THEN P ++ ixgbe_release_eeprom
                    ELSE ixgbe_release_eeprom ++ Ret("ERR_EEPROM")
    <2>2. Runs(lan, Q, E, A, A)  BY <1>4, <1>5
    <2> HIDE DEF Q, K
    <2>3. Follows(x, p, Q)  BY <2>1 DEF Q
    <2> QED BY <1>3, <2>2, <2>3, Followed
  <1>7. Runs(lan, K, E, A, A)
    <2> HIDE DEF K
    <2> QED BY <1>6 DEF Runs
  <1>8. Runs(lan, ixgbe_acquire_eeprom && K, A, A, A)
    <2> HIDE DEF K
    <2> QED BY <1>1, <1>7, RunsAnd
  <1>9. WhenReady(P) = ixgbe_acquire_eeprom && K
    BY DEF WhenReady
  <1> HIDE DEF K
  <1> QED BY <1>8, <1>9 DEF Keeps

\* Every function that reads or writes the EEPROM bit by bit.
LEMMA BitBangKeeps ==
    ASSUME NEW lan, NEW A \in SUBSET Masks, "EEP" \notin A
    PROVE  /\ Keeps(lan, ixgbe_write_eeprom_buffer_bit_bang_generic, A)
           /\ Keeps(lan, ixgbe_read_eeprom_buffer_bit_bang_generic, A)
           /\ Keeps(lan, ixgbe_write_eeprom_generic, A)
           /\ Keeps(lan, ixgbe_read_eeprom_bit_bang_generic, A)
           /\ Keeps(lan, BadArguments, A)
  <1> DEFINE E == A \cup {"EEP"}
             W == (ixgbe_standby_eeprom ++ ixgbe_shift_out_eeprom_bits) ++ ixgbe_standby_eeprom
             R == (ixgbe_standby_eeprom ++ ixgbe_shift_out_eeprom_bits) ++ ixgbe_shift_in_eeprom_bits
  <1>0. E \in SUBSET Masks /\ "EEP" \in E  BY DEF Masks
  <1>1. Keeps(lan, W, E) /\ Keeps(lan, R, E)
    <2> HIDE DEF E
    <2>1. /\ Keeps(lan, ixgbe_standby_eeprom, E) /\ Keeps(lan, ixgbe_shift_out_eeprom_bits, E)
          /\ Keeps(lan, ixgbe_shift_in_eeprom_bits, E)
      BY <1>0, PinsKeep
    <2>2. Keeps(lan, ixgbe_standby_eeprom ++ ixgbe_shift_out_eeprom_bits, E)
      BY <2>1, KeepsSeq
    <2> QED BY <2>1, <2>2, KeepsSeq
  <1>2. Keeps(lan, ixgbe_write_eeprom_buffer_bit_bang, A)
    <2>1. ixgbe_write_eeprom_buffer_bit_bang = WhenReady(W)
      BY DEF ixgbe_write_eeprom_buffer_bit_bang
    <2> HIDE DEF W
    <2> QED BY <1>1, <2>1, WhenReadyKeeps
  <1>3. Keeps(lan, ixgbe_read_eeprom_buffer_bit_bang, A)
    <2>1. ixgbe_read_eeprom_buffer_bit_bang = WhenReady(R)
      BY DEF ixgbe_read_eeprom_buffer_bit_bang
    <2> HIDE DEF R
    <2> QED BY <1>1, <2>1, WhenReadyKeeps
  <1>4. Keeps(lan, ixgbe_detect_eeprom_page_size_generic, A)
    BY <1>2, <1>3, KeepsAnd DEF ixgbe_detect_eeprom_page_size_generic
  <1>5. Keeps(lan, BadArguments, A)
    BY KeepsRet, KeepsUnion DEF BadArguments
  <1>6. Keeps(lan, ixgbe_write_eeprom_buffer_bit_bang_generic, A)
    <2>1. Keeps(lan, Ok \cup ixgbe_detect_eeprom_page_size_generic, A)
      BY <1>4, KeepsOk, KeepsUnion
    <2>2. Keeps(lan, RoundsWhileOk(ixgbe_write_eeprom_buffer_bit_bang), A)
      BY <1>2, KeepsRounds
    <2>3. Keeps(lan, (Ok \cup ixgbe_detect_eeprom_page_size_generic)
                         ++ RoundsWhileOk(ixgbe_write_eeprom_buffer_bit_bang), A)
      BY <2>1, <2>2, KeepsSeq
    <2> QED BY <1>5, <2>3, KeepsUnion DEF ixgbe_write_eeprom_buffer_bit_bang_generic
  <1>7. Keeps(lan, ixgbe_read_eeprom_buffer_bit_bang_generic, A)
    <2>1. Keeps(lan, RoundsWhileOk(ixgbe_read_eeprom_buffer_bit_bang), A)
      BY <1>3, KeepsRounds
    <2> QED BY <1>5, <2>1, KeepsUnion DEF ixgbe_read_eeprom_buffer_bit_bang_generic
  <1>8. Keeps(lan, Ret("ERR_EEPROM"), A)  BY KeepsRet
  <1>9. Keeps(lan, ixgbe_write_eeprom_generic, A) /\ Keeps(lan, ixgbe_read_eeprom_bit_bang_generic, A)
    BY <1>2, <1>3, <1>8, KeepsUnion DEF ixgbe_write_eeprom_generic, ixgbe_read_eeprom_bit_bang_generic
  <1> QED BY <1>5, <1>6, <1>7, <1>9

\* What goes through the EEPROM's registers, and the checksum.
LEMMA EepromKeeps ==
    ASSUME NEW lan, NEW A \in SUBSET Masks, "EEP" \notin A
    PROVE  /\ Keeps(lan, ixgbe_read_eeprom_82599, A) /\ Keeps(lan, ixgbe_read_eeprom_buffer_82599, A)
           /\ Keeps(lan, ixgbe_write_eewr_generic, A)
           /\ Keeps(lan, ixgbe_validate_eeprom_checksum_generic, A)
           /\ Keeps(lan, ixgbe_update_eeprom_checksum_generic, A)
  <1>1. Keeps(lan, ixgbe_poll_eerd_eewr_done, A)
    BY KeepsOk, KeepsRet, KeepsUnion DEF ixgbe_poll_eerd_eewr_done
  <1>2. Keeps(lan, BadArguments, A) /\ Keeps(lan, ixgbe_read_eeprom_bit_bang_generic, A)
        /\ Keeps(lan, ixgbe_read_eeprom_buffer_bit_bang_generic, A)
        /\ Keeps(lan, ixgbe_write_eeprom_generic, A)
    BY BitBangKeeps
  <1>3. Keeps(lan, ixgbe_read_eerd_buffer_generic, A)
    <2>1. Keeps(lan, RoundsWhileOk(ixgbe_poll_eerd_eewr_done), A)  BY <1>1, KeepsRounds
    <2> QED BY <1>2, <2>1, KeepsUnion DEF ixgbe_read_eerd_buffer_generic
  <1>4. Keeps(lan, ixgbe_write_eewr_generic, A)
    <2>1. Keeps(lan, ixgbe_poll_eerd_eewr_done && ixgbe_poll_eerd_eewr_done, A)  BY <1>1, KeepsAnd
    <2>2. Keeps(lan, RoundsWhileOk(ixgbe_poll_eerd_eewr_done && ixgbe_poll_eerd_eewr_done), A)
      BY <2>1, KeepsRounds
    <2> QED BY <1>2, <2>2, KeepsUnion DEF ixgbe_write_eewr_generic, ixgbe_write_eewr_buffer_generic
  <1>5. Keeps(lan, ixgbe_read_eeprom_82599, A)
    BY <1>2, <1>3, KeepsUnion DEF ixgbe_read_eeprom_82599, ixgbe_read_eerd_generic
  <1>6. Keeps(lan, ixgbe_read_eeprom_buffer_82599, A)
    BY <1>2, <1>3, KeepsUnion DEF ixgbe_read_eeprom_buffer_82599
  <1>7. Keeps(lan, ReadWord, A) /\ Keeps(lan, ReadWordAnyhow, A)  BY RunsWord
  <1> DEFINE S == ixgbe_calc_eeprom_checksum_generic
  <1>8. Keeps(lan, S, A)
    <2>1. Keeps(lan, RoundsWhileOk(ReadWord), A) /\ Keeps(lan, Rounds(ReadWordAnyhow), A)
      BY <1>7, KeepsRounds
    <2>2. Keeps(lan, RoundsWhileOk(ReadWord) ++ Rounds(ReadWordAnyhow), A)  BY <2>1, KeepsSeq
    <2>3. Keeps(lan, (RoundsWhileOk(ReadWord) ++ Rounds(ReadWordAnyhow)) ++ Ok, A)
      BY <2>2, KeepsOk, KeepsSeq
    <2> QED BY <2>3 DEF ixgbe_calc_eeprom_checksum_generic
  <1> HIDE DEF S
  <1>9. Keeps(lan, ixgbe_validate_eeprom_checksum_generic, A)
    <2>1. Keeps(lan, S ++ ReadWordAnyhow, A)  BY <1>7, <1>8, KeepsSeq
    <2>2. Keeps(lan, Ok \cup Ret("ERR_EEPROM_CHECKSUM"), A)  BY KeepsOk, KeepsRet, KeepsUnion
    <2>3. Keeps(lan, (S ++ ReadWordAnyhow) ++ (Ok \cup Ret("ERR_EEPROM_CHECKSUM")), A)
      BY <2>1, <2>2, KeepsSeq
    <2>4. Keeps(lan, ReadWord && ((S ++ ReadWordAnyhow) ++ (Ok \cup Ret("ERR_EEPROM_CHECKSUM"))), A)
      BY <1>7, <2>3, KeepsAnd
    <2> QED BY <2>4 DEF ixgbe_validate_eeprom_checksum_generic, S
  <1>10. Keeps(lan, ixgbe_update_eeprom_checksum_generic, A)
    <2>1. Keeps(lan, S ++ ixgbe_write_eeprom_generic, A)  BY <1>2, <1>8, KeepsSeq
    <2>2. Keeps(lan, ReadWord && (S ++ ixgbe_write_eeprom_generic), A)  BY <1>7, <2>1, KeepsAnd
    <2> QED BY <2>2 DEF ixgbe_update_eeprom_checksum_generic, S
  <1> QED BY <1>4, <1>5, <1>6, <1>9, <1>10

-----------------------------------------------------------------------------
(* The PHY: each port's driver has a semaphore of its own.                  *)

\* What is acquired before and given back whatever happens leaves no trace.
LEMMA GuardedKeeps ==
    ASSUME NEW lan, NEW A \in SUBSET Masks, NEW m \in MasksOf(lan), m \in Masks, m \notin A,
           NEW P, Keeps(lan, P, A \cup {m})
    PROVE  Keeps(lan, Acquire(m) && Finally(P, Release(m)), A)
  <1> DEFINE H == A \cup {m}
  <1>0. H \in SUBSET Masks /\ m \in H /\ H \ {m} = A
    OBVIOUS
  <1>1. Runs(lan, Acquire(m), A, H, A)  BY RunsAcquire
  <1>2. Runs(lan, P, H, H, H)  BY DEF Keeps
  <1> HIDE DEF H
  <1>3. Runs(lan, Release(m), H, A, A)
    <2>1. Runs(lan, Release(m), H, H \ {m}, H \ {m})  BY <1>0, RunsRelease
    <2> QED BY <1>0, <2>1
  <1>4. Runs(lan, Finally(P, Release(m)), H, A, A)
    BY <1>2, <1>3, RunsFinally
  <1>5. Runs(lan, Acquire(m) && Finally(P, Release(m)), A, A, A)
    BY <1>1, <1>4, RunsAnd
  <1> QED BY <1>5 DEF Keeps

\* The semaphore of the PHY.
LEMMA PhyMask ==
    ASSUME NEW lan
    PROVE  PhySm(lan) \in MasksOf(lan) /\ PhySm(lan) \in Masks /\ PhySm(lan) \in {"PHY0", "PHY1"}
  BY DEF PhySm, MasksOf, Masks

\* The registers of the PHY.
LEMMA MdioKeeps ==
    ASSUME NEW lan
    PROVE  /\ Keeps(lan, ixgbe_read_phy_reg_generic(lan), {})
           /\ Keeps(lan, ixgbe_write_phy_reg_generic(lan), {})
  <1> DEFINE m == PhySm(lan)
             H == {} \cup {m}
  <1>1. m \in MasksOf(lan) /\ m \in Masks /\ H \in SUBSET Masks /\ m \in H
    BY PhyMask
  <1>0. {} \in SUBSET Masks /\ m \notin {}  OBVIOUS
  <1> HIDE DEF m
  <1>2. Keeps(lan, MdioCommands(m), H)
    <2> HIDE DEF H
    <2>1. Keeps(lan, Use(m), H)  BY <1>1, RunsUse
    <2>2. Keeps(lan, Ok \cup Ret("ERR_PHY"), H)  BY <1>1, KeepsOk, KeepsRet, KeepsUnion
    <2>3. Keeps(lan, Use(m) ++ (Ok \cup Ret("ERR_PHY")), H)  BY <2>1, <2>2, KeepsSeq
    <2>4. Keeps(lan, (Use(m) ++ (Ok \cup Ret("ERR_PHY"))) && (Use(m) ++ (Ok \cup Ret("ERR_PHY"))), H)
      BY <1>1, <2>3, KeepsAnd
    <2> QED BY <2>4 DEF MdioCommands
  <1>3. Keeps(lan, Acquire(m) && Finally(MdioCommands(m), Release(m)), {})
    BY <1>0, <1>1, <1>2, GuardedKeeps
  <1> QED BY <1>3 DEF m, ixgbe_read_phy_reg_generic, ixgbe_write_phy_reg_generic

\* The bus, with an access X that keeps the semaphores.
LEMMA I2cKeeps ==
    ASSUME NEW lan, NEW X, NEW H \in SUBSET Masks, Keeps(lan, X, H)
    PROVE  /\ Keeps(lan, ixgbe_i2c_start(X), H) /\ Keeps(lan, ixgbe_i2c_stop(X), H)
           /\ Keeps(lan, ixgbe_i2c_bus_clear(X), H) /\ Keeps(lan, SendByte(X), H)
           /\ Keeps(lan, ixgbe_clock_in_i2c_byte(X), H) /\ Keeps(lan, ixgbe_clock_out_i2c_bit(X), H)
  <1>1. /\ Keeps(lan, ixgbe_get_i2c_data(X), H) /\ Keeps(lan, ixgbe_raise_i2c_clk(X), H)
        /\ Keeps(lan, ixgbe_lower_i2c_clk(X), H)
    BY DEF ixgbe_get_i2c_data, ixgbe_raise_i2c_clk, ixgbe_lower_i2c_clk
  <1>2. Keeps(lan, Ok \cup Ret("ERR_I2C"), H)  BY KeepsOk, KeepsRet, KeepsUnion
  <1>3. Keeps(lan, ixgbe_set_i2c_data(X), H)
    BY <1>2, KeepsSeq DEF ixgbe_set_i2c_data
  <1>4. Keeps(lan, ixgbe_i2c_start(X), H)
    <2>1. Keeps(lan, ixgbe_set_i2c_data(X) ++ ixgbe_raise_i2c_clk(X), H)  BY <1>1, <1>3, KeepsSeq
    <2>2. Keeps(lan, (ixgbe_set_i2c_data(X) ++ ixgbe_raise_i2c_clk(X)) ++ ixgbe_lower_i2c_clk(X), H)
      BY <1>1, <2>1, KeepsSeq
    <2> QED BY <2>2 DEF ixgbe_i2c_start
  <1>5. Keeps(lan, ixgbe_i2c_stop(X), H)
    BY <1>1, <1>3, KeepsSeq DEF ixgbe_i2c_stop
  <1>6. Keeps(lan, ixgbe_clock_in_i2c_byte(X), H)
    <2>1. Keeps(lan, ixgbe_raise_i2c_clk(X) ++ ixgbe_get_i2c_data(X), H)  BY <1>1, KeepsSeq
    <2>2. Keeps(lan, (ixgbe_raise_i2c_clk(X) ++ ixgbe_get_i2c_data(X)) ++ ixgbe_lower_i2c_clk(X), H)
      BY <1>1, <2>1, KeepsSeq
    <2> QED BY <2>2 DEF ixgbe_clock_in_i2c_byte, ixgbe_clock_in_i2c_bit
  <1>7. Keeps(lan, ixgbe_clock_out_i2c_bit(X), H)
    <2>1. Keeps(lan, ixgbe_raise_i2c_clk(X) ++ ixgbe_lower_i2c_clk(X), H)  BY <1>1, KeepsSeq
    <2> QED BY <1>3, <2>1, KeepsAnd DEF ixgbe_clock_out_i2c_bit
  <1>8. Keeps(lan, SendByte(X), H)
    <2>1. Keeps(lan, ixgbe_clock_out_i2c_byte(X), H)
      BY <1>7, KeepsFinally DEF ixgbe_clock_out_i2c_byte
    <2>2. Keeps(lan, ixgbe_get_i2c_data(X) ++ (Ok \cup Ret("ERR_I2C")), H)
      BY <1>1, <1>2, KeepsSeq
    <2>3. Keeps(lan, Finally(ixgbe_get_i2c_data(X) ++ (Ok \cup Ret("ERR_I2C")), ixgbe_lower_i2c_clk(X)), H)
      BY <1>1, <2>2, KeepsFinally
    <2>4. Keeps(lan, ixgbe_get_i2c_ack(X), H)
      BY <1>1, <2>3, KeepsSeq DEF ixgbe_get_i2c_ack
    <2> QED BY <2>1, <2>4, KeepsAnd DEF SendByte
  <1>9. Keeps(lan, ixgbe_i2c_bus_clear(X), H)
    <2> DEFINE a == ixgbe_i2c_start(X) ++ ixgbe_set_i2c_data(X)
               b == a ++ ixgbe_raise_i2c_clk(X)
               c == b ++ ixgbe_lower_i2c_clk(X)
               d == c ++ ixgbe_i2c_start(X)
               e == d ++ ixgbe_i2c_stop(X)
    <2>1. ixgbe_i2c_bus_clear(X) = e  BY DEF ixgbe_i2c_bus_clear
    <2>2. Keeps(lan, a, H)  BY <1>3, <1>4, KeepsSeq
    <2> HIDE DEF a
    <2>3. Keeps(lan, b, H)  BY <1>1, <2>2, KeepsSeq
    <2> HIDE DEF b
    <2>4. Keeps(lan, c, H)  BY <1>1, <2>3, KeepsSeq
    <2> HIDE DEF c
    <2>5. Keeps(lan, d, H)  BY <1>4, <2>4, KeepsSeq
    <2> HIDE DEF d
    <2>6. Keeps(lan, e, H)  BY <1>5, <2>5, KeepsSeq
    <2> HIDE DEF e
    <2> QED BY <2>1, <2>6
  <1> QED BY <1>4, <1>5, <1>6, <1>7, <1>8, <1>9

\* Writing a byte: one acquisition, given back at the end.
LEMMA I2cWriteKeeps ==
    ASSUME NEW lan
    PROVE  Keeps(lan, ixgbe_write_i2c_byte_generic(lan), {})
  <1> DEFINE m == PhySm(lan)
             H == {} \cup {m}
             X == Use(m)
             T == ixgbe_i2c_start(X)
                      ++ (((SendByte(X) && SendByte(X)) && SendByte(X)) && (ixgbe_i2c_stop(X) ++ Ok))
             K == Then(T, LAMBDA r : IF r = "ok" THEN Ok ELSE ixgbe_i2c_bus_clear(X) ++ Ret(r))
  <1>1. m \in MasksOf(lan) /\ m \in Masks /\ H \in SUBSET Masks /\ m \in H
    BY PhyMask
  <1>0. {} \in SUBSET Masks /\ m \notin {}  OBVIOUS
  <1>2. ixgbe_write_i2c_byte_generic(lan) = Acquire(m) && Finally(K, Release(m))
    BY DEF ixgbe_write_i2c_byte_generic
  <1> HIDE DEF m
  <1>3. Keeps(lan, X, H)
    <2> HIDE DEF H
    <2> QED BY <1>1, RunsUse
  <1> HIDE DEF X, H
  <1>4. /\ Keeps(lan, ixgbe_i2c_start(X), H) /\ Keeps(lan, ixgbe_i2c_stop(X), H)
        /\ Keeps(lan, ixgbe_i2c_bus_clear(X), H) /\ Keeps(lan, SendByte(X), H)
    BY <1>1, <1>3, I2cKeeps
  <1>5. Keeps(lan, T, H)
    <2>1. Keeps(lan, (SendByte(X) && SendByte(X)) && SendByte(X), H)
      <3>1. Keeps(lan, SendByte(X) && SendByte(X), H)  BY <1>1, <1>4, KeepsAnd
      <3> QED BY <1>1, <1>4, <3>1, KeepsAnd
    <2>2. Keeps(lan, ixgbe_i2c_stop(X) ++ Ok, H)  BY <1>1, <1>4, KeepsOk, KeepsSeq
    <2>3. Keeps(lan, ((SendByte(X) && SendByte(X)) && SendByte(X)) && (ixgbe_i2c_stop(X) ++ Ok), H)
      BY <1>1, <2>1, <2>2, KeepsAnd
    <2> QED BY <1>4, <2>3, KeepsSeq
  <1> HIDE DEF T
  <1>6. ASSUME NEW x \in K
        PROVE  x.ev \in Seq(Events) /\ Trace(lan, x.ev, H, IF x.ret = "ok" THEN H ELSE H)
    <2>1. PICK p \in T : Follows(x, p, IF p.ret = "ok" THEN Ok ELSE ixgbe_i2c_bus_clear(X) ++ Ret(p.ret))
      BY <1>6 DEF Then, Follows
    <2> DEFINE Q == IF p.ret = "ok" THEN Ok ELSE ixgbe_i2c_bus_clear(X) ++ Ret(p.ret)
    <2>2. Keeps(lan, Q, H)
      <3>1. Keeps(lan, ixgbe_i2c_bus_clear(X) ++ Ret(p.ret), H)
        BY <1>1, <1>4, KeepsRet, KeepsSeq
      <3>2. Keeps(lan, Ok, H)  BY <1>1, KeepsOk
      <3> QED BY <3>1, <3>2
    <2>3. Follows(x, p, Q)  BY <2>1
    <2> HIDE DEF Q, K
    <2> QED BY <1>5, <2>2, <2>3, Followed DEF Keeps
  <1>7. Keeps(lan, K, H)
    <2> HIDE DEF K
    <2> QED BY <1>6 DEF Runs, Keeps
  <1>8. Keeps(lan, Acquire(m) && Finally(K, Release(m)), {})
    <2> HIDE DEF K
    <2>1. Keeps(lan, K, {} \cup {m})  BY <1>7 DEF H
    <2> QED BY <1>0, <1>1, <2>1, GuardedKeeps
  <1> HIDE DEF K
  <1> QED BY <1>2, <1>8

\* Reading a byte: an acquisition for each attempt, and one release too many
\* after the last.
LEMMA I2cReadKeeps ==
    ASSUME NEW lan
    PROVE  Keeps(lan, ixgbe_read_i2c_byte_generic(lan), {})
  <1> DEFINE m == PhySm(lan)
             H == {m}
             X == Use(m)
             T == ixgbe_i2c_start(X)
                      ++ ((((( SendByte(X) && SendByte(X)) && (ixgbe_i2c_start(X) ++ SendByte(X)))
                               && ixgbe_clock_in_i2c_byte(X)) && ixgbe_clock_out_i2c_bit(X))
                               && (ixgbe_i2c_stop(X) ++ Ok))
             Z == Release(m) ++ ixgbe_i2c_bus_clear(Poke(m))
  <1>1. m \in MasksOf(lan) /\ m \in Masks /\ H \in SUBSET Masks /\ m \in H /\ H \ {m} = {}
    BY PhyMask
  <1>0. {} \in SUBSET Masks /\ m \notin {} /\ {} \cup {m} = H /\ {} \ {m} = {} /\ MaxRetry \in Nat
    BY AccessAssumption
  <1>2. ixgbe_read_i2c_byte_generic(lan) = LoopOf("i2c", lan, T, MaxRetry)
    <2>1. Last0("i2c", lan, T) = Release(m) ++ Ret("ERR_I2C")  BY DEF Last0
    <2>2. \A Q : Again("i2c", lan, T, Q)
                   = Acquire(m) && Then(T, LAMBDA r : IF r = "ok" THEN Release(m) ELSE Z ++ Q)
      BY DEF Again, Then, &&
    <2> QED BY <2>1, <2>2, Zenon DEF ixgbe_read_i2c_byte_generic, LoopOf, Loop, Then, &&
  <1> HIDE DEF m
  <1>3. Keeps(lan, X, H)
    <2> HIDE DEF H
    <2> QED BY <1>1, RunsUse
  <1> HIDE DEF X, H
  <1>4. /\ Keeps(lan, ixgbe_i2c_start(X), H) /\ Keeps(lan, ixgbe_i2c_stop(X), H)
        /\ Keeps(lan, SendByte(X), H)
        /\ Keeps(lan, ixgbe_clock_in_i2c_byte(X), H) /\ Keeps(lan, ixgbe_clock_out_i2c_bit(X), H)
    BY <1>1, <1>3, I2cKeeps
  <1>5. Keeps(lan, T, H)
    <2> DEFINE a == SendByte(X) && SendByte(X)
               b == a && (ixgbe_i2c_start(X) ++ SendByte(X))
               c == b && ixgbe_clock_in_i2c_byte(X)
               d == c && ixgbe_clock_out_i2c_bit(X)
               e == d && (ixgbe_i2c_stop(X) ++ Ok)
    <2>1. T = ixgbe_i2c_start(X) ++ e  OBVIOUS
    <2>2. Keeps(lan, a, H)  BY <1>1, <1>4, KeepsAnd
    <2>3. Keeps(lan, ixgbe_i2c_start(X) ++ SendByte(X), H)  BY <1>4, KeepsSeq
    <2> HIDE DEF a, T
    <2>4. Keeps(lan, b, H)  BY <1>1, <2>2, <2>3, KeepsAnd
    <2> HIDE DEF b
    <2>5. Keeps(lan, c, H)  BY <1>1, <1>4, <2>4, KeepsAnd
    <2> HIDE DEF c
    <2>6. Keeps(lan, d, H)  BY <1>1, <1>4, <2>5, KeepsAnd
    <2> HIDE DEF d
    <2>7. Keeps(lan, ixgbe_i2c_stop(X) ++ Ok, H)  BY <1>1, <1>4, KeepsOk, KeepsSeq
    <2>8. Keeps(lan, e, H)  BY <1>1, <2>6, <2>7, KeepsAnd
    <2> HIDE DEF e
    <2> QED BY <1>4, <2>1, <2>8, KeepsSeq
  <1> HIDE DEF T
  <1>6. Runs(lan, Release(m), H, {}, {}) /\ Keeps(lan, Release(m), {}) /\ Runs(lan, Acquire(m), {}, H, {})
    <2>1. Runs(lan, Release(m), H, H \ {m}, H \ {m})
      BY <1>1, RunsRelease
    <2>2. Runs(lan, Release(m), {}, {} \ {m}, {} \ {m})
      BY <1>0, <1>1, RunsRelease DEF m
    <2>3. Runs(lan, Acquire(m), {}, {} \cup {m}, {})
      BY <1>0, <1>1, RunsAcquire
    <2> QED BY <1>0, <1>1, <2>1, <2>2, <2>3 DEF Keeps
  <1>7. Keeps(lan, ixgbe_i2c_bus_clear(Poke(m)), {})
    <2>1. Keeps(lan, Poke(m), {})  BY <1>0, <1>1, RunsPoke
    <2> QED BY <1>0, <2>1, I2cKeeps
  <1>8. Runs(lan, Z, H, {}, {})
    BY <1>6, <1>7, RunsSeq DEF Keeps
  <1> HIDE DEF Z
  <1>9. Keeps(lan, Last0("i2c", lan, T), {})
    <2>1. Last0("i2c", lan, T) = Release(m) ++ Ret("ERR_I2C")  BY DEF Last0, m
    <2>2. Keeps(lan, Release(m) ++ Ret("ERR_I2C"), {})
      BY <1>0, <1>6, KeepsRet, KeepsSeq
    <2> QED BY <2>1, <2>2
  <1>10. ASSUME NEW Q, Keeps(lan, Q, {}) PROVE Keeps(lan, Again("i2c", lan, T, Q), {})
    <2> DEFINE K == Then(T, LAMBDA r : IF r = "ok" THEN Release(m) ELSE Z ++ Q)
    <2>1. Again("i2c", lan, T, Q) = Acquire(m) && K
      BY DEF Again, m, Z
    <2>2. Runs(lan, Z ++ Q, H, {}, {})
      BY <1>8, <1>10, RunsSeq DEF Keeps
    <2>3. ASSUME NEW x \in K
          PROVE  x.ev \in Seq(Events) /\ Trace(lan, x.ev, H, IF x.ret = "ok" THEN {} ELSE {})
      <3>1. PICK p \in T : Follows(x, p, IF p.ret = "ok" THEN Release(m) ELSE Z ++ Q)
        BY <2>3 DEF Then, Follows
      <3> DEFINE R == IF p.ret = "ok" THEN Release(m) ELSE Z ++ Q
      <3>2. Runs(lan, R, H, {}, {})  BY <1>6, <2>2
      <3>3. Follows(x, p, R)  BY <3>1
      <3> HIDE DEF R, K
      <3> QED BY <1>5, <3>2, <3>3, Followed DEF Keeps
    <2>4. Runs(lan, K, H, {}, {})
      <3> HIDE DEF K
      <3> QED BY <2>3 DEF Runs
    <2> HIDE DEF K
    <2>5. Runs(lan, Acquire(m) && K, {}, {}, {})
      BY <1>0, <1>6, <2>4, RunsAnd
    <2> QED BY <2>1, <2>5 DEF Keeps
  <1>11. Keeps(lan, LoopOf("i2c", lan, T, MaxRetry), {})
    BY <1>0, <1>9, <1>10, LoopKeeps
  <1> QED BY <1>2, <1>11

-----------------------------------------------------------------------------
(* The link, the module in the cage and the management firmware.            *)

\* What the paths of P return.
Returns(P, S) == \A p \in P : p.ret \in S

\* What a sequence returns.
LEMMA ReturnsAnd ==
    ASSUME NEW P, NEW Q, NEW S, NEW T, Returns(P, S), Returns(Q, T)
    PROVE  Returns(P && Q, (S \ {"ok"}) \cup T)
  <1> SUFFICES ASSUME NEW x \in P && Q PROVE x.ret \in (S \ {"ok"}) \cup T
    BY DEF Returns
  <1>1. PICK p \in P : Follows(x, p, IF p.ret = "ok" THEN Q ELSE Ret(p.ret))
    BY DEF &&, Then, Follows
  <1>2. PICK q \in (IF p.ret = "ok" THEN Q ELSE Ret(p.ret)) : x = [ev |-> Join(p.ev, q.ev), ret |-> q.ret]
    BY <1>1 DEF Follows
  <1>3. x.ret = q.ret  BY <1>2
  <1>4. CASE p.ret = "ok"  BY <1>2, <1>3, <1>4 DEF Returns
  <1>5. CASE p.ret # "ok"
    <2>1. q.ret = p.ret  BY <1>2, <1>5 DEF Ret
    <2> QED BY <1>3, <1>5, <2>1 DEF Returns
  <1> QED BY <1>4, <1>5

\* The simple ones.
LEMMA ReturnsEach ==
    /\ \A r : Returns(Ret(r), {r})
    /\ Returns(ReadWord, {"ok", "ERR_EEPROM"})
    /\ \A P, Q, S : Returns(P, S) /\ Returns(Q, S) => Returns(P \cup Q, S)
    /\ \A P, S, T : Returns(P, S) /\ S \subseteq T => Returns(P, T)
  <1>1. \A r : Returns(Ret(r), {r})  BY DEF Returns, Ret
  <1>2. \A e : Returns(Do(e), {"ok"})  BY DEF Returns, Do
  <1>3. \A P, Q, S : Returns(P, S) /\ Returns(Q, S) => Returns(P \cup Q, S)  BY DEF Returns
  <1>4. \A P, S, T : Returns(P, S) /\ S \subseteq T => Returns(P, T)  BY DEF Returns
  <1>5. Returns(Do(<<"word", "err">>) ++ Ret("ERR_EEPROM"), {"ok", "ERR_EEPROM"})
    BY DEF ++, Then, Ret, Returns
  <1>6. Returns(ReadWord, {"ok", "ERR_EEPROM"})
    <2>1. Returns(Do(<<"word", "ok">>), {"ok", "ERR_EEPROM"})  BY DEF Do, Returns
    <2> QED BY <1>5, <2>1 DEF ReadWord, Returns
  <1> QED BY <1>1, <1>3, <1>4, <1>6

\* Whether the firmware manages the link is read without the EEPROM, and
\* "none" is the answer only if it does not.
LEMMA LesmKeeps ==
    ASSUME NEW lan, NEW A \in SUBSET Masks, "EEP" \notin A
    PROVE  /\ Keeps(lan, ixgbe_verify_lesm_fw_enabled_82599, A)
           /\ \A p \in ixgbe_verify_lesm_fw_enabled_82599 :
                 /\ p.ret \in {"lesm", "none", "unread"}
                 /\ p.ret = "none" => ~Lesm
  <1> DEFINE Says == Ret(IF Lesm THEN "lesm" ELSE "none")
             Absent == IF Lesm THEN {} ELSE Ret("none")
             W3 == ReadWord && Says
             W2 == ReadWord && (Absent \cup W3)
             W1 == ReadWord && (Absent \cup W2)
             V == ixgbe_verify_lesm_fw_enabled_82599
  <1>0. V = Then(W1, LAMBDA r : Ret(IF r \in {"lesm", "none"} THEN r ELSE "unread"))
    BY DEF ixgbe_verify_lesm_fw_enabled_82599
  <1>1. Keeps(lan, ReadWord, A)  BY RunsWord
  <1>2. Keeps(lan, Says, A) /\ Keeps(lan, Absent, A)
    <2>1. Keeps(lan, {}, A)  BY DEF Keeps, Runs
    <2>2. Keeps(lan, Ret("lesm"), A) /\ Keeps(lan, Ret("none"), A)  BY KeepsRet
    <2> QED BY <2>1, <2>2
  <1>r. Lesm => Returns(Says, {"lesm"}) /\ Returns(Absent, {"lesm"})
    <2>1. Returns(Ret("lesm"), {"lesm"})  BY ReturnsEach
    <2>2. Returns({}, {"lesm"})  BY DEF Returns
    <2> QED BY <2>1, <2>2
  <1> HIDE DEF Says, Absent, V
  <1>3. Keeps(lan, W1, A)
    <2>1. Keeps(lan, W3, A)  BY <1>1, <1>2, KeepsAnd
    <2> HIDE DEF W3
    <2>2. Keeps(lan, Absent \cup W3, A)  BY <1>2, <2>1, KeepsUnion
    <2>3. Keeps(lan, W2, A)  BY <1>1, <2>2, KeepsAnd
    <2> HIDE DEF W2
    <2>4. Keeps(lan, Absent \cup W2, A)  BY <1>2, <2>3, KeepsUnion
    <2> QED BY <1>1, <2>4, KeepsAnd
  <1>4. Lesm => Returns(W1, {"lesm", "ERR_EEPROM"})
    <2> SUFFICES ASSUME Lesm PROVE Returns(W1, {"lesm", "ERR_EEPROM"})
      OBVIOUS
    <2> DEFINE L == {"lesm", "ERR_EEPROM"}
    <2>0. \A T : T \subseteq L => ({"ok", "ERR_EEPROM"} \ {"ok"}) \cup T \subseteq L
      OBVIOUS
    <2> HIDE DEF L
    <2>1. ASSUME NEW Q, Returns(Q, L) PROVE Returns(ReadWord && Q, L)
      <3>1. Returns(ReadWord, {"ok", "ERR_EEPROM"})  BY ReturnsEach
      <3>2. Returns(ReadWord && Q, ({"ok", "ERR_EEPROM"} \ {"ok"}) \cup L)
        BY <2>1, <3>1, ReturnsAnd
      <3>3. ({"ok", "ERR_EEPROM"} \ {"ok"}) \cup L \subseteq L  BY <2>0
      <3> QED BY <3>2, <3>3, ReturnsEach
    <2>2. Returns(Says, L) /\ Returns(Absent, L)
      BY <1>r DEF Returns, L
    <2>3. Returns(W3, L)  BY <2>1, <2>2
    <2> HIDE DEF W3
    <2>4. Returns(Absent \cup W3, L)  BY <2>2, <2>3 DEF Returns
    <2>5. Returns(W2, L)  BY <2>1, <2>4
    <2> HIDE DEF W2
    <2>6. Returns(Absent \cup W2, L)  BY <2>2, <2>5 DEF Returns
    <2>7. Returns(W1, L)  BY <2>1, <2>6
    <2> QED BY <2>7 DEF L
  <1> HIDE DEF W1
  <1>5. ASSUME NEW x \in V
        PROVE  /\ x.ev \in Seq(Events) /\ Trace(lan, x.ev, A, IF x.ret = "ok" THEN A ELSE A)
               /\ x.ret \in {"lesm", "none", "unread"} /\ (x.ret = "none" => ~Lesm)
    <2>1. PICK p \in W1 : Follows(x, p, Ret(IF p.ret \in {"lesm", "none"} THEN p.ret ELSE "unread"))
      BY <1>0, <1>5 DEF Then, Follows
    <2> DEFINE s == IF p.ret \in {"lesm", "none"} THEN p.ret ELSE "unread"
    <2>2. s \in {"lesm", "none", "unread"} /\ (s = "none" => p.ret = "none")
      OBVIOUS
    <2>3. Follows(x, p, Ret(s))  BY <2>1
    <2> HIDE DEF s
    <2>4. x.ret = s  BY <2>3 DEF Follows, Ret
    <2>5. Keeps(lan, Ret(s), A)  BY KeepsRet
    <2>6. x.ev \in Seq(Events) /\ Trace(lan, x.ev, A, IF x.ret = "ok" THEN A ELSE A)
      BY <1>3, <2>3, <2>5, Followed DEF Keeps
    <2>7. x.ret = "none" => ~Lesm
      BY <1>4, <2>2, <2>4 DEF Returns
    <2> QED BY <2>2, <2>4, <2>6, <2>7
  <1>6. Keeps(lan, V, A)
    BY <1>5 DEF Keeps, Runs
  <1> QED BY <1>5, <1>6 DEF V

\* Every writer of AUTOC.
LEMMA UpdateAutocKeeps ==
    ASSUME NEW lan, NEW A \in SUBSET Masks, "EEP" \notin A, "MAC_CSR" \notin A
    PROVE  Keeps(lan, UpdateAutoc, A)
  <1> DEFINE K(r) == CASE r = "lesm"   -> Acquire("MAC_CSR")
                                            && Finally(ixgbe_reset_pipeline_82599(Use("MAC_CSR")),
                                                       Release("MAC_CSR"))
                       [] r = "none"   -> ixgbe_reset_pipeline_82599(Use("MAC_CSR"))
                       [] r = "unread" -> ixgbe_reset_pipeline_82599(Poke("MAC_CSR"))
  <1>0. "MAC_CSR" \in MasksOf(lan) /\ "MAC_CSR" \in Masks /\ A \cup {"MAC_CSR"} \in SUBSET Masks
    BY DEF MasksOf, Masks
  <1>1. ASSUME NEW P, NEW B \in SUBSET Masks, Keeps(lan, P, B)
        PROVE  Keeps(lan, ixgbe_reset_pipeline_82599(P), B)
    <2>1. Keeps(lan, Ok \cup Ret("ERR_RESET_FAILED"), B)  BY KeepsOk, KeepsRet, KeepsUnion
    <2> QED BY <1>1, <2>1, KeepsSeq DEF ixgbe_reset_pipeline_82599
  <1>2. Keeps(lan, K("lesm"), A)
    <2>1. Keeps(lan, Use("MAC_CSR"), A \cup {"MAC_CSR"})  BY <1>0, RunsUse
    <2>2. Keeps(lan, ixgbe_reset_pipeline_82599(Use("MAC_CSR")), A \cup {"MAC_CSR"})
      BY <1>0, <1>1, <2>1
    <2>3. Keeps(lan, Acquire("MAC_CSR") && Finally(ixgbe_reset_pipeline_82599(Use("MAC_CSR")),
                                                   Release("MAC_CSR")), A)
      BY <1>0, <2>2, GuardedKeeps
    <2> QED BY <2>3
  <1>3. ~Lesm => Keeps(lan, K("none"), A)
    <2> SUFFICES ASSUME ~Lesm PROVE Keeps(lan, K("none"), A)
      OBVIOUS
    <2>1. <<"use", "MAC_CSR">> \in Events /\ Lawful(lan, A, <<"use", "MAC_CSR">>, A)
      BY <1>0 DEF Events, Lawful
    <2>2. Keeps(lan, Use("MAC_CSR"), A)  BY <2>1, RunsDo DEF Use, Keeps
    <2> QED BY <1>1, <2>2
  <1>4. Keeps(lan, K("unread"), A)
    <2>1. Keeps(lan, Poke("MAC_CSR"), A)  BY <1>0, RunsPoke
    <2> QED BY <1>1, <2>1
  <1>6. ASSUME NEW x \in UpdateAutoc
        PROVE  x.ev \in Seq(Events) /\ Trace(lan, x.ev, A, IF x.ret = "ok" THEN A ELSE A)
    <2>1. PICK p \in ixgbe_verify_lesm_fw_enabled_82599 : Follows(x, p, K(p.ret))
      BY <1>6 DEF UpdateAutoc, Then, Follows
    <2>2. p.ret \in {"lesm", "none", "unread"} /\ (p.ret = "none" => ~Lesm)
      BY LesmKeeps
    <2>3. Keeps(lan, ixgbe_verify_lesm_fw_enabled_82599, A)
      BY LesmKeeps
    <2> HIDE DEF K
    <2>4. Keeps(lan, K(p.ret), A)
      BY <1>2, <1>3, <1>4, <2>2
    <2> DEFINE Q == K(p.ret)
    <2>5. Keeps(lan, Q, A) /\ Follows(x, p, Q)  BY <2>1, <2>4
    <2> HIDE DEF Q
    <2> QED BY <2>3, <2>5, Followed DEF Keeps
  <1> QED BY <1>6 DEF Keeps, Runs

\* The initialisation of a module: words of the EEPROM are read with MAC_CSR.
LEMMA SfpKeeps ==
    ASSUME NEW lan
    PROVE  Keeps(lan, ixgbe_setup_sfp_modules_82599, {})
  <1> DEFINE Z == {}
             H == {"MAC_CSR"}
             Found == ReadWordAnyhow ++ (Ok \cup Ret("ERR_SFP_NOT_SUPPORTED"))
             Search == Then(RoundsWhileOk(ReadWord), LAMBDA r :
                            IF r = "ok" THEN Found \cup Ret("ERR_SFP_NOT_SUPPORTED") ELSE Ret("ERR_PHY"))
             O == ixgbe_get_sfp_init_sequence_offsets
             Core == ReadWordAnyhow ++ Rounds(Use("MAC_CSR") ++ ReadWordAnyhow)
             Link == Then(UpdateAutoc, LAMBDA r :
                          IF r = "ERR_RESET_FAILED" THEN Ret("ERR_SFP_SETUP_NOT_COMPLETE") ELSE Ret(r))
  <1>0. /\ Z \in SUBSET Masks /\ H \in SUBSET Masks /\ "EEP" \notin Z /\ "EEP" \notin H
        /\ "MAC_CSR" \notin Z /\ "MAC_CSR" \in H /\ "MAC_CSR" \in Masks /\ "MAC_CSR" \in MasksOf(lan)
        /\ Z \cup {"MAC_CSR"} = H /\ H \ {"MAC_CSR"} = Z
    BY DEF Masks, MasksOf
  <1>1. ixgbe_setup_sfp_modules_82599
            = Ok \cup ((O && Acquire("MAC_CSR")) && ((Core ++ Release("MAC_CSR")) ++ Link))
    BY DEF ixgbe_setup_sfp_modules_82599
  <1>2. O = (Ret("ERR_SFP_NOT_SUPPORTED") \cup Ret("ERR_SFP_NOT_PRESENT"))
            \cup (ReadWordAnyhow ++ (Ret("ERR_SFP_NO_INIT_SEQ_PRESENT") \cup (ReadWordAnyhow ++ Search)))
    BY DEF ixgbe_get_sfp_init_sequence_offsets
  <1> HIDE DEF Z, H, O
  <1>3. Keeps(lan, ReadWord, Z) /\ Keeps(lan, ReadWordAnyhow, Z) /\ Keeps(lan, ReadWordAnyhow, H)
    BY <1>0, RunsWord
  <1>4. Keeps(lan, Found, Z)
    <2>1. Keeps(lan, Ok \cup Ret("ERR_SFP_NOT_SUPPORTED"), Z)  BY <1>0, KeepsOk, KeepsRet, KeepsUnion
    <2> QED BY <1>3, <2>1, KeepsSeq
  <1> HIDE DEF Found
  <1>5. Keeps(lan, Search, Z)
    <2>1. Keeps(lan, RoundsWhileOk(ReadWord), Z)  BY <1>0, <1>3, KeepsRounds
    <2>2. ASSUME NEW x \in Search
          PROVE  x.ev \in Seq(Events) /\ Trace(lan, x.ev, Z, IF x.ret = "ok" THEN Z ELSE Z)
      <3>1. PICK p \in RoundsWhileOk(ReadWord) :
                Follows(x, p, IF p.ret = "ok" THEN Found \cup Ret("ERR_SFP_NOT_SUPPORTED") ELSE Ret("ERR_PHY"))
        BY <2>2 DEF Then, Follows
      <3> DEFINE Q == IF p.ret = "ok" THEN Found \cup Ret("ERR_SFP_NOT_SUPPORTED") ELSE Ret("ERR_PHY")
      <3>2. Keeps(lan, Q, Z)
        <4>1. Keeps(lan, Ret("ERR_SFP_NOT_SUPPORTED"), Z) /\ Keeps(lan, Ret("ERR_PHY"), Z)
          BY <1>0, KeepsRet
        <4>2. Keeps(lan, Found \cup Ret("ERR_SFP_NOT_SUPPORTED"), Z)  BY <1>4, <4>1, KeepsUnion
        <4> QED BY <4>1, <4>2
      <3>3. Follows(x, p, Q)  BY <3>1
      <3> HIDE DEF Q, Search
      <3> QED BY <2>1, <3>2, <3>3, Followed DEF Keeps
    <2> HIDE DEF Search
    <2> QED BY <2>2 DEF Keeps, Runs
  <1> HIDE DEF Search
  <1>6. Keeps(lan, O, Z)
    <2>1. /\ Keeps(lan, Ret("ERR_SFP_NOT_SUPPORTED"), Z) /\ Keeps(lan, Ret("ERR_SFP_NOT_PRESENT"), Z)
          /\ Keeps(lan, Ret("ERR_SFP_NO_INIT_SEQ_PRESENT"), Z)
      BY <1>0, KeepsRet
    <2>2. Keeps(lan, ReadWordAnyhow ++ Search, Z)  BY <1>3, <1>5, KeepsSeq
    <2>3. Keeps(lan, Ret("ERR_SFP_NO_INIT_SEQ_PRESENT") \cup (ReadWordAnyhow ++ Search), Z)
      BY <2>1, <2>2, KeepsUnion
    <2>4. Keeps(lan, ReadWordAnyhow ++ (Ret("ERR_SFP_NO_INIT_SEQ_PRESENT")
                                            \cup (ReadWordAnyhow ++ Search)), Z)
      BY <1>3, <2>3, KeepsSeq
    <2>5. Keeps(lan, Ret("ERR_SFP_NOT_SUPPORTED") \cup Ret("ERR_SFP_NOT_PRESENT"), Z)
      BY <2>1, KeepsUnion
    <2> QED BY <1>2, <2>4, <2>5, KeepsUnion
  <1>7. Keeps(lan, Core, H)
    <2>1. Keeps(lan, Use("MAC_CSR"), H)  BY <1>0, RunsUse
    <2>2. Keeps(lan, Use("MAC_CSR") ++ ReadWordAnyhow, H)  BY <1>3, <2>1, KeepsSeq
    <2>3. Keeps(lan, Rounds(Use("MAC_CSR") ++ ReadWordAnyhow), H)  BY <1>0, <2>2, KeepsRounds
    <2> QED BY <1>3, <2>3, KeepsSeq
  <1> HIDE DEF Core
  <1>8. Keeps(lan, Link, Z)
    <2>1. Keeps(lan, UpdateAutoc, Z)  BY <1>0, UpdateAutocKeeps
    <2>2. ASSUME NEW x \in Link
          PROVE  x.ev \in Seq(Events) /\ Trace(lan, x.ev, Z, IF x.ret = "ok" THEN Z ELSE Z)
      <3>1. PICK p \in UpdateAutoc :
                Follows(x, p, IF p.ret = "ERR_RESET_FAILED" THEN Ret("ERR_SFP_SETUP_NOT_COMPLETE")
                              ELSE Ret(p.ret))
        BY <2>2 DEF Then, Follows
      <3> DEFINE Q == IF p.ret = "ERR_RESET_FAILED" THEN Ret("ERR_SFP_SETUP_NOT_COMPLETE") ELSE Ret(p.ret)
      <3>2. Keeps(lan, Q, Z)
        <4>1. Keeps(lan, Ret("ERR_SFP_SETUP_NOT_COMPLETE"), Z) /\ Keeps(lan, Ret(p.ret), Z)
          BY <1>0, KeepsRet
        <4> QED BY <4>1
      <3>3. Follows(x, p, Q)  BY <3>1
      <3> HIDE DEF Q, Link
      <3> QED BY <2>1, <3>2, <3>3, Followed DEF Keeps
    <2> HIDE DEF Link
    <2> QED BY <2>2 DEF Keeps, Runs
  <1> HIDE DEF Link
  <1>9. Runs(lan, O && Acquire("MAC_CSR"), Z, H, Z)
    <2>1. Runs(lan, Acquire("MAC_CSR"), Z, Z \cup {"MAC_CSR"}, Z)  BY <1>0, RunsAcquire
    <2>2. Runs(lan, Acquire("MAC_CSR"), Z, H, Z)  BY <1>0, <2>1
    <2>3. Runs(lan, O, Z, Z, Z)  BY <1>6 DEF Keeps
    <2> QED BY <1>0, <2>2, <2>3, RunsAnd
  <1>10. Runs(lan, (Core ++ Release("MAC_CSR")) ++ Link, H, Z, Z)
    <2>1. Runs(lan, Release("MAC_CSR"), H, H \ {"MAC_CSR"}, H \ {"MAC_CSR"})  BY <1>0, RunsRelease
    <2>2. Runs(lan, Release("MAC_CSR"), H, Z, Z)  BY <1>0, <2>1
    <2>3. Runs(lan, Core, H, H, H)  BY <1>7 DEF Keeps
    <2>4. Runs(lan, Core ++ Release("MAC_CSR"), H, Z, Z)  BY <2>2, <2>3, RunsSeq
    <2>5. Runs(lan, Link, Z, Z, Z)  BY <1>8 DEF Keeps
    <2> QED BY <2>4, <2>5, RunsSeq
  <1>11. Keeps(lan, (O && Acquire("MAC_CSR")) && ((Core ++ Release("MAC_CSR")) ++ Link), Z)
    BY <1>0, <1>9, <1>10, RunsAnd DEF Keeps
  <1>12. Keeps(lan, ixgbe_setup_sfp_modules_82599, Z)
    BY <1>0, <1>1, <1>11, KeepsOk, KeepsUnion
  <1> QED BY <1>12 DEF Z

\* A command to the management firmware, repeated until it is answered.
LEMMA DrvVerKeeps ==
    ASSUME NEW lan
    PROVE  Keeps(lan, ixgbe_set_fw_drv_ver_generic, {})
  <1> DEFINE H == {} \cup {"SW_MNG"}
             P == ixgbe_host_interface_command
             E == Ok \cup Ret("ERR_HOST_INTERFACE_COMMAND")
             f == CHOOSE g : g = [n \in 0..MaxLoop |->
                      Then(P, LAMBDA r : IF r = "ok" THEN E ELSE IF n = 0 THEN Ret(r) ELSE g[n - 1])]
  <1>0. /\ {} \in SUBSET Masks /\ H \in SUBSET Masks /\ "SW_MNG" \in H /\ "SW_MNG" \notin {}
        /\ "SW_MNG" \in Masks /\ "SW_MNG" \in MasksOf(lan) /\ MaxLoop \in Nat
    BY AccessAssumption DEF Masks, MasksOf
  <1>1. ixgbe_set_fw_drv_ver_generic = Acquire("SW_MNG") && Finally(f[MaxLoop], Release("SW_MNG"))
    BY DEF ixgbe_set_fw_drv_ver_generic
  <1>2. ASSUME NEW g
        PROVE  g = [n \in 0..MaxLoop |->
                      Then(P, LAMBDA r : IF r = "ok" THEN E ELSE IF n = 0 THEN Ret(r) ELSE g[n - 1])]
                 <=> Loop(g, "command", lan, P, MaxLoop)
    <2> DEFINE B(n) == Then(P, LAMBDA r : IF r = "ok" THEN E ELSE IF n = 0 THEN Ret(r) ELSE g[n - 1])
               C(n) == IF n = 0 THEN Last0("command", lan, P) ELSE Again("command", lan, P, g[n - 1])
    <2>1. ASSUME NEW n \in 0..MaxLoop PROVE B(n) = C(n)
      <3>1. CASE n = 0  BY <3>1 DEF Last0, Then
      <3>2. CASE n # 0  BY <3>2 DEF Again, Then
      <3> QED BY <3>1, <3>2
    <2>2. Loop(g, "command", lan, P, MaxLoop) <=> g = [n \in 0..MaxLoop |-> C(n)]
      BY DEF Loop
    <2> HIDE DEF B, C
    <2>3. [n \in 0..MaxLoop |-> B(n)] = [n \in 0..MaxLoop |-> C(n)]
      BY <2>1
    <2>4. g = [n \in 0..MaxLoop |-> B(n)] <=> Loop(g, "command", lan, P, MaxLoop)
      BY <2>2, <2>3
    <2> QED BY <2>4 DEF B
  <1>3. Loop(f, "command", lan, P, MaxLoop)
    <2>1. PICK g : Loop(g, "command", lan, P, MaxLoop)
      BY <1>0, LoopExists DEF LoopSome
    <2> DEFINE D(x) == x = [n \in 0..MaxLoop |->
                      Then(P, LAMBDA r : IF r = "ok" THEN E ELSE IF n = 0 THEN Ret(r) ELSE x[n - 1])]
    <2>2. D(g)  BY <1>2, <2>1
    <2>3. f = CHOOSE x : D(x)  OBVIOUS
    <2> HIDE DEF D, f
    <2>4. D(f)  BY <2>2, <2>3
    <2>5. \A x : D(x) <=> Loop(x, "command", lan, P, MaxLoop)  BY <1>2 DEF D
    <2> QED BY <2>4, <2>5
  <1> HIDE DEF f, H
  <1>4. Keeps(lan, P, H)
    <2>1. Keeps(lan, Use("SW_MNG"), H)  BY <1>0, RunsUse
    <2>2. Keeps(lan, E, H) /\ Keeps(lan, Ret("ERR_HOST_INTERFACE_COMMAND"), H)
      BY <1>0, KeepsOk, KeepsRet, KeepsUnion
    <2>3. Keeps(lan, Use("SW_MNG") ++ E, H)  BY <2>1, <2>2, KeepsSeq
    <2> QED BY <2>2, <2>3, KeepsUnion DEF ixgbe_host_interface_command
  <1> HIDE DEF P
  <1>5. Keeps(lan, E, H) /\ \A r : Keeps(lan, Ret(r), H)
    BY <1>0, KeepsOk, KeepsRet, KeepsUnion
  <1>6. Keeps(lan, Last0("command", lan, P), H)
    <2> DEFINE K == Last0("command", lan, P)
    <2>1. ASSUME NEW x \in K
          PROVE  x.ev \in Seq(Events) /\ Trace(lan, x.ev, H, IF x.ret = "ok" THEN H ELSE H)
      <3>1. PICK p \in P : Follows(x, p, IF p.ret = "ok" THEN E ELSE Ret(p.ret))
        BY <2>1 DEF Last0, Then, Follows
      <3> DEFINE R == IF p.ret = "ok" THEN E ELSE Ret(p.ret)
      <3> HIDE DEF E, K
      <3>2. Keeps(lan, R, H) /\ Follows(x, p, R)  BY <1>5, <3>1
      <3> HIDE DEF R
      <3> QED BY <1>4, <3>2, Followed DEF Keeps
    <2> HIDE DEF K
    <2>2. Keeps(lan, K, H)  BY <2>1 DEF Keeps, Runs
    <2> QED BY <2>2 DEF K
  <1>7. ASSUME NEW Q, Keeps(lan, Q, H) PROVE Keeps(lan, Again("command", lan, P, Q), H)
    <2> DEFINE K == Again("command", lan, P, Q)
    <2>1. ASSUME NEW x \in K
          PROVE  x.ev \in Seq(Events) /\ Trace(lan, x.ev, H, IF x.ret = "ok" THEN H ELSE H)
      <3>1. PICK p \in P : Follows(x, p, IF p.ret = "ok" THEN E ELSE Q)
        BY <2>1 DEF Again, Then, Follows
      <3> DEFINE R == IF p.ret = "ok" THEN E ELSE Q
      <3> HIDE DEF E, K
      <3>2. Keeps(lan, R, H) /\ Follows(x, p, R)  BY <1>5, <1>7, <3>1
      <3> HIDE DEF R
      <3> QED BY <1>4, <3>2, Followed DEF Keeps
    <2> HIDE DEF K
    <2>2. Keeps(lan, K, H)  BY <2>1 DEF Keeps, Runs
    <2> QED BY <2>2 DEF K
  <1> HIDE DEF E
  <1>9. Keeps(lan, f[MaxLoop], H)
    BY <1>0, <1>3, <1>6, <1>7, LoopHolds
  <1>8. Keeps(lan, Acquire("SW_MNG") && Finally(f[MaxLoop], Release("SW_MNG")), {})
    BY <1>0, <1>9, GuardedKeeps DEF H
  <1> QED BY <1>1, <1>8

\* The calls of IxgbeSync, but the one that releases what it may not have
\* acquired (ixgbe_setup_loopback_link_82599).
Balanced == {"read_eeprom", "write_eeprom", "checksum", "phy_reg", "i2c", "link", "sfp", "fw_drv_ver"}

\* Each takes and gives back on every path.
LEMMA PathsKeep ==
    ASSUME NEW lan, NEW c \in Balanced
    PROVE  Keeps(lan, Paths(c, lan), {})
  <1>0. {} \in SUBSET Masks /\ "EEP" \notin {} /\ "MAC_CSR" \notin {}  OBVIOUS
  <1>1. /\ Keeps(lan, ixgbe_read_eeprom_buffer_82599, {}) /\ Keeps(lan, ixgbe_write_eewr_generic, {})
        /\ Keeps(lan, ixgbe_validate_eeprom_checksum_generic, {})
        /\ Keeps(lan, ixgbe_update_eeprom_checksum_generic, {})
    BY <1>0, EepromKeeps
  <1>2. Keeps(lan, ixgbe_write_eeprom_buffer_bit_bang_generic, {})
    BY <1>0, BitBangKeeps
  <1>3. Keeps(lan, ixgbe_write_eeprom_buffer_bit_bang_generic \cup ixgbe_write_eewr_generic, {})
    BY <1>1, <1>2, KeepsUnion
  <1>4. Keeps(lan, ixgbe_update_eeprom_checksum_generic \cup ixgbe_validate_eeprom_checksum_generic, {})
    BY <1>1, KeepsUnion
  <1>5. Keeps(lan, ixgbe_read_phy_reg_generic(lan) \cup ixgbe_write_phy_reg_generic(lan), {})
    BY MdioKeeps, KeepsUnion
  <1>6. Keeps(lan, ixgbe_read_i2c_eeprom_generic(lan) \cup ixgbe_write_i2c_eeprom_generic(lan), {})
    BY I2cReadKeeps, I2cWriteKeeps, KeepsUnion
       DEF ixgbe_read_i2c_eeprom_generic, ixgbe_write_i2c_eeprom_generic
  <1>7. Keeps(lan, UpdateAutoc, {})  BY <1>0, UpdateAutocKeeps
  <1>8. Keeps(lan, ixgbe_setup_sfp_modules_82599, {}) /\ Keeps(lan, ixgbe_set_fw_drv_ver_generic, {})
    BY SfpKeeps, DrvVerKeeps
  <1>9. /\ Paths("read_eeprom", lan) = ixgbe_read_eeprom_buffer_82599
        /\ Paths("write_eeprom", lan)
             = ixgbe_write_eeprom_buffer_bit_bang_generic \cup ixgbe_write_eewr_generic
        /\ Paths("checksum", lan)
             = ixgbe_update_eeprom_checksum_generic \cup ixgbe_validate_eeprom_checksum_generic
        /\ Paths("phy_reg", lan) = ixgbe_read_phy_reg_generic(lan) \cup ixgbe_write_phy_reg_generic(lan)
        /\ Paths("i2c", lan) = ixgbe_read_i2c_eeprom_generic(lan) \cup ixgbe_write_i2c_eeprom_generic(lan)
        /\ Paths("link", lan) = UpdateAutoc /\ Paths("sfp", lan) = ixgbe_setup_sfp_modules_82599
        /\ Paths("fw_drv_ver", lan) = ixgbe_set_fw_drv_ver_generic
    BY DEF Paths
  <1> QED BY <1>1, <1>3, <1>4, <1>5, <1>6, <1>7, <1>8, <1>9 DEF Balanced

-----------------------------------------------------------------------------
(* The invariant.                                                          *)

PCs == {"idle", "run", "smbi", "smbi_last", "swesmbi", "read", "write", "drop", "wait", "failed", "stopped"}
\* In a semaphore call.
InCall == {"smbi", "smbi_last", "swesmbi", "read", "write", "drop", "wait", "failed"}
Bits == {"sw", "fw"} \X Masks
PathType == [ev : Seq(Events), ok : BOOLEAN]
DrvType ==
    [pc : PCs, todo : SUBSET PathType, caller : SUBSET PathType,
     op : {"none", "acq", "rel"}, mask : Masks \cup {"none"}, gssr : SUBSET Bits]
FwType == [pc : {"idle", "held", "stopped"}, mask : FwMasks \cup {"none"}, own : SUBSET FwMasks]

SyncTypes ==
    /\ smbi \in Lans \cup {"none"} /\ swesmbi \in Lans \cup {"fw", "none"} /\ gssr \in SUBSET Bits
    /\ drv \in [Lans -> DrvType] /\ fw \in FwType
    /\ own \in [Lans -> SUBSET Masks] /\ \A d \in Lans : own[d] \subseteq MasksOf(d)

\* The firmware has stopped with SWESMBI: nobody acquires anything any more.
Stuck == swesmbi = "fw" /\ fw.pc = "stopped"

\* Who is where with the two semaphores.  Software goes on without them only
\* when it is stuck, and then only to release.
LockOf(d) ==
    /\ drv[d].pc = "smbi_last" => smbi = "none" /\ \A e \in Lans \ {d} : drv[e].pc = "stopped"
    /\ drv[d].pc = "failed" => Stuck
    /\ drv[d].pc \in {"swesmbi", "read", "write", "drop"} => Stuck \/ smbi = d
    /\ drv[d].pc \in {"read", "write", "drop"} => Stuck \/ swesmbi = d
    /\ drv[d].pc = "read" => ~Stuck
    /\ drv[d].pc \in {"write", "drop"} /\ Stuck => drv[d].op = "rel"
Locks ==
    /\ \A d \in Lans : LockOf(d)
    /\ fw.pc = "held" => swesmbi = "fw" /\ fw.mask \in FwMasks
    /\ swesmbi = "fw" => fw.pc \in {"held", "stopped"}

\* Nothing belongs to two.
Apart ==
    /\ \A d, e \in Lans : d # e => own[d] \cap own[e] = {}
    /\ \A d \in Lans : own[d] \cap fw.own = {}

\* The bits of GSSR, and of a value of it that is about to be written.
BitsAre ==
    /\ \A k \in Masks : <<"fw", k>> \in gssr <=> k \in fw.own
    /\ \A x \in Lans : \A k \in own[x] : <<"sw", k>> \in gssr
    /\ ~Stuck => \A k \in Masks : <<"sw", k>> \in gssr => \E x \in Lans : k \in own[x]
WillBe(d) ==
    LET m == drv[d].mask
        s == drv[d].gssr
    IN  /\ \A k \in Masks : <<"fw", k>> \in s <=> k \in fw.own
        /\ \A x \in Lans : \A k \in own[x] \ {m} : <<"sw", k>> \in s
        /\ ~Stuck => \A k \in Masks \ {m} : <<"sw", k>> \in s => \E x \in Lans : k \in own[x]
        /\ ~Stuck /\ drv[d].op = "rel" => <<"sw", m>> \notin s
        /\ drv[d].op = "acq" => <<"sw", m>> \in s /\ m \notin fw.own /\ \A x \in Lans : m \notin own[x]
Gssr == BitsAre /\ \A d \in Lans : drv[d].pc = "write" => WillBe(d)

\* What is left of a call leads from what the driver has acquired (or, from
\* the write to the end of the semaphore call, had before) to H: to nothing,
\* or to what its caller goes on from.
Leads(d, r, B, H, mine) ==
    /\ \A p \in r.todo : Trace(d, p.ev, B, H)
    /\ r.caller = {} => H = {}
    /\ \A q \in r.caller : Trace(d, q.ev, H, {})
    /\ mine = CASE r.pc = "drop" /\ r.op = "acq" -> B \cup {r.mask}
                [] r.pc = "drop" /\ r.op = "rel" -> B \ {r.mask}
                [] OTHER -> B
    /\ r.pc \in InCall => \/ r.op = "acq" /\ r.mask \in MasksOf(d) \ B
                          \/ r.op = "rel" /\ r.mask \in B \cup {PhySm(d)}
CallOk(d, r, mine) ==
    /\ r.pc = "idle" => mine = {}
    /\ r.pc \notin {"idle", "stopped"} => \E B, H \in SUBSET Masks : Leads(d, r, B, H, mine)

SyncInv ==
    /\ SyncTypes /\ Locks /\ Apart /\ Gssr
    /\ \A d \in Lans : CallOk(d, drv[d], own[d])

-----------------------------------------------------------------------------
(* What every step of a driver has in common.                              *)

\* A semaphore that is free is taken, or both are cleared by who may.
Moved(d) ==
    \/ smbi' = smbi /\ swesmbi' = swesmbi
    \/ smbi = "none" /\ smbi' = d /\ swesmbi' = swesmbi
    \/ swesmbi = "none" /\ swesmbi' = d /\ smbi' = smbi
    \/ ixgbe_release_eeprom_semaphore /\ (Stuck \/ Stopped(smbi) \/ smbi = d)

\* The other driver keeps the semaphores it has.
LEMMA OtherLocks ==
    ASSUME SyncTypes, Locks, NEW d \in Lans, drv[d].pc # "stopped", fw' = fw, Moved(d),
           \A e \in Lans \ {d} : drv'[e] = drv[e], LockOf(d)'
    PROVE  Locks'
  <1>1. Stuck' <=> Stuck
    BY DEF Stuck, Moved, ixgbe_release_eeprom_semaphore, Lans, SyncTypes
  <1>2. ASSUME NEW e \in Lans \ {d} PROVE LockOf(e)'
    <2>1. drv'[e] = drv[e] /\ LockOf(e) /\ e \in Lans /\ d \in Lans \ {e}  BY <1>2 DEF Locks
    <2>2. drv[e].pc # "smbi_last"  BY <2>1 DEF LockOf
    <2>3. CASE Stuck
      BY <1>1, <2>1, <2>2, <2>3 DEF LockOf
    <2>4. CASE ~Stuck
      <3>1. ASSUME drv[e].pc \in {"swesmbi", "read", "write", "drop"}
            PROVE  smbi' = smbi /\ (swesmbi' = swesmbi \/ swesmbi = "none")
        <4>1. smbi = e  BY <3>1, <2>1, <2>4 DEF LockOf
        <4>2. smbi # "none" /\ smbi # d /\ ~Stopped(smbi)
          BY <4>1, <3>1 DEF Lans, Stopped
        <4> QED BY <4>2, <2>4 DEF Moved
      <3>2. drv[e].pc \in {"read", "write", "drop"} => swesmbi = e /\ swesmbi # "none"
        BY <2>1, <2>4 DEF LockOf, Lans
      <3>3. drv[e].pc \in {"swesmbi", "read", "write", "drop"} => smbi = e
        BY <2>1, <2>4 DEF LockOf
      <3> QED BY <1>1, <2>1, <2>2, <2>4, <3>1, <3>2, <3>3 DEF LockOf
    <2> QED BY <2>3, <2>4
  <1>3. (fw.pc = "held" => swesmbi = "fw" /\ fw.mask \in FwMasks)'
        /\ (swesmbi = "fw" => fw.pc \in {"held", "stopped"})'
    BY DEF Moved, ixgbe_release_eeprom_semaphore, Lans, Locks
  <1> QED BY <1>2, <1>3 DEF Locks

\* GSSR stays what it is, and so does what others are about to write.
LEMMA GssrKept ==
    ASSUME Gssr, gssr' = gssr, own' = own, fw'.own = fw.own, Stuck => Stuck',
           \A e \in Lans : drv'[e] = drv[e] \/ (drv'[e].pc = "write" => WillBe(e)')
    PROVE  Gssr'
  <1>1. BitsAre'  BY DEF Gssr, BitsAre
  <1>2. ASSUME NEW e \in Lans, drv'[e] = drv[e], drv[e].pc = "write" PROVE WillBe(e)'
    <2>1. WillBe(e)  BY <1>2 DEF Gssr
    <2> QED BY <2>1, <1>2 DEF WillBe
  <1> QED BY <1>1, <1>2 DEF Gssr

\* A step of a driver that writes nothing.
LEMMA DriverMoves ==
    ASSUME SyncInv, NEW d \in Lans, NEW r \in DrvType, drv' = [drv EXCEPT ![d] = r],
           gssr' = gssr, own' = own, fw' = fw, drv[d].pc # "stopped", Moved(d), LockOf(d)',
           r.pc = "write" => WillBe(d)', CallOk(d, r, own[d])
    PROVE  SyncInv'
  <1>1. drv'[d] = r /\ drv' \in [Lans -> DrvType] /\ \A e \in Lans \ {d} : drv'[e] = drv[e]
    BY DEF SyncInv, SyncTypes
  <1>2. SyncTypes'
    <2>1. smbi' \in Lans \cup {"none"} /\ swesmbi' \in Lans \cup {"fw", "none"}
      BY DEF Moved, ixgbe_release_eeprom_semaphore, SyncInv, SyncTypes
    <2> QED BY <1>1, <2>1 DEF SyncInv, SyncTypes
  <1>3. Locks'  BY <1>1, OtherLocks DEF SyncInv
  <1>4. Apart'  BY DEF SyncInv, Apart
  <1>5. Gssr'
    <2>1. Stuck => Stuck'  BY DEF Stuck, Moved, ixgbe_release_eeprom_semaphore
    <2>2. fw'.own = fw.own  OBVIOUS
    <2> QED BY <1>1, <2>1, <2>2, GssrKept DEF SyncInv
  <1>6. \A e \in Lans : CallOk(e, drv'[e], own'[e])
    BY <1>1 DEF SyncInv
  <1> QED BY <1>2, <1>3, <1>4, <1>5, <1>6 DEF SyncInv

-----------------------------------------------------------------------------
(* What is left of a call.                                                 *)

\* A lawful event leads to one set of semaphores.
LEMMA LawfulOnce ==
    ASSUME NEW lan, NEW A, NEW e, NEW B, NEW C, Lawful(lan, A, e, B), Lawful(lan, A, e, C)
    PROVE  B = C
  <1>1. CASE e[1] = "acq"  BY <1>1 DEF Lawful
  <1>2. CASE e[1] = "rel"  BY <1>2 DEF Lawful
  <1>3. CASE e[1] \notin {"acq", "rel"}  BY <1>3 DEF Lawful
  <1> QED BY <1>1, <1>2, <1>3

\* With the semaphores B the driver may do e.
MayDo(lan, B, e) == e \in Events /\ \E D \in SUBSET Masks : Lawful(lan, B, e, D)

\* What a driver does next is lawful.
LEMMA HeadLawful ==
    ASSUME NEW lan, NEW P \in SUBSET PathType, NEW B, NEW H, \A p \in P : Trace(lan, p.ev, B, H),
           NEW p \in P, p.ev # << >>
    PROVE  MayDo(lan, B, Head(p.ev))
  <1>1. p.ev \in Seq(Events)  BY DEF PathType
  <1> QED BY <1>1, TraceTail, HeadTailProperties DEF MayDo

\* What is left after an event.
LEMMA AfterLeads ==
    ASSUME NEW lan, NEW P \in SUBSET PathType, NEW B, NEW H, \A p \in P : Trace(lan, p.ev, B, H),
           NEW e, NEW D, Lawful(lan, B, e, D)
    PROVE  After(P, e) \in SUBSET PathType /\ \A x \in After(P, e) : Trace(lan, x.ev, D, H)
  <1> SUFFICES ASSUME NEW x \in After(P, e) PROVE x \in PathType /\ Trace(lan, x.ev, D, H)
    OBVIOUS
  <1>1. PICK p \in P : p.ev # << >> /\ Head(p.ev) = e /\ x = [p EXCEPT !.ev = Tail(@)]
    BY DEF After
  <1>2. p.ev \in Seq(Events) /\ p = [ev |-> p.ev, ok |-> p.ok] /\ p.ok \in BOOLEAN
    BY DEF PathType
  <1>3. x.ev = Tail(p.ev) /\ Tail(p.ev) \in Seq(Events) /\ x = [ev |-> Tail(p.ev), ok |-> p.ok]
    BY <1>1, <1>2, HeadTailProperties
  <1>4. PICK C \in SUBSET Masks : Lawful(lan, B, Head(p.ev), C) /\ Trace(lan, Tail(p.ev), C, H)
    BY <1>1, <1>2, TraceTail
  <1>5. C = D  BY <1>1, <1>4, LawfulOnce
  <1> QED BY <1>2, <1>3, <1>4, <1>5 DEF PathType

\* The paths of a call, without the wording of the status.
LEMMA BriefTypes ==
    ASSUME NEW lan, NEW P, NEW A, Keeps(lan, P, A)
    PROVE  /\ Brief(P) \in SUBSET PathType /\ \A x \in Brief(P) : Trace(lan, x.ev, A, A)
           /\ LET Q == {[p EXCEPT !.ok = TRUE] : p \in Brief(P)}
              IN  Q \in SUBSET PathType /\ \A x \in Q : Trace(lan, x.ev, A, A)
  <1>1. ASSUME NEW x \in Brief(P) PROVE x \in PathType /\ Trace(lan, x.ev, A, A)
    <2>1. PICK p \in P : x = [ev |-> p.ev, ok |-> p.ret = "ok"]
      BY DEF Brief
    <2>2. p.ev \in Seq(Events) /\ Trace(lan, p.ev, A, A)
      BY DEF Keeps, Runs
    <2> QED BY <2>1, <2>2 DEF PathType
  <1>2. ASSUME NEW x \in Brief(P)
        PROVE  [x EXCEPT !.ok = TRUE] \in PathType /\ [x EXCEPT !.ok = TRUE].ev = x.ev
    BY <1>1 DEF PathType
  <1> QED BY <1>1, <1>2

\* The record of a driver after a step that changes one field of it.
LEMMA PcSet ==
    ASSUME NEW r \in DrvType, NEW pc \in PCs
    PROVE  LET x == [r EXCEPT !.pc = pc]
           IN  /\ x \in DrvType /\ x.pc = pc /\ x.todo = r.todo /\ x.caller = r.caller
               /\ x.op = r.op /\ x.mask = r.mask /\ x.gssr = r.gssr
  BY DEF DrvType

\* The record of a driver that goes on with P, and then with Q.
Going(P, Q) == [Idle EXCEPT !.pc = "run", !.todo = P, !.caller = Q]

\* It is in no semaphore call.
LEMMA GoingIs ==
    ASSUME NEW P \in SUBSET PathType, NEW Q \in SUBSET PathType
    PROVE  /\ Going(P, Q) \in DrvType /\ Going(P, Q).pc = "run"
           /\ Going(P, Q).todo = P /\ Going(P, Q).caller = Q
  BY DEF Going, Idle, DrvType, PCs

\* The same without a caller.
LEMMA BeginningIs ==
    ASSUME NEW P \in SUBSET PathType, NEW r, r = [Idle EXCEPT !.pc = "run", !.todo = P]
    PROVE  r \in DrvType /\ r.pc = "run" /\ r.todo = P /\ r.caller = {}
  BY DEF Idle, DrvType, PCs

\* What it goes on with leads to nothing, or to its caller.
LEMMA GoingOk ==
    ASSUME NEW d, NEW r, r.pc = "run", NEW B \in SUBSET Masks, NEW H \in SUBSET Masks,
           \A p \in r.todo : Trace(d, p.ev, B, H), r.caller = {} => H = {},
           \A q \in r.caller : Trace(d, q.ev, H, {})
    PROVE  CallOk(d, r, B)
  <1>1. Leads(d, r, B, H, B)  BY DEF Leads, InCall
  <1> QED BY <1>1 DEF CallOk

-----------------------------------------------------------------------------
(* The steps of a call.                                                    *)

\* A driver goes on with r after a step.
LEMMA GoesOn ==
    ASSUME SyncInv, NEW d \in Lans, drv[d].pc # "stopped", NEW r \in DrvType, r.pc = "run",
           drv' = [drv EXCEPT ![d] = r], gssr' = gssr, own' = own, fw' = fw, Moved(d),
           NEW H \in SUBSET Masks, \A p \in r.todo : Trace(d, p.ev, own[d], H),
           r.caller = {} => H = {}, \A q \in r.caller : Trace(d, q.ev, H, {})
    PROVE  SyncInv'
  <1>2. own[d] \in SUBSET Masks  BY DEF SyncInv, SyncTypes
  <1>3. CallOk(d, r, own[d])  BY <1>2, GoingOk
  <1>4. drv'[d] = r  BY DEF SyncInv, SyncTypes
  <1>5. LockOf(d)'  BY <1>4 DEF LockOf
  <1> QED BY <1>3, <1>5, DriverMoves

\* A call begins.
LEMMA BeginKeeps ==
    ASSUME Calls0 \cup Calls1 \subseteq Balanced, SyncInv, NEW d \in Lans, NEW c \in Calls[d], Begin(d, c)
    PROVE  SyncInv'
  <1> DEFINE P == {[p EXCEPT !.ok = TRUE] : p \in Brief(Paths(c, d))}
             r == [Idle EXCEPT !.pc = "run", !.todo = P]
  <1>1. c \in Balanced  BY DEF Calls, Lans
  <1>2. Keeps(d, Paths(c, d), {})  BY <1>1, PathsKeep
  <1>3. P \in SUBSET PathType /\ \A p \in P : Trace(d, p.ev, {}, {})  BY <1>2, BriefTypes
  <1>4. Script[d][c] = P  BY DEF Script
  <1> HIDE DEF P
  <1>5. r \in DrvType /\ r.pc = "run" /\ r.todo = P /\ r.caller = {}  BY <1>3, BeginningIs
  <1>6. /\ drv' = [drv EXCEPT ![d] = r] /\ UNCHANGED <<smbi, swesmbi, gssr, fw, own>>
        /\ drv[d].pc = "idle"
    BY <1>4 DEF Begin
  <1> HIDE DEF r
  <1>7. own[d] = {}  BY <1>6 DEF SyncInv, CallOk
  <1>8. Moved(d)  BY <1>6 DEF Moved
  <1>9. /\ {} \in SUBSET Masks /\ \A p \in r.todo : Trace(d, p.ev, own[d], {})
        /\ \A q \in r.caller : Trace(d, q.ev, {}, {})
    BY <1>3, <1>5, <1>7
  <1> QED BY <1>5, <1>6, <1>8, <1>9, GoesOn

\* What a driver that is in a call has, and what the call leads to.
LEMMA InACall ==
    ASSUME SyncInv, NEW d \in Lans, drv[d].pc \notin {"idle", "stopped"}
    PROVE  \E B, H \in SUBSET Masks : Leads(d, drv[d], B, H, own[d])
  BY DEF SyncInv, CallOk

\* A driver that is about to do e, outside a semaphore call.
LEMMA AboutTo ==
    ASSUME SyncInv, NEW d \in Lans, drv[d].pc = "run", NEW e \in Heads(d)
    PROVE  e \in Events /\ \E D \in SUBSET Masks : Lawful(d, own[d], e, D)
  <1>1. PICK B \in SUBSET Masks, H \in SUBSET Masks : Leads(d, drv[d], B, H, own[d])
    BY InACall
  <1>2. own[d] = B /\ \A p \in drv[d].todo : Trace(d, p.ev, B, H)
    BY <1>1 DEF Leads
  <1>3. drv[d].todo \in SUBSET PathType
    BY DEF SyncInv, SyncTypes, DrvType
  <1>4. PICK p \in drv[d].todo : p.ev # << >> /\ e = Head(p.ev)
    BY DEF Heads
  <1>5. \A q \in drv[d].todo : Trace(d, q.ev, own[d], H)  BY <1>2
  <1> DEFINE P == drv[d].todo
             A == own[d]
  <1> HIDE DEF P, A
  <1>6. P \in SUBSET PathType /\ p \in P /\ \A q \in P : Trace(d, q.ev, A, H)
    BY <1>3, <1>4, <1>5 DEF P, A
  <1>7. MayDo(d, A, Head(p.ev))
    BY <1>4, <1>6, HeadLawful
  <1> QED BY <1>4, <1>7 DEF A, MayDo

\* An access changes nothing but what is left of the call.
LEMMA AccessKeeps ==
    ASSUME SyncInv, NEW d \in Lans, Access(d)
    PROVE  SyncInv'
  <1>1. PICK e \in Heads(d) :
            /\ drv[d].pc = "run" /\ e[1] \in {"use", "poke"}
            /\ drv' = [drv EXCEPT ![d].todo = After(@, e)]
            /\ UNCHANGED <<smbi, swesmbi, gssr, fw, own>>
    BY DEF Access
  <1>2. PICK D \in SUBSET Masks : Lawful(d, own[d], e, D)
    BY <1>1, AboutTo
  <1>3. D = own[d]  BY <1>1, <1>2 DEF Lawful
  <1>4. PICK B \in SUBSET Masks, H \in SUBSET Masks : Leads(d, drv[d], B, H, own[d])
    BY <1>1, InACall
  <1>5. /\ B = own[d] /\ \A p \in drv[d].todo : Trace(d, p.ev, own[d], H)
        /\ drv[d].caller = {} => H = {}
        /\ \A q \in drv[d].caller : Trace(d, q.ev, H, {})
    BY <1>1, <1>4 DEF Leads
  <1>6. drv[d] \in DrvType /\ drv[d].todo \in SUBSET PathType
    BY DEF SyncInv, SyncTypes, DrvType
  <1> DEFINE P == After(drv[d].todo, e)
             r == [drv[d] EXCEPT !.todo = P]
  <1>7. P \in SUBSET PathType /\ \A x \in P : Trace(d, x.ev, own[d], H)
    BY <1>2, <1>3, <1>5, <1>6, AfterLeads
  <1>8. drv' = [drv EXCEPT ![d] = r]
    BY <1>1 DEF SyncInv, SyncTypes
  <1> HIDE DEF P
  <1>9. r \in DrvType /\ r.pc = "run" /\ r.todo = P /\ r.caller = drv[d].caller
    BY <1>1, <1>6, <1>7 DEF DrvType
  <1> HIDE DEF r
  <1>10. Moved(d)  BY <1>1 DEF Moved
  <1>11. /\ \A p \in r.todo : Trace(d, p.ev, own[d], H)
         /\ r.caller = {} => H = {}
         /\ \A q \in r.caller : Trace(d, q.ev, H, {})
    BY <1>5, <1>7, <1>9
  <1> QED BY <1>1, <1>8, <1>9, <1>10, <1>11, GoesOn

\* A semaphore call takes what the driver does not have, or gives back.
LEMMA SyncKeeps ==
    ASSUME SyncInv, NEW d \in Lans, Sync(d)
    PROVE  SyncInv'
  <1>1. PICK e \in Heads(d) :
            /\ drv[d].pc = "run" /\ e[1] \in {"acq", "rel"}
            /\ drv' = [drv EXCEPT ![d].pc = "smbi", ![d].op = e[1], ![d].mask = e[2]]
            /\ UNCHANGED <<smbi, swesmbi, gssr, fw, own>>
    BY DEF Sync
  <1>2. e \in Events /\ \E D \in SUBSET Masks : Lawful(d, own[d], e, D)
    BY <1>1, AboutTo
  <1>3. e[2] \in Masks
    BY <1>1, <1>2 DEF Events
  <1>4. \/ e[1] = "acq" /\ e[2] \in MasksOf(d) \ own[d]
        \/ e[1] = "rel" /\ e[2] \in own[d] \cup {PhySm(d)}
    BY <1>1, <1>2 DEF Lawful
  <1>5. PICK B \in SUBSET Masks, H \in SUBSET Masks : Leads(d, drv[d], B, H, own[d])
    BY <1>1, InACall
  <1>6. /\ B = own[d] /\ \A p \in drv[d].todo : Trace(d, p.ev, own[d], H)
        /\ drv[d].caller = {} => H = {}
        /\ \A q \in drv[d].caller : Trace(d, q.ev, H, {})
    BY <1>1, <1>5 DEF Leads
  <1> DEFINE r == [drv[d] EXCEPT !.pc = "smbi", !.op = e[1], !.mask = e[2]]
  <1>7. drv' = [drv EXCEPT ![d] = r]
    BY <1>1 DEF SyncInv, SyncTypes
  <1>8. /\ r \in DrvType /\ r.pc = "smbi" /\ r.todo = drv[d].todo /\ r.caller = drv[d].caller
        /\ r.op = e[1] /\ r.mask = e[2]
    <2>1. drv[d] \in DrvType  BY DEF SyncInv, SyncTypes
    <2> QED BY <2>1, <1>1, <1>3 DEF DrvType, PCs
  <1> HIDE DEF r
  <1>9. CallOk(d, r, own[d])
    <2>1. Leads(d, r, own[d], H, own[d])
      BY <1>4, <1>6, <1>8 DEF Leads, InCall
    <2> QED BY <1>5, <1>6, <1>8, <2>1 DEF CallOk
  <1>10. LockOf(d)'
    <2>1. drv'[d] = r  BY <1>7 DEF SyncInv, SyncTypes
    <2> QED BY <1>8, <2>1 DEF LockOf
  <1>11. Moved(d)  BY <1>1 DEF Moved
  <1> QED BY <1>1, <1>7, <1>8, <1>9, <1>10, <1>11, DriverMoves

\* Reading a word is a call of its own, made without the EEPROM.
LEMMA CallReadKeeps ==
    ASSUME SyncInv, NEW d \in Lans, CallRead(d)
    PROVE  SyncInv'
  <1>1. /\ drv[d].pc = "run" /\ drv[d].caller = {}
        /\ drv' = [drv EXCEPT ![d].todo = Word, ![d].caller = drv[d].todo]
        /\ UNCHANGED <<smbi, swesmbi, gssr, fw, own>>
    BY DEF CallRead
  <1>2. PICK e \in Heads(d) : e[1] = "word"
    BY DEF CallRead
  <1>3. PICK D \in SUBSET Masks : Lawful(d, own[d], e, D)
    BY <1>1, AboutTo
  <1>4. "EEP" \notin own[d]  BY <1>2, <1>3 DEF Lawful
  <1>5. own[d] \in SUBSET Masks /\ drv[d] \in DrvType /\ drv[d].todo \in SUBSET PathType
    BY DEF SyncInv, SyncTypes, DrvType
  <1>6. Word \in SUBSET PathType /\ \A p \in Word : Trace(d, p.ev, own[d], own[d])
    BY <1>4, <1>5, EepromKeeps, BriefTypes DEF Word
  <1>7. PICK B \in SUBSET Masks, H \in SUBSET Masks : Leads(d, drv[d], B, H, own[d])
    BY <1>1, InACall
  <1>8. \A p \in drv[d].todo : Trace(d, p.ev, own[d], {})
    <2>1. B = own[d] /\ H = {} /\ \A p \in drv[d].todo : Trace(d, p.ev, B, H)
      BY <1>1, <1>7 DEF Leads
    <2> QED BY <2>1
  <1> DEFINE r == [drv[d] EXCEPT !.todo = Word, !.caller = drv[d].todo]
  <1>9. drv' = [drv EXCEPT ![d] = r]
    BY <1>1 DEF SyncInv, SyncTypes
  <1>10. r \in DrvType /\ r.pc = "run" /\ r.todo = Word /\ r.caller = drv[d].todo
    <2> DEFINE W == Word
               T == drv[d].todo
    <2>1. W \in SUBSET PathType /\ T \in SUBSET PathType  BY <1>5, <1>6
    <2> HIDE DEF W, T
    <2>2. LET x == [drv[d] EXCEPT !.todo = W, !.caller = T]
          IN  x \in DrvType /\ x.pc = "run" /\ x.todo = W /\ x.caller = T
      BY <1>1, <1>5, <2>1 DEF DrvType
    <2> QED BY <2>2 DEF W, T
  <1> HIDE DEF r
  <1>11. r.caller # {}  BY <1>2, <1>10 DEF Heads
  <1>12. Moved(d)  BY <1>1 DEF Moved
  <1>13. /\ \A p \in r.todo : Trace(d, p.ev, own[d], own[d])
         /\ r.caller = {} => own[d] = {}
         /\ \A q \in r.caller : Trace(d, q.ev, own[d], {})
    BY <1>6, <1>8, <1>10, <1>11
  <1> QED BY <1>1, <1>5, <1>9, <1>10, <1>12, <1>13, GoesOn

\* A call returns with nothing, the reading of a word with what it began with.
LEMMA ReturnKeeps ==
    ASSUME SyncInv, NEW d \in Lans, Return(d)
    PROVE  SyncInv'
  <1> DEFINE X(p) == After(drv[d].caller, <<"word", IF p.ok THEN "ok" ELSE "err">>)
                         \cup After(drv[d].caller, <<"word", "any">>)
  <1>1. PICK p \in drv[d].todo :
            /\ drv[d].pc = "run" /\ p.ev = << >>
            /\ drv' = [drv EXCEPT ![d] =
                    IF @.caller = {} THEN Idle ELSE [Idle EXCEPT !.pc = "run", !.todo = X(p)]]
            /\ UNCHANGED <<smbi, swesmbi, gssr, fw, own>>
    BY DEF Return
  <1>2. PICK B \in SUBSET Masks, H \in SUBSET Masks : Leads(d, drv[d], B, H, own[d])
    BY <1>1, InACall
  <1>3. B = own[d] /\ Trace(d, << >>, B, H)
    BY <1>1, <1>2 DEF Leads
  <1>4. H = own[d]  BY <1>3, TraceNone
  <1>5. Moved(d)  BY <1>1 DEF Moved
  <1>6. drv[d].caller \in SUBSET PathType
    BY DEF SyncInv, SyncTypes, DrvType
  <1>7. CASE drv[d].caller = {}
    <2>1. drv' = [drv EXCEPT ![d] = Idle]  BY <1>1, <1>7 DEF SyncInv, SyncTypes
    <2>2. own[d] = {}  BY <1>2, <1>4, <1>7 DEF Leads
    <2>3. Idle \in DrvType /\ Idle.pc = "idle"
      BY DEF Idle, DrvType, PCs
    <2>4. drv'[d] = Idle  BY <2>1 DEF SyncInv, SyncTypes
    <2>5. CallOk(d, Idle, own[d])  BY <2>2, <2>3 DEF CallOk
    <2>6. LockOf(d)'  BY <2>3, <2>4 DEF LockOf
    <2>7. drv[d].pc # "stopped" /\ Idle.pc # "write"  BY <1>1, <2>3
    <2> QED BY <1>1, <1>5, <2>1, <2>3, <2>5, <2>6, <2>7, DriverMoves
  <1>8. CASE drv[d].caller # {}
    <2> DEFINE P == X(p)
               r == [Idle EXCEPT !.pc = "run", !.todo = P]
    <2>1. \A q \in drv[d].caller : Trace(d, q.ev, own[d], {})
      BY <1>2, <1>4 DEF Leads
    <2>2. ASSUME NEW w, NEW D, Lawful(d, own[d], <<"word", w>>, D) PROVE D = own[d]
      BY <2>2 DEF Lawful
    <2>3. ASSUME NEW w
          PROVE  /\ After(drv[d].caller, <<"word", w>>) \in SUBSET PathType
                 /\ \A x \in After(drv[d].caller, <<"word", w>>) : Trace(d, x.ev, own[d], {})
      <3> DEFINE e == <<"word", w>>
      <3>1. CASE \E q \in drv[d].caller : q.ev # << >> /\ Head(q.ev) = e
        <4>1. PICK q \in drv[d].caller : q.ev # << >> /\ Head(q.ev) = e
          BY <3>1
        <4>2. \E D \in SUBSET Masks : Lawful(d, own[d], e, D)
          <5> HIDE DEF e
          <5>1. \E D \in SUBSET Masks : Lawful(d, own[d], Head(q.ev), D)
            BY <1>6, <2>1, <4>1, HeadLawful DEF MayDo
          <5> QED BY <4>1, <5>1
        <4>3. Lawful(d, own[d], e, own[d])
          BY <2>2, <4>2
        <4> HIDE DEF e
        <4> QED BY <1>6, <2>1, <4>3, AfterLeads DEF e
      <3>2. CASE ~ \E q \in drv[d].caller : q.ev # << >> /\ Head(q.ev) = e
        <4>1. After(drv[d].caller, e) = {}  BY <3>2 DEF After
        <4> QED BY <4>1
      <3> QED BY <3>1, <3>2
    <2>4. P \in SUBSET PathType /\ \A x \in P : Trace(d, x.ev, own[d], {})
      BY <2>3
    <2>5. drv' = [drv EXCEPT ![d] = r]  BY <1>1, <1>8 DEF SyncInv, SyncTypes
    <2> HIDE DEF P
    <2>6. r \in DrvType /\ r.pc = "run" /\ r.todo = P /\ r.caller = {}  BY <2>4, BeginningIs
    <2> HIDE DEF r
    <2>7. /\ {} \in SUBSET Masks /\ \A x \in r.todo : Trace(d, x.ev, own[d], {})
          /\ \A q \in r.caller : Trace(d, q.ev, {}, {})
      BY <2>4, <2>6
    <2> QED BY <1>1, <1>5, <2>5, <2>6, <2>7, GoesOn
  <1> QED BY <1>7, <1>8

-----------------------------------------------------------------------------
(* The steps of a semaphore call.                                          *)

\* Before its write a semaphore call changes nothing of the call it is part of.
LEMMA CallWaits ==
    ASSUME SyncInv, NEW d \in Lans, drv[d].pc \in InCall \ {"drop"},
           NEW r \in DrvType, r.pc \in InCall \ {"drop"}, r.todo = drv[d].todo, r.caller = drv[d].caller,
           r.op = drv[d].op, r.mask = drv[d].mask
    PROVE  CallOk(d, r, own[d])
  <1>1. PICK B \in SUBSET Masks, H \in SUBSET Masks : Leads(d, drv[d], B, H, own[d])
    BY InACall DEF InCall
  <1>2. Leads(d, r, B, H, own[d])
    BY <1>1 DEF Leads
  <1> QED BY <1>2 DEF CallOk, InCall

\* What the call is about.
LEMMA CallAbout ==
    ASSUME SyncInv, NEW d \in Lans, drv[d].pc \in InCall \ {"drop"}
    PROVE  /\ drv[d].mask \in Masks
           /\ \/ drv[d].op = "acq" /\ drv[d].mask \in MasksOf(d) \ own[d]
              \/ drv[d].op = "rel" /\ drv[d].mask \in own[d] \cup {PhySm(d)}
  <1>1. PICK B \in SUBSET Masks, H \in SUBSET Masks : Leads(d, drv[d], B, H, own[d])
    BY InACall DEF InCall
  <1>2. own[d] = B /\ \/ drv[d].op = "acq" /\ drv[d].mask \in MasksOf(d) \ B
                      \/ drv[d].op = "rel" /\ drv[d].mask \in B \cup {PhySm(d)}
    BY <1>1 DEF Leads
  <1>3. MasksOf(d) \subseteq Masks /\ PhySm(d) \in Masks
    BY DEF MasksOf, Masks, PhySm
  <1> QED BY <1>2, <1>3

\* A step of the call that only goes on to pc.
LEMMA StepKeeps ==
    ASSUME SyncInv, NEW d \in Lans, drv[d].pc \in InCall \ {"drop"}, NEW pc \in InCall \ {"drop", "write"},
           Step(d, pc), Moved(d), gssr' = gssr, own' = own, fw' = fw,
           pc = "smbi_last" => smbi' = "none" /\ \A e \in Lans \ {d} : drv[e].pc = "stopped",
           pc = "failed" => Stuck',
           pc \in {"swesmbi", "read"} => smbi' = d,
           pc = "read" => ~Stuck' /\ swesmbi' = d
    PROVE  SyncInv'
  <1> DEFINE r == [drv[d] EXCEPT !.pc = pc]
  <1>1. drv[d] \in DrvType /\ pc \in PCs  BY DEF SyncInv, SyncTypes, InCall, PCs
  <1>2. /\ r \in DrvType /\ r.pc = pc /\ r.todo = drv[d].todo /\ r.caller = drv[d].caller
        /\ r.op = drv[d].op /\ r.mask = drv[d].mask
    BY <1>1, PcSet
  <1>3. drv' = [drv EXCEPT ![d] = r]  BY DEF Step, SyncInv, SyncTypes
  <1> HIDE DEF r
  <1>4. CallOk(d, r, own[d])  BY <1>2, CallWaits
  <1>5. drv'[d] = r /\ \A e \in Lans \ {d} : drv'[e] = drv[e]  BY <1>3 DEF SyncInv, SyncTypes
  <1>6. LockOf(d)'  BY <1>2, <1>5 DEF LockOf
  <1>7. drv[d].pc # "stopped" /\ r.pc # "write"  BY <1>2 DEF InCall
  <1> QED BY <1>2, <1>3, <1>4, <1>6, <1>7, DriverMoves

\* Reading SMBI takes it.
LEMMA TakeSmbiKeeps ==
    ASSUME SyncInv, NEW d \in Lans, TakeSmbi(d)
    PROVE  SyncInv'
  <1>1. Moved(d)  BY DEF TakeSmbi, Moved
  <1> QED BY <1>1, StepKeeps DEF TakeSmbi, InCall

\* The holder of SMBI has stopped: it is the only other driver.
LEMMA SmbiTimeoutKeeps ==
    ASSUME SyncInv, NEW d \in Lans, SmbiTimeout(d)
    PROVE  SyncInv'
  <1>1. Moved(d)  BY DEF SmbiTimeout, Moved
  <1>2. smbi' = "none" /\ \A e \in Lans \ {d} : drv[e].pc = "stopped"
    BY DEF SmbiTimeout, Stopped, Lans, ixgbe_release_eeprom_semaphore
  <1> QED BY <1>1, <1>2, StepKeeps DEF SmbiTimeout, InCall

\* So the last try succeeds.
LEMMA SmbiLastTryKeeps ==
    ASSUME SyncInv, NEW d \in Lans, SmbiLastTry(d)
    PROVE  SyncInv'
  <1>1. smbi = "none"  BY DEF SmbiLastTry, SyncInv, Locks, LockOf
  <1>2. Moved(d)  BY <1>1 DEF SmbiLastTry, Moved
  <1> QED BY <1>1, <1>2, StepKeeps DEF SmbiLastTry, InCall

\* Setting SWESMBI while nobody has it takes it.
LEMMA TakeSwesmbiKeeps ==
    ASSUME SyncInv, NEW d \in Lans, TakeSwesmbi(d)
    PROVE  SyncInv'
  <1>1. Moved(d)  BY DEF TakeSwesmbi, Moved
  <1>2. ~Stuck /\ ~Stuck'  BY DEF TakeSwesmbi, Stuck, Lans
  <1>3. smbi = d  BY <1>2 DEF TakeSwesmbi, SyncInv, Locks, LockOf
  <1> QED BY <1>1, <1>2, <1>3, StepKeeps DEF TakeSwesmbi, InCall

\* The firmware has stopped with SWESMBI: the semaphore is not to be had.
LEMMA SwesmbiTimeoutKeeps ==
    ASSUME SyncInv, NEW d \in Lans, SwesmbiTimeout(d)
    PROVE  SyncInv'
  <1>1. Stuck /\ Stuck'  BY DEF SwesmbiTimeout, Stuck, ixgbe_release_eeprom_semaphore
  <1>2. Moved(d)  BY <1>1 DEF SwesmbiTimeout, Moved
  <1> QED BY <1>1, <1>2, StepKeeps DEF SwesmbiTimeout, InCall

\* What a driver that reads GSSR has.
LEMMA ReadingHas ==
    ASSUME SyncInv, NEW d \in Lans, drv[d].pc = "read"
    PROVE  ~Stuck /\ smbi = d /\ swesmbi = d
  BY DEF SyncInv, Locks, LockOf

\* The bit of the driver is added to what it read, if neither is set.
LEMMA AcquireReadKeeps ==
    ASSUME SyncInv, NEW d \in Lans, AcquireRead(d)
    PROVE  SyncInv'
  <1> DEFINE m == drv[d].mask
             s == gssr \cup {<<"sw", m>>}
             r == [drv[d] EXCEPT !.pc = "write", !.gssr = s]
  <1>0. drv[d].pc = "read" /\ drv[d].op = "acq" /\ gssr' = gssr /\ fw' = fw /\ own' = own
    BY DEF AcquireRead
  <1>1. ~Stuck /\ smbi = d /\ swesmbi = d  BY <1>0, ReadingHas
  <1>2. m \in Masks /\ m \in MasksOf(d) \ own[d]
    BY <1>0, CallAbout DEF InCall
  <1>3. CASE Taken(m) # {}
    <2>1. ixgbe_release_eeprom_semaphore /\ Step(d, "wait")  BY <1>3 DEF AcquireRead
    <2>2. Moved(d)  BY <1>1, <2>1 DEF Moved
    <2> QED BY <1>0, <2>1, <2>2, StepKeeps DEF InCall
  <1>4. CASE Taken(m) = {}
    <2>1. smbi' = smbi /\ swesmbi' = swesmbi /\ drv' = [drv EXCEPT ![d] = r]
      BY <1>4 DEF AcquireRead, SyncInv, SyncTypes
    <2>2. s \in SUBSET Bits  BY <1>2 DEF SyncInv, SyncTypes, Bits
    <2>3. <<"sw", m>> \notin gssr /\ <<"fw", m>> \notin gssr  BY <1>4 DEF Taken
    <2> HIDE DEF s
    <2>4. /\ r \in DrvType /\ r.pc = "write" /\ r.todo = drv[d].todo /\ r.caller = drv[d].caller
          /\ r.op = drv[d].op /\ r.mask = m /\ r.gssr = s
      <3>1. drv[d] \in DrvType  BY DEF SyncInv, SyncTypes
      <3> QED BY <2>2, <3>1 DEF DrvType, PCs
    <2> HIDE DEF r
    <2>5. CallOk(d, r, own[d])  BY <1>0, <2>4, CallWaits DEF InCall
    <2>6. drv'[d] = r  BY <2>1 DEF SyncInv, SyncTypes
    <2>7. LockOf(d)'  BY <1>0, <1>1, <2>1, <2>4, <2>6 DEF LockOf, Stuck
    <2>8. WillBe(d)'
      <3> HIDE DEF m
      <3>1. BitsAre  BY DEF SyncInv, Gssr
      <3>2. \A k \in Masks : <<"fw", k>> \in s <=> k \in fw.own
        BY <3>1 DEF BitsAre, s
      <3>3. \A x \in Lans : \A k \in own[x] : <<"sw", k>> \in s
        BY <3>1 DEF BitsAre, s
      <3>4. \A k \in Masks \ {m} : <<"sw", k>> \in s => \E x \in Lans : k \in own[x]
        BY <1>1, <3>1 DEF BitsAre, s
      <3>5. <<"sw", m>> \in s /\ m \notin fw.own /\ \A x \in Lans : m \notin own[x]
        BY <1>2, <2>3, <3>1 DEF BitsAre, s
      <3> QED BY <1>0, <2>4, <2>6, <3>2, <3>3, <3>4, <3>5 DEF WillBe
    <2>9. Moved(d) /\ drv[d].pc # "stopped"  BY <1>0, <2>1 DEF Moved
    <2> QED BY <1>0, <2>1, <2>4, <2>5, <2>7, <2>8, <2>9, DriverMoves
  <1> QED BY <1>3, <1>4

\* The bit of the driver is taken from what it read.
LEMMA ReleaseReadKeeps ==
    ASSUME SyncInv, NEW d \in Lans, ReleaseRead(d)
    PROVE  SyncInv'
  <1> DEFINE m == drv[d].mask
             s == gssr \ {<<"sw", m>>}
             r == [drv[d] EXCEPT !.pc = "write", !.gssr = s]
  <1>0. /\ drv[d].pc \in {"read", "failed"} /\ drv[d].op = "rel" /\ gssr' = gssr /\ fw' = fw
        /\ own' = own /\ smbi' = smbi /\ swesmbi' = swesmbi
    BY DEF ReleaseRead
  <1>1. Stuck \/ (smbi = d /\ swesmbi = d)  BY <1>0, ReadingHas DEF SyncInv, Locks, LockOf
  <1>2. m \in Masks  BY <1>0, CallAbout DEF InCall
  <1>3. drv' = [drv EXCEPT ![d] = r]  BY DEF ReleaseRead, SyncInv, SyncTypes
  <1>4. s \in SUBSET Bits  BY DEF SyncInv, SyncTypes
  <1> HIDE DEF s
  <1>5. /\ r \in DrvType /\ r.pc = "write" /\ r.todo = drv[d].todo /\ r.caller = drv[d].caller
        /\ r.op = drv[d].op /\ r.mask = m /\ r.gssr = s
    <2>1. drv[d] \in DrvType  BY DEF SyncInv, SyncTypes
    <2> QED BY <1>4, <2>1 DEF DrvType, PCs
  <1> HIDE DEF r
  <1>6. CallOk(d, r, own[d])  BY <1>0, <1>5, CallWaits DEF InCall
  <1>7. drv'[d] = r  BY <1>3 DEF SyncInv, SyncTypes
  <1>8. LockOf(d)'  BY <1>0, <1>1, <1>5, <1>7 DEF LockOf, Stuck
  <1>9. WillBe(d)'
    <2> HIDE DEF m
    <2>1. BitsAre  BY DEF SyncInv, Gssr
    <2>2. \A k \in Masks : <<"fw", k>> \in s <=> k \in fw.own
      BY <2>1 DEF BitsAre, s
    <2>3. \A x \in Lans : \A k \in own[x] \ {m} : <<"sw", k>> \in s
      BY <2>1 DEF BitsAre, s
    <2>4. ~Stuck => \A k \in Masks \ {m} : <<"sw", k>> \in s => \E x \in Lans : k \in own[x]
      BY <2>1 DEF BitsAre, s
    <2>5. <<"sw", m>> \notin s
      BY DEF s
    <2>6. Stuck' <=> Stuck  BY <1>0 DEF Stuck
    <2> QED BY <1>0, <1>5, <1>7, <2>2, <2>3, <2>4, <2>5, <2>6 DEF WillBe
  <1>10. Moved(d) /\ drv[d].pc # "stopped"  BY <1>0 DEF Moved
  <1> QED BY <1>0, <1>3, <1>5, <1>6, <1>8, <1>9, <1>10, DriverMoves

\* A driver looks again.
LEMMA AcquireAgainKeeps ==
    ASSUME SyncInv, NEW d \in Lans, AcquireAgain(d)
    PROVE  SyncInv'
  <1>1. Moved(d)  BY DEF AcquireAgain, Moved
  <1> QED BY <1>1, StepKeeps DEF AcquireAgain, InCall

\* The call in progress has ended with e: what is left goes on from what that leaves.
LEMMA DoneKeeps ==
    ASSUME SyncInv, NEW d \in Lans, drv[d].pc \in InCall, NEW e, Done(d, e), Moved(d),
           gssr' = gssr, own' = own, fw' = fw,
           \A B, H \in SUBSET Masks : Leads(d, drv[d], B, H, own[d]) => Lawful(d, B, e, own[d])
    PROVE  SyncInv'
  <1>1. PICK B \in SUBSET Masks, H \in SUBSET Masks : Leads(d, drv[d], B, H, own[d])
    BY InACall DEF InCall
  <1>2. Lawful(d, B, e, own[d])  BY <1>1
  <1>3. /\ \A p \in drv[d].todo : Trace(d, p.ev, B, H)
        /\ drv[d].caller = {} => H = {}
        /\ \A q \in drv[d].caller : Trace(d, q.ev, H, {})
    BY <1>1 DEF Leads
  <1>4. drv[d].todo \in SUBSET PathType /\ drv[d].caller \in SUBSET PathType
    BY DEF SyncInv, SyncTypes, DrvType
  <1> DEFINE P == After(drv[d].todo, e)
             Q == drv[d].caller
             r == [Idle EXCEPT !.pc = "run", !.todo = P, !.caller = Q]
  <1>5. P \in SUBSET PathType /\ \A x \in P : Trace(d, x.ev, own[d], H)
    BY <1>2, <1>3, <1>4, AfterLeads
  <1>6. drv' = [drv EXCEPT ![d] = r]  BY DEF Done
  <1>7. Q \in SUBSET PathType /\ (Q = {} => H = {}) /\ \A q \in Q : Trace(d, q.ev, H, {})
    BY <1>3, <1>4
  <1> HIDE DEF P, Q
  <1>8. r \in DrvType /\ r.pc = "run" /\ r.todo = P /\ r.caller = Q
    <2>1. P \in SUBSET PathType /\ Q \in SUBSET PathType  BY <1>5, <1>7
    <2>2. r = Going(P, Q)  BY DEF Going
    <2> HIDE DEF r
    <2> QED BY <2>1, <2>2, GoingIs
  <1> HIDE DEF r
  <1>9. drv[d].pc # "stopped"  BY DEF InCall
  <1>10. /\ \A x \in r.todo : Trace(d, x.ev, own[d], H)
         /\ r.caller = {} => H = {}
         /\ \A q \in r.caller : Trace(d, q.ev, H, {})
    BY <1>5, <1>7, <1>8
  <1> QED BY <1>6, <1>8, <1>9, <1>10, GoesOn

\* A driver that fails to acquire goes on with what it had.
LEMMA AcquireFailsKeeps ==
    ASSUME SyncInv, NEW d \in Lans, AcquireFails(d)
    PROVE  SyncInv'
  <1> DEFINE e == <<"busy", drv[d].mask>>
  <1>1. /\ drv[d].pc \in {"wait", "failed"} /\ Done(d, e) /\ Moved(d)
        /\ gssr' = gssr /\ own' = own /\ fw' = fw
    BY DEF AcquireFails, Moved
  <1>2. ASSUME NEW B \in SUBSET Masks, NEW H \in SUBSET Masks, Leads(d, drv[d], B, H, own[d])
        PROVE  Lawful(d, B, e, own[d])
    <2>1. own[d] = B  BY <1>1, <1>2 DEF Leads
    <2> QED BY <2>1 DEF Lawful
  <1> HIDE DEF e
  <1> QED BY <1>1, <1>2, DoneKeeps DEF InCall

\* Both semaphores are given back, and the driver has what it was after.
LEMMA DropKeeps ==
    ASSUME SyncInv, NEW d \in Lans, Drop(d)
    PROVE  SyncInv'
  <1> DEFINE m == drv[d].mask
             e == <<drv[d].op, m>>
  <1>1. /\ drv[d].pc = "drop" /\ Done(d, e) /\ ixgbe_release_eeprom_semaphore
        /\ gssr' = gssr /\ own' = own /\ fw' = fw
    BY DEF Drop
  <1>2. Moved(d)
    <2>1. Stuck \/ smbi = d  BY <1>1 DEF SyncInv, Locks, LockOf
    <2> QED BY <1>1, <2>1 DEF Moved
  <1>3. ASSUME NEW B \in SUBSET Masks, NEW H \in SUBSET Masks, Leads(d, drv[d], B, H, own[d])
        PROVE  Lawful(d, B, e, own[d])
    <2>1. \/ drv[d].op = "acq" /\ m \in MasksOf(d) \ B
          \/ drv[d].op = "rel" /\ m \in B \cup {PhySm(d)}
      BY <1>1, <1>3 DEF Leads, InCall
    <2>2. CASE drv[d].op = "acq"
      <3>1. own[d] = B \cup {m}  BY <1>1, <1>3, <2>2 DEF Leads
      <3> QED BY <2>1, <2>2, <3>1 DEF Lawful
    <2>3. CASE drv[d].op = "rel"
      <3>1. own[d] = B \ {m}  BY <1>1, <1>3, <2>3 DEF Leads
      <3> QED BY <2>1, <2>3, <3>1 DEF Lawful
    <2> QED BY <2>1, <2>2, <2>3
  <1> HIDE DEF e
  <1> QED BY <1>1, <1>2, <1>3, DoneKeeps DEF InCall

\* The register is written as it was read but for one bit.
LEMMA WriteGssrKeeps ==
    ASSUME SyncInv, NEW d \in Lans, WriteGssr(d)
    PROVE  SyncInv'
  <1> DEFINE m == drv[d].mask
             op == drv[d].op
             s == drv[d].gssr
             r == [drv[d] EXCEPT !.pc = "drop"]
             n == IF op = "acq" THEN own[d] \cup {m} ELSE own[d] \ {m}
  <1>0. /\ drv[d].pc = "write" /\ gssr' = s /\ fw' = fw /\ smbi' = smbi /\ swesmbi' = swesmbi
        /\ own' = [own EXCEPT ![d] = n] /\ drv' = [drv EXCEPT ![d] = r]
    BY DEF WriteGssr, Step, SyncInv, SyncTypes
  <1>1. drv[d] \in DrvType /\ "drop" \in PCs /\ s \in SUBSET Bits
    BY DEF SyncInv, SyncTypes, DrvType, PCs
  <1>2. /\ r \in DrvType /\ r.pc = "drop" /\ r.todo = drv[d].todo /\ r.caller = drv[d].caller
        /\ r.op = op /\ r.mask = m
    BY <1>1, PcSet
  <1>3. /\ m \in Masks
        /\ \/ op = "acq" /\ m \in MasksOf(d) \ own[d]
           \/ op = "rel" /\ m \in own[d] \cup {PhySm(d)}
    BY <1>0, CallAbout DEF InCall
  <1>4. WillBe(d)  BY <1>0 DEF SyncInv, Gssr
  <1>5. own[d] \in SUBSET Masks /\ own[d] \subseteq MasksOf(d)
    BY DEF SyncInv, SyncTypes
  <1>6. n \in SUBSET Masks /\ n \subseteq MasksOf(d)
    BY <1>3, <1>5
  <1> HIDE DEF r, n
  <1>7. /\ drv'[d] = r /\ drv' \in [Lans -> DrvType] /\ \A e \in Lans \ {d} : drv'[e] = drv[e]
        /\ own'[d] = n /\ own' \in [Lans -> SUBSET Masks] /\ \A e \in Lans \ {d} : own'[e] = own[e]
    BY <1>0, <1>2, <1>6 DEF SyncInv, SyncTypes
  <1>8. SyncTypes'
    <2>1. \A e \in Lans : own'[e] \subseteq MasksOf(e)
      BY <1>6, <1>7 DEF SyncInv, SyncTypes
    <2> QED BY <1>0, <1>1, <1>7, <2>1 DEF SyncInv, SyncTypes
  <1>9. /\ op = "acq" => n = own[d] \cup {m} /\ m \notin fw.own /\ \A x \in Lans : m \notin own[x]
        /\ op = "rel" => n = own[d] \ {m} /\ \A x \in Lans \ {d} : m \notin own[x]
    <2>1. op = "acq" => n = own[d] \cup {m} /\ m \notin fw.own /\ \A x \in Lans : m \notin own[x]
      BY <1>4 DEF n, WillBe
    <2>2. ASSUME op = "rel", NEW x \in Lans \ {d} PROVE m \notin own[x]
      <3>1. CASE m \in own[d]  BY <3>1 DEF SyncInv, Apart
      <3>2. CASE m = PhySm(d)
        <4>1. PhySm(d) \notin MasksOf(x)  BY DEF PhySm, MasksOf, Lans
        <4> QED BY <3>2, <4>1 DEF SyncInv, SyncTypes
      <3> QED BY <1>3, <2>2, <3>1, <3>2
    <2> QED BY <2>1, <2>2 DEF n
  <1>10. Apart'
    <2>1. Apart  BY DEF SyncInv
    <2>2. CASE op = "acq"  BY <1>0, <1>7, <1>9, <2>1, <2>2 DEF Apart
    <2>3. CASE op = "rel"  BY <1>0, <1>7, <1>9, <2>1, <2>3 DEF Apart
    <2> QED BY <1>3, <2>2, <2>3
  <1>11. Stuck' <=> Stuck  BY <1>0 DEF Stuck
  <1>12. LockOf(d)
    BY DEF SyncInv, Locks
  <1>13. Locks'
    <2>1. LockOf(d)'  BY <1>0, <1>2, <1>7, <1>11, <1>12 DEF LockOf
    <2>2. Moved(d)  BY <1>0 DEF Moved
    <2> QED BY <1>0, <1>7, <2>1, <2>2, OtherLocks DEF SyncInv
  <1>14. BitsAre'
    <2> HIDE DEF m, op, s
    <2>1. \A k \in Masks : <<"fw", k>> \in s <=> k \in fw.own
      BY <1>4 DEF WillBe, s
    <2>2. ASSUME NEW x \in Lans, NEW k \in own'[x] PROVE <<"sw", k>> \in s
      <3>1. CASE k = m
        <4>1. x = d /\ op = "acq"  BY <1>3, <1>7, <1>9, <2>2, <3>1
        <4> QED BY <1>4, <3>1, <4>1 DEF WillBe, s, m, op
      <3>2. CASE k # m
        <4>1. k \in own[x] \ {m}  BY <1>3, <1>7, <1>9, <2>2, <3>2
        <4> QED BY <1>4, <4>1 DEF WillBe, s, m
      <3> QED BY <3>1, <3>2
    <2>3. ASSUME ~Stuck, NEW k \in Masks, <<"sw", k>> \in s PROVE \E x \in Lans : k \in own'[x]
      <3>1. CASE k = m
        <4>1. op = "acq"  BY <1>3, <1>4, <2>3, <3>1 DEF WillBe, s, m, op
        <4> QED BY <1>7, <1>9, <3>1, <4>1
      <3>2. CASE k # m
        <4>1. PICK x \in Lans : k \in own[x]  BY <1>4, <2>3, <3>2 DEF WillBe, s, m
        <4>2. k \in own'[x]  BY <1>3, <1>7, <1>9, <3>2, <4>1
        <4> QED BY <4>2
      <3> QED BY <3>1, <3>2
    <2> QED BY <1>0, <1>11, <2>1, <2>2, <2>3 DEF BitsAre
  <1>15. ASSUME NEW e \in Lans, drv'[e].pc = "write" PROVE WillBe(e)'
    <2>1. e # d /\ drv'[e] = drv[e]  BY <1>2, <1>7, <1>15
    <2>2. WillBe(e) /\ LockOf(e)  BY <1>15, <2>1 DEF SyncInv, Gssr, Locks
    <2>3. Stuck  BY <1>0, <1>12, <1>15, <2>1, <2>2 DEF LockOf
    <2>4. op = "rel" /\ drv[e].op = "rel"  BY <1>0, <1>12, <1>15, <2>1, <2>2, <2>3 DEF LockOf
    <2>5. \A x \in Lans : own'[x] \subseteq own[x]  BY <1>7, <1>9, <2>4
    <2> QED BY <1>0, <1>11, <2>1, <2>2, <2>3, <2>4, <2>5 DEF WillBe
  <1>16. \A e \in Lans : CallOk(e, drv'[e], own'[e])
    <2>1. CallOk(d, r, n)
      <3>1. PICK B \in SUBSET Masks, H \in SUBSET Masks : Leads(d, drv[d], B, H, own[d])
        BY <1>0, InACall
      <3>2. own[d] = B  BY <1>0, <3>1 DEF Leads
      <3>3. Leads(d, r, B, H, n)
        <4>1. n = CASE r.pc = "drop" /\ r.op = "acq" -> B \cup {r.mask}
                    [] r.pc = "drop" /\ r.op = "rel" -> B \ {r.mask}
                    [] OTHER -> B
          <5>1. CASE op = "acq"  BY <1>2, <1>9, <3>2, <5>1
          <5>2. CASE op = "rel"  BY <1>2, <1>9, <3>2, <5>2
          <5> QED BY <1>3, <5>1, <5>2
        <4>2. \/ r.op = "acq" /\ r.mask \in MasksOf(d) \ B
              \/ r.op = "rel" /\ r.mask \in B \cup {PhySm(d)}
          BY <1>2, <1>3, <3>2
        <4> QED BY <1>2, <3>1, <4>1, <4>2 DEF Leads
      <3> QED BY <1>2, <3>3 DEF CallOk
    <2> QED BY <1>7, <2>1 DEF SyncInv
  <1> QED BY <1>8, <1>10, <1>13, <1>14, <1>15, <1>16 DEF SyncInv, Gssr

-----------------------------------------------------------------------------
(* The steps of the firmware, and stops.                                   *)

\* What a driver that is changing GSSR has, while the firmware runs.
LEMMA ChangingHas ==
    ASSUME SyncInv, NEW e \in Lans, drv[e].pc \in {"read", "write", "drop"}, ~Stuck
    PROVE  swesmbi = e /\ e # "fw" /\ e # "none"
  BY DEF SyncInv, Locks, LockOf, Lans

\* The firmware takes SWESMBI when nobody has it.
LEMMA FwTakeKeeps ==
    ASSUME SyncInv, NEW m \in FwMasks, FwTake(m)
    PROVE  SyncInv'
  <1>1. /\ fw.pc = "idle" /\ swesmbi = "none" /\ swesmbi' = "fw" /\ smbi' = smbi /\ gssr' = gssr
        /\ drv' = drv /\ own' = own /\ fw' = [fw EXCEPT !.pc = "held", !.mask = m]
    BY DEF FwTake
  <1>2. fw' \in FwType /\ fw'.pc = "held" /\ fw'.own = fw.own /\ fw'.mask \in FwMasks
    BY <1>1 DEF FwType, SyncInv, SyncTypes
  <1>3. ~Stuck /\ ~Stuck'  BY <1>1, <1>2 DEF Stuck
  <1>4. SyncTypes'  BY <1>1, <1>2 DEF SyncInv, SyncTypes
  <1>5. ASSUME NEW e \in Lans PROVE LockOf(e)'
    <2>1. drv[e].pc \notin {"read", "write", "drop"}  BY <1>1, <1>3, ChangingHas
    <2>2. LockOf(e)  BY DEF SyncInv, Locks
    <2> QED BY <1>1, <1>3, <2>1, <2>2 DEF LockOf
  <1>6. Locks'  BY <1>1, <1>2, <1>5 DEF Locks
  <1>7. Apart'  BY <1>1, <1>2 DEF SyncInv, Apart
  <1>8. Gssr'  BY <1>1, <1>2, <1>3, GssrKept DEF SyncInv
  <1>9. (\A e \in Lans : CallOk(e, drv[e], own[e]))'  BY <1>1 DEF SyncInv
  <1> QED BY <1>4, <1>6, <1>7, <1>8, <1>9 DEF SyncInv

\* It takes a resource software does not have, or gives its own back.
LEMMA FwDropKeeps ==
    ASSUME SyncInv, FwDrop
    PROVE  SyncInv'
  <1> DEFINE m == fw.mask
  <1>1. fw.pc = "held" /\ swesmbi' = "none" /\ smbi' = smbi /\ drv' = drv /\ own' = own
    BY DEF FwDrop
  <1>2. swesmbi = "fw" /\ ~Stuck /\ ~Stuck'
    BY <1>1 DEF SyncInv, Locks, Stuck
  <1>3. fw \in FwType /\ gssr \in SUBSET Bits  BY DEF SyncInv, SyncTypes
  <1>4. BitsAre  BY DEF SyncInv, Gssr
  <1>5. FwMasks \subseteq Masks  BY DEF FwMasks, Masks
  <1>6. /\ fw' \in FwType /\ fw'.pc = "idle"
        /\ \/ m \in fw.own /\ gssr' = gssr \ {<<"fw", m>>} /\ fw'.own = fw.own \ {m}
           \/ gssr' = gssr /\ fw'.own = fw.own
           \/ /\ m \in FwMasks /\ <<"sw", m>> \notin gssr
              /\ gssr' = gssr \cup {<<"fw", m>>} /\ fw'.own = fw.own \cup {m}
    <2>1. CASE m \in fw.own
      <3>1. gssr' = gssr \ {<<"fw", m>>} /\ fw' = [pc |-> "idle", mask |-> "none", own |-> fw.own \ {m}]
        BY <2>1 DEF FwDrop
      <3> QED BY <1>3, <2>1, <3>1 DEF FwType
    <2>2. CASE m \notin fw.own /\ <<"sw", m>> \in gssr
      <3>1. gssr' = gssr /\ fw' = [fw EXCEPT !.pc = "idle", !.mask = "none"]
        BY <2>2 DEF FwDrop
      <3> QED BY <1>3, <3>1 DEF FwType
    <2>3. CASE m \notin fw.own /\ <<"sw", m>> \notin gssr
      <3>1. /\ gssr' = gssr \cup {<<"fw", m>>}
            /\ fw' = [pc |-> "idle", mask |-> "none", own |-> fw.own \cup {m}]
        BY <2>3 DEF FwDrop
      <3>2. m \in FwMasks  BY <1>1 DEF SyncInv, Locks
      <3> QED BY <1>3, <2>3, <3>1, <3>2 DEF FwType
    <2> QED BY <2>1, <2>2, <2>3
  <1> HIDE DEF m
  <1>7. gssr' \in SUBSET Bits
    BY <1>3, <1>5, <1>6 DEF Bits
  <1>8. SyncTypes'  BY <1>1, <1>6, <1>7 DEF SyncInv, SyncTypes
  <1>9. ASSUME NEW e \in Lans PROVE LockOf(e)' /\ drv[e].pc # "write"
    <2>1. drv[e].pc \notin {"read", "write", "drop"}  BY <1>2, ChangingHas
    <2>2. LockOf(e)  BY DEF SyncInv, Locks
    <2> QED BY <1>1, <1>2, <2>1, <2>2 DEF LockOf
  <1>10. Locks'  BY <1>1, <1>6, <1>9 DEF Locks
  <1>11. Apart'
    <2>1. Apart  BY DEF SyncInv
    <2>2. \A x \in Lans : own[x] \cap fw'.own = {}
      <3>1. <<"sw", m>> \notin gssr => \A x \in Lans : m \notin own[x]
        BY <1>4 DEF BitsAre
      <3> QED BY <1>6, <2>1, <3>1 DEF Apart
    <2> QED BY <1>1, <2>1, <2>2 DEF Apart
  <1>12. BitsAre'
    <2>1. \A k \in Masks : <<"fw", k>> \in gssr' <=> k \in fw'.own
      <3>1. \A k \in Masks : <<"fw", k>> \in gssr <=> k \in fw.own  BY <1>4 DEF BitsAre
      <3>2. CASE gssr' = gssr \ {<<"fw", m>>} /\ fw'.own = fw.own \ {m}  BY <3>1, <3>2
      <3>3. CASE gssr' = gssr /\ fw'.own = fw.own  BY <3>1, <3>3
      <3>4. CASE gssr' = gssr \cup {<<"fw", m>>} /\ fw'.own = fw.own \cup {m}  BY <3>1, <3>4
      <3> QED BY <1>6, <3>2, <3>3, <3>4
    <2>2. \A k : <<"sw", k>> \in gssr' <=> <<"sw", k>> \in gssr
      BY <1>6
    <2> QED BY <1>1, <1>2, <1>4, <2>1, <2>2 DEF BitsAre
  <1>13. Gssr'  BY <1>1, <1>9, <1>12 DEF Gssr
  <1>14. (\A e \in Lans : CallOk(e, drv[e], own[e]))'  BY <1>1 DEF SyncInv
  <1> QED BY <1>8, <1>10, <1>11, <1>13, <1>14 DEF SyncInv

\* The firmware stops, perhaps with SWESMBI.
LEMMA FirmwareStopsKeeps ==
    ASSUME SyncInv, FirmwareStops
    PROVE  SyncInv'
  <1>1. /\ fw.pc # "stopped" /\ fw' = [fw EXCEPT !.pc = "stopped"]
        /\ UNCHANGED <<smbi, swesmbi, gssr, drv, own>>
    BY DEF FirmwareStops
  <1>2. fw' \in FwType /\ fw'.pc = "stopped" /\ fw'.own = fw.own
    BY <1>1 DEF FwType, SyncInv, SyncTypes
  <1>3. ~Stuck  BY <1>1 DEF Stuck
  <1>4. SyncTypes'  BY <1>1, <1>2 DEF SyncInv, SyncTypes
  <1>5. ASSUME NEW e \in Lans PROVE LockOf(e)'
    <2>1. drv[e].pc \in {"read", "write", "drop"} => ~Stuck'
      BY <1>1, <1>3, ChangingHas DEF Stuck
    <2>2. LockOf(e)  BY DEF SyncInv, Locks
    <2> QED BY <1>1, <1>3, <2>1, <2>2 DEF LockOf
  <1>6. Locks'  BY <1>1, <1>2, <1>5 DEF Locks
  <1>7. Apart'  BY <1>1, <1>2 DEF SyncInv, Apart
  <1>8. Gssr'  BY <1>1, <1>2, <1>3, GssrKept DEF SyncInv
  <1>9. (\A e \in Lans : CallOk(e, drv[e], own[e]))'  BY <1>1 DEF SyncInv
  <1> QED BY <1>4, <1>6, <1>7, <1>8, <1>9 DEF SyncInv

\* A driver stops, perhaps with what it has acquired.
LEMMA DriverStopsKeeps ==
    ASSUME SyncInv, NEW d \in Lans, DriverStops(d)
    PROVE  SyncInv'
  <1> DEFINE r == [Idle EXCEPT !.pc = "stopped"]
  <1>1. /\ drv[d].pc \notin {"idle", "stopped"} /\ drv' = [drv EXCEPT ![d] = r]
        /\ UNCHANGED <<smbi, swesmbi, gssr, fw, own>>
    BY DEF DriverStops
  <1>2. r \in DrvType /\ r.pc = "stopped"  BY DEF Idle, DrvType, PCs
  <1> HIDE DEF r
  <1>3. drv'[d] = r  BY <1>1 DEF SyncInv, SyncTypes
  <1>4. LockOf(d)'  BY <1>2, <1>3 DEF LockOf
  <1>5. CallOk(d, r, own[d])  BY <1>2 DEF CallOk
  <1>6. Moved(d) /\ r.pc # "write"  BY <1>1, <1>2 DEF Moved
  <1> QED BY <1>1, <1>2, <1>4, <1>5, <1>6, DriverMoves

\* Nobody has anything at first.
LEMMA InitKeeps ==
    ASSUME Init PROVE SyncInv
  <1>1. Idle \in DrvType /\ Idle.pc = "idle"  BY DEF Idle, DrvType, PCs
  <1>2. \A d \in Lans : drv[d] = Idle /\ own[d] = {}  BY DEF Init
  <1>3. fw.pc = "idle" /\ fw.own = {} /\ fw \in FwType /\ gssr = {} /\ smbi = "none" /\ swesmbi = "none"
    BY DEF Init, FwType
  <1>4. SyncTypes
    <2>1. drv \in [Lans -> DrvType] /\ own \in [Lans -> SUBSET Masks]  BY <1>1 DEF Init
    <2> QED BY <1>2, <1>3, <2>1 DEF SyncTypes
  <1>5. Locks  BY <1>1, <1>2, <1>3 DEF Locks, LockOf
  <1>6. Apart  BY <1>2 DEF Apart
  <1>7. Gssr  BY <1>1, <1>2, <1>3 DEF Gssr, BitsAre
  <1>8. \A d \in Lans : CallOk(d, drv[d], own[d])  BY <1>1, <1>2 DEF CallOk
  <1> QED BY <1>4, <1>5, <1>6, <1>7, <1>8 DEF SyncInv

\* Every step keeps the invariant.
LEMMA NextKeeps ==
    ASSUME Calls0 \cup Calls1 \subseteq Balanced, SyncInv, [Next]_vars
    PROVE  SyncInv'
  <1>1. CASE UNCHANGED vars
    BY <1>1 DEF vars, SyncInv, SyncTypes, Locks, LockOf, Stuck, Apart, Gssr, BitsAre, WillBe
  <1>2. ASSUME NEW d \in Lans, NEW c \in Calls[d], Begin(d, c) PROVE SyncInv'
    BY <1>2, BeginKeeps
  <1>3. ASSUME NEW d \in Lans, Driver(d) PROVE SyncInv'
    <2>1. CASE Access(d) \/ Sync(d) \/ CallRead(d) \/ Return(d)
      BY <2>1, AccessKeeps, SyncKeeps, CallReadKeeps, ReturnKeeps
    <2>2. CASE ixgbe_get_eeprom_semaphore(d)
      BY <2>2, TakeSmbiKeeps, SmbiTimeoutKeeps, SmbiLastTryKeeps, TakeSwesmbiKeeps, SwesmbiTimeoutKeeps
         DEF ixgbe_get_eeprom_semaphore
    <2>3. CASE ixgbe_acquire_swfw_sync(d) \/ ixgbe_release_swfw_sync(d)
      BY <2>3, AcquireReadKeeps, AcquireAgainKeeps, AcquireFailsKeeps, ReleaseReadKeeps
         DEF ixgbe_acquire_swfw_sync, ixgbe_release_swfw_sync
    <2>4. CASE WriteGssr(d) \/ Drop(d)
      BY <2>4, WriteGssrKeeps, DropKeeps
    <2> QED BY <1>3, <2>1, <2>2, <2>3, <2>4 DEF Driver
  <1>4. ASSUME NEW d \in Lans, DriverStops(d) PROVE SyncInv'
    BY <1>4, DriverStopsKeeps
  <1>5. ASSUME NEW m \in FwMasks, FwTake(m) PROVE SyncInv'
    BY <1>5, FwTakeKeeps
  <1>6. CASE FwDrop \/ FirmwareStops
    BY <1>6, FwDropKeeps, FirmwareStopsKeeps
  <1> QED BY <1>1, <1>2, <1>3, <1>4, <1>5, <1>6 DEF Next

-----------------------------------------------------------------------------
(* Theorems.                                                               *)

\* A driver touches what it has acquired, or the link registers when the
\* firmware does not.
LEMMA AccessedIs ==
    ASSUME SyncInv, NEW d \in Lans, NEW m \in Accessed(d)
    PROVE  m \in own[d] \/ (m = "MAC_CSR" /\ ~Lesm)
  <1>1. drv[d].pc = "run" /\ \E e \in Heads(d) : e[1] = "use" /\ m = e[2]
    BY DEF Accessed
  <1>2. PICK e \in Heads(d) : e[1] = "use" /\ m = e[2]
    BY <1>1
  <1>3. PICK D \in SUBSET Masks : Lawful(d, own[d], e, D)
    BY <1>1, AboutTo
  <1> QED BY <1>2, <1>3 DEF Lawful

\* The invariant gives the properties the runs check.
LEMMA SyncInvGives ==
    ASSUME SyncInv
    PROVE  UsedAlone /\ GssrExact /\ NothingKept
  <1>1. UsedAlone
    <2>1. Apart  BY DEF SyncInv
    <2>2. fw.own \subseteq FwMasks  BY DEF SyncInv, SyncTypes, FwType
    <2>3. ASSUME NEW d \in Lans PROVE Accessed(d) \cap fw.own = {}
      <3> SUFFICES ASSUME NEW m \in Accessed(d), m \in fw.own PROVE FALSE
        OBVIOUS
      <3>1. m \notin own[d]  BY <2>1 DEF Apart
      <3>2. m = "MAC_CSR" /\ ~Lesm  BY <3>1, AccessedIs
      <3>3. m \notin FwMasks  BY <3>2 DEF FwMasks
      <3> QED BY <2>2, <3>3
    <2>4. ASSUME NEW d \in Lans, NEW e \in Lans \ {d} PROVE Accessed(d) \cap Accessed(e) \cap Common = {}
      <3> SUFFICES ASSUME NEW m \in Accessed(d), m \in Accessed(e), m \in Common PROVE FALSE
        OBVIOUS
      <3>1. m # "MAC_CSR"  BY DEF Common
      <3>2. m \in own[d] /\ m \in own[e]  BY <3>1, AccessedIs
      <3> QED BY <2>1, <3>2 DEF Apart
    <2> QED BY <2>3, <2>4 DEF UsedAlone
  <1>2. GssrExact
    <2> SUFFICES ASSUME fw.pc # "stopped"
                 PROVE  {b[2] : b \in {x \in gssr : x[1] = "sw"}} = UNION {own[d] : d \in Lans}
      BY DEF GssrExact
    <2>1. ~Stuck  BY DEF Stuck
    <2>2. BitsAre /\ gssr \in SUBSET Bits /\ \A d \in Lans : own[d] \in SUBSET Masks
      BY DEF SyncInv, Gssr, SyncTypes
    <2>3. \A b \in gssr : b[1] = "sw" => b[2] \in Masks /\ b = <<"sw", b[2]>>
      BY <2>2 DEF Bits
    <2>4. ASSUME NEW b \in gssr, b[1] = "sw" PROVE \E d \in Lans : b[2] \in own[d]
      BY <2>1, <2>2, <2>3, <2>4 DEF BitsAre
    <2>5. ASSUME NEW d \in Lans, NEW k \in own[d] PROVE <<"sw", k>> \in gssr
      BY <2>2 DEF BitsAre
    <2>6. ASSUME NEW k, \E b \in {x \in gssr : x[1] = "sw"} : k = b[2]
          PROVE  k \in UNION {own[d] : d \in Lans}
      <3>1. PICK b \in gssr : b[1] = "sw" /\ k = b[2]  BY <2>6
      <3> QED BY <2>4, <3>1
    <2>7. ASSUME NEW k \in UNION {own[d] : d \in Lans}
          PROVE  \E b \in {x \in gssr : x[1] = "sw"} : k = b[2]
      <3>1. PICK d \in Lans : k \in own[d]  BY <2>7
      <3>2. <<"sw", k>> \in {x \in gssr : x[1] = "sw"} /\ k = <<"sw", k>>[2]  BY <2>5, <3>1
      <3> QED BY <3>2
    <2> QED BY <2>6, <2>7
  <1>3. NothingKept  BY DEF SyncInv, CallOk, NothingKept
  <1> QED BY <1>1, <1>2, <1>3

\* The invariant: who has SMBI, SWESMBI and the bits of GSSR, what the driver
\* that is about to write GSSR will write, and that what is left of a call
\* takes and gives back what the driver has.
THEOREM SyncInvariant ==
    Calls0 \cup Calls1 \subseteq Balanced => (Spec => []SyncInv)
  <1> SUFFICES ASSUME Calls0 \cup Calls1 \subseteq Balanced PROVE Spec => []SyncInv
    OBVIOUS
  <1>1. Init => SyncInv  BY InitKeeps
  <1>2. SyncInv /\ [Next]_vars => SyncInv'  BY NextKeeps
  <1> QED BY <1>1, <1>2, PTL DEF Spec

\* Nobody else touches what a driver is touching: neither the firmware nor the
\* other port's driver (the accesses between ixgbe_acquire_swfw_sync and
\* ixgbe_release_swfw_sync), whatever calls the drivers make and whoever stops.
THEOREM AccessesAreAlone ==
    Calls0 \cup Calls1 \subseteq Balanced => (Spec => []UsedAlone)
  <1> SUFFICES ASSUME Calls0 \cup Calls1 \subseteq Balanced PROVE Spec => []UsedAlone
    OBVIOUS
  <1>1. Spec => []SyncInv  BY SyncInvariant
  <1>2. SyncInv => UsedAlone  BY SyncInvGives
  <1> QED BY <1>1, <1>2, PTL

\* While the firmware runs, no update of GSSR is lost: its software bits are
\* what the drivers have acquired and not released.
THEOREM GssrIsExact ==
    Calls0 \cup Calls1 \subseteq Balanced => (Spec => []GssrExact)
  <1> SUFFICES ASSUME Calls0 \cup Calls1 \subseteq Balanced PROVE Spec => []GssrExact
    OBVIOUS
  <1>1. Spec => []SyncInv  BY SyncInvariant
  <1>2. SyncInv => GssrExact  BY SyncInvGives
  <1> QED BY <1>1, <1>2, PTL

\* A call that has returned, on whatever path, has given back what it acquired.
THEOREM NothingIsKept ==
    Calls0 \cup Calls1 \subseteq Balanced => (Spec => []NothingKept)
  <1> SUFFICES ASSUME Calls0 \cup Calls1 \subseteq Balanced PROVE Spec => []NothingKept
    OBVIOUS
  <1>1. Spec => []SyncInv  BY SyncInvariant
  <1>2. SyncInv => NothingKept  BY SyncInvGives
  <1> QED BY <1>1, <1>2, PTL
=============================================================================
