------------------------ MODULE SessionPushHubProofs ------------------------
(***************************************************************************)
(* A session runs one turn at a time, and the hub keeps the events of one   *)
(* turn per session (HubInv).  What a resumed stream shows is in order, and *)
(* without a gap or a lost tail if the turn is alone on its session         *)
(* (StreamInv).  All of it for any number of turns, sessions, streams and   *)
(* events, and any capacity of the channels.                                *)
(***************************************************************************)
EXTENDS SessionPushHub, SequenceTheorems, FiniteSetTheorems, TLAPS

TurnPc == {"new", "ready", "running", "done", "failed", "awaiting", "broken", "message",
           "question", "over"}

\* What the two invariants rest on: the turns' records and the registry are typed,
\* and a turn whose events are kept is the one its session points to.
Typed ==
  /\ inflight \in [Sessions -> Turns \cup {Nil}]
  /\ turn \in [Turns -> [pc : TurnPc, sent : Nat, todo : SUBSET Streams,
                         cancelled : BOOLEAN]]
  /\ subs \in [Sessions -> SUBSET Streams]
  /\ traceOf \in [Sessions -> Turns \cup {Nil}]
Pointed == \A t \in Turns : replay[t] # Nil => traceOf[SessionOf[t]] = t
HubInv == Typed /\ RunsAlone /\ Pointed

\* What a turn's goroutine does next leaves the rest of its record alone.
LEMMA GotoTyped ==
  ASSUME Typed, NEW t \in Turns, NEW pc \in TurnPc, Goto(t, pc)
  PROVE  /\ turn' \in [Turns -> [pc : TurnPc, sent : Nat, todo : SUBSET Streams,
                                 cancelled : BOOLEAN]]
         /\ turn'[t].pc = pc
         /\ \A u \in Turns \ {t} : turn'[u] = turn[u]
         /\ UNCHANGED <<replay, traceOf, subs>>
  BY DEF Typed, Goto, hub

\* A publication leaves the registry alone and one replay per session.
LEMMA PublishKeeps ==
  ASSUME Typed, Pointed, NEW t \in Turns, NEW kind, NEW pc \in TurnPc,
         Publish(t, kind, pc), UNCHANGED inflight
  PROVE  /\ Typed' /\ Pointed'
         /\ turn'[t].pc = pc
         /\ \A u \in Turns \ {t} : turn'[u] = turn[u]
<1> DEFINE s == SessionOf[t]
<1>1. s \in Sessions /\ \A u \in Turns : SessionOf[u] \in Sessions
  BY HubAssumption
<1>2. turn' \in [Turns -> [pc : TurnPc, sent : Nat, todo : SUBSET Streams,
                           cancelled : BOOLEAN]]
  <2>1. turn' = [turn EXCEPT ![t].pc = pc, ![t].sent = @ + 1, ![t].todo = subs[s]]
    BY DEF Publish
  <2>2. subs[s] \in SUBSET Streams
    BY <1>1 DEF Typed
  <2>3. turn \in [Turns -> [pc : TurnPc, sent : Nat, todo : SUBSET Streams,
                            cancelled : BOOLEAN]]
    BY DEF Typed
  <2>4. turn[t].sent + 1 \in Nat
    BY <2>3
  <2> HIDE DEF s
  <2> QED
    BY <2>1, <2>2, <2>3, <2>4
<1>3. turn'[t].pc = pc /\ \A u \in Turns \ {t} : turn'[u] = turn[u]
  BY <1>1 DEF Publish, Typed
<1>4. traceOf' = [traceOf EXCEPT ![s] = t] /\ UNCHANGED subs
  BY DEF Publish
<1>5. Typed'
  BY <1>1, <1>2, <1>4 DEF Typed
<1>6. ASSUME NEW u \in Turns, u # t, SessionOf[u] = s
      PROVE  replay'[u] = Nil
  <2>1. replay'[u] = IF traceOf[s] # t /\ u \in Forgotten(s) THEN Nil ELSE replay[u]
    BY <1>6 DEF Publish
  <2>2. replay[u] # Nil => traceOf[s] = u
    BY <1>6 DEF Pointed
  <2> QED
    BY <2>1, <2>2, <1>6 DEF Forgotten
<1>7. ASSUME NEW u \in Turns, SessionOf[u] # s
      PROVE  replay'[u] # Nil => replay[u] # Nil
  BY <1>7 DEF Publish
<1>8. Pointed'
  <2> SUFFICES ASSUME NEW u \in Turns, replay'[u] # Nil
               PROVE  traceOf'[SessionOf[u]] = u
    BY DEF Pointed
  <2>1. CASE SessionOf[u] # s
    BY <2>1, <1>1, <1>4, <1>7 DEF Pointed, Typed
  <2>2. CASE SessionOf[u] = s
    BY <2>2, <1>1, <1>4, <1>6 DEF Typed
  <2> QED
    BY <2>1, <2>2
<1> QED
  BY <1>3, <1>5, <1>8

\* The invariant holds at the start.
LEMMA HubInvInit == Init => HubInv
  BY HubAssumption DEF Init, HubInv, Typed, RunsAlone, Pointed, IdleTurn, TurnPc, Holding

\* A turn publishes while it holds its session, or when it does not: either way the
\* sessions stay with the turns that hold them.
LEMMA PublishKeepsInv ==
  ASSUME HubInv, NEW t \in Turns, NEW kind, NEW pc \in TurnPc,
         Publish(t, kind, pc), UNCHANGED inflight,
         pc \in Holding => turn[t].pc \in Holding
  PROVE  HubInv'
<1>1. /\ Typed' /\ Pointed'
      /\ turn'[t].pc = pc
      /\ \A u \in Turns \ {t} : turn'[u] = turn[u]
  BY PublishKeeps DEF HubInv
<1> QED
  BY <1>1 DEF HubInv, RunsAlone

\* A turn that goes on without publishing, its session being still or not yet its own.
LEMMA GotoKeepsInv ==
  ASSUME HubInv, NEW t \in Turns, NEW pc \in TurnPc, Goto(t, pc), UNCHANGED inflight,
         pc \in Holding => turn[t].pc \in Holding
  PROVE  HubInv'
<1>1. /\ turn' \in [Turns -> [pc : TurnPc, sent : Nat, todo : SUBSET Streams,
                              cancelled : BOOLEAN]]
      /\ turn'[t].pc = pc
      /\ \A u \in Turns \ {t} : turn'[u] = turn[u]
      /\ UNCHANGED <<replay, traceOf, subs>>
  BY GotoTyped DEF HubInv
<1> QED
  BY <1>1 DEF HubInv, Typed, RunsAlone, Pointed

\* Every step keeps the invariant.
LEMMA HubInvNext == HubInv /\ [Next]_vars => HubInv'
<1> SUFFICES ASSUME HubInv, [Next]_vars PROVE HubInv'
  OBVIOUS
<1> USE DEF TurnPc, Holding
<1>1. ASSUME NEW t \in Turns, Prepare(t) PROVE HubInv'
  BY <1>1, GotoKeepsInv DEF Prepare
<1>2. ASSUME NEW t \in Turns, Register(t) PROVE HubInv'
  <2>1. /\ Typed
        /\ inflight[SessionOf[t]] = Nil
        /\ inflight' = [inflight EXCEPT ![SessionOf[t]] = t]
        /\ Goto(t, "running")
    BY <1>2 DEF Register, Free, HubInv
  <2>2. /\ turn' \in [Turns -> [pc : TurnPc, sent : Nat, todo : SUBSET Streams,
                                cancelled : BOOLEAN]]
        /\ \A u \in Turns \ {t} : turn'[u] = turn[u]
        /\ UNCHANGED <<replay, traceOf, subs>>
    BY <2>1, GotoTyped
  <2>3. ASSUME NEW u \in Turns, turn'[u].pc \in Holding
        PROVE  inflight'[SessionOf[u]] = u
    <3>1. CASE u = t
      BY <3>1, <2>1, HubAssumption DEF Typed
    <3>2. CASE u # t
      <4>1. inflight[SessionOf[u]] = u
        BY <3>2, <2>2, <2>3 DEF HubInv, RunsAlone
      <4>2. SessionOf[u] # SessionOf[t]
        BY <4>1, <2>1, HubAssumption
      <4> QED
        BY <4>1, <4>2, <2>1, HubAssumption DEF Typed
    <3> QED
      BY <3>1, <3>2
  <2> QED
    BY <2>1, <2>2, <2>3, HubAssumption DEF HubInv, Typed, RunsAlone, Pointed
<1>3. ASSUME NEW t \in Turns, Reject(t) PROVE HubInv'
  BY <1>3, PublishKeepsInv DEF Reject
<1>4. ASSUME NEW t \in Turns, Emit(t) PROVE HubInv'
  BY <1>4, PublishKeepsInv DEF Emit, Going, At
<1>5. ASSUME NEW t \in Turns, Finish(t) PROVE HubInv'
  <2>1. turn[t].pc = "running" /\ UNCHANGED inflight
    BY <1>5 DEF Finish, Going, At
  <2>2. PICK pc \in {"done", "failed"} : Publish(t, "end", pc)
    BY <1>5 DEF Finish
  <2> QED
    BY <2>1, <2>2, PublishKeepsInv
<1>6. ASSUME NEW t \in Turns, Pause(t) PROVE HubInv'
  BY <1>6, GotoKeepsInv DEF Pause, Going, At
<1>7. ASSUME NEW t \in Turns, Cut(t) PROVE HubInv'
  BY <1>7, GotoKeepsInv DEF Cut, At
<1>8. ASSUME NEW t \in Turns, CommitFails(t) PROVE HubInv'
  BY <1>8, PublishKeepsInv DEF CommitFails
<1>9. ASSUME NEW t \in Turns, Unregister(t) PROVE HubInv'
  <2> DEFINE pc == CASE turn[t].pc = "done" -> "message"
                     [] turn[t].pc = "awaiting" -> "question"
                     [] OTHER -> "over"
  <2>1. /\ Typed
        /\ turn[t].pc \in Holding
        /\ inflight' = [inflight EXCEPT ![SessionOf[t]] = Nil]
        /\ Goto(t, pc)
    BY <1>9 DEF Unregister, HubInv
  <2>2. pc \in TurnPc /\ pc \notin Holding
    BY Zenon
  <2> HIDE DEF pc
  <2>3. /\ turn' \in [Turns -> [pc : TurnPc, sent : Nat, todo : SUBSET Streams,
                                cancelled : BOOLEAN]]
        /\ turn'[t].pc = pc
        /\ \A u \in Turns \ {t} : turn'[u] = turn[u]
        /\ UNCHANGED <<replay, traceOf, subs>>
    BY <2>1, <2>2, GotoTyped
  <2>4. ASSUME NEW u \in Turns, turn'[u].pc \in Holding
        PROVE  inflight'[SessionOf[u]] = u
    <3>1. u # t
      BY <2>2, <2>3, <2>4
    <3>2. inflight[SessionOf[u]] = u /\ inflight[SessionOf[t]] = t
      BY <3>1, <2>1, <2>3, <2>4 DEF HubInv, RunsAlone
    <3> QED
      BY <3>1, <3>2, <2>1, HubAssumption DEF Typed
  <2> QED
    BY <2>1, <2>3, <2>4, HubAssumption DEF HubInv, Typed, RunsAlone, Pointed
<1>10. ASSUME NEW t \in Turns, PublishLate(t) PROVE HubInv'
  <2>1. UNCHANGED inflight /\ \E kind \in {"note", "end"} : Publish(t, kind, "over")
    BY <1>10 DEF PublishLate
  <2> QED
    BY <2>1, PublishKeepsInv
<1>11. ASSUME NEW t \in Turns, NEW x \in Streams, Send(t, x) PROVE HubInv'
  BY <1>11 DEF Send, HubInv, Typed, RunsAlone, Pointed
<1>12. ASSUME NEW t \in Turns, Cancel(t) PROVE HubInv'
  BY <1>12, ZenonT(60) DEF Cancel, hub, HubInv, Typed, RunsAlone, Pointed
<1>13. ASSUME UNCHANGED <<inflight, turn, replay, traceOf>>,
              subs' \in [Sessions -> SUBSET Streams]
       PROVE  HubInv'
  BY <1>13 DEF HubInv, Typed, RunsAlone, Pointed
<1>14. ASSUME NEW t \in Turns, NEW x \in Streams, SendOnClosed(t, x) PROVE HubInv'
  BY <1>14, <1>13 DEF SendOnClosed, hub, HubInv, Typed
<1>15. ASSUME NEW x \in Streams, StreamStep(x) PROVE HubInv'
  <2>1. ASSUME NEW s \in Sessions, Opened(x, s) PROVE HubInv'
    BY <2>1, <1>13 DEF Opened, HubInv, Typed
  <2>2. ASSUME NEW fields, Only(x, fields) PROVE HubInv'
    BY <2>2, <1>13 DEF Only, HubInv, Typed
  <2>3. CASE Leave(x)
    BY <2>3, <1>13 DEF Leave, HubInv, Typed
  <2>4. CASE \E t \in Turns : \E last \in 0..(turn[t].sent + 1) : OpenRun(x, t, last)
    BY <2>4, <2>1, HubAssumption DEF OpenRun
  <2>5. CASE \E s \in Sessions : OpenSession(x, s)
    BY <2>5, <2>1 DEF OpenSession
  <2>6. CASE Write(x) \/ \E k \in 0..Len(Sent(st[x].pend)) : WriteBreaks(x, k)
    BY <2>6, <2>2 DEF Write, WriteBreaks, WriteAs
  <2>7. CASE Wake(x) \/ Reread(x) \/ Drain(x)
    BY <2>7, <2>2 DEF Wake, Reread, Drain
  <2>8. CASE ChannelClosed(x) \/ Disconnect(x)
    BY <2>8, <2>2 DEF ChannelClosed, Disconnect
  <2> QED
    BY <1>15, <2>3, <2>4, <2>5, <2>6, <2>7, <2>8 DEF StreamStep
<1>16. ASSUME Close PROVE HubInv'
  BY <1>16 DEF Close, HubInv, Typed, RunsAlone, Pointed
<1>17. ASSUME UNCHANGED vars PROVE HubInv'
  BY <1>17, <1>13 DEF vars, hub, HubInv, Typed
<1>18. CASE \E t \in Turns : TurnStep(t) \/ Cancel(t)
  BY <1>18, <1>1, <1>2, <1>3, <1>4, <1>5, <1>6, <1>7, <1>8, <1>9, <1>10, <1>11, <1>12,
     <1>14 DEF TurnStep
<1> QED
  BY <1>15, <1>16, <1>17, <1>18 DEF Next

\* The invariant is one of the specification.
THEOREM HubInvariance == Spec => []HubInv
  BY HubInvInit, HubInvNext, PTL DEF Spec

\* Register and Unregister (run_registry.go:41, 114) keep a session's turns apart: a
\* session runs one turn at a time.
THEOREM RunsAloneHolds == Spec => []RunsAlone
<1>1. HubInv => RunsAlone
  BY DEF HubInv
<1> QED
  BY <1>1, HubInvariance, PTL

\* recordReplayLocked (session_push.go:202) keeps the events of one turn per session.
THEOREM OneReplayHolds == Spec => []OneReplay
<1>1. HubInv => OneReplay
  BY HubAssumption DEF HubInv, Pointed, OneReplay
<1> QED
  BY <1>1, HubInvariance, PTL

-----------------------------------------------------------------------------
(* Parts of a sequence *)

\* A set of numbers has a least one.
LEMMA Least ==
  ASSUME NEW T \in SUBSET Nat, T # {}
  PROVE  \E m \in T : \A k \in T : m <= k
<1> DEFINE W == {0..m : m \in T}
<1>1. W \subseteq FiniteSubsetsOf(Nat) /\ W # {}
  <2>1. ASSUME NEW m \in T PROVE 0..m \subseteq Nat /\ IsFiniteSet(0..m)
    BY FS_Interval
  <2> QED
    BY <2>1 DEF FiniteSubsetsOf
<1>2. PICK x \in W : \A y \in W : <<y, x>> \notin StrictSubsetOrdering(Nat)
  BY <1>1, FS_StrictSubsetOrderingWellFounded, WFMin
<1>3. PICK m \in T : x = 0..m
  OBVIOUS
<1>4. ASSUME NEW k \in T, k < m PROVE FALSE
  <2>1. 0..k \subseteq 0..m /\ 0..k # 0..m /\ 0..m \subseteq Nat
    BY <1>4
  <2>2. <<0..k, 0..m>> \in StrictSubsetOrdering(Nat)
    BY <2>1 DEF StrictSubsetOrdering
  <2> QED
    BY <2>2, <1>2, <1>3
<1> QED
  BY <1>4

\* es is the part of h after position a.
Slice(es, h, a) ==
  /\ es \in Seq(Event) /\ a + Len(es) <= Len(h)
  /\ \A i \in 1..Len(es) : es[i] = h[a + i]

\* es is all of h after position a.
Rest(es, h, a) == Slice(es, h, a) /\ a + Len(es) = Len(h)

\* Events are numbered as they were published, and a note is the last of its turn.
Published(h) ==
  /\ h \in Seq(Event)
  /\ \A i \in 1..Len(h) : h[i].n = i /\ (h[i].kind = "note" => i = Len(h) /\ i > 1)

\* A part of a part.
LEMMA SliceOfSlice ==
  ASSUME NEW h \in Seq(Event), NEW a \in Nat, NEW es, Slice(es, h, a),
         NEW m \in 1..(Len(es) + 1), NEW n \in (m - 1)..Len(es)
  PROVE  /\ Slice(SubSeq(es, m, n), h, a + (m - 1))
         /\ Len(SubSeq(es, m, n)) = n - (m - 1)
<1>1. es \in Seq(Event) /\ Len(es) \in Nat /\ a + Len(es) <= Len(h) /\ Len(h) \in Nat
  BY DEF Slice
<1>2. \A i \in m..n : es[i] \in Event
  BY <1>1, ElementOfSeq
<1>3. /\ SubSeq(es, m, n) \in Seq(Event)
      /\ Len(SubSeq(es, m, n)) = IF m <= n THEN n - m + 1 ELSE 0
      /\ \A i \in 1..(n - m + 1) : SubSeq(es, m, n)[i] = es[m + i - 1]
  BY <1>1, <1>2, SubSeqProperties
<1>4. Len(SubSeq(es, m, n)) = n - (m - 1)
  BY <1>1, <1>3
<1>5. ASSUME NEW i \in 1..(n - (m - 1))
      PROVE  SubSeq(es, m, n)[i] = h[(a + (m - 1)) + i]
  <2>1. SubSeq(es, m, n)[i] = es[m + i - 1] /\ m + i - 1 \in 1..Len(es)
    BY <1>1, <1>3
  <2>2. es[m + i - 1] = h[a + (m + i - 1)]
    BY <2>1 DEF Slice
  <2> QED
    BY <1>1, <2>1, <2>2
<1> QED
  BY <1>1, <1>3, <1>4, <1>5, SMTT(60) DEF Slice

\* Two parts of equal length at one place are equal.
LEMMA SliceUnique ==
  ASSUME NEW h, NEW a, NEW es, NEW fs, Slice(es, h, a), Slice(fs, h, a), Len(es) = Len(fs)
  PROVE  es = fs
<1>1. \A i \in 1..Len(es) : es[i] = fs[i]
  BY DEF Slice
<1> QED
  BY <1>1, SeqEqual DEF Slice

\* Parts that follow each other are one.
LEMMA SliceConcat ==
  ASSUME NEW h \in Seq(Event), NEW a \in Nat, NEW es, NEW fs,
         Slice(es, h, a), Slice(fs, h, a + Len(es))
  PROVE  Slice(es \o fs, h, a) /\ Len(es \o fs) = Len(es) + Len(fs)
<1>1. /\ es \in Seq(Event) /\ fs \in Seq(Event)
      /\ Len(es) \in Nat /\ Len(fs) \in Nat /\ Len(h) \in Nat
  BY DEF Slice
<1>2. /\ es \o fs \in Seq(Event) /\ Len(es \o fs) = Len(es) + Len(fs)
      /\ \A i \in 1..Len(es) + Len(fs) :
           (es \o fs)[i] = IF i <= Len(es) THEN es[i] ELSE fs[i - Len(es)]
  BY <1>1, ConcatProperties
<1>3. ASSUME NEW i \in 1..Len(es) + Len(fs) PROVE (es \o fs)[i] = h[a + i]
  <2>1. CASE i <= Len(es)
    BY <2>1, <1>1, <1>2 DEF Slice
  <2>2. CASE i > Len(es)
    <3>1. i - Len(es) \in 1..Len(fs) /\ (es \o fs)[i] = fs[i - Len(es)]
      BY <2>2, <1>1, <1>2
    <3>2. fs[i - Len(es)] = h[(a + Len(es)) + (i - Len(es))]
      BY <3>1 DEF Slice
    <3> QED
      BY <3>1, <3>2, <1>1
  <2> QED
    BY <2>1, <2>2, <1>1
<1> QED
  BY <1>1, <1>2, <1>3 DEF Slice

\* The whole is a part of itself.
LEMMA SliceWhole ==
  ASSUME NEW h \in Seq(Event)
  PROVE  Slice(h, h, 0)
  BY DEF Slice

\* A part of a sequence is one of the sequence with an event more.
LEMMA SliceAppend ==
  ASSUME NEW h \in Seq(Event), NEW e \in Event, NEW a \in Nat, NEW es, Slice(es, h, a)
  PROVE  Slice(es, Append(h, e), a)
<1>1. /\ Append(h, e) \in Seq(Event) /\ Len(Append(h, e)) = Len(h) + 1
      /\ \A i \in 1..Len(h) : Append(h, e)[i] = h[i]
  BY AppendProperties
<1>2. Len(h) \in Nat /\ Len(es) \in Nat
  BY DEF Slice
<1> QED
  BY <1>1, <1>2 DEF Slice
-----------------------------------------------------------------------------
(* What the handlers compute *)

\* Visible, without its recursion: only the last event of a turn may be left out.
LEMMA VisibleIs ==
  ASSUME NEW h, Published(h), NEW a \in Nat, NEW es, Slice(es, h, a)
  PROVE  Visible(es) = IF es # <<>> /\ es[Len(es)].kind = "note"
                       THEN SubSeq(es, 1, Len(es) - 1) ELSE es
<1> DEFINE N == Len(es)
           Rec(f) == f = [i \in 0..N |->
                            IF i = 0 THEN <<>>
                            ELSE IF Shown(es[i]) THEN Append(f[i - 1], es[i]) ELSE f[i - 1]]
           g == [i \in 0..N |-> IF i = 0 \/ Shown(es[i]) THEN SubSeq(es, 1, i)
                                ELSE SubSeq(es, 1, i - 1)]
           f == CHOOSE x : Rec(x)
<1>1. /\ es \in Seq(Event) /\ N \in Nat /\ h \in Seq(Event) /\ Len(h) \in Nat
      /\ \A i \in 1..N : es[i] \in Event /\ es[i] = h[a + i] /\ a + i \in 1..Len(h)
  BY ElementOfSeq DEF Slice, Published
<1>2. ASSUME NEW i \in 1..(N - 1) PROVE Shown(es[i])
  BY <1>1 DEF Slice, Published, Shown
<1>3. ASSUME NEW i \in 1..N PROVE SubSeq(es, 1, i) = Append(SubSeq(es, 1, i - 1), es[i])
  <2>1. /\ SubSeq(es, 1, i) = SubSeq(es, 1, i - 1) \o <<es[i]>>
        /\ SubSeq(es, 1, i - 1) \in Seq(Event)
    BY <1>1, SubSeqRecursiveSecond, SubSeqProperties
  <2> QED
    BY <2>1, <1>1, AppendIsConcat
<1>4. SubSeq(es, 1, 0) = <<>>
  BY SubSeqEmpty
<1>5. ASSUME NEW i \in 1..N
      PROVE  g[i] = IF Shown(es[i]) THEN Append(g[i - 1], es[i]) ELSE g[i - 1]
  <2>1. i - 1 \in 0..N /\ (i - 1 = 0 \/ i - 1 \in 1..(N - 1))
    BY <1>1
  <2>2. g[i - 1] = SubSeq(es, 1, i - 1)
    BY <2>1, <1>2
  <2>3. g[i] = IF Shown(es[i]) THEN SubSeq(es, 1, i) ELSE SubSeq(es, 1, i - 1)
    BY <1>1
  <2> HIDE DEF g
  <2> QED
    BY <2>2, <2>3, <1>3
<1>6. g[0] = <<>>
  BY <1>1, <1>4
<1>7. Rec(g)
  <2> SUFFICES ASSUME NEW i \in 0..N
               PROVE  g[i] = IF i = 0 THEN <<>>
                             ELSE IF Shown(es[i]) THEN Append(g[i - 1], es[i]) ELSE g[i - 1]
    OBVIOUS
  <2> HIDE DEF g
  <2> QED
    BY <1>1, <1>5, <1>6
<1>8. Rec(f)
  <2> HIDE DEF Rec, g
  <2> QED
    BY <1>7
<1>9. \A i \in 0..N : f[i] = g[i]
  <2> DEFINE T == {i \in 0..N : f[i] # g[i]}
  <2> HIDE DEF f, g
  <2> SUFFICES ASSUME T # {} PROVE FALSE
    OBVIOUS
  <2>1. PICK m \in T : \A k \in T : m <= k
    BY Least, T \in SUBSET Nat
  <2>2. m # 0
    BY <1>1, <1>6, <1>8
  <2>3. m \in 1..N /\ m - 1 \in 0..N /\ m - 1 \notin T
    BY <1>1, <2>1, <2>2
  <2>4. f[m] = IF Shown(es[m]) THEN Append(f[m - 1], es[m]) ELSE f[m - 1]
    BY <1>8, <1>1, <2>3, <2>2
  <2> QED
    BY <2>3, <2>4, <1>5
<1>10. Visible(es) = f[N]
  BY DEF Visible
<1>11. g[N] = IF N # 0 /\ es[N].kind = "note" THEN SubSeq(es, 1, N - 1) ELSE SubSeq(es, 1, N)
  BY <1>1 DEF Shown
<1>12. SubSeq(es, 1, N) = es /\ (N # 0 <=> es # <<>>)
  BY <1>1, SubSeqFull, EmptySeq
<1>13. Visible(es) = g[N]
  <2> HIDE DEF f, g
  <2> QED
    BY <1>1, <1>9, <1>10
<1> HIDE DEF f, g
<1> QED
  BY <1>11, <1>12, <1>13

\* What a handler writes of a part is a part, without notes.
LEMMA VisibleSlice ==
  ASSUME NEW h, Published(h), NEW a \in Nat, NEW es, Slice(es, h, a)
  PROVE  /\ Slice(Visible(es), h, a)
         /\ Len(Visible(es)) = IF es # <<>> /\ es[Len(es)].kind = "note"
                               THEN Len(es) - 1 ELSE Len(es)
         /\ \A i \in 1..Len(Visible(es)) : Visible(es)[i].kind # "note"
<1>1. /\ es \in Seq(Event) /\ Len(es) \in Nat /\ h \in Seq(Event) /\ Len(h) \in Nat
      /\ a + Len(es) <= Len(h)
  BY DEF Slice, Published
<1>2. es # <<>> => Len(es) \in Nat \ {0}
  BY <1>1, EmptySeq
<1>3. /\ Slice(Visible(es), h, a)
      /\ Len(Visible(es)) = IF es # <<>> /\ es[Len(es)].kind = "note"
                            THEN Len(es) - 1 ELSE Len(es)
  <2>1. CASE es # <<>> /\ es[Len(es)].kind = "note"
    <3>1. Visible(es) = SubSeq(es, 1, Len(es) - 1)
      BY <2>1, VisibleIs
    <3> DEFINE k == Len(es) - 1
    <3>2. k \in (1 - 1)..Len(es) /\ 1 \in 1..(Len(es) + 1)
      BY <1>1, <1>2, <2>1
    <3> HIDE DEF k
    <3>3. Slice(SubSeq(es, 1, k), h, a + (1 - 1)) /\ Len(SubSeq(es, 1, k)) = k - (1 - 1)
      BY <1>1, <3>2, SliceOfSlice
    <3> QED
      BY <1>1, <2>1, <3>1, <3>2, <3>3 DEF k
  <2>2. CASE ~(es # <<>> /\ es[Len(es)].kind = "note")
    BY <2>2, VisibleIs
  <2> QED
    BY <2>1, <2>2
<1>4. ASSUME NEW i \in 1..Len(Visible(es)) PROVE Visible(es)[i].kind # "note"
  <2>1. Visible(es)[i] = h[a + i] /\ i \in 1..Len(es) /\ es[i] = h[a + i]
    BY <1>1, <1>2, <1>3 DEF Slice
  <2>2. h[a + i].kind = "note" => a + i = Len(h)
    BY <1>1, <2>1 DEF Published
  <2> QED
    BY <1>1, <1>2, <1>3, <2>1, <2>2
<1> QED
  BY <1>3, <1>4

\* After, of the last events of a turn: the events that follow last, or all of them.
LEMMA AfterRest ==
  ASSUME NEW h, Published(h), NEW a \in Nat, NEW es, Rest(es, h, a), NEW last \in Nat
  PROVE  Rest(After(es, last), h, IF a < last /\ last <= Len(h) THEN last ELSE a)
<1>1. /\ es \in Seq(Event) /\ Len(es) \in Nat /\ h \in Seq(Event) /\ Len(h) \in Nat
      /\ DOMAIN es = 1..Len(es) /\ Slice(es, h, a) /\ a + Len(es) = Len(h)
  BY LenProperties DEF Rest, Slice, Published
<1>2. \A i \in DOMAIN es : es[i].n = a + i
  BY <1>1 DEF Slice, Published
<1>3. ASSUME a < last, last <= Len(h) PROVE Rest(After(es, last), h, last)
  <2> DEFINE c == CHOOSE i \in DOMAIN es : es[i].n = last
  <2> DEFINE d == last - a
  <2>0. d \in DOMAIN es /\ a + d = last
    BY <1>1, <1>3
  <2> HIDE DEF d
  <2>1. d \in DOMAIN es /\ es[d].n = last
    BY <1>2, <2>0
  <2>2. c \in DOMAIN es /\ es[c].n = last
    BY <2>1
  <2> DEFINE m == 1 + c
  <2>3. After(es, last) = SubSeq(es, m, Len(es))
    BY <2>1 DEF After
  <2> HIDE DEF c
  <2>4. m = 1 + d /\ m \in 1..(Len(es) + 1) /\ Len(es) \in (m - 1)..Len(es)
    <3>1. c = d
      BY <1>1, <1>2, <2>0, <2>2
    <3> QED
      BY <1>1, <2>0, <3>1
  <2> HIDE DEF m
  <2>5. /\ Slice(SubSeq(es, m, Len(es)), h, a + (m - 1))
        /\ Len(SubSeq(es, m, Len(es))) = Len(es) - (m - 1)
    BY ONLY a \in Nat, <1>1, <2>4, SliceOfSlice
  <2>6. a + (m - 1) = last /\ last + (Len(es) - (m - 1)) = Len(h)
    BY <1>1, <1>3, <2>0, <2>4
  <2> QED
    BY <2>3, <2>5, <2>6 DEF Rest
<1>4. CASE ~(a < last /\ last <= Len(h))
  <2>1. ~\E i \in DOMAIN es : es[i].n = last
    BY <1>1, <1>2, <1>4
  <2> QED
    BY <1>4, <2>1 DEF After
<1> QED
  BY <1>3, <1>4

\* Sent cuts a part after its first event that ends the stream.
LEMMA SentSlice ==
  ASSUME NEW h \in Seq(Event), NEW a \in Nat, NEW es, Slice(es, h, a)
  PROVE  /\ Slice(Sent(es), h, a) /\ Len(Sent(es)) <= Len(es)
         /\ \A i \in 1..Len(Sent(es)) : Sent(es)[i].kind = "end" => i = Len(Sent(es))
         /\ ~Ends(es) => Sent(es) = es
         /\ Ends(es) => Len(Sent(es)) > 0 /\ Sent(es)[Len(Sent(es))].kind = "end"
<1>1. es \in Seq(Event) /\ Len(es) \in Nat /\ DOMAIN es = 1..Len(es) /\ Len(h) \in Nat
  BY LenProperties DEF Slice
<1>2. CASE ~Ends(es)
  <2>1. Sent(es) = es
    BY <1>2 DEF Sent
  <2>2. \A i \in 1..Len(es) : es[i].kind # "end"
    BY <1>1, <1>2 DEF Ends
  <2>3. Slice(Sent(es), h, a) /\ Len(Sent(es)) <= Len(es)
    BY <1>1, <2>1
  <2> QED
    BY <1>2, <2>1, <2>2, <2>3
<1>3. CASE Ends(es)
  <2> DEFINE First(i) == es[i].kind = "end" /\ \A j \in 1..(i - 1) : es[j].kind # "end"
             m == CHOOSE i \in DOMAIN es : First(i)
  <2>1. \E i \in DOMAIN es : First(i)
    <3> DEFINE T == {i \in DOMAIN es : es[i].kind = "end"}
    <3>1. T \in SUBSET Nat /\ T # {}
      BY <1>1, <1>3 DEF Ends
    <3>2. PICK i \in T : \A k \in T : i <= k
      BY <3>1, Least
    <3> QED
      BY <1>1, <3>2
  <2>2. m \in DOMAIN es /\ First(m)
    BY <2>1
  <2>3. Sent(es) = SubSeq(es, 1, m)
    BY <1>3, Zenon DEF Sent
  <2> HIDE DEF m
  <2>4. Slice(SubSeq(es, 1, m), h, a + (1 - 1)) /\ Len(SubSeq(es, 1, m)) = m - (1 - 1)
    BY <1>1, <2>2, SliceOfSlice
  <2>5. Slice(Sent(es), h, a) /\ Len(Sent(es)) = m
    BY <1>1, <2>2, <2>3, <2>4
  <2>6. \A i \in 1..m : Sent(es)[i] = es[i]
    <3>1. \A i \in 1..m : i \in 1..Len(es) /\ es[i] = h[a + i] /\ Sent(es)[i] = h[a + i]
      BY <1>1, <2>2, <2>5 DEF Slice
    <3> QED
      BY <3>1
  <2> QED
    BY <1>1, <1>3, <2>2, <2>5, <2>6
<1> QED
  BY <1>2, <1>3

-----------------------------------------------------------------------------
(* What streams show *)

\* A turn's events are numbered, a note is its last, and it has published by the time
\* it is done.
Numbered ==
  /\ hist \in [Turns -> Seq(Event)]
  /\ \A t \in Turns :
       /\ Published(hist[t]) /\ turn[t].sent = Len(hist[t])
       /\ \A i \in 1..Len(hist[t]) : hist[t][i].kind = "note" => turn[t].pc = "over"
       /\ turn[t].pc \in {"done", "message"} => hist[t] # <<>>

\* A replay holds the last events of its turn.
Kept ==
  \A t \in Turns : replay[t] # Nil =>
    /\ replay[t] # <<>>
    /\ \E a \in Nat : Rest(replay[t], hist[t], a)

StreamPc == {"idle", "writing", "waiting", "reading", "draining", "leaving", "gone"}
StreamRec == [pc : StreamPc, turn : Turns \cup {Nil}, sess : Sessions \cup {Nil},
              base : Nat, last : Nat, out : Seq(Event), pend : Seq(Event)]

\* A stream of a run is that of its turn's session, and of the hub's subscribers as
\* long as its channel is open.
StreamsTyped ==
  /\ closes \in Nat
  /\ st \in [Streams -> StreamRec]
  /\ chan \in [Streams -> [wait : Nat, open : BOOLEAN]]
  /\ \A x \in Streams :
       /\ st[x].pc \in {"writing", "waiting", "reading"} => st[x].turn # Nil
       /\ st[x].pc = "idle" => st[x].turn = Nil
       /\ st[x].turn = Nil => st[x].out = <<>>
       /\ st[x].turn # Nil =>
            /\ st[x].sess = SessionOf[st[x].turn]
            /\ chan[x].open => x \in subs[st[x].sess]

\* The replay of a turn that is alone on its session is all it has published.
Owns ==
  /\ \A s \in Sessions : traceOf[s] # Nil => SessionOf[traceOf[s]] = s
  /\ \A t \in Turns : Alone(t) =>
       /\ hist[t] = <<>> => replay[t] = Nil /\ traceOf[SessionOf[t]] = Nil
       /\ hist[t] # <<>> => replay[t] = hist[t] /\ traceOf[SessionOf[t]] = t

\* What a stream r of the turn that has published h has shown is in order up to last,
\* and what it is about to show follows.
InOrder(r, h) ==
  /\ \A i, j \in 1..Len(r.out) : i < j => r.out[i].n < r.out[j].n
  /\ r.out # <<>> => r.last <= Len(h) /\ \A i \in 1..Len(r.out) : r.out[i].n <= r.last
  /\ r.pc = "writing" =>
       \E a \in Nat : Slice(r.pend, h, a) /\ (r.out # <<>> => r.last <= a)

\* How far into its turn a stream has come, and whether that is all there is to show.
Reached(r) == r.base + Len(r.out)
AllShown(r, h) ==
  \/ Reached(r) = Len(h)
  \/ Reached(r) = Len(h) - 1 /\ h[Len(h)].kind = "note"

\* A stream of a turn that is alone shows the turn's events from base on without a gap,
\* and misses none unless told that there is more.
Exact(r, h, told) ==
  /\ Slice(r.out, h, r.base)
  /\ \A i \in 1..Len(r.out) :
       /\ r.out[i].kind # "note"
       /\ r.out[i].kind = "end" => i = Len(r.out) /\ r.pc \in {"leaving", "gone"}
  /\ r.pc = "writing" =>
       /\ Slice(r.pend, h, Reached(r))
       /\ r.last = Reached(r) \/ (r.base = 0 /\ r.out = <<>> /\ r.pend # <<>>)
       /\ told \/ Reached(r) + Len(r.pend) = Len(h)
  /\ r.pc \in {"waiting", "reading"} => r.last = Reached(r)
  /\ r.pc = "waiting" => told \/ AllShown(r, h)

\* The stream has been told that there is more, or will be, or its channel is closed.
Told(x) == chan[x].open => chan[x].wait > 0 \/ x \in turn[st[x].turn].todo

StreamOk(x) ==
  Resumed(x) => /\ InOrder(st[x], hist[st[x].turn])
                /\ Alone(st[x].turn) => Exact(st[x], hist[st[x].turn], Told(x))
Streamed == \A x \in Streams : StreamOk(x)
StreamInv == HubInv /\ Numbered /\ Kept /\ StreamsTyped /\ Owns /\ Streamed

\* It holds at the start.
LEMMA StreamInvInit == Init => StreamInv
<1> SUFFICES ASSUME Init PROVE StreamInv
  OBVIOUS
<1>1. <<>> \in Seq(Event) /\ Len(<<>>) = 0
  BY EmptySeq
<1>2. Numbered
  <2>1. hist \in [Turns -> Seq(Event)]
    BY <1>1 DEF Init
  <2>2. \A t \in Turns : hist[t] = <<>> /\ turn[t].sent = 0 /\ turn[t].pc = "new"
    BY DEF Init, IdleTurn
  <2>3. Published(<<>>)
    BY <1>1 DEF Published
  <2> QED
    BY <1>1, <2>1, <2>2, <2>3 DEF Numbered
<1>3. Kept /\ Owns
  BY HubAssumption DEF Init, Kept, Owns
<1>4. StreamsTyped
  BY <1>1 DEF Init, StreamsTyped, StreamRec, StreamPc, IdleStream
<1>5. Streamed
  BY DEF Init, Streamed, StreamOk, Resumed, IdleStream
<1> QED
  BY <1>2, <1>3, <1>4, <1>5, HubInvInit DEF StreamInv

-----------------------------------------------------------------------------
(* A publication *)

\* How a turn's goroutine publishes: a note is the last it does.
Publishes(t, kind, pc) ==
  /\ Publish(t, kind, pc) /\ UNCHANGED inflight
  /\ kind \in {"delta", "end", "note"} /\ pc \in TurnPc
  /\ turn[t].pc # "over"
  /\ kind = "note" => turn[t].pc = "message" /\ pc = "over"

\* It appends the event to what the turn has published.
LEMMA PublishAppends ==
  ASSUME HubInv, Numbered, NEW t \in Turns, NEW kind, NEW pc, Publishes(t, kind, pc)
  PROVE  LET e == [n |-> turn[t].sent + 1, kind |-> kind]
         IN  /\ e \in Event
             /\ hist' \in [Turns -> Seq(Event)]
             /\ hist'[t] = Append(hist[t], e) /\ hist'[t] # <<>>
             /\ Len(hist'[t]) = Len(hist[t]) + 1
             /\ \A i \in 1..Len(hist[t]) : hist'[t][i] = hist[t][i]
             /\ hist'[t][Len(hist[t]) + 1] = e
             /\ Published(hist'[t])
             /\ \A u \in Turns \ {t} : hist'[u] = hist[u]
             /\ turn'[t].pc = pc /\ turn'[t].sent = turn[t].sent + 1
             /\ turn'[t].todo = subs[SessionOf[t]]
             /\ \A u \in Turns \ {t} : turn'[u] = turn[u]
<1> DEFINE e == [n |-> turn[t].sent + 1, kind |-> kind]
<1>1. /\ hist[t] \in Seq(Event) /\ turn[t].sent = Len(hist[t]) /\ Len(hist[t]) \in Nat
      /\ Published(hist[t]) /\ kind \in {"delta", "end", "note"}
  BY DEF Numbered, Published, Publishes
<1>2. e \in Event
  BY <1>1 DEF Event
<1>3. hist' = [hist EXCEPT ![t] = Append(@, e)]
  BY DEF Publishes, Publish
<1>4. turn' = [turn EXCEPT ![t].pc = pc, ![t].sent = @ + 1, ![t].todo = subs[SessionOf[t]]]
  BY DEF Publishes, Publish
<1>5. /\ turn'[t].pc = pc /\ turn'[t].sent = turn[t].sent + 1
      /\ turn'[t].todo = subs[SessionOf[t]]
      /\ \A u \in Turns \ {t} : turn'[u] = turn[u]
  BY <1>4 DEF HubInv, Typed
<1> HIDE DEF e
<1>6. /\ Append(hist[t], e) \in Seq(Event)
      /\ Append(hist[t], e) # <<>> /\ Len(Append(hist[t], e)) = Len(hist[t]) + 1
      /\ \A i \in 1..Len(hist[t]) : Append(hist[t], e)[i] = hist[t][i]
      /\ Append(hist[t], e)[Len(hist[t]) + 1] = e
  BY <1>1, <1>2, AppendProperties
<1>7. /\ hist' \in [Turns -> Seq(Event)] /\ hist'[t] = Append(hist[t], e)
      /\ \A u \in Turns \ {t} : hist'[u] = hist[u]
  BY <1>3, <1>6 DEF Numbered
<1>8. Published(Append(hist[t], e))
  <2>1. \A i \in 1..Len(hist[t]) : hist[t][i].kind # "note"
    BY DEF Numbered, Publishes
  <2>2. e.n = Len(hist[t]) + 1 /\ e.kind = kind
    BY <1>1 DEF e
  <2>3. kind = "note" => Len(hist[t]) > 0
    BY <1>1, EmptySeq DEF Numbered, Publishes
  <2>4. ASSUME NEW i \in 1..Len(Append(hist[t], e))
        PROVE  LET g == Append(hist[t], e)
               IN  g[i].n = i /\ (g[i].kind = "note" => i = Len(g) /\ i > 1)
    <3>1. CASE i \in 1..Len(hist[t])
      BY <3>1, <1>1, <1>6, <2>1 DEF Published
    <3>2. CASE i = Len(hist[t]) + 1
      BY <3>2, <1>1, <1>6, <2>2, <2>3
    <3> QED
      BY <3>1, <3>2, <1>1, <1>6
  <2> QED
    BY <1>6, <2>4 DEF Published
<1>9. hist'[t] # <<>> /\ Len(hist'[t]) = Len(hist[t]) + 1 /\ Published(hist'[t])
  BY <1>6, <1>7, <1>8
<1> QED
  BY <1>2, <1>5, <1>6, <1>7, <1>9 DEF e

\* The events stay numbered.
LEMMA PublishNumbered ==
  ASSUME HubInv, Numbered, NEW t \in Turns, NEW kind, NEW pc, Publishes(t, kind, pc)
  PROVE  Numbered'
<1> DEFINE e == [n |-> turn[t].sent + 1, kind |-> kind]
<1>1. /\ hist' \in [Turns -> Seq(Event)] /\ hist'[t] # <<>>
      /\ Len(hist'[t]) = Len(hist[t]) + 1
      /\ \A i \in 1..Len(hist[t]) : hist'[t][i] = hist[t][i]
      /\ hist'[t][Len(hist[t]) + 1] = e
      /\ Published(hist'[t])
      /\ \A u \in Turns \ {t} : hist'[u] = hist[u] /\ turn'[u] = turn[u]
      /\ turn'[t].pc = pc /\ turn'[t].sent = turn[t].sent + 1
  BY PublishAppends
<1>2. Len(hist[t]) \in Nat /\ turn[t].sent = Len(hist[t])
  BY DEF Numbered, Published
<1>3. ASSUME NEW i \in 1..Len(hist'[t]), hist'[t][i].kind = "note" PROVE pc = "over"
  <2>1. \A j \in 1..Len(hist[t]) : hist[t][j].kind # "note"
    BY DEF Numbered, Publishes
  <2>2. i = Len(hist[t]) + 1 /\ e.kind = "note"
    BY <1>1, <1>2, <1>3, <2>1
  <2> QED
    BY <2>2 DEF Publishes
<1> HIDE DEF e
<1>4. \A u \in Turns :
        /\ Published(hist'[u]) /\ turn'[u].sent = Len(hist'[u])
        /\ \A i \in 1..Len(hist'[u]) : hist'[u][i].kind = "note" => turn'[u].pc = "over"
        /\ turn'[u].pc \in {"done", "message"} => hist'[u] # <<>>
  BY <1>1, <1>2, <1>3 DEF Numbered
<1> QED
  BY <1>1, <1>4 DEF Numbered

\* A replay goes on to hold the last events of its turn.
LEMMA PublishKept ==
  ASSUME HubInv, Numbered, Kept, NEW t \in Turns, NEW kind, NEW pc, Publishes(t, kind, pc)
  PROVE  Kept'
<1> DEFINE e == [n |-> turn[t].sent + 1, kind |-> kind]
           s == SessionOf[t]
<1>1. /\ e \in Event /\ hist'[t] = Append(hist[t], e) /\ hist'[t] \in Seq(Event)
      /\ Len(hist'[t]) = Len(hist[t]) + 1
      /\ hist'[t][Len(hist[t]) + 1] = e
      /\ \A u \in Turns \ {t} : hist'[u] = hist[u]
  BY PublishAppends
<1>2. hist[t] \in Seq(Event) /\ Len(hist[t]) \in Nat
  BY DEF Numbered, Published
<1>3. \A u \in Turns : replay'[u] = IF u = t THEN IF traceOf[s] = t THEN Append(Events(t), e)
                                                  ELSE <<e>>
                                    ELSE IF traceOf[s] # t /\ u \in Forgotten(s) THEN Nil
                                    ELSE replay[u]
  BY DEF Publishes, Publish
<1> HIDE DEF e, s
<1>4. /\ Slice(<<e>>, hist'[t], Len(hist[t])) /\ Len(<<e>>) = 1 /\ <<e>> # <<>>
      /\ Rest(<<e>>, hist'[t], Len(hist[t]))
  BY <1>1, <1>2 DEF Slice, Rest
<1>5. ASSUME NEW es, NEW a \in Nat, Rest(es, hist[t], a)
      PROVE  Append(es, e) # <<>> /\ Rest(Append(es, e), hist'[t], a)
  <2>1. es \in Seq(Event) /\ Slice(es, hist'[t], a) /\ a + Len(es) = Len(hist[t])
    BY <1>1, <1>2, <1>5, SliceAppend DEF Slice, Rest
  <2>2. Append(es, e) = es \o <<e>> /\ Append(es, e) # <<>> /\ Len(Append(es, e)) = Len(es) + 1
    BY <1>1, <2>1, AppendIsConcat, AppendProperties
  <2>3. Slice(es \o <<e>>, hist'[t], a)
    BY <1>1, <1>4, <2>1, SliceConcat
  <2>4. Len(es) \in Nat
    BY <2>1
  <2>5. a + (Len(es) + 1) = Len(hist[t]) + 1
    BY <1>2, <2>1, <2>4
  <2>6. Slice(Append(es, e), hist'[t], a) /\ a + Len(Append(es, e)) = Len(hist'[t])
    BY <1>1, <2>2, <2>3, <2>5
  <2> QED
    BY <2>2, <2>6 DEF Rest
<1>6. ASSUME NEW u \in Turns, replay'[u] # Nil
      PROVE  /\ replay'[u] # <<>>
             /\ \E a \in Nat : Rest(replay'[u], hist'[u], a)
  <2>1. CASE u # t
    BY <2>1, <1>1, <1>3, <1>6 DEF Kept
  <2>2. CASE u = t /\ traceOf[s] # t
    BY <2>2, <1>1, <1>2, <1>3, <1>4
  <2>3. CASE u = t /\ traceOf[s] = t /\ replay[t] = Nil
    <3>1. replay'[u] = Append(<<>>, e)
      BY <2>3, <1>3 DEF Events
    <3>2. Append(<<>>, e) = <<e>>
      OBVIOUS
    <3> QED
      BY <3>1, <3>2, <2>3, <1>1, <1>2, <1>4
  <2>4. CASE u = t /\ traceOf[s] = t /\ replay[t] # Nil
    <3>1. replay'[u] = Append(replay[t], e)
      BY <2>4, <1>3 DEF Events
    <3>2. PICK a \in Nat : Rest(replay[t], hist[t], a)
      BY <2>4 DEF Kept
    <3> QED
      BY <3>1, <3>2, <2>4, <1>5
  <2> QED
    BY <2>1, <2>2, <2>3, <2>4
<1> QED
  BY <1>6 DEF Kept

\* The replay of a turn that is alone stays all that it has published.
LEMMA PublishOwns ==
  ASSUME HubInv, Numbered, Owns, NEW t \in Turns, NEW kind, NEW pc, Publishes(t, kind, pc)
  PROVE  /\ Owns'
         /\ \A u \in Turns : Alone(u)' => Alone(u) /\ (u = t \/ SessionOf[u] # SessionOf[t])
<1> DEFINE e == [n |-> turn[t].sent + 1, kind |-> kind]
           s == SessionOf[t]
<1>1. /\ hist'[t] = Append(hist[t], e) /\ hist'[t] # <<>>
      /\ \A u \in Turns \ {t} : hist'[u] = hist[u]
  BY PublishAppends
<1>2. hist[t] \in Seq(Event) /\ Nil \notin Seq(Event)
  BY NilAssumption DEF Numbered, Published
<1>3. /\ \A u \in Turns : replay'[u] = IF u = t THEN IF traceOf[s] = t THEN Append(Events(t), e)
                                                     ELSE <<e>>
                                       ELSE IF traceOf[s] # t /\ u \in Forgotten(s) THEN Nil
                                       ELSE replay[u]
      /\ traceOf' = [traceOf EXCEPT ![s] = t] /\ closes' = closes
  BY DEF Publishes, Publish
<1>4. s \in Sessions /\ \A u \in Turns : SessionOf[u] \in Sessions /\ u # Nil
  BY HubAssumption
<1> HIDE DEF e
<1>5. ASSUME NEW u \in Turns, Alone(u)'
      PROVE  Alone(u) /\ (u = t \/ SessionOf[u] # s)
  <2>1. closes = 0 /\ \A v \in Turns \ {u} : SessionOf[v] = SessionOf[u] => hist'[v] = <<>>
    BY <1>3, <1>5 DEF Alone
  <2>2. u = t \/ SessionOf[u] # s
    BY <2>1, <1>1
  <2> QED
    BY <2>1, <2>2, <1>1 DEF Alone
<1>6. \A r \in Sessions : traceOf'[r] = IF r = s THEN t ELSE traceOf[r]
  BY <1>3 DEF HubInv, Typed
<1>7. \A r \in Sessions : traceOf'[r] # Nil => SessionOf[traceOf'[r]] = r
  BY <1>6 DEF Owns
<1>8. ASSUME NEW u \in Turns, Alone(u)'
      PROVE  /\ hist'[u] = <<>> => replay'[u] = Nil /\ traceOf'[SessionOf[u]] = Nil
             /\ hist'[u] # <<>> => replay'[u] = hist'[u] /\ traceOf'[SessionOf[u]] = u
  <2>1. Alone(u) /\ (u = t \/ SessionOf[u] # s)
    BY <1>5, <1>8
  <2>2. /\ hist[u] = <<>> => replay[u] = Nil /\ traceOf[SessionOf[u]] = Nil
        /\ hist[u] # <<>> => replay[u] = hist[u] /\ traceOf[SessionOf[u]] = u
    BY <2>1 DEF Owns
  <2>3. CASE u = t /\ hist[t] = <<>>
    <3>1. replay'[t] = <<e>>
      BY <2>2, <2>3, <1>3, <1>4
    <3>2. hist'[t] = <<e>>
      BY <2>3, <1>1
    <3> QED
      BY <3>1, <3>2, <2>3, <1>1, <1>4, <1>6
  <2>4. CASE u = t /\ hist[t] # <<>>
    <3>1. replay[t] = hist[t] /\ replay[t] # Nil /\ traceOf[s] = t
      BY <2>2, <2>4, <1>2
    <3>2. replay'[t] = Append(hist[t], e)
      BY <3>1, <1>3 DEF Events
    <3> QED
      BY <3>2, <2>4, <1>1, <1>4, <1>6
  <2>5. CASE u # t
    <3>1. SessionOf[u] # s
      BY <2>1, <2>5
    <3>2. u # traceOf[s]
      BY <3>1, <1>4 DEF Owns
    <3>3. replay'[u] = replay[u]
      BY <2>5, <3>2, <1>3 DEF Forgotten
    <3> QED
      BY <2>2, <2>5, <3>1, <3>3, <1>1, <1>4, <1>6
  <2> QED
    BY <2>3, <2>4, <2>5
<1> QED
  BY <1>5, <1>7, <1>8 DEF Owns

\* What a stream has shown stays right when its turn publishes more and tells it so.
LEMMA MoreToShow ==
  ASSUME NEW r \in StreamRec, NEW h \in Seq(Event), NEW e \in Event, NEW told
  PROVE  /\ InOrder(r, h) => InOrder(r, Append(h, e))
         /\ Exact(r, h, told) => Exact(r, Append(h, e), TRUE)
<1>1. Len(h) \in Nat /\ Len(Append(h, e)) = Len(h) + 1
  BY AppendProperties
<1>2. r.last \in Nat /\ r.base \in Nat /\ Reached(r) \in Nat
  BY DEF StreamRec, Reached
<1>3. ASSUME NEW es, NEW a \in Nat, Slice(es, h, a) PROVE Slice(es, Append(h, e), a)
  BY <1>3, SliceAppend
<1>4. ASSUME InOrder(r, h) PROVE InOrder(r, Append(h, e))
  <2>1. r.out # <<>> => r.last <= Len(Append(h, e))
    BY <1>1, <1>2, <1>4 DEF InOrder
  <2>2. ASSUME r.pc = "writing"
        PROVE  \E a \in Nat : Slice(r.pend, Append(h, e), a) /\ (r.out # <<>> => r.last <= a)
    BY <1>3, <1>4, <2>2 DEF InOrder
  <2> QED
    BY <1>4, <2>1, <2>2 DEF InOrder
<1>5. ASSUME Exact(r, h, told) PROVE Exact(r, Append(h, e), TRUE)
  BY <1>2, <1>3, <1>5 DEF Exact
<1> QED
  BY <1>4, <1>5

\* What the streams have shown is as good after a publication as before.
LEMMA PublishStreamed ==
  ASSUME StreamInv, NEW t \in Turns, NEW kind, NEW pc, Publishes(t, kind, pc)
  PROVE  StreamsTyped' /\ Streamed'
<1> DEFINE e == [n |-> turn[t].sent + 1, kind |-> kind]
<1>1. /\ e \in Event /\ hist'[t] = Append(hist[t], e)
      /\ turn'[t].todo = subs[SessionOf[t]]
      /\ \A u \in Turns \ {t} : hist'[u] = hist[u] /\ turn'[u] = turn[u]
  BY PublishAppends DEF StreamInv
<1>2. hist[t] \in Seq(Event)
  BY DEF StreamInv, Numbered, Published
<1>3. UNCHANGED <<subs, chan, st, closes>>
  BY DEF Publishes, Publish
<1>4. StreamsTyped'
  BY <1>3 DEF StreamInv, StreamsTyped
<1> HIDE DEF e
<1>5. ASSUME NEW x \in Streams, Resumed(x)
      PROVE  /\ InOrder(st[x], hist'[st[x].turn])
             /\ Alone(st[x].turn)' => Exact(st[x], hist'[st[x].turn], Told(x)')
  <2>1. st[x] \in StreamRec /\ st[x].turn \in Turns
    BY <1>5 DEF StreamInv, StreamsTyped, StreamRec, Resumed
  <2>2. InOrder(st[x], hist[st[x].turn])
    BY <1>5 DEF StreamInv, Streamed, StreamOk
  <2>3. Alone(st[x].turn)' => Alone(st[x].turn)
                              /\ (st[x].turn = t \/ SessionOf[st[x].turn] # SessionOf[t])
    BY <2>1, <1>3, PublishOwns DEF StreamInv
  <2>4. Alone(st[x].turn)' => Exact(st[x], hist[st[x].turn], Told(x))
    BY <1>5, <2>3 DEF StreamInv, Streamed, StreamOk
  <2>5. CASE st[x].turn # t
    <3>1. Told(x)' <=> Told(x)
      BY <2>1, <2>5, <1>1, <1>3 DEF Told
    <3> QED
      BY <2>1, <2>2, <2>4, <2>5, <3>1, <1>1 DEF Exact
  <2>6. CASE st[x].turn = t
    <3>1. Told(x)'
      BY <1>5, <2>6, <1>1, <1>3 DEF Told, Resumed, StreamInv, StreamsTyped
    <3>2. /\ InOrder(st[x], hist[t]) => InOrder(st[x], Append(hist[t], e))
          /\ Exact(st[x], hist[t], Told(x)) => Exact(st[x], Append(hist[t], e), TRUE)
      BY <2>1, <1>1, <1>2, MoreToShow
    <3>3. Exact(st[x], hist'[t], TRUE) => Exact(st[x], hist'[t], Told(x)')
      BY <3>1 DEF Exact
    <3> QED
      BY <2>2, <2>4, <2>6, <3>2, <3>3, <1>1
  <2> QED
    BY <2>5, <2>6
<1>6. Streamed'
  BY <1>3, <1>5 DEF Streamed, StreamOk, Resumed
<1> QED
  BY <1>4, <1>6

\* A publication keeps all of it.
LEMMA PublishStreamInv ==
  ASSUME StreamInv, HubInv', NEW t \in Turns, NEW kind, NEW pc, Publishes(t, kind, pc)
  PROVE  StreamInv'
  BY PublishNumbered, PublishKept, PublishOwns, PublishStreamed DEF StreamInv

-----------------------------------------------------------------------------
(* The other steps of a turn *)

\* A turn that does not publish: its record and the registry change, and a send that
\* is over has woken the stream or found its channel full.
LEMMA TurnStreamInv ==
  ASSUME StreamInv, HubInv', UNCHANGED <<subs, replay, traceOf, st, hist, closes>>,
         chan' \in [Streams -> [wait : Nat, open : BOOLEAN]],
         \A x \in Streams : /\ chan'[x].open = chan[x].open
                            /\ chan[x].wait > 0 => chan'[x].wait > 0,
         \A t \in Turns :
           /\ turn'[t].sent = turn[t].sent
           /\ turn[t].pc = "over" => turn'[t].pc = "over"
           /\ turn'[t].pc \in {"done", "message"} => turn[t].pc \in {"done", "message"}
           /\ \A x \in turn[t].todo : x \in turn'[t].todo \/ chan'[x].wait > 0
  PROVE  StreamInv'
<1>1. Numbered'
  BY DEF StreamInv, Numbered
<1>2. Kept' /\ Owns'
  BY DEF StreamInv, Kept, Owns, Alone
<1>3. StreamsTyped'
  BY DEF StreamInv, StreamsTyped
<1>4. ASSUME NEW x \in Streams, Resumed(x)
      PROVE  /\ InOrder(st[x], hist[st[x].turn])
             /\ Alone(st[x].turn) => Exact(st[x], hist[st[x].turn], Told(x)')
  <2>1. st[x].turn \in Turns /\ (Told(x) => Told(x)')
    BY <1>4 DEF Resumed, StreamInv, StreamsTyped, StreamRec, Told
  <2> QED
    BY <1>4, <2>1 DEF StreamInv, Streamed, StreamOk, Exact
<1>5. Streamed'
  BY <1>4 DEF Streamed, StreamOk, Resumed, Alone
<1> QED
  BY <1>1, <1>2, <1>3, <1>5 DEF StreamInv

-----------------------------------------------------------------------------
(* The steps of a stream *)

\* What a step of stream x has to show of x alone.
LEMMA OneStream ==
  ASSUME StreamInv, HubInv', UNCHANGED <<turn, replay, traceOf, hist, closes>>,
         NEW x \in Streams,
         st' \in [Streams -> StreamRec], chan' \in [Streams -> [wait : Nat, open : BOOLEAN]],
         \A y \in Streams \ {x} : /\ st'[y] = st[y] /\ chan'[y] = chan[y]
                                  /\ \A s \in Sessions : y \in subs[s] => y \in subs'[s],
         st'[x].turn = Nil => st'[x].out = <<>>
                              /\ st'[x].pc \notin {"writing", "waiting", "reading"},
         st'[x].turn # Nil => /\ st'[x].pc # "idle"
                              /\ st'[x].sess = SessionOf[st'[x].turn]
                              /\ chan'[x].open => x \in subs'[st'[x].sess],
         StreamOk(x)'
  PROVE  StreamInv'
<1>1. Numbered' /\ Kept' /\ Owns'
  BY DEF StreamInv, Numbered, Kept, Owns, Alone
<1>2. ASSUME NEW y \in Streams, y # x
      PROVE  /\ st[y] \in StreamRec /\ st'[y] = st[y] /\ chan'[y] = chan[y]
             /\ st[y].turn # Nil => /\ st[y].turn \in Turns /\ SessionOf[st[y].turn] \in Sessions
                                    /\ st[y].sess \in Sessions
  BY <1>2, HubAssumption DEF StreamInv, StreamsTyped, StreamRec
<1>3. StreamsTyped'
  <2>1. ASSUME NEW y \in Streams
        PROVE  /\ st'[y].pc \in {"writing", "waiting", "reading"} => st'[y].turn # Nil
               /\ st'[y].pc = "idle" => st'[y].turn = Nil
               /\ st'[y].turn = Nil => st'[y].out = <<>>
               /\ st'[y].turn # Nil =>
                    /\ st'[y].sess = SessionOf[st'[y].turn]
                    /\ chan'[y].open => y \in subs'[st'[y].sess]
    <3>1. CASE y = x
      BY <3>1
    <3>2. CASE y # x
      BY <3>2, <1>2 DEF StreamInv, StreamsTyped
    <3> QED
      BY <3>1, <3>2
  <2> QED
    BY <2>1 DEF StreamInv, StreamsTyped
<1>4. ASSUME NEW y \in Streams PROVE StreamOk(y)'
  <2>1. CASE y = x
    BY <2>1
  <2>2. CASE y # x
    <3>1. st'[y] = st[y] /\ (Told(y)' <=> Told(y)) /\ StreamOk(y)
      BY <1>2, <2>2 DEF StreamInv, Streamed, Told
    <3>2. Exact(st[y], hist[st[y].turn], Told(y)) => Exact(st[y], hist[st[y].turn], Told(y)')
      BY <3>1 DEF Exact
    <3> QED
      BY <3>1, <3>2 DEF StreamOk, Resumed, Alone
  <2> QED
    BY <2>1, <2>2
<1> QED
  BY <1>1, <1>3, <1>4 DEF StreamInv, Streamed

\* A stream that is opened on a replay.
LEMMA OpenOk ==
  ASSUME NEW h, Published(h), NEW es, es # <<>>, NEW a \in Nat, Rest(es, h, a),
         NEW last \in Nat, NEW told,
         NEW r \in StreamRec, r.pc = "writing", r.out = <<>>, r.last = last,
         r.base = (IF last <= Len(h) THEN last ELSE 0), r.pend = After(es, last)
  PROVE  InOrder(r, h) /\ (es = h => Exact(r, h, told))
<1>1. h \in Seq(Event) /\ Len(h) \in Nat /\ Len(<<>>) = 0 /\ <<>> \in Seq(Event)
  BY EmptySeq DEF Published
<1>2. PICK b \in Nat : /\ b = IF a < last /\ last <= Len(h) THEN last ELSE a
                       /\ Rest(r.pend, h, b)
  BY AfterRest
<1>3. InOrder(r, h)
  BY <1>1, <1>2 DEF InOrder, Rest
<1>4. ASSUME es = h PROVE Exact(r, h, told)
  <2>1. a = 0 /\ Len(h) > 0
    BY <1>1, <1>4, EmptySeq DEF Rest
  <2>2. b = r.base /\ Reached(r) = r.base /\ r.base <= Len(h)
    BY <1>1, <1>2, <2>1 DEF Reached
  <2>3. Slice(r.out, h, r.base)
    BY <1>1, <2>2 DEF Slice
  <2>4. r.last = r.base \/ (r.base = 0 /\ r.pend # <<>>)
    BY <1>1, <1>2, <2>1, <2>2 DEF Rest
  <2> QED
    BY <1>1, <1>2, <2>2, <2>3, <2>4 DEF Exact, Rest
<1> QED
  BY <1>3, <1>4

\* A stream becomes r2 when it reads es.
Reads(r2, r, es) ==
  /\ r2.pc = "writing" /\ r2.pend = After(es, r.last)
  /\ r2.out = r.out /\ r2.last = r.last /\ r2.base = r.base

\* A stream reads the replay, or finds it dropped.
LEMMA RereadOk ==
  ASSUME NEW h, Published(h), NEW es, NEW told, NEW told2,
         NEW r \in StreamRec, r.pc = "reading",
         es = <<>> \/ (\E a \in Nat : Rest(es, h, a)),
         NEW r2, Reads(r2, r, es)
  PROVE  /\ InOrder(r, h) => InOrder(r2, h)
         /\ Exact(r, h, told) /\ es = h => Exact(r2, h, told2)
<1> DEFINE last == r.last
<1>1. h \in Seq(Event) /\ Len(h) \in Nat /\ Len(<<>>) = 0 /\ <<>> \in Seq(Event)
  BY EmptySeq DEF Published
<1>2. /\ r2.pc = "writing" /\ r2.pend = After(es, last)
      /\ r2.out = r.out /\ r2.last = last /\ r2.base = r.base
      /\ r.out \in Seq(Event) /\ r.base \in Nat /\ r.last = last /\ last \in Nat
  BY DEF StreamRec, Reads
<1> HIDE DEF last
<1>3. ASSUME InOrder(r, h) PROVE InOrder(r2, h)
  <2>1. ASSUME es = <<>>
        PROVE  Slice(r2.pend, h, Len(h))
    <3>1. r2.pend = <<>>
      BY <1>2, <2>1 DEF After
    <3> QED
      BY <3>1, <1>1 DEF Slice
  <2>2. ASSUME NEW a \in Nat, Rest(es, h, a)
        PROVE  \E b \in Nat : Slice(r2.pend, h, b) /\ (last <= Len(h) => last <= b)
    <3>1. PICK b \in Nat : /\ b = IF a < last /\ last <= Len(h) THEN last ELSE a
                           /\ Rest(After(es, last), h, b)
      BY <1>2, <2>2, AfterRest
    <3> QED
      BY <1>2, <2>2, <3>1 DEF Rest
  <2>3. \E b \in Nat : Slice(r2.pend, h, b) /\ (last <= Len(h) => last <= b)
    BY <1>1, <2>1, <2>2
  <2>4. r.out # <<>> => last <= Len(h)
    BY <1>2, <1>3 DEF InOrder
  <2> QED
    BY <1>2, <1>3, <2>3, <2>4 DEF InOrder
<1>4. ASSUME Exact(r, h, told), es = h PROVE Exact(r2, h, told2)
  <2>1. last = Reached(r) /\ Slice(r.out, h, r.base) /\ Reached(r2) = Reached(r)
    BY <1>2, <1>4 DEF Exact, Reached
  <2>2. last <= Len(h)
    BY <1>1, <1>2, <2>1 DEF Slice, Reached
  <2>3. Rest(es, h, 0)
    BY <1>1, <1>4, SliceWhole DEF Rest
  <2>4. Rest(After(es, last), h, last)
    <3>1. Rest(After(es, last), h, IF 0 < last /\ last <= Len(h) THEN last ELSE 0)
      BY <1>2, <2>3, AfterRest
    <3> QED
      BY <1>2, <2>2, <3>1
  <2> QED
    BY <1>2, <1>4, <2>1, <2>4 DEF Exact, Rest
<1> QED
  BY <1>3, <1>4

-----------------------------------------------------------------------------
(* A stream that writes *)

\* gs is es followed by fs.
Joined(gs, es, fs) ==
  /\ gs \in Seq(Event) /\ Len(gs) = Len(es) + Len(fs)
  /\ fs = <<>> => gs = es
  /\ \A i \in 1..Len(gs) :
       \/ i \in 1..Len(es) /\ gs[i] = es[i]
       \/ i > Len(es) /\ i - Len(es) \in 1..Len(fs) /\ gs[i] = fs[i - Len(es)]
Increasing(es) == \A i, j \in 1..Len(es) : i < j => es[i].n < es[j].n
UpTo(es, m) == \A i \in 1..Len(es) : es[i].n <= m
From(es, a) == \A i \in 1..Len(es) : es[i].n = a + i

\* Events numbered from a on follow, in order, events numbered up to a.
LEMMA JoinedIncreasing ==
  ASSUME NEW es \in Seq(Event), NEW fs \in Seq(Event), NEW gs, Joined(gs, es, fs),
         NEW a \in Nat, Increasing(es), UpTo(es, a), From(fs, a)
  PROVE  Increasing(gs) /\ UpTo(gs, a + Len(fs))
<1>1. Len(es) \in Nat /\ Len(fs) \in Nat /\ Len(gs) = Len(es) + Len(fs)
  BY DEF Joined
<1>2. ASSUME NEW i \in 1..Len(es) PROVE es[i].n \in Nat
  <2>1. es[i] \in Event
    BY <1>2, ElementOfSeq
  <2> QED
    BY <2>1 DEF Event
<1>3. ASSUME NEW i \in 1..Len(gs)
      PROVE  \/ i \in 1..Len(es) /\ gs[i] = es[i]
             \/ i > Len(es) /\ i - Len(es) <= Len(fs) /\ gs[i].n = a + (i - Len(es))
  BY DEF Joined, From
<1>4. ASSUME NEW i \in 1..Len(gs) PROVE gs[i].n <= a + Len(fs)
  <2>1. CASE i \in 1..Len(es) /\ gs[i] = es[i]
    BY <1>1, <1>2, <2>1 DEF UpTo
  <2>2. CASE i > Len(es) /\ i - Len(es) <= Len(fs) /\ gs[i].n = a + (i - Len(es))
    BY <1>1, <2>2
  <2> QED
    BY <1>3, <2>1, <2>2
<1>5. ASSUME NEW i \in 1..Len(gs), NEW j \in 1..Len(gs), i < j
      PROVE  gs[i].n < gs[j].n
  <2>1. CASE j \in 1..Len(es)
    <3>1. i \in 1..Len(es) /\ gs[i] = es[i] /\ gs[j] = es[j]
      BY <1>1, <1>3, <1>5, <2>1
    <3> QED
      BY <1>5, <2>1, <3>1 DEF Increasing
  <2>2. CASE j > Len(es) /\ i \in 1..Len(es)
    <3>1. gs[i] = es[i] /\ gs[j].n = a + (j - Len(es))
      BY <1>1, <1>3, <2>2
    <3>2. es[i].n <= a
      BY <2>2 DEF UpTo
    <3> QED
      BY <1>1, <1>2, <2>2, <3>1, <3>2
  <2>3. CASE i > Len(es)
    <3>1. gs[i].n = a + (i - Len(es)) /\ gs[j].n = a + (j - Len(es))
      BY <1>1, <1>3, <1>5, <2>3
    <3> QED
      BY <1>1, <1>5, <3>1
  <2> QED
    BY <1>1, <2>1, <2>2, <2>3
<1> QED
  BY <1>4, <1>5 DEF Increasing, UpTo

\* The number of the last event of v, or the one before it.
LastOf(v, last) == IF v = <<>> THEN last ELSE v[Len(v)].n

\* What \o returns.
LEMMA ConcatJoined ==
  ASSUME NEW es \in Seq(Event), NEW fs \in Seq(Event)
  PROVE  Joined(es \o fs, es, fs)
<1> DEFINE gs == es \o fs
<1>1. /\ gs \in Seq(Event) /\ Len(gs) = Len(es) + Len(fs)
      /\ \A i \in 1..Len(es) + Len(fs) :
           gs[i] = IF i <= Len(es) THEN es[i] ELSE fs[i - Len(es)]
  BY ConcatProperties
<1>2. Len(es) \in Nat /\ Len(fs) \in Nat
  OBVIOUS
<1>3. fs = <<>> => gs = es
  BY ConcatEmptySeq
<1> HIDE DEF gs
<1> QED
  BY <1>1, <1>2, <1>3 DEF Joined, gs

\* v is what a handler writes of the part es of h after a.
Wrote(v, es, h, a) ==
  /\ Slice(v, h, a) /\ v \in Seq(Event) /\ Len(v) \in Nat
  /\ a + Len(v) <= Len(h) /\ Len(v) <= Len(es)
  /\ Len(v) = IF es # <<>> /\ es[Len(es)].kind = "note" THEN Len(es) - 1 ELSE Len(es)
  /\ \A i \in 1..Len(v) : v[i].kind # "note" /\ v[i] = es[i]
  /\ From(v, a)
  /\ v = <<>> <=> Len(v) = 0
  /\ v # <<>> => LastOf(v, 0) = a + Len(v)

\* What Visible leaves of such a part.
LEMMA VisibleWrote ==
  ASSUME NEW h, Published(h), NEW a \in Nat, NEW es, Slice(es, h, a)
  PROVE  Wrote(Visible(es), es, h, a)
<1> DEFINE v == Visible(es)
<1>1. /\ Slice(v, h, a)
      /\ Len(v) = IF es # <<>> /\ es[Len(es)].kind = "note" THEN Len(es) - 1 ELSE Len(es)
      /\ \A i \in 1..Len(v) : v[i].kind # "note"
  BY VisibleSlice
<1> HIDE DEF v
<1>2. v \in Seq(Event) /\ Len(v) \in Nat /\ a + Len(v) <= Len(h) /\ Len(h) \in Nat
  BY <1>1 DEF Slice, Published
<1>3. es \in Seq(Event) /\ Len(es) \in Nat
  BY DEF Slice
<1>4. Len(v) <= Len(es)
  BY <1>1, <1>2, <1>3
<1>5. ASSUME NEW i \in 1..Len(v) PROVE v[i].n = a + i /\ v[i] = es[i]
  <2>1. i \in 1..Len(es) /\ a + i \in 1..Len(h)
    BY <1>2, <1>3, <1>4
  <2>2. v[i] = h[a + i]
    BY <1>1 DEF Slice
  <2>3. es[i] = h[a + i]
    BY <2>1 DEF Slice
  <2> QED
    BY <2>1, <2>2, <2>3 DEF Published
<1>6. v = <<>> <=> Len(v) = 0
  BY <1>2, EmptySeq
<1>7. v # <<>> => v[Len(v)].n = a + Len(v)
  BY <1>2, <1>5, <1>6
<1>8. Wrote(v, es, h, a)
  BY <1>1, <1>2, <1>4, <1>5, <1>6, <1>7, Zenon DEF Wrote, From, LastOf
<1> QED
  BY <1>8 DEF v

\* What a stream has shown stays in order when it shows the part es of its turn.
LEMMA WriteInOrder ==
  ASSUME NEW h, Published(h), NEW r \in StreamRec, NEW r2, r2.pc # "writing",
         NEW a \in Nat, NEW es, NEW v, Wrote(v, es, h, a),
         Joined(r2.out, r.out, v), r2.last = LastOf(v, r.last),
         InOrder(r, h), r.out # <<>> => r.last <= a
  PROVE  InOrder(r2, h)
<1>1. /\ r.out \in Seq(Event) /\ Len(r.out) \in Nat /\ r.last \in Nat
      /\ Len(h) \in Nat
  BY DEF StreamRec, Published
<1>2. /\ v \in Seq(Event) /\ Len(v) \in Nat /\ a + Len(v) <= Len(h) /\ From(v, a)
      /\ v # <<>> => LastOf(v, r.last) = a + Len(v)
      /\ v = <<>> => LastOf(v, r.last) = r.last /\ r2.out = r.out
  BY DEF Wrote, LastOf, Joined
<1>3. Increasing(r.out)
  BY DEF InOrder, Increasing
<1>4. UpTo(r.out, a)
  <2> SUFFICES ASSUME NEW i \in 1..Len(r.out) PROVE r.out[i].n <= a
    BY DEF UpTo
  <2>1. r.out[i] \in Event /\ r.out # <<>>
    BY <1>1, ElementOfSeq, EmptySeq
  <2>2. r.out[i].n <= r.last /\ r.last <= a
    BY <2>1 DEF InOrder
  <2>3. r.out[i].n \in Nat
    BY <2>1 DEF Event
  <2> QED
    BY <1>1, <2>2, <2>3
<1>5. Increasing(r2.out) /\ UpTo(r2.out, a + Len(v))
  BY <1>1, <1>2, <1>3, <1>4, JoinedIncreasing
<1>6. r2.out # <<>> => r2.last <= Len(h) /\ UpTo(r2.out, r2.last)
  <2>1. CASE v = <<>>
    <3>1. r2.out = r.out /\ r2.last = r.last
      BY <1>2, <2>1
    <3> QED
      BY <3>1 DEF InOrder, UpTo
  <2>2. CASE v # <<>>
    <3>1. r2.last = a + Len(v)
      BY <1>2, <2>2
    <3> QED
      BY <1>2, <1>5, <3>1
  <2> QED
    BY <2>1, <2>2
<1> QED
  BY <1>5, <1>6 DEF InOrder, Increasing, UpTo

\* No note is among es, and only the last may end the stream, which then is at pc
\* "leaving" once it has written them.
Ending(es, pc) ==
  \A i \in 1..Len(es) :
    /\ es[i].kind # "note"
    /\ es[i].kind = "end" => i = Len(es) /\ pc \in {"leaving", "gone"}

\* Only the last of two parts may end the stream.
LEMMA JoinedEnding ==
  ASSUME NEW es \in Seq(Event), NEW fs \in Seq(Event), NEW gs, Joined(gs, es, fs),
         NEW pc, Ending(es, "writing"), Ending(fs, pc)
  PROVE  Ending(gs, pc)
<1>1. Len(es) \in Nat /\ Len(fs) \in Nat /\ Len(gs) = Len(es) + Len(fs)
  BY DEF Joined
<1> SUFFICES ASSUME NEW i \in 1..Len(gs)
             PROVE  /\ gs[i].kind # "note"
                    /\ gs[i].kind = "end" => i = Len(gs) /\ pc \in {"leaving", "gone"}
  BY DEF Ending
<1>2. CASE i \in 1..Len(es) /\ gs[i] = es[i]
  BY <1>2 DEF Ending
<1>3. CASE i > Len(es) /\ i - Len(es) \in 1..Len(fs) /\ gs[i] = fs[i - Len(es)]
  <2>1. PICK k \in 1..Len(fs) : k = i - Len(es) /\ gs[i] = fs[k]
    BY <1>3
  <2>2. /\ fs[k].kind # "note"
        /\ fs[k].kind = "end" => k = Len(fs) /\ pc \in {"leaving", "gone"}
    BY DEF Ending
  <2>3. k = Len(fs) => i = Len(gs)
    BY <1>1, <2>1
  <2> QED
    BY <2>1, <2>2, <2>3
<1> QED
  BY <1>2, <1>3 DEF Joined

\* Of what was visible of es only its last event may end the stream.
LEMMA WroteEnding ==
  ASSUME NEW h, NEW a \in Nat, NEW es \in Seq(Event), NEW v, Wrote(v, es, h, a), NEW pc,
         \A i \in 1..Len(es) : es[i].kind = "end" => i = Len(es) /\ pc \in {"leaving", "gone"}
  PROVE  Ending(v, pc)
<1>1. Len(es) \in Nat /\ Len(v) \in Nat /\ Len(v) <= Len(es)
  BY DEF Wrote
<1> SUFFICES ASSUME NEW i \in 1..Len(v)
             PROVE  /\ v[i].kind # "note"
                    /\ v[i].kind = "end" => i = Len(v) /\ pc \in {"leaving", "gone"}
  BY DEF Ending
<1>2. v[i].kind # "note" /\ v[i] = es[i] /\ i \in 1..Len(es)
  BY <1>1 DEF Wrote
<1>3. v[i].kind = "end" => i = Len(es) /\ pc \in {"leaving", "gone"}
  BY <1>2
<1> QED
  BY <1>1, <1>2, <1>3

\* A stream that waits once it has written all that was pending has shown all.
LEMMA WroteAll ==
  ASSUME NEW h, Published(h), NEW a \in Nat, NEW es, Slice(es, h, a), a + Len(es) = Len(h),
         NEW v, Wrote(v, es, h, a)
  PROVE  \/ a + Len(v) = Len(h)
         \/ a + Len(v) = Len(h) - 1 /\ h[Len(h)].kind = "note"
<1>1. es \in Seq(Event) /\ Len(es) \in Nat /\ Len(v) \in Nat
  BY DEF Slice, Wrote
<1>2. CASE es # <<>> /\ es[Len(es)].kind = "note"
  <2>1. Len(es) \in 1..Len(es)
    BY <1>1, <1>2, EmptySeq
  <2>2. es[Len(es)] = h[a + Len(es)]
    BY <2>1 DEF Slice
  <2>3. Len(v) = Len(es) - 1
    BY <1>2 DEF Wrote
  <2> QED
    BY <1>1, <1>2, <2>2, <2>3
<1>3. CASE ~(es # <<>> /\ es[Len(es)].kind = "note")
  BY <1>3 DEF Wrote
<1> QED
  BY <1>2, <1>3

\* Where the stream is once it has written the part es that follows what it has shown.
LEMMA WroteLast ==
  ASSUME NEW h, Published(h), NEW a \in Nat, NEW es, Slice(es, h, a),
         NEW v, Wrote(v, es, h, a), NEW last, last = a \/ (a = 0 /\ es # <<>>)
  PROVE  LastOf(v, last) = a + Len(v)
<1>1. es \in Seq(Event) /\ Len(es) \in Nat /\ Len(v) \in Nat /\ (v = <<>> <=> Len(v) = 0)
  BY DEF Slice, Wrote
<1>2. CASE v # <<>>
  BY <1>2 DEF Wrote, LastOf
<1>3. CASE v = <<>> /\ es = <<>>
  BY <1>1, <1>3 DEF LastOf
<1>4. CASE v = <<>> /\ es # <<>>
  <2>1. Len(es) = 1 /\ es[Len(es)].kind = "note"
    BY <1>1, <1>4, EmptySeq DEF Wrote
  <2>2. es[1] = h[a + 1] /\ a + 1 \in 1..Len(h)
    BY <2>1 DEF Slice, Published
  <2>3. a + 1 > 1
    BY <2>1, <2>2 DEF Published
  <2> QED
    BY <1>1, <1>4, <2>3 DEF LastOf
<1> QED
  BY <1>2, <1>3, <1>4

\* A stream becomes r2 when it writes v, the visible of the part es that is next.
Writes(r2, r, es, v, h) ==
  /\ Slice(es, h, Reached(r)) /\ Wrote(v, es, h, Reached(r))
  /\ r2.pc \in {"waiting", "leaving"} /\ r2.base = r.base
  /\ Joined(r2.out, r.out, v) /\ Slice(r2.out, h, r.base) /\ r2.last = LastOf(v, r.last)
  /\ Ending(v, r2.pc) /\ (r2.pc = "waiting" => es = r.pend)

\* It has shown without a gap what it shows next, and when it waits it has shown all
\* that it had read.
LEMMA WriteExact ==
  ASSUME NEW h, Published(h), NEW told, NEW r \in StreamRec, r.pc = "writing",
         Exact(r, h, told),
         NEW es, NEW v, NEW r2, Writes(r2, r, es, v, h)
  PROVE  Exact(r2, h, told)
<1> DEFINE a == Reached(r)
<1>1. /\ r.out \in Seq(Event) /\ Len(r.out) \in Nat /\ r.last \in Nat /\ r.base \in Nat
      /\ a \in Nat /\ a = r.base + Len(r.out) /\ Slice(es, h, a) /\ Wrote(v, es, h, a)
  BY DEF StreamRec, Reached, Writes
<1>2. r.last = a \/ (a = 0 /\ r.pend # <<>>)
  <2>1. r.last = a \/ (r.base = 0 /\ r.out = <<>> /\ r.pend # <<>>)
    BY DEF Exact
  <2>2. r.out = <<>> => Len(r.out) = 0
    BY EmptySeq
  <2> QED
    BY <1>1, <2>1, <2>2
<1>3. told \/ a + Len(r.pend) = Len(h)
  BY DEF Exact
<1> HIDE DEF a
<1>4. v \in Seq(Event) /\ Len(v) \in Nat
  BY <1>1 DEF Wrote
<1>5. Reached(r2) = a + Len(v)
  BY <1>1, <1>4 DEF Reached, Joined, Writes
<1>6. Ending(r.out, r.pc)
  BY DEF Exact, Ending
<1>7. Ending(r2.out, r2.pc)
  BY <1>1, <1>4, <1>6, JoinedEnding DEF Writes
<1>8. ASSUME r2.pc = "waiting" PROVE r2.last = Reached(r2) /\ (told \/ AllShown(r2, h))
  <2>1. es = r.pend
    BY <1>8 DEF Writes
  <2>2. LastOf(v, r.last) = a + Len(v)
    BY <1>1, <1>2, <2>1, WroteLast
  <2>3. a + Len(es) = Len(h) => AllShown(r2, h)
    <3> SUFFICES ASSUME a + Len(es) = Len(h) PROVE AllShown(r2, h)
      OBVIOUS
    <3>1. \/ a + Len(v) = Len(h)
          \/ a + Len(v) = Len(h) - 1 /\ h[Len(h)].kind = "note"
      BY ONLY <1>1, Published(h), a + Len(es) = Len(h), WroteAll
    <3> QED
      BY <1>5, <3>1 DEF AllShown
  <2> QED
    BY <1>3, <1>5, <2>1, <2>2, <2>3 DEF Writes
<1> QED
  BY <1>7, <1>8 DEF Exact, Ending, Writes

\* The stream's record once its handler has written the visible of es.
Written(r, es, pc) ==
  [r EXCEPT !.pc = pc, !.pend = <<>>,
            !.last = IF Visible(es) = <<>> THEN @ ELSE Visible(es)[Len(Visible(es))].n,
            !.out = @ \o Visible(es)]

\* The fields of that record.
LEMMA WrittenFields ==
  ASSUME NEW r \in StreamRec, NEW es, NEW v \in Seq(Event), v = Visible(es), NEW pc \in StreamPc
  PROVE  /\ Written(r, es, pc) \in StreamRec
         /\ Written(r, es, pc).pc = pc /\ Written(r, es, pc).turn = r.turn
         /\ Written(r, es, pc).sess = r.sess /\ Written(r, es, pc).base = r.base
         /\ Written(r, es, pc).last = LastOf(v, r.last)
         /\ Written(r, es, pc).out = r.out \o v
<1> DEFINE last == LastOf(v, r.last)
           out == r.out \o v
<1>1. Written(r, es, pc) = [r EXCEPT !.pc = pc, !.pend = <<>>, !.last = last, !.out = out]
  BY DEF Written, LastOf
<1>2. last \in Nat
  <2>1. v # <<>> => v[Len(v)] \in Event
    BY ElementOfSeq, EmptySeq
  <2> QED
    BY <2>1 DEF LastOf, Event, StreamRec
<1>3. out \in Seq(Event) /\ <<>> \in Seq(Event)
  BY ConcatProperties DEF StreamRec
<1> HIDE DEF last, out
<1>4. /\ Written(r, es, pc) \in StreamRec
      /\ Written(r, es, pc).pc = pc /\ Written(r, es, pc).turn = r.turn
      /\ Written(r, es, pc).sess = r.sess /\ Written(r, es, pc).base = r.base
      /\ Written(r, es, pc).last = last /\ Written(r, es, pc).out = out
  BY ONLY <1>1, <1>2, <1>3, r \in StreamRec, pc \in StreamPc DEF StreamRec
<1> QED
  BY <1>4 DEF last, out

\* Writing keeps the stream in order and without a gap.
LEMMA WriteOk ==
  ASSUME NEW h, Published(h), NEW told, NEW r \in StreamRec, r.pc = "writing",
         NEW es, \A a \in Nat : Slice(r.pend, h, a) => Slice(es, h, a),
         NEW pc \in {"waiting", "leaving"}, pc = "waiting" => es = r.pend,
         \A i \in 1..Len(es) : es[i].kind = "end" => i = Len(es) /\ pc = "leaving",
         InOrder(r, h)
  PROVE  /\ Written(r, es, pc) \in StreamRec
         /\ InOrder(Written(r, es, pc), h)
         /\ Exact(r, h, told) => Exact(Written(r, es, pc), h, told)
<1> DEFINE v == Visible(es)
           r2 == Written(r, es, pc)
<1>1. PICK a \in Nat : Slice(r.pend, h, a) /\ (r.out # <<>> => r.last <= a)
  BY DEF InOrder
<1>2. Slice(es, h, a) /\ es \in Seq(Event)
  BY <1>1 DEF Slice
<1>3. Wrote(v, es, h, a) /\ v \in Seq(Event) /\ h \in Seq(Event)
  BY <1>2, VisibleWrote DEF Wrote, Published
<1>4. /\ r2 \in StreamRec /\ r2.pc = pc /\ r2.base = r.base
      /\ r2.last = LastOf(v, r.last) /\ r2.out = r.out \o v
  <2>1. pc \in StreamPc /\ v \in Seq(Event)
    BY <1>3 DEF StreamPc
  <2> QED
    BY <2>1, WrittenFields
<1>5. r.out \in Seq(Event) /\ Reached(r) \in Nat /\ r.base \in Nat
      /\ Reached(r) = r.base + Len(r.out)
  BY DEF StreamRec, Reached
<1>6. Joined(r2.out, r.out, v)
  BY <1>3, <1>4, <1>5, ConcatJoined
<1>7. ASSUME Exact(r, h, told) PROVE Slice(r2.out, h, r.base) /\ Wrote(v, es, h, Reached(r))
                                    /\ Slice(es, h, Reached(r))
  <2>1. Slice(r.out, h, r.base) /\ Slice(r.pend, h, Reached(r))
    BY <1>7 DEF Exact
  <2>2. Slice(es, h, Reached(r))
    BY <1>5, <2>1
  <2>3. Wrote(v, es, h, Reached(r))
    BY <1>5, <2>2, VisibleWrote
  <2>4. Slice(v, h, r.base + Len(r.out))
    BY <1>5, <2>3 DEF Wrote
  <2> QED
    BY <1>3, <1>4, <1>5, <2>1, <2>2, <2>3, <2>4, SliceConcat
<1>8. Ending(v, pc)
  BY <1>2, <1>3, WroteEnding
<1> HIDE DEF v, r2
<1>9. InOrder(r2, h)
  BY <1>1, <1>3, <1>4, <1>6, WriteInOrder
<1>10. ASSUME Exact(r, h, told) PROVE Exact(r2, h, told)
  <2>1. /\ Slice(r2.out, h, r.base) /\ Wrote(v, es, h, Reached(r))
        /\ Slice(es, h, Reached(r))
    BY <1>7, <1>10
  <2>2. Writes(r2, r, es, v, h)
    BY <1>4, <1>6, <1>8, <2>1 DEF Writes
  <2> QED
    BY <1>4, <1>10, <2>2, WriteExact
<1> QED
  BY <1>4, <1>9, <1>10 DEF r2

-----------------------------------------------------------------------------
(* The steps of a stream *)

\* A stream that neither opens nor leaves.
LEMMA OnlyStreamInv ==
  ASSUME StreamInv, HubInv', NEW x \in Streams, NEW r \in StreamRec, Only(x, r),
         chan' \in [Streams -> [wait : Nat, open : BOOLEAN]],
         \A y \in Streams \ {x} : chan'[y] = chan[y],
         chan'[x].open = chan[x].open,
         r.turn = st[x].turn, r.sess = st[x].sess, r.pc # "idle",
         r.turn = Nil => r.out = <<>> /\ r.pc \notin {"writing", "waiting", "reading"},
         r.turn # Nil =>
           /\ InOrder(r, hist[r.turn])
           /\ Alone(r.turn) =>
                Exact(r, hist[r.turn],
                      chan[x].open => chan'[x].wait > 0 \/ x \in turn[r.turn].todo)
  PROVE  StreamInv'
<1>1. /\ UNCHANGED <<turn, subs, replay, traceOf, hist, closes>>
      /\ st' = [st EXCEPT ![x] = r]
  BY DEF Only
<1>2. st \in [Streams -> StreamRec]
  BY DEF StreamInv, StreamsTyped
<1>3. st'[x] = r /\ st' \in [Streams -> StreamRec] /\ \A y \in Streams \ {x} : st'[y] = st[y]
  BY <1>1, <1>2
<1>4. r.turn # Nil => /\ r.sess = SessionOf[r.turn]
                      /\ chan'[x].open => x \in subs'[r.sess]
  BY <1>1 DEF StreamInv, StreamsTyped
<1>5. StreamOk(x)'
  <2>1. Told(x)' <=> (chan[x].open => chan'[x].wait > 0 \/ x \in turn[r.turn].todo)
    BY <1>1, <1>3 DEF Told
  <2>2. Resumed(x)' <=> r.turn # Nil
    BY <1>3 DEF Resumed
  <2>3. Alone(r.turn) <=> Alone(st[x].turn)'
    BY <1>1, <1>3 DEF Alone
  <2>4. ASSUME r.turn # Nil, Alone(r.turn) PROVE Exact(r, hist[r.turn], Told(x)')
    BY <2>1, <2>4 DEF Exact
  <2> QED
    BY <1>1, <1>3, <2>2, <2>3, <2>4 DEF StreamOk
<1> QED
  BY <1>1, <1>3, <1>4, <1>5, OneStream

\* What is known of a stream of a run.
LEMMA OfRun ==
  ASSUME StreamInv, NEW x \in Streams
  PROVE  /\ st[x] \in StreamRec
         /\ st[x].turn = Nil => st[x].out = <<>>
                                /\ st[x].pc \notin {"writing", "waiting", "reading"}
         /\ st[x].turn # Nil =>
              /\ st[x].turn \in Turns /\ Published(hist[st[x].turn]) /\ st[x].pc # "idle"
              /\ InOrder(st[x], hist[st[x].turn])
              /\ Alone(st[x].turn) => Exact(st[x], hist[st[x].turn], Told(x))
<1>1. st[x] \in StreamRec
  BY DEF StreamInv, StreamsTyped
<1>2. st[x].turn # Nil => st[x].turn \in Turns
  BY <1>1 DEF StreamRec
<1> QED
  BY <1>1, <1>2 DEF StreamInv, StreamsTyped, Numbered, Streamed, StreamOk, Resumed

\* A step that writes the visible of es.
LEMMA WriteStreamInv ==
  ASSUME StreamInv, HubInv', NEW x \in Streams, st[x].pc = "writing",
         NEW es, NEW pc \in {"waiting", "leaving"}, WriteAs(x, es, pc),
         \A a \in Nat : Slice(st[x].pend, hist[st[x].turn], a)
                        => Slice(es, hist[st[x].turn], a),
         pc = "waiting" => es = st[x].pend,
         \A i \in 1..Len(es) : es[i].kind = "end" => i = Len(es) /\ pc = "leaving"
  PROVE  StreamInv'
<1> DEFINE h == hist[st[x].turn]
           r == Written(st[x], es, pc)
<1>1. /\ st[x] \in StreamRec /\ st[x].turn # Nil /\ st[x].turn \in Turns /\ Published(h)
      /\ InOrder(st[x], h) /\ (Alone(st[x].turn) => Exact(st[x], h, Told(x)))
  BY OfRun
<1>2. Only(x, r) /\ chan' = chan
  BY DEF WriteAs, Written
<1>3. /\ r \in StreamRec /\ InOrder(r, h)
      /\ Exact(st[x], h, Told(x)) => Exact(r, h, Told(x))
  BY <1>1, WriteOk
<1>4. r.pc = pc /\ r.turn = st[x].turn /\ r.sess = st[x].sess
  <2>1. PICK a \in Nat : Slice(es, h, a)
    BY <1>1 DEF InOrder
  <2>2. Visible(es) \in Seq(Event)
    BY <1>1, <2>1, VisibleSlice DEF Slice
  <2>3. pc \in StreamPc
    BY DEF StreamPc
  <2> QED
    BY <1>1, <2>2, <2>3, WrittenFields
<1> HIDE DEF r
<1>5. chan \in [Streams -> [wait : Nat, open : BOOLEAN]]
  BY DEF StreamInv, StreamsTyped
<1>6. ASSUME Alone(r.turn)
      PROVE Exact(r, hist[r.turn], chan[x].open => chan'[x].wait > 0 \/ x \in turn[r.turn].todo)
  BY <1>1, <1>2, <1>3, <1>4, <1>6 DEF Told
<1>7. r.turn # Nil /\ r.pc # "idle" /\ InOrder(r, hist[r.turn])
  BY <1>1, <1>3, <1>4
<1> QED
  BY <1>2, <1>3, <1>4, <1>5, <1>6, <1>7, OnlyStreamInv

\* The handler writes all that is pending, or the first events until its client is gone.
LEMMA WriteStep ==
  ASSUME StreamInv, HubInv', NEW x \in Streams,
         \/ Write(x)
         \/ \E k \in 0..Len(Sent(st[x].pend)) : WriteBreaks(x, k)
  PROVE  StreamInv'
<1> DEFINE pend == st[x].pend
           h == hist[st[x].turn]
<1>1. /\ st[x].pc = "writing" /\ st[x].turn # Nil /\ Published(h) /\ h \in Seq(Event)
      /\ InOrder(st[x], h)
  BY OfRun DEF Write, WriteBreaks, Published
<1>2. ASSUME NEW a \in Nat, Slice(pend, h, a)
      PROVE  /\ Slice(Sent(pend), h, a) /\ Sent(pend) \in Seq(Event)
             /\ \A i \in 1..Len(Sent(pend)) : Sent(pend)[i].kind = "end" => i = Len(Sent(pend))
             /\ ~Ends(pend) => Sent(pend) = pend
  BY <1>1, <1>2, SentSlice DEF Slice
<1>3. PICK a \in Nat : Slice(pend, h, a)
  BY <1>1 DEF InOrder
<1>4. CASE Write(x)
  <2> DEFINE pc == IF Ends(pend) THEN "leaving" ELSE "waiting"
  <2>1. WriteAs(x, Sent(pend), pc)
    BY <1>4 DEF Write
  <2>2. pc = "waiting" => ~Ends(pend)
    OBVIOUS
  <2>3. ~Ends(pend) => \A i \in 1..Len(pend) : pend[i].kind # "end"
    BY <1>3, LenProperties DEF Ends, Slice
  <2>4. \A i \in 1..Len(Sent(pend)) :
          Sent(pend)[i].kind = "end" => i = Len(Sent(pend)) /\ pc = "leaving"
    BY <1>2, <1>3, <2>3
  <2> QED
    BY <1>1, <1>2, <1>3, <2>1, <2>2, <2>4, WriteStreamInv
<1>5. ASSUME NEW k \in 0..Len(Sent(pend)), WriteBreaks(x, k) PROVE StreamInv'
  <2> DEFINE es == Sent(pend)
             fs == SubSeq(es, 1, k)
  <2>1. WriteAs(x, fs, "leaving")
    BY <1>5 DEF WriteBreaks
  <2>2. es \in Seq(Event) /\ Len(es) \in Nat /\ k \in Nat /\ k <= Len(es)
    BY <1>2, <1>3, <1>5
  <2>3. ASSUME NEW b \in Nat, Slice(pend, h, b)
        PROVE  Slice(fs, h, b) /\ Len(fs) = k
    <3>1. Slice(es, h, b)
      BY <1>2, <2>3
    <3>2. k \in (1 - 1)..Len(es) /\ 1 \in 1..(Len(es) + 1)
      BY <2>2
    <3> HIDE DEF es
    <3>3. Slice(fs, h, b + (1 - 1)) /\ Len(fs) = k - (1 - 1)
      BY <1>1, <3>1, <3>2, SliceOfSlice
    <3> QED
      BY <2>2, <3>3
  <2>4. ASSUME NEW i \in 1..Len(fs), fs[i].kind = "end" PROVE i = Len(fs)
    <3>1. Slice(es, h, a) /\ Slice(fs, h, a) /\ Len(fs) = k
      BY <1>2, <1>3, <2>3
    <3>2. i \in 1..Len(es) /\ es[i] = h[a + i] /\ fs[i] = h[a + i]
      BY <2>2, <3>1 DEF Slice
    <3>3. i = Len(es)
      BY <1>2, <1>3, <2>4, <3>2
    <3> QED
      BY <2>2, <3>1, <3>3
  <2> HIDE DEF fs
  <2> QED
    BY <1>1, <2>1, <2>3, <2>4, WriteStreamInv
<1> QED
  BY <1>4, <1>5

\* A stream that wakes, or that ends.
Moved(r, pc) == [r EXCEPT !.pc = pc]

\* It has shown no more and no less.
LEMMA MovedOk ==
  ASSUME NEW h, NEW r \in StreamRec, NEW pc \in {"reading", "leaving", "gone"},
         pc = "reading" => r.pc = "waiting", NEW told, NEW told2
  PROVE  /\ Moved(r, pc) \in StreamRec
         /\ Moved(r, pc).pc = pc /\ Moved(r, pc).turn = r.turn
         /\ Moved(r, pc).sess = r.sess /\ Moved(r, pc).out = r.out
         /\ InOrder(r, h) => InOrder(Moved(r, pc), h)
         /\ Exact(r, h, told) => Exact(Moved(r, pc), h, told2)
<1> DEFINE r2 == Moved(r, pc)
<1>1. pc \in StreamPc
  BY DEF StreamPc
<1>2. /\ r2 \in StreamRec /\ r2.pc = pc /\ r2.turn = r.turn /\ r2.sess = r.sess
      /\ r2.out = r.out /\ r2.last = r.last /\ r2.base = r.base /\ r2.pend = r.pend
  BY <1>1 DEF Moved, StreamRec
<1>3. Reached(r2) = Reached(r)
  BY <1>2 DEF Reached
<1> HIDE DEF r2
<1>4. InOrder(r, h) => InOrder(r2, h)
  BY <1>2 DEF InOrder
<1>5. ASSUME Exact(r, h, told) PROVE Exact(r2, h, told2)
  <2>1. Slice(r.out, h, r.base) /\ (pc = "reading" => r.last = Reached(r))
    BY <1>5 DEF Exact
  <2>2. ASSUME NEW i \in 1..Len(r.out)
        PROVE  /\ r.out[i].kind # "note"
               /\ r.out[i].kind = "end" => i = Len(r.out) /\ pc \in {"leaving", "gone"}
    BY <1>5 DEF Exact
  <2> QED
    BY <1>2, <1>3, <2>1, <2>2 DEF Exact
<1> QED
  BY <1>2, <1>4, <1>5 DEF r2

\* A step of a stream that wakes or ends.
LEMMA MoveStreamInv ==
  ASSUME StreamInv, HubInv', NEW x \in Streams, NEW pc \in {"reading", "leaving"},
         pc = "reading" => st[x].pc = "waiting", Only(x, [st[x] EXCEPT !.pc = pc]),
         chan' \in [Streams -> [wait : Nat, open : BOOLEAN]],
         \A y \in Streams \ {x} : chan'[y] = chan[y],
         chan'[x].open = chan[x].open
  PROVE  StreamInv'
<1> DEFINE r == Moved(st[x], pc)
           h == hist[st[x].turn]
<1>1. Only(x, r)
  BY DEF Moved
<1>2. \A told2 :
        /\ r \in StreamRec /\ r.pc = pc /\ r.turn = st[x].turn
        /\ r.sess = st[x].sess /\ r.out = st[x].out
        /\ InOrder(st[x], h) => InOrder(r, h)
        /\ Exact(st[x], h, Told(x)) => Exact(r, h, told2)
  <2>1. st[x] \in StreamRec /\ pc \in {"reading", "leaving", "gone"}
    BY OfRun
  <2> QED
    BY <2>1, MovedOk
<1> HIDE DEF r
<1>3. r.turn = Nil => r.out = <<>> /\ r.pc \notin {"writing", "waiting", "reading"}
  BY <1>2, OfRun
<1>4. r.turn # Nil =>
        /\ InOrder(r, hist[r.turn])
        /\ Alone(r.turn) =>
             Exact(r, hist[r.turn],
                   chan[x].open => chan'[x].wait > 0 \/ x \in turn[r.turn].todo)
  BY <1>2, OfRun
<1> QED
  BY <1>1, <1>2, <1>3, <1>4, OnlyStreamInv

\* What a channel holds once an event is received.
LEMMA Received ==
  ASSUME StreamInv, NEW x \in Streams, chan[x].wait > 0,
         chan' = [chan EXCEPT ![x].wait = @ - 1]
  PROVE  /\ chan' \in [Streams -> [wait : Nat, open : BOOLEAN]]
         /\ \A y \in Streams \ {x} : chan'[y] = chan[y]
         /\ chan'[x].open = chan[x].open
<1>1. chan \in [Streams -> [wait : Nat, open : BOOLEAN]] /\ chan[x].wait - 1 \in Nat
  BY DEF StreamInv, StreamsTyped
<1> QED
  BY <1>1

\* An event in the channel wakes the handler.
LEMMA WakeStep ==
  ASSUME StreamInv, HubInv', NEW x \in Streams, Wake(x)
  PROVE  StreamInv'
  BY Received, MoveStreamInv DEF Wake

\* The handler finds its channel closed, or its client gone.
LEMMA EndStep ==
  ASSUME StreamInv, HubInv', NEW x \in Streams, ChannelClosed(x) \/ Disconnect(x)
  PROVE  StreamInv'
<1>1. chan \in [Streams -> [wait : Nat, open : BOOLEAN]] /\ chan' = chan
  BY DEF StreamInv, StreamsTyped, ChannelClosed, Disconnect
<1> QED
  BY <1>1, MoveStreamInv DEF ChannelClosed, Disconnect

\* The stream of a session's live events shows nothing of a replay.
LEMMA DrainStep ==
  ASSUME StreamInv, HubInv', NEW x \in Streams, Drain(x)
  PROVE  StreamInv'
<1> DEFINE r == st[x]
<1>1. Only(x, r) /\ r.pc = "draining" /\ r \in StreamRec
  BY OfRun DEF Drain
<1>2. \A told2 : Exact(r, hist[r.turn], Told(x)) => Exact(r, hist[r.turn], told2)
  BY <1>1 DEF Exact
<1>3. /\ chan' \in [Streams -> [wait : Nat, open : BOOLEAN]]
      /\ \A y \in Streams \ {x} : chan'[y] = chan[y]
      /\ chan'[x].open = chan[x].open
  BY Received DEF Drain
<1> QED
  BY <1>1, <1>2, <1>3, OfRun, OnlyStreamInv

\* What the hub keeps of a turn is the last of its events, and all if it is alone.
LEMMA EventsKept ==
  ASSUME StreamInv, NEW t \in Turns
  PROVE  /\ Events(t) = <<>> \/ \E a \in Nat : Rest(Events(t), hist[t], a)
         /\ Alone(t) => Events(t) = hist[t]
<1>1. hist[t] \in Seq(Event) /\ Nil \notin Seq(Event)
  BY NilAssumption DEF StreamInv, Numbered
<1>2. replay[t] # Nil => \E a \in Nat : Rest(replay[t], hist[t], a)
  BY DEF StreamInv, Kept
<1>3. Alone(t) => /\ hist[t] = <<>> => replay[t] = Nil
                  /\ hist[t] # <<>> => replay[t] = hist[t]
  BY DEF StreamInv, Owns
<1> QED
  BY <1>1, <1>2, <1>3 DEF Events

\* The stream reads the replay again.
LEMMA RereadStep ==
  ASSUME StreamInv, HubInv', NEW x \in Streams, Reread(x)
  PROVE  StreamInv'
<1> DEFINE r == st[x]
           h == hist[r.turn]
           es == Events(r.turn)
           pend == After(es, r.last)
           r2 == [r EXCEPT !.pc = "writing", !.pend = pend]
<1>1. /\ r.pc = "reading" /\ Only(x, r2) /\ chan' = chan
      /\ chan \in [Streams -> [wait : Nat, open : BOOLEAN]]
  BY DEF Reread, StreamInv, StreamsTyped
<1>2. /\ r \in StreamRec /\ r.turn # Nil /\ r.turn \in Turns /\ Published(h) /\ InOrder(r, h)
      /\ Alone(r.turn) => Exact(r, h, Told(x))
      /\ r.last \in Nat
  BY <1>1, OfRun DEF StreamRec
<1>3. /\ es = <<>> \/ \E a \in Nat : Rest(es, h, a)
      /\ Alone(r.turn) => es = h
  BY <1>2, EventsKept
<1> HIDE DEF es
<1>4. pend \in Seq(Event)
  <2>1. CASE es = <<>>
    BY <2>1 DEF After
  <2>2. ASSUME NEW a \in Nat, Rest(es, h, a) PROVE pend \in Seq(Event)
    <3>1. PICK b \in Nat : Rest(pend, h, b)
      BY <1>2, <2>2, AfterRest
    <3> QED
      BY <3>1 DEF Rest, Slice
  <2> QED
    BY <1>3, <2>1, <2>2
<1> HIDE DEF pend
<1>5. r2 \in StreamRec /\ r2.turn = r.turn /\ r2.sess = r.sess /\ r2.pc = "writing"
  BY <1>2, <1>4 DEF StreamRec, StreamPc
<1> HIDE DEF r2
<1>6. Reads(r2, r, es)
  BY <1>2 DEF r2, pend, Reads, StreamRec
<1>7. \A told, told2 : /\ InOrder(r, h) => InOrder(r2, h)
                       /\ Exact(r, h, told) /\ es = h => Exact(r2, h, told2)
  BY <1>1, <1>2, <1>3, <1>6, RereadOk
<1> QED
  BY <1>1, <1>2, <1>3, <1>5, <1>7, OnlyStreamInv

\* The handler unsubscribes.
LEMMA LeaveStep ==
  ASSUME StreamInv, HubInv', NEW x \in Streams, Leave(x)
  PROVE  StreamInv'
<1> DEFINE s == st[x].sess
           r == Moved(st[x], "gone")
<1>1. /\ UNCHANGED <<turn, replay, traceOf, hist, closes>>
      /\ subs' = [subs EXCEPT ![s] = @ \ {x}]
      /\ chan' = IF x \in subs[s] THEN [chan EXCEPT ![x].open = FALSE] ELSE chan
      /\ st' = [st EXCEPT ![x].pc = "gone"]
  BY DEF Leave
<1>2. /\ st \in [Streams -> StreamRec] /\ chan \in [Streams -> [wait : Nat, open : BOOLEAN]]
      /\ subs \in [Sessions -> SUBSET Streams]
  BY DEF StreamInv, StreamsTyped, HubInv, Typed
<1>3. \A told2 : /\ r \in StreamRec /\ r.pc = "gone" /\ r.turn = st[x].turn /\ r.sess = s
                 /\ r.out = st[x].out
                 /\ InOrder(st[x], hist[st[x].turn]) => InOrder(r, hist[st[x].turn])
                 /\ Exact(st[x], hist[st[x].turn], Told(x))
                    => Exact(r, hist[st[x].turn], told2)
  BY <1>2, MovedOk
<1>4. /\ st'[x] = r /\ st' \in [Streams -> StreamRec]
      /\ \A y \in Streams \ {x} : st'[y] = st[y]
  <2>1. st' = [st EXCEPT ![x] = r]
    BY <1>1, <1>2 DEF Moved
  <2> HIDE DEF r
  <2> QED
    BY <2>1, <1>2, <1>3
<1> HIDE DEF r
<1>5. /\ chan' \in [Streams -> [wait : Nat, open : BOOLEAN]]
      /\ \A y \in Streams \ {x} : chan'[y] = chan[y]
      /\ chan'[x].open => chan[x].open /\ x \notin subs[s]
  BY <1>1, <1>2
<1>6. \A y \in Streams \ {x} : \A q \in Sessions : y \in subs[q] => y \in subs'[q]
  BY <1>1, <1>2
<1>7. st[x].turn # Nil => s = SessionOf[st[x].turn] /\ (chan[x].open => x \in subs[s])
  BY DEF StreamInv, StreamsTyped
<1>8. StreamOk(x)'
  BY <1>1, <1>3, <1>4, OfRun DEF StreamOk, Resumed, Alone
<1>9. st'[x].turn = Nil => st'[x].out = <<>>
  BY <1>3, <1>4, OfRun
<1>10. st'[x].turn # Nil => st'[x].sess = SessionOf[st'[x].turn] /\ ~chan'[x].open
  BY <1>3, <1>4, <1>5, <1>7
<1> QED
  BY <1>1, <1>3, <1>4, <1>5, <1>6, <1>8, <1>9, <1>10, OneStream

\* A stream that subscribes.
LEMMA OpenedStreamInv ==
  ASSUME StreamInv, HubInv', NEW x \in Streams, NEW s \in Sessions, Opened(x, s),
         NEW r \in StreamRec, st' = [st EXCEPT ![x] = r], r.sess = s, r.out = <<>>,
         r.pc # "idle",
         r.turn = Nil => r.pc \notin {"writing", "waiting", "reading"},
         r.turn # Nil => /\ s = SessionOf[r.turn]
                         /\ InOrder(r, hist[r.turn])
                         /\ Alone(r.turn) => \A told : Exact(r, hist[r.turn], told)
  PROVE  StreamInv'
<1>1. /\ UNCHANGED <<turn, replay, traceOf, hist, closes>>
      /\ subs' = [subs EXCEPT ![s] = @ \cup {x}]
      /\ chan' = [chan EXCEPT ![x].open = TRUE]
  BY DEF Opened
<1>2. /\ st \in [Streams -> StreamRec] /\ chan \in [Streams -> [wait : Nat, open : BOOLEAN]]
      /\ subs \in [Sessions -> SUBSET Streams]
  BY DEF StreamInv, StreamsTyped, HubInv, Typed
<1>3. /\ st'[x] = r /\ st' \in [Streams -> StreamRec]
      /\ \A y \in Streams \ {x} : st'[y] = st[y]
  BY <1>2
<1>4. /\ chan' \in [Streams -> [wait : Nat, open : BOOLEAN]]
      /\ \A y \in Streams \ {x} : chan'[y] = chan[y]
  BY <1>1, <1>2
<1>5. /\ x \in subs'[s]
      /\ \A y \in Streams \ {x} : \A q \in Sessions : y \in subs[q] => y \in subs'[q]
  BY <1>1, <1>2
<1>6. StreamOk(x)'
  <2>1. Alone(st[x].turn)' <=> Alone(r.turn)
    BY <1>1, <1>3 DEF Alone
  <2> QED
    BY <1>1, <1>3, <2>1 DEF StreamOk, Resumed
<1> QED
  BY <1>1, <1>3, <1>4, <1>5, <1>6, OneStream

\* A stream of a session's live events is opened.
LEMMA OpenSessionStep ==
  ASSUME StreamInv, HubInv', NEW x \in Streams, NEW s \in Sessions, OpenSession(x, s)
  PROVE  StreamInv'
<1> DEFINE r == [st[x] EXCEPT !.pc = "draining", !.sess = s]
<1>1. st[x] \in StreamRec /\ st[x].turn = Nil /\ st[x].out = <<>>
  BY OfRun DEF OpenSession, Opened
<1>2. r \in StreamRec /\ r.pc = "draining" /\ r.sess = s /\ r.turn = Nil /\ r.out = <<>>
  BY <1>1 DEF StreamRec, StreamPc
<1>3. Opened(x, s) /\ st' = [st EXCEPT ![x] = r]
  BY DEF OpenSession
<1> HIDE DEF r
<1> QED
  BY <1>2, <1>3, OpenedStreamInv

\* A stream is opened on the replay of a turn, after the event numbered last.
OpenedOn(r, t, last) ==
  [r EXCEPT !.pc = "writing", !.turn = t, !.sess = SessionOf[t],
            !.base = IF last <= Len(hist[t]) THEN last ELSE 0,
            !.last = last, !.pend = After(replay[t], last)]

\* Such a stream starts right: all it is about to show follows what its client has seen.
LEMMA OpenRunStep ==
  ASSUME StreamInv, HubInv', NEW x \in Streams, NEW t \in Turns, NEW last \in Nat,
         OpenRun(x, t, last)
  PROVE  StreamInv'
<1> DEFINE h == hist[t]
           es == replay[t]
           r == OpenedOn(st[x], t, last)
           base == IF last <= Len(h) THEN last ELSE 0
           pend == After(es, last)
           s == SessionOf[t]
<1>1. /\ es # Nil /\ Opened(x, s) /\ st' = [st EXCEPT ![x] = r] /\ s \in Sessions
  BY HubAssumption DEF OpenRun, OpenedOn
<1>2. /\ st[x] \in StreamRec /\ st[x].out = <<>> /\ t # Nil
  BY OfRun, HubAssumption DEF OpenRun, Opened
<1>3. Published(h) /\ es # <<>>
  BY <1>1 DEF StreamInv, Numbered, Kept
<1>4. PICK a \in Nat : Rest(es, h, a)
  BY <1>1 DEF StreamInv, Kept
<1>5. Alone(t) => es = h
  BY <1>1 DEF StreamInv, Owns
<1>6. base \in Nat
  OBVIOUS
<1>7. pend \in Seq(Event)
  <2> HIDE DEF es
  <2>1. PICK b \in Nat : Rest(pend, h, b)
    <3>1. \E b \in Nat : b = IF a < last /\ last <= Len(h) THEN last ELSE a
      OBVIOUS
    <3> QED
      BY <1>3, <1>4, <3>1, AfterRest
  <2> QED
    BY <2>1 DEF Rest, Slice
<1>8. r = [st[x] EXCEPT !.pc = "writing", !.turn = t, !.sess = s, !.base = base,
                        !.last = last, !.pend = pend]
  BY DEF OpenedOn
<1> HIDE DEF base, pend, r, s, es
<1>9. /\ r \in StreamRec /\ r.pc = "writing" /\ r.turn = t /\ r.sess = s /\ r.base = base
      /\ r.last = last /\ r.pend = pend /\ r.out = <<>>
  BY <1>1, <1>2, <1>6, <1>7, <1>8 DEF StreamRec, StreamPc
<1>10. r.pend = After(es, last) /\ r.base = IF last <= Len(h) THEN last ELSE 0
  BY <1>9 DEF base, pend, es
<1> HIDE DEF h
<1>11. \A told : InOrder(r, h) /\ (es = h => Exact(r, h, told))
  BY <1>3, <1>4, <1>9, <1>10, OpenOk
<1> QED
  BY <1>1, <1>2, <1>5, <1>9, <1>11, OpenedStreamInv DEF h, s

-----------------------------------------------------------------------------
(* The steps of a turn, and Close *)

\* A turn's goroutine goes on.
LEMMA GotoStreamInv ==
  ASSUME StreamInv, HubInv', NEW t \in Turns, NEW pc, Goto(t, pc), turn[t].pc # "over",
         pc \in {"done", "message"} => turn[t].pc \in {"done", "message"}
  PROVE  StreamInv'
<1>1. /\ UNCHANGED <<subs, replay, traceOf, chan, st, hist, closes>>
      /\ turn' = [turn EXCEPT ![t].pc = pc]
  BY DEF Goto, hub
<1>2. /\ turn \in [Turns -> [pc : TurnPc, sent : Nat, todo : SUBSET Streams,
                             cancelled : BOOLEAN]]
      /\ chan \in [Streams -> [wait : Nat, open : BOOLEAN]]
  BY DEF StreamInv, HubInv, Typed, StreamsTyped
<1>3. /\ turn'[t].pc = pc /\ turn'[t].sent = turn[t].sent /\ turn'[t].todo = turn[t].todo
      /\ \A u \in Turns \ {t} : turn'[u] = turn[u]
  BY <1>1, <1>2
<1>4. \A u \in Turns :
        /\ turn'[u].sent = turn[u].sent
        /\ turn[u].pc = "over" => turn'[u].pc = "over"
        /\ turn'[u].pc \in {"done", "message"} => turn[u].pc \in {"done", "message"}
        /\ \A x \in turn[u].todo : x \in turn'[u].todo
  BY <1>3
<1> QED
  BY <1>1, <1>2, <1>4, TurnStreamInv

\* The turn sends the event to a channel: its handler is told from then on.
LEMMA SendStep ==
  ASSUME StreamInv, HubInv', NEW t \in Turns, NEW x \in Streams, Send(t, x)
  PROVE  StreamInv'
<1>1. /\ UNCHANGED <<subs, replay, traceOf, st, hist, closes>>
      /\ chan' = [chan EXCEPT ![x].wait = Deliver(@)]
      /\ turn' = [turn EXCEPT ![t].todo = @ \ {x}]
  BY DEF Send
<1>2. /\ turn \in [Turns -> [pc : TurnPc, sent : Nat, todo : SUBSET Streams,
                             cancelled : BOOLEAN]]
      /\ chan \in [Streams -> [wait : Nat, open : BOOLEAN]]
  BY DEF StreamInv, HubInv, Typed, StreamsTyped
<1>3. Deliver(chan[x].wait) \in Nat /\ Deliver(chan[x].wait) > 0
  BY <1>2, HubAssumption DEF Deliver
<1>4. /\ chan' \in [Streams -> [wait : Nat, open : BOOLEAN]]
      /\ chan'[x].wait > 0 /\ chan'[x].open = chan[x].open
      /\ \A y \in Streams \ {x} : chan'[y] = chan[y]
  BY <1>1, <1>2, <1>3
<1>5. /\ turn'[t].pc = turn[t].pc /\ turn'[t].sent = turn[t].sent
      /\ turn'[t].todo = turn[t].todo \ {x}
      /\ \A u \in Turns \ {t} : turn'[u] = turn[u]
  BY <1>1, <1>2
<1>6. \A u \in Turns :
        /\ turn'[u].sent = turn[u].sent /\ turn'[u].pc = turn[u].pc
        /\ \A y \in turn[u].todo : y \in turn'[u].todo \/ chan'[y].wait > 0
  BY <1>4, <1>5
<1>7. \A y \in Streams : /\ chan'[y].open = chan[y].open
                         /\ chan[y].wait > 0 => chan'[y].wait > 0
  BY <1>4
<1> QED
  BY <1>1, <1>4, <1>6, <1>7, TurnStreamInv

\* Nothing that a stream shows depends on a cancellation, or on the process's end.
LEMMA QuietStep ==
  ASSUME StreamInv, HubInv',
         \/ UNCHANGED vars
         \/ \E t \in Turns : Cancel(t) \/ \E x \in Streams : SendOnClosed(t, x)
  PROVE  StreamInv'
<1>1. UNCHANGED <<subs, replay, traceOf, chan, st, hist, closes>>
  BY DEF vars, hub, Cancel, SendOnClosed
<1>2. /\ turn \in [Turns -> [pc : TurnPc, sent : Nat, todo : SUBSET Streams,
                             cancelled : BOOLEAN]]
      /\ chan \in [Streams -> [wait : Nat, open : BOOLEAN]]
  BY DEF StreamInv, HubInv, Typed, StreamsTyped
<1>3. turn' = turn \/ \E t \in Turns : turn' = [turn EXCEPT ![t].cancelled = TRUE]
  BY DEF vars, Cancel, SendOnClosed
<1>4. \A u \in Turns : /\ turn'[u].sent = turn[u].sent /\ turn'[u].pc = turn[u].pc
                       /\ turn'[u].todo = turn[u].todo
  BY <1>2, <1>3
<1> QED
  BY <1>1, <1>2, <1>4, TurnStreamInv

\* The hub closes: no turn counts as alone from then on, and no channel is open that
\* the hub has.
LEMMA CloseStep ==
  ASSUME StreamInv, HubInv', Close
  PROVE  StreamInv'
<1>1. /\ closes' = closes + 1 /\ UNCHANGED <<turn, st, hist>>
      /\ chan' = [x \in Streams |-> IF \E s \in Sessions : x \in subs[s]
                                    THEN [chan[x] EXCEPT !.open = FALSE] ELSE chan[x]]
      /\ replay' = [t \in Turns |-> Nil]
      /\ traceOf' = [s \in Sessions |-> Nil]
  BY DEF Close
<1>2. closes \in Nat /\ chan \in [Streams -> [wait : Nat, open : BOOLEAN]]
      /\ st \in [Streams -> StreamRec]
  BY DEF StreamInv, StreamsTyped
<1>3. closes' \in Nat /\ \A t : ~Alone(t)'
  BY <1>1, <1>2 DEF Alone
<1>4. Numbered' /\ Kept' /\ Owns'
  BY <1>1, <1>3 DEF StreamInv, Numbered, Kept, Owns
<1>5. chan' \in [Streams -> [wait : Nat, open : BOOLEAN]]
  BY <1>1, <1>2
<1>6. ASSUME NEW x \in Streams, st[x].turn # Nil
      PROVE  st[x].sess = SessionOf[st[x].turn] /\ ~chan'[x].open
  <2>1. st[x].turn \in Turns /\ SessionOf[st[x].turn] \in Sessions
    BY <1>2, <1>6, HubAssumption DEF StreamRec
  <2>2. /\ st[x].sess = SessionOf[st[x].turn]
        /\ chan[x].open => x \in subs[st[x].sess]
    BY <1>6 DEF StreamInv, StreamsTyped
  <2> QED
    BY <1>1, <1>2, <2>1, <2>2
<1>7. StreamsTyped'
  BY <1>1, <1>3, <1>5, <1>6 DEF StreamInv, StreamsTyped
<1>8. Streamed'
  BY <1>1, <1>3 DEF StreamInv, Streamed, StreamOk, Resumed
<1> QED
  BY <1>4, <1>7, <1>8 DEF StreamInv

\* The steps of a turn that publish.
LEMMA PublishStep ==
  ASSUME StreamInv, HubInv', NEW t \in Turns,
         Reject(t) \/ Emit(t) \/ Finish(t) \/ CommitFails(t) \/ PublishLate(t)
  PROVE  StreamInv'
<1>1. CASE Reject(t)
  <2>1. Publishes(t, "end", "over")
    BY <1>1 DEF Reject, At, Publishes, TurnPc
  <2> QED
    BY <2>1, PublishStreamInv
<1>2. CASE Emit(t)
  <2>1. Publishes(t, "delta", "running")
    BY <1>2 DEF Emit, Going, At, Publishes, TurnPc
  <2> QED
    BY <2>1, PublishStreamInv
<1>3. CASE Finish(t)
  <2>1. \E pc \in {"done", "failed"} : Publishes(t, "end", pc)
    BY <1>3 DEF Finish, Going, At, Publishes, TurnPc
  <2> QED
    BY <2>1, PublishStreamInv
<1>4. CASE CommitFails(t)
  <2>1. Publishes(t, "end", "broken")
    BY <1>4 DEF CommitFails, Publishes, TurnPc
  <2> QED
    BY <2>1, PublishStreamInv
<1>5. CASE PublishLate(t)
  <2>1. \E kind \in {"note", "end"} : Publishes(t, kind, "over")
    BY <1>5 DEF PublishLate, At, Publishes, TurnPc
  <2> QED
    BY <2>1, PublishStreamInv
<1> QED
  BY <1>1, <1>2, <1>3, <1>4, <1>5

\* Every step keeps the invariant.
LEMMA StreamInvNext == StreamInv /\ [Next]_vars => StreamInv'
<1> SUFFICES ASSUME StreamInv, [Next]_vars PROVE StreamInv'
  OBVIOUS
<1>1. HubInv'
  BY HubInvNext DEF StreamInv
<1>2. ASSUME NEW t \in Turns, TurnStep(t) PROVE StreamInv'
  <2>1. CASE Prepare(t)
    <3>1. turn[t].pc = "new" /\ Goto(t, IF Free(t) THEN "ready" ELSE "over")
      BY <2>1 DEF Prepare, At
    <3> QED
      BY <1>1, <3>1, GotoStreamInv
  <2>2. CASE Register(t)
    BY <1>1, <2>2, GotoStreamInv DEF Register, At
  <2>3. CASE Reject(t) \/ Emit(t) \/ Finish(t) \/ CommitFails(t) \/ PublishLate(t)
    BY <1>1, <2>3, PublishStep
  <2>4. CASE Pause(t)
    BY <1>1, <2>4, GotoStreamInv DEF Pause, Going, At
  <2>5. CASE Cut(t)
    BY <1>1, <2>5, GotoStreamInv DEF Cut, At
  <2>6. CASE Unregister(t)
    <3> DEFINE pc == CASE turn[t].pc = "done" -> "message"
                       [] turn[t].pc = "awaiting" -> "question"
                       [] OTHER -> "over"
    <3>1. Goto(t, pc) /\ turn[t].pc # "over"
      BY <2>6 DEF Unregister
    <3>2. pc \in {"done", "message"} => turn[t].pc = "done"
      OBVIOUS
    <3> HIDE DEF pc
    <3> QED
      BY <1>1, <3>1, <3>2, GotoStreamInv
  <2>7. CASE \E x \in Streams : Send(t, x)
    BY <1>1, <2>7, SendStep
  <2>8. CASE \E x \in Streams : SendOnClosed(t, x)
    BY <1>1, <2>8, QuietStep
  <2> QED
    BY <1>2, <2>1, <2>2, <2>3, <2>4, <2>5, <2>6, <2>7, <2>8 DEF TurnStep
<1>3. ASSUME NEW x \in Streams, StreamStep(x) PROVE StreamInv'
  <2>1. ASSUME NEW t \in Turns, NEW last \in 0..(turn[t].sent + 1), OpenRun(x, t, last)
        PROVE  StreamInv'
    <3>1. last \in Nat
      BY DEF StreamInv, HubInv, Typed
    <3> QED
      BY <1>1, <2>1, <3>1, OpenRunStep
  <2> QED
    BY <1>1, <1>3, <2>1, OpenSessionStep, WriteStep, WakeStep, RereadStep, DrainStep,
       EndStep, LeaveStep DEF StreamStep
<1>4. CASE Close
  BY <1>1, <1>4, CloseStep
<1>5. CASE UNCHANGED vars \/ \E t \in Turns : Cancel(t)
  BY <1>1, <1>5, QuietStep
<1> QED
  BY <1>2, <1>3, <1>4, <1>5 DEF Next

\* What the hub's channels, its replays and the handlers of the streams rest on holds
\* throughout (session_push.go, handlers_run_events.go).
THEOREM StreamInvariance == Spec => []StreamInv
  BY StreamInvInit, StreamInvNext, PTL DEF Spec

\* replayEventsAfter and the handler's last event id keep a resumed stream from showing
\* an event again or out of order, whatever other turns do to the replay.
THEOREM NoRepeatHolds == Spec => []NoRepeat
<1>1. StreamInv => NoRepeat
  <2> SUFFICES ASSUME StreamInv, NEW x \in Streams,
                      NEW i \in DOMAIN st[x].out, NEW j \in DOMAIN st[x].out, i < j
               PROVE  st[x].out[i].n < st[x].out[j].n
    BY DEF NoRepeat
  <2>1. st[x].out \in Seq(Event) /\ DOMAIN st[x].out = 1..Len(st[x].out)
    BY OfRun, LenProperties DEF StreamRec
  <2>2. st[x].turn # Nil
    <3>1. st[x].out # <<>>
      BY <2>1, EmptySeq
    <3> QED
      BY <3>1, OfRun
  <2> QED
    BY <2>1, <2>2, OfRun DEF InOrder
<1> QED
  BY <1>1, StreamInvariance, PTL

-----------------------------------------------------------------------------
(* What a stream owes *)

\* What a stream owes that resumes after position a of h.
OwedOf(h, a) == Sent(Visible(SubSeq(h, a + 1, Len(h))))

\* It is the part of h after a, without a note at its end, and cut after an "end".
LEMMA OwedSlice ==
  ASSUME NEW h, Published(h), NEW a \in Nat, a <= Len(h)
  PROVE  /\ Slice(OwedOf(h, a), h, a) /\ Len(OwedOf(h, a)) \in Nat
         /\ a + Len(OwedOf(h, a)) <= Len(h)
         /\ h # <<>> /\ h[Len(h)].kind = "note" /\ a < Len(h)
              => a + Len(OwedOf(h, a)) <= Len(h) - 1
         /\ \/ /\ Len(OwedOf(h, a)) > 0
               /\ OwedOf(h, a)[Len(OwedOf(h, a))].kind = "end"
            \/ a + Len(OwedOf(h, a)) = Len(h)
            \/ /\ a + Len(OwedOf(h, a)) = Len(h) - 1
               /\ h[Len(h)].kind = "note"
<1> DEFINE m == a + 1
           n == Len(h)
           es == SubSeq(h, m, n)
           v == Visible(es)
           s == Sent(v)
<1>1. h \in Seq(Event) /\ n \in Nat /\ Slice(h, h, 0)
  BY SliceWhole DEF Published
<1>2. m \in 1..(n + 1) /\ n \in (m - 1)..n /\ 0 + (m - 1) = a /\ m - 1 = a
  BY <1>1
<1>3. OwedOf(h, a) = s
  BY DEF OwedOf
<1> HIDE DEF m, n, s
<1>4. Slice(es, h, a) /\ Len(es) = n - a
  <2>1. n = Len(h)
    BY DEF n
  <2>2. Slice(SubSeq(h, m, n), h, 0 + (m - 1)) /\ Len(SubSeq(h, m, n)) = n - (m - 1)
    BY <1>1, <1>2, <2>1, SliceOfSlice
  <2> QED
    BY <1>2, <2>2
<1> HIDE DEF es
<1>5. Wrote(v, es, h, a)
  BY <1>4, VisibleWrote
<1>6. /\ es \in Seq(Event) /\ Len(es) \in Nat /\ Len(v) \in Nat /\ Slice(v, h, a)
      /\ Len(v) = IF es # <<>> /\ es[Len(es)].kind = "note" THEN Len(es) - 1 ELSE Len(es)
  BY <1>4, <1>5 DEF Slice, Wrote
<1>7. es # <<>> => es[Len(es)] = h[n] /\ Len(es) > 0
  <2> SUFFICES ASSUME es # <<>> PROVE es[Len(es)] = h[n] /\ Len(es) > 0
    OBVIOUS
  <2>1. Len(es) \in 1..Len(es)
    BY <1>6, EmptySeq
  <2>2. es[Len(es)] = h[a + Len(es)]
    BY <1>4, <2>1 DEF Slice
  <2> QED
    BY <1>1, <1>4, <2>1, <2>2
<1>8. es = <<>> => Len(es) = 0
  BY EmptySeq
<1> HIDE DEF v
<1>9. /\ Slice(s, h, a) /\ Len(s) <= Len(v) /\ Len(s) \in Nat
      /\ Ends(v) => Len(s) > 0 /\ s[Len(s)].kind = "end"
      /\ ~Ends(v) => s = v
  <2>1. /\ Slice(s, h, a) /\ Len(s) <= Len(v)
        /\ Ends(v) => Len(s) > 0 /\ s[Len(s)].kind = "end"
        /\ ~Ends(v) => s = v
    BY <1>1, <1>6, SentSlice DEF s
  <2> QED
    BY <2>1 DEF Slice
<1>10. n = Len(h)
  BY DEF n
<1>11. a + Len(v) = n \/ (a + Len(v) = n - 1 /\ h[n].kind = "note")
  BY <1>1, <1>4, <1>6, <1>7
<1>12. h[n].kind = "note" /\ a < n => a + Len(v) <= n - 1
  BY <1>1, <1>4, <1>6, <1>7, <1>8
<1>13. a + Len(s) <= n /\ (h[n].kind = "note" /\ a < n => a + Len(s) <= n - 1)
  BY <1>1, <1>6, <1>9, <1>11, <1>12
<1> QED
  BY <1>3, <1>9, <1>10, <1>11, <1>13

\* What a stream has shown without a gap is a prefix of what it owes.
LEMMA ExactPrefix ==
  ASSUME NEW h, Published(h), NEW r \in StreamRec, NEW told, Exact(r, h, told)
  PROVE  /\ Prefix(r.out, OwedOf(h, r.base))
         /\ AllShown(r, h) => Len(OwedOf(h, r.base)) <= Len(r.out)
<1> DEFINE a == r.base
           s == OwedOf(h, a)
<1>1. /\ h \in Seq(Event) /\ Len(h) \in Nat /\ r.out \in Seq(Event) /\ Len(r.out) \in Nat
      /\ a \in Nat /\ Slice(r.out, h, a) /\ a + Len(r.out) <= Len(h)
  BY DEF StreamRec, Published, Exact, Slice
<1>2. \A i \in 1..Len(r.out) : /\ r.out[i].kind # "note" /\ r.out[i] = h[a + i]
                               /\ r.out[i].kind = "end" => i = Len(r.out)
  BY <1>1 DEF Exact, Slice
<1>3. a <= Len(h)
  BY <1>1
<1>4. /\ Slice(s, h, a) /\ Len(s) \in Nat /\ a + Len(s) <= Len(h)
      /\ h # <<>> /\ h[Len(h)].kind = "note" /\ a < Len(h) => a + Len(s) <= Len(h) - 1
      /\ \/ Len(s) > 0 /\ s[Len(s)].kind = "end"
         \/ a + Len(s) = Len(h)
         \/ a + Len(s) = Len(h) - 1 /\ h[Len(h)].kind = "note"
  BY <1>1, <1>3, OwedSlice
<1> HIDE DEF s, a
<1>5. Len(r.out) <= Len(s)
  <2> SUFFICES ASSUME Len(s) < Len(r.out) PROVE FALSE
    BY <1>1, <1>4
  <2>1. CASE Len(s) > 0 /\ s[Len(s)].kind = "end"
    <3>1. Len(s) \in 1..Len(r.out) /\ s[Len(s)] = h[a + Len(s)]
      BY <1>1, <1>4, <2>1 DEF Slice
    <3> QED
      BY <1>1, <1>2, <1>4, <2>1, <3>1
  <2>2. CASE a + Len(s) = Len(h)
    BY <1>1, <1>4, <2>2
  <2>3. CASE a + Len(s) = Len(h) - 1 /\ h[Len(h)].kind = "note"
    <3>1. Len(r.out) \in 1..Len(r.out) /\ a + Len(r.out) = Len(h)
      BY <1>1, <1>4, <2>3
    <3> QED
      BY <1>2, <2>3, <3>1
  <2> QED
    BY <1>4, <2>1, <2>2, <2>3
<1>6. r.out = SubSeq(s, 1, Len(r.out))
  <2> DEFINE k == Len(r.out)
  <2>1. k \in (1 - 1)..Len(s) /\ 1 \in 1..(Len(s) + 1) /\ k - (1 - 1) = k /\ a + (1 - 1) = a
    BY <1>1, <1>4, <1>5
  <2> HIDE DEF k
  <2>2. Slice(SubSeq(s, 1, k), h, a + (1 - 1)) /\ Len(SubSeq(s, 1, k)) = k - (1 - 1)
    BY <1>1, <1>4, <2>1, SliceOfSlice
  <2>3. Slice(SubSeq(s, 1, k), h, a) /\ Len(SubSeq(s, 1, k)) = Len(r.out)
    BY <2>1, <2>2 DEF k
  <2>4. r.out = SubSeq(s, 1, k)
    BY <1>1, <2>3, SliceUnique
  <2> QED
    BY <2>4 DEF k
<1>7. ASSUME AllShown(r, h) PROVE Len(s) <= Len(r.out)
  <2>1. \/ a + Len(r.out) = Len(h)
        \/ a + Len(r.out) = Len(h) - 1 /\ h[Len(h)].kind = "note"
    BY <1>7 DEF AllShown, Reached, a
  <2>2. a + Len(r.out) = Len(h) - 1 => h # <<>> /\ a < Len(h)
    BY <1>1, EmptySeq
  <2> QED
    BY <1>1, <1>4, <2>1, <2>2
<1> QED
  BY <1>5, <1>6, <1>7 DEF s, a, Prefix

\* SubscribeTrace copies the replay and subscribes in one critical section
\* (session_push.go:95): no event between the two is left out or shown twice, as long as
\* the turn is alone on its session.
THEOREM NoGapAloneHolds == Spec => []NoGapAlone
<1>1. StreamInv => NoGapAlone
  <2> SUFFICES ASSUME StreamInv, NEW x \in Streams, Resumed(x), Alone(st[x].turn)
               PROVE  Prefix(st[x].out, Owed(x))
    BY DEF NoGapAlone
  <2>1. /\ st[x] \in StreamRec /\ Published(hist[st[x].turn])
        /\ Exact(st[x], hist[st[x].turn], Told(x))
    BY OfRun DEF Resumed
  <2>2. Prefix(st[x].out, OwedOf(hist[st[x].turn], st[x].base))
    BY <2>1, ExactPrefix
  <2> QED
    BY <2>2 DEF Owed, OwedOf
<1> QED
  BY <1>1, StreamInvariance, PTL

\* A full channel drops notifications (session_push.go:195), never the events: a
\* stream that waits, untold, has shown all it owes.
THEOREM NoLostTailHolds == Spec => []NoLostTail
<1>1. StreamInv => NoLostTail
  <2> SUFFICES ASSUME StreamInv, NEW x \in Streams, Resumed(x), st[x].pc = "waiting",
                      chan[x].open, chan[x].wait = 0, Alone(st[x].turn),
                      \A t \in Turns : x \notin turn[t].todo
               PROVE  st[x].out = Owed(x) /\ ~Ends(st[x].out)
    BY DEF NoLostTail
  <2> DEFINE r == st[x]
             h == hist[r.turn]
             owed == OwedOf(h, r.base)
  <2>1. /\ r \in StreamRec /\ r.turn \in Turns /\ Published(h) /\ Exact(r, h, Told(x))
    BY OfRun DEF Resumed
  <2>2. ~Told(x)
    BY <2>1 DEF Told
  <2>3. AllShown(r, h)
    BY <2>1, <2>2 DEF Exact
  <2>4. Prefix(r.out, owed) /\ Len(owed) <= Len(r.out)
    BY <2>1, <2>3, ExactPrefix
  <2>5. r.out \in Seq(Event) /\ r.base \in Nat /\ Slice(r.out, h, r.base) /\ r.base <= Len(h)
        /\ DOMAIN r.out = 1..Len(r.out)
    BY <2>1, LenProperties DEF Exact, Slice, StreamRec, Published
  <2>6. Slice(owed, h, r.base) /\ Len(owed) \in Nat
    BY <2>1, <2>5, OwedSlice
  <2>7. Len(r.out) = Len(owed)
    BY <2>4, <2>5, <2>6 DEF Prefix
  <2>8. r.out = owed
    BY <2>5, <2>6, <2>7, SliceUnique
  <2>9. ~Ends(r.out)
    BY <2>1, <2>5 DEF Exact, Ends
  <2> QED
    BY <2>8, <2>9 DEF Owed, OwedOf
<1> QED
  BY <1>1, StreamInvariance, PTL
=============================================================================
