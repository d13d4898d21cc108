------------------------- MODULE SessionTrackerProofs -------------------------
(***************************************************************************)
(* The tracker asks one thing at a time and never falls silent while it is   *)
(* connected, whatever the sessions, the bounds and the order of events.     *)
(***************************************************************************)
EXTENDS SessionTracker, TLAPS

\* A request with all its fields.
Whole(a) ==
  a = [epoch |-> a.epoch, kind |-> a.kind, ids |-> a.ids, read |-> a.read, answer |-> a.answer]

\* The request under way, if any, is the only one.
Alone ==
  IF inFlight THEN asks = <<asks[1]>> /\ Whole(asks[1]) ELSE asks = <<>>

\* What wakes the tracker up.
Awake ==
  \/ timer = connectionEpoch
  \/ inFlight /\ (pendingReconcileEpoch = connectionEpoch \/ asks[1].epoch = connectionEpoch)

\* The inductive invariant: the timer and the waiting reconciliation belong to the
\* connection, and there is none of them without one.
Schedule ==
  /\ connected \in BOOLEAN /\ inFlight \in BOOLEAN
  /\ connectionEpoch \in Nat
  /\ timer \in {0, connectionEpoch}
  /\ pendingReconcileEpoch \in {0, connectionEpoch}
  /\ Alone
  /\ IF connected THEN connectionEpoch # 0 /\ Awake
     ELSE timer = 0 /\ pendingReconcileEpoch = 0

tvars == <<connected, connectionEpoch, inFlight, pendingReconcileEpoch, timer, asks>>

LEMMA ScheduleStays == ASSUME Schedule, UNCHANGED tvars PROVE Schedule'
BY DEF Schedule, Alone, Awake, Whole, tvars

LEMMA RequestWhole == ASSUME NEW e, NEW k, NEW S PROVE Whole(Request(e, k, S)) /\ Request(e, k, S).epoch = e
BY DEF Whole, Request

LEMMA ScheduleInit == Init => Schedule
<1> SUFFICES ASSUME Init PROVE Schedule
  OBVIOUS
<1>1. /\ connected = FALSE /\ inFlight = FALSE /\ connectionEpoch = 0
      /\ timer = 0 /\ pendingReconcileEpoch = 0 /\ asks = <<>>
  BY DEF Init
<1>2. Alone
  BY <1>1 DEF Alone
<1> QED BY <1>1, <1>2 DEF Schedule

LEMMA OnlyOne ==
  ASSUME Alone, NEW i \in DOMAIN asks PROVE inFlight /\ asks = <<asks[1]>> /\ i = 1
<1> DEFINE a == asks[1]
<1>1. IF inFlight THEN asks = <<a>> ELSE asks = <<>>
  BY DEF Alone
<1> HIDE DEF a
<1>2. inFlight /\ asks = <<a>> /\ i = 1
  BY <1>1
<1> QED BY <1>2 DEF a

LEMMA WithoutOnly ==
  ASSUME Alone, NEW i \in DOMAIN asks PROVE Without(i) = <<>>
<1> DEFINE a == asks[1]
<1>1. asks = <<a>> /\ i = 1
  BY OnlyOne
<1> HIDE DEF a
<1>2. SubSeq(asks, 1, 0) = <<>> /\ SubSeq(asks, 2, 1) = <<>>
  BY <1>1
<1> QED BY <1>1, <1>2 DEF Without

\* With one request under way its end leaves none, or the reconciliation that waited.
LEMMA FinishSchedule ==
  ASSUME Schedule, NEW i \in DOMAIN asks, FinishRequest(i),
         UNCHANGED <<connected, connectionEpoch>>
  PROVE  Schedule'
<1>1. inFlight /\ asks = <<asks[1]>> /\ i = 1
  BY OnlyOne DEF Schedule
<1>2. Without(i) = <<>>
  BY WithoutOnly DEF Schedule
<1>3. CASE pendingReconcileEpoch # 0 /\ Current(pendingReconcileEpoch)
  <2> DEFINE r == Request(pendingReconcileEpoch, "recent", {})
  <2>1. asks' = Append(<<>>, r) /\ inFlight' = TRUE /\ pendingReconcileEpoch' = 0 /\ timer' = timer
    BY <1>2, <1>3 DEF FinishRequest
  <2>2. Whole(r) /\ r.epoch = pendingReconcileEpoch
    BY RequestWhole
  <2> HIDE DEF r
  <2>3. asks' = <<r>> /\ asks'[1] = r
    BY <2>1
  <2>4. Alone'
    BY <2>1, <2>2, <2>3 DEF Alone, Whole
  <2> QED
    BY <1>3, <2>1, <2>2, <2>3, <2>4 DEF Schedule, Awake, Current
<1>4. CASE ~(pendingReconcileEpoch # 0 /\ Current(pendingReconcileEpoch))
  <2>1. asks' = <<>> /\ inFlight' = FALSE /\ pendingReconcileEpoch' = pendingReconcileEpoch
        /\ timer' = IF Current(asks[i].epoch) THEN NextTimer ELSE timer
    BY <1>2, <1>4 DEF FinishRequest
  <2> QED
    BY <1>1, <1>4, <2>1 DEF Schedule, Alone, Awake, Current, NextTimer
<1> QED BY <1>3, <1>4

\* A reconciliation is sent, or waits for the request under way.
LEMMA ReconcileAlone ==
  ASSUME Alone, inFlight \in BOOLEAN, NEW e, Reconcile(e)
  PROVE  /\ Alone' /\ inFlight' \in BOOLEAN
         /\ \/ inFlight /\ pendingReconcileEpoch' = e
            \/ pendingReconcileEpoch' = 0 /\ asks'[1].epoch = e
         /\ inFlight'
<1>1. CASE inFlight
  BY <1>1 DEF Reconcile, Alone, Whole
<1>2. CASE ~inFlight
  <2> DEFINE r == Request(e, "recent", {})
  <2>1. asks' = Append(<<>>, r) /\ inFlight' = TRUE /\ pendingReconcileEpoch' = 0
    BY <1>2 DEF Reconcile, Ask, Alone
  <2>2. Whole(r) /\ r.epoch = e
    BY RequestWhole
  <2> HIDE DEF r
  <2>3. asks' = <<r>> /\ asks'[1] = r
    BY <2>1
  <2> QED BY <2>1, <2>2, <2>3 DEF Alone, Whole
<1> QED BY <1>1, <1>2

LEMMA ScheduleNext == ASSUME Schedule, [Next]_vars PROVE Schedule'
<1>1. CASE TimerFires
  <2>1. UNCHANGED <<connected, connectionEpoch>> /\ connected
    BY <1>1 DEF TimerFires, Schedule
  <2>2. CASE hot = {} /\ Reconcile(timer) /\ timer' = 0
    BY <1>1, <2>1, <2>2, ReconcileAlone DEF Schedule, Awake, TimerFires
  <2>3. CASE /\ hot # {} /\ ~inFlight
             /\ inFlight' = TRUE /\ Ask(timer, "hot", hot)
             /\ timer' = 0 /\ UNCHANGED pendingReconcileEpoch
    <3> DEFINE r == Request(timer, "hot", hot)
    <3>1. asks' = Append(<<>>, r)
      BY <2>3 DEF Ask, Schedule, Alone
    <3>2. Whole(r) /\ r.epoch = timer
      BY RequestWhole
    <3> HIDE DEF r
    <3>3. asks' = <<r>> /\ asks'[1] = r
      BY <3>1
    <3>4. Alone'
      BY <2>3, <3>2, <3>3 DEF Alone, Whole
    <3> QED BY <1>1, <2>1, <2>3, <3>2, <3>3, <3>4 DEF Schedule, Awake, TimerFires
  <2>4. CASE /\ hot # {} /\ inFlight
             /\ timer' = NextTimer /\ UNCHANGED <<inFlight, asks, pendingReconcileEpoch>>
    BY <2>1, <2>4 DEF Schedule, Alone, Awake, NextTimer, Whole
  <2> QED BY <1>1, <2>2, <2>3, <2>4 DEF TimerFires
<1>2. ASSUME NEW i \in DOMAIN asks, BridgeReads(i) PROVE Schedule'
  <2>1. inFlight /\ i = 1 /\ asks = <<asks[1]>> /\ Whole(asks[1])
    BY <1>2, OnlyOne DEF Schedule, Alone
  <2> DEFINE f == [s \in Returned(asks[i]) |-> store[s]]
             a == asks[1]
             b == [epoch |-> a.epoch, kind |-> a.kind, ids |-> a.ids, read |-> TRUE, answer |-> f]
  <2>2. asks' = [asks EXCEPT ![1] = b]
    BY <1>2, <2>1 DEF BridgeReads
  <2>3. asks = <<a>>
    BY <2>1
  <2> HIDE DEF f, a
  <2>4. asks' = <<b>>
    <3> HIDE DEF b
    <3> QED BY <2>2, <2>3
  <2>5. asks'[1].epoch = asks[1].epoch /\ asks' = <<asks'[1]>> /\ Whole(asks'[1])
    BY <2>4 DEF Whole, a
  <2> QED
    BY <1>2, <2>1, <2>5 DEF BridgeReads, Schedule, Alone, Awake
<1>3. ASSUME NEW i \in DOMAIN asks, Answer(i) PROVE Schedule'
  BY <1>3, FinishSchedule DEF Answer
<1>4. ASSUME NEW i \in DOMAIN asks, RequestFails(i) PROVE Schedule'
  BY <1>4, FinishSchedule DEF RequestFails
<1>5. CASE Connect
  <2>1. /\ ~connected /\ connected' = TRUE /\ connectionEpoch' = connectionEpoch + 2
        /\ timer' = 0 /\ Reconcile(connectionEpoch')
    BY <1>5 DEF Connect
  <2>2. connectionEpoch' \in Nat /\ connectionEpoch' # 0
    BY <2>1 DEF Schedule
  <2> QED BY <2>1, <2>2, ReconcileAlone DEF Schedule, Awake
<1>6. CASE Disconnect
  <2>1. /\ connected' = FALSE /\ connectionEpoch' = connectionEpoch + 1
        /\ pendingReconcileEpoch' = 0 /\ timer' = 0 /\ UNCHANGED <<inFlight, asks>>
    BY <1>6 DEF Disconnect
  <2>2. Alone' /\ inFlight' \in BOOLEAN
    BY <2>1 DEF Schedule, Alone, Whole
  <2>3. connectionEpoch' \in Nat
    BY <2>1 DEF Schedule
  <2> QED BY <2>1, <2>2, <2>3 DEF Schedule
<1>7. CASE Hide
  BY <1>7 DEF Hide, Schedule, Alone, Awake, Whole, NextTimer
<1>8. CASE Show
  <2>1. CASE connected
    BY <1>8, <2>1, ReconcileAlone DEF Show, Schedule, Awake
  <2>2. CASE ~connected
    BY <1>8, <2>2 DEF Show, Schedule, Alone, Whole, NextTimer
  <2> QED BY <2>1, <2>2
<1>9. CASE Restart
  BY <1>9 DEF Restart, Schedule, Alone
<1>10. ASSUME NEW s \in Sessions,
              Begins(s) \/ Refuses(s) \/ Crowd(s)
                \/ \E st \in {"success", "error", "cancelled", "awaiting_human"} : Ends(s, st)
       PROVE  Schedule'
  BY <1>10, ScheduleStays DEF Begins, Refuses, Crowd, Ends, BridgeStep, conn, tvars
<1>11. ASSUME NEW s, NEW r, Shows(s, r) PROVE Schedule'
  BY <1>11 DEF Shows, Schedule, Alone, Awake, Whole, NextTimer
<1>12. ASSUME NEW s \in Sessions, Send(s) \/ StopRun(s) \/ Opens(s) \/ ShowHistory(s)
       PROVE  Schedule'
  BY <1>11, <1>12 DEF Send, StopRun, Opens, ShowHistory
<1>13. ASSUME NEW s \in Sessions, NEW k \in reading[s],
              StreamStatus(s, k) \/ StreamTells(s, k) \/ StreamEnds(s, k) \/ StreamBreaks(s, k)
       PROVE  Schedule'
  <2>1. CASE UNCHANGED conn
    BY <2>1, ScheduleStays DEF conn, tvars
  <2> QED
    BY <1>11, <1>13, <2>1 DEF StreamStatus, StreamTells, StreamEnds, StreamBreaks
<1>14. ASSUME NEW p \in stops, BridgeStops(p) \/ BridgeRecords(p)
       PROVE  Schedule'
  BY <1>14, ScheduleStays DEF BridgeStops, BridgeRecords, BridgeStep, conn, tvars
<1>15. ASSUME NEW p \in stops, StopAnswered(p) \/ StopSynced(p) \/ StopFails(p)
       PROVE  Schedule'
  <2>1. CASE UNCHANGED conn
    BY <2>1, ScheduleStays DEF conn, tvars
  <2> QED BY <1>11, <1>15, <2>1 DEF StopAnswered, StopSynced, StopFails
<1>16. CASE UNCHANGED vars
  BY <1>16, ScheduleStays DEF vars, conn, tvars
<1> QED
  BY <1>1, <1>2, <1>3, <1>4, <1>5, <1>6, <1>7, <1>8, <1>9, <1>10, <1>12, <1>13,
     <1>14, <1>15, <1>16
  DEF Next, Tracker

LEMMA ScheduleTells == Schedule => OneRequest /\ PollsGoOn
<1> SUFFICES ASSUME Schedule PROVE OneRequest /\ PollsGoOn
  OBVIOUS
<1>1. OneRequest
  BY DEF Schedule, Alone, OneRequest
<1>2. inFlight => 1 \in DOMAIN asks
  BY DEF Schedule, Alone
<1>3. PollsGoOn
  BY <1>2 DEF Schedule, Awake, PollsGoOn
<1> QED BY <1>1, <1>3

\* At most one request is under way, as inFlight says (reconcileRecentSessions,
\* pollTrackedSessions and finishRequest).
THEOREM OneRequestAlways == Spec => []OneRequest
<1>1. Spec => []Schedule
  BY ScheduleInit, ScheduleNext, PTL DEF Spec
<1> QED BY <1>1, ScheduleTells, PTL

\* A connected tracker's timer is set, or a request is under way whose end sets it or
\* sends the reconciliation that waits: no order of connections, answers, failures,
\* views and returns to the screen silences it.
THEOREM PollsGoOnAlways == Spec => []PollsGoOn
<1>1. Spec => []Schedule
  BY ScheduleInit, ScheduleNext, PTL DEF Spec
<1> QED BY <1>1, ScheduleTells, PTL
=============================================================================
