---------------------------- MODULE SessionTracker ----------------------------
(***************************************************************************)
(* The phone's completion tracker (mobileSessionRunTracker.ts in apps/     *)
(* android) between the bridge, which stores the state of each session's   *)
(* last run, and the phone's own views, which see the streams of the runs  *)
(* it started.  The tracker reconciles the recent sessions when it         *)
(* connects or is shown, polls the unfinished ones on a timer, keeps what  *)
(* it knows in local storage and announces the runs that succeed.          *)
(***************************************************************************)
EXTENDS Integers, Sequences, FiniteSets

CONSTANTS
  Sessions,
  MaxRuns,      \* bound on runs, whose trace ids are in 1..MaxRuns, and on taps
  MaxAnnounced, \* bound on how often a run's announcements are counted
  MaxFaults     \* bound on lost connections, failed requests, restarts of the
                \* application, its returns to the screen, crowded sessions, and on
                \* taps: the user's stops of a run and openings of a session anew

ASSUME TrackerAssumption == {MaxRuns, MaxAnnounced, MaxFaults} \subseteq Nat

VARIABLES
  store,      \* the bridge: each session's last run state
  now,        \* the time of the bridge's last change; the clocks agree
  runs,       \* runs begun so far
  outcome,    \* how each run ended
  crowded,    \* sessions with RECENT_SESSION_RECONCILE_LIMIT later ones
  queued,     \* the runs that messages to a session ask for, not yet begun
  view,       \* the phone: the run its view of each session shows
  reading,    \* the runs of a session whose streams the phone reads
  told,       \* those whose last status was shown
  stopping,   \* stoppingRunKeysRef: traces of the session, and 0 for its own key
  stops,      \* calls of stopCurrentRun under way
  connected, connectionEpoch, inFlight, pendingReconcileEpoch,
  sessions,   \* what the tracker knows of each session
  hot,        \* hotSessionIds
  timer,      \* the epoch in the timer's closure, 0 without a timer
  visible,
  saved,      \* what local storage holds
  asks,       \* requests under way
  announced,  \* how often each run was announced
  faults,     \* faults so far
  taps        \* the user's stops and openings so far

bridge == <<store, now, runs, outcome, queued, crowded>>
phone == <<view, reading, told, stopping, stops>>
tracked == <<sessions, hot, saved, announced>>
conn == <<connected, connectionEpoch, inFlight, pendingReconcileEpoch, timer, visible, asks>>
bounds == <<faults, taps>>
vars == <<bridge, phone, tracked, conn, bounds>>

Traces == 1..MaxRuns
NoRun == [trace |-> 0, status |-> "idle", at |-> 0]
Run(k, st, t) == [trace |-> k, status |-> st, at |-> t]

Init ==
  /\ store = [s \in Sessions |-> NoRun] /\ now = 1 /\ runs = 0
  /\ outcome = [k \in Traces |-> "none"] /\ queued = [s \in Sessions |-> {}]
  /\ crowded = {}
  /\ view = [s \in Sessions |-> NoRun] /\ reading = [s \in Sessions |-> {}]
  /\ told = {} /\ stopping = [s \in Sessions |-> {}] /\ stops = {}
  /\ connected = FALSE /\ connectionEpoch = 0 /\ inFlight = FALSE
  /\ pendingReconcileEpoch = 0 /\ timer = 0 /\ visible = TRUE /\ asks = <<>>
  /\ sessions = [s \in Sessions |-> NoRun] /\ hot = {}
  /\ saved = [s \in Sessions |-> NoRun]
  /\ announced = [k \in Traces |-> 0]
  /\ faults = 0 /\ taps = 0

Fault == faults + taps < MaxFaults /\ faults' = faults + 1 /\ UNCHANGED taps
Tap ==
  /\ faults + taps < MaxFaults /\ runs + taps < MaxRuns
  /\ taps' = taps + 1 /\ UNCHANGED faults

-----------------------------------------------------------------------------
(* Reconciling what is known with an answer and with the views *)

Incomplete(r) == r.status \in {"running", "awaiting_human"}

ShouldNotify(previous, next) ==
  /\ next.status = "success"
  /\ previous.trace = next.trace
  /\ Incomplete(previous)

\* shouldKeepCurrentRun
KeepCurrent(current, next) ==
  IF current.trace = next.trace
  THEN ~Incomplete(current) /\ Incomplete(next)
  ELSE current.at > next.at

\* reconcileSessionRuns: an answer is a function on the sessions it names.
Answered(known, answer, replace) ==
  [s \in Sessions |-> IF s \in DOMAIN answer THEN answer[s]
                      ELSE IF replace THEN NoRun ELSE known[s]]
AnswerCompletes(known, answer) ==
  {answer[s].trace : s \in {t \in DOMAIN answer : ShouldNotify(known[t], answer[t])}}

\* liveSessionRuns: the views with a trace.  reconcileTrackedSessionRuns merges them.
Live(v) == {s \in Sessions : v[s].trace # 0 /\ v[s].status # "idle"}
Wins(known, v) == {s \in Live(v) : ~KeepCurrent(known[s], v[s])}
Merged(known, v) == [s \in Sessions |-> IF s \in Wins(known, v) THEN v[s] ELSE known[s]]
LiveCompletes(known, v) ==
  {v[s].trace : s \in {t \in Wins(known, v) : ShouldNotify(known[t], v[t])}}

\* emitCompletions: each run at most once a time.
Emit(done) ==
  announced' = [k \in Traces |-> IF k \in done /\ announced[k] < MaxAnnounced
                                 THEN announced[k] + 1 ELSE announced[k]]

\* What is known becomes known, merged with the views v; done was completed before.
Commit(known, v, done) ==
  /\ sessions' = Merged(known, v)
  /\ hot' = {s \in Sessions : Incomplete(sessions'[s])}
  /\ Emit(done \cup LiveCompletes(known, v))

\* persist: nothing is saved before the first connection has set the scope.
Persist == saved' = IF connectionEpoch' # 0 THEN sessions' ELSE saved

-----------------------------------------------------------------------------
(* Requests and the timer *)

Current(epoch) == connected /\ connectionEpoch = epoch

Request(epoch, kind, ids) ==
  [epoch |-> epoch, kind |-> kind, ids |-> ids, read |-> FALSE, answer |-> <<>>]
Ask(epoch, kind, ids) == asks' = Append(asks, Request(epoch, kind, ids))

\* Mutant of Reconcile: a request in flight is not waited for.
Reconcile_Overlaps(epoch) ==
  /\ pendingReconcileEpoch' = 0 /\ inFlight' = TRUE
  /\ Ask(epoch, "recent", {})

\* reconcileRecentSessions
Reconcile(epoch) ==
  IF inFlight
  THEN pendingReconcileEpoch' = epoch /\ UNCHANGED <<inFlight, asks>>
  ELSE /\ pendingReconcileEpoch' = 0 /\ inFlight' = TRUE
       /\ Ask(epoch, "recent", {})

\* scheduleNextPoll
NextTimer == IF connected THEN connectionEpoch ELSE 0

\* pollTrackedSessions finds no request in flight and something to ask.
TimerFires ==
  /\ timer # 0
  /\ \/ hot = {} /\ Reconcile(timer) /\ timer' = 0
     \/ /\ hot # {} /\ ~inFlight
        /\ inFlight' = TRUE /\ Ask(timer, "hot", hot)
        /\ timer' = 0 /\ UNCHANGED pendingReconcileEpoch
     \/ /\ hot # {} /\ inFlight
        /\ timer' = NextTimer /\ UNCHANGED <<inFlight, asks, pendingReconcileEpoch>>
  /\ UNCHANGED <<bridge, phone, tracked, connected, connectionEpoch, visible, bounds>>

\* The sessions a query returns: those asked for, or the latest.
Returned(a) == IF a.kind = "hot" THEN a.ids ELSE Sessions \ crowded

\* ListRunStates reads the store.
BridgeReads(i) ==
  /\ i \in DOMAIN asks /\ ~asks[i].read
  /\ asks' = [asks EXCEPT ![i] =
                [epoch |-> @.epoch, kind |-> @.kind, ids |-> @.ids, read |-> TRUE,
                 answer |-> [s \in Returned(asks[i]) |-> store[s]]]]
  /\ UNCHANGED <<bridge, phone, tracked, connected, connectionEpoch, inFlight,
                 pendingReconcileEpoch, timer, visible, bounds>>

Without(i) == SubSeq(asks, 1, i - 1) \o SubSeq(asks, i + 1, Len(asks))

\* Mutant of FinishRequest: what waits is forgotten.
FinishRequest_Forgets(i) ==
  /\ asks' = Without(i) /\ inFlight' = FALSE
  /\ timer' = IF Current(asks[i].epoch) THEN NextTimer ELSE timer
  /\ UNCHANGED pendingReconcileEpoch

\* finishRequest, which may send the reconciliation that waits.
FinishRequest(i) ==
  LET pending == pendingReconcileEpoch
  IN  IF pending # 0 /\ Current(pending)
      THEN /\ asks' = Append(Without(i), Request(pending, "recent", {}))
           /\ inFlight' = TRUE /\ pendingReconcileEpoch' = 0 /\ UNCHANGED timer
      ELSE /\ asks' = Without(i) /\ inFlight' = FALSE
           /\ timer' = IF Current(asks[i].epoch) THEN NextTimer ELSE timer
           /\ UNCHANGED pendingReconcileEpoch

\* An answer of the current connection is committed, with the views; one of an
\* older connection is dropped.
Answer(i) ==
  /\ i \in DOMAIN asks /\ asks[i].read
  /\ FinishRequest(i)
  /\ IF Current(asks[i].epoch)
     THEN /\ Commit(Answered(sessions, asks[i].answer, asks[i].kind = "recent"), view,
                    AnswerCompletes(sessions, asks[i].answer))
          /\ saved' = sessions'
     ELSE UNCHANGED tracked
  /\ UNCHANGED <<bridge, phone, connected, connectionEpoch, visible, bounds>>

\* A request fails or times out.
RequestFails(i) ==
  /\ i \in DOMAIN asks
  /\ FinishRequest(i)
  /\ Fault
  /\ UNCHANGED <<bridge, phone, tracked, connected, connectionEpoch, visible>>

-----------------------------------------------------------------------------
(* connect, disconnect, setVisible, and restarts of the application *)

\* connect first disconnects: two epochs.  It loads what is saved.
Connect ==
  /\ ~connected
  /\ connected' = TRUE /\ connectionEpoch' = connectionEpoch + 2 /\ timer' = 0
  /\ Commit(saved, view, {}) /\ Persist
  /\ Reconcile(connectionEpoch')
  /\ UNCHANGED <<bridge, phone, visible, bounds>>

Disconnect ==
  /\ connected
  /\ connected' = FALSE /\ connectionEpoch' = connectionEpoch + 1
  /\ pendingReconcileEpoch' = 0 /\ timer' = 0
  /\ Fault
  /\ UNCHANGED <<bridge, phone, tracked, inFlight, visible, asks>>

Hide ==
  /\ visible /\ visible' = FALSE
  /\ timer' = NextTimer
  /\ Fault
  /\ UNCHANGED <<bridge, phone, tracked, connected, connectionEpoch, inFlight,
                 pendingReconcileEpoch, asks>>

Show ==
  /\ ~visible /\ visible' = TRUE
  /\ IF connected
     THEN Reconcile(connectionEpoch) /\ UNCHANGED timer
     ELSE timer' = NextTimer /\ UNCHANGED <<inFlight, pendingReconcileEpoch, asks>>
  /\ UNCHANGED <<bridge, phone, tracked, connected, connectionEpoch, bounds>>

\* Nothing is left but local storage, and the views have no run.
Restart ==
  /\ Fault
  /\ view' = [s \in Sessions |-> NoRun] /\ reading' = [s \in Sessions |-> {}]
  /\ told' = {} /\ stopping' = [s \in Sessions |-> {}] /\ stops' = {}
  /\ connected' = FALSE /\ connectionEpoch' = 0 /\ inFlight' = FALSE
  /\ pendingReconcileEpoch' = 0 /\ timer' = 0 /\ visible' = TRUE /\ asks' = <<>>
  /\ sessions' = [s \in Sessions |-> NoRun] /\ hot' = {}
  /\ UNCHANGED <<bridge, saved, announced>>

-----------------------------------------------------------------------------
(* Runs at the bridge *)

\* A change of s makes it the latest session.
BridgeStep(s) ==
  /\ now' = now + 1 /\ crowded' = crowded \ {s}
  /\ UNCHANGED <<tracked, conn, bounds>>

Busy(s) == store[s].status = "running"

\* The run of a message begins, or one that another client asked for.
Begins(s) ==
  /\ ~Busy(s) /\ BridgeStep(s)
  /\ \/ \E k \in queued[s] :
          /\ store' = [store EXCEPT ![s] = Run(k, "running", now')]
          /\ queued' = [queued EXCEPT ![s] = @ \ {k}] /\ UNCHANGED runs
     \/ /\ runs + taps < MaxRuns /\ runs' = runs + 1
        /\ store' = [store EXCEPT ![s] = Run(runs', "running", now')]
        /\ UNCHANGED queued
  /\ UNCHANGED <<outcome, phone>>

\* A message to a session that is running is turned away.
Refuses(s) ==
  /\ Busy(s)
  /\ \E k \in queued[s] :
       /\ queued' = [queued EXCEPT ![s] = @ \ {k}]
       /\ outcome' = [outcome EXCEPT ![k] = "refused"]
  /\ UNCHANGED <<store, now, runs, crowded, phone, tracked, conn, bounds>>

\* ProjectSessionRunState stores the end before the stream carries it.
Ends(s, st) ==
  /\ Busy(s) /\ BridgeStep(s)
  /\ store' = [store EXCEPT ![s].status = st, ![s].at = now']
  /\ outcome' = [outcome EXCEPT ![store[s].trace] = st]
  /\ UNCHANGED <<runs, queued, phone>>

Proceeds(p, phase) == stops' = (stops \ {p}) \cup {[p EXCEPT !.phase = phase]}

\* executeAgentStopAction cancels the session's run, if it has one, and waits for its end.
BridgeStops(p) ==
  /\ p \in stops /\ p.phase = "asked"
  /\ IF Busy(p.session)
     THEN stops' = (stops \ {p}) \cup {[p EXCEPT !.phase = "waiting", !.run = store[p.session].trace]}
     ELSE Proceeds(p, "not_running")
  /\ UNCHANGED <<bridge, view, reading, told, stopping, tracked, conn, bounds>>

\* persistCancelledRun records the run as cancelled however it ended, and whatever the
\* session has run since.
BridgeRecords(p) ==
  LET s == p.session
  IN  /\ p \in stops /\ p.phase = "waiting" /\ outcome[p.run] # "none"
      /\ BridgeStep(s)
      /\ store' = [store EXCEPT ![s] = Run(p.run, "cancelled", now')]
      /\ Proceeds(p, "stopped")
      /\ UNCHANGED <<runs, outcome, queued, view, reading, told, stopping>>

\* Other sessions are used.
Crowd(s) ==
  /\ s \notin crowded /\ crowded' = crowded \cup {s}
  /\ Fault
  /\ UNCHANGED <<store, now, runs, outcome, queued, phone, tracked, conn>>

-----------------------------------------------------------------------------
(* The views: each change reaches the tracker by updateLiveSessionRuns *)

Shows(s, r) ==
  /\ view' = [view EXCEPT ![s] = r]
  /\ Commit(sessions, view', {})
  /\ timer' = NextTimer
  /\ UNCHANGED <<connected, connectionEpoch, inFlight, pendingReconcileEpoch, visible, asks>>
  /\ Persist

\* sendMessage; a view keeps its time.
Send(s) ==
  /\ view[s].status # "running"
  /\ runs + taps < MaxRuns /\ runs' = runs + 1
  /\ Shows(s, Run(runs', "running", IF view[s].at = 0 THEN now ELSE view[s].at))
  /\ reading' = [reading EXCEPT ![s] = @ \cup {runs'}]
  /\ queued' = [queued EXCEPT ![s] = @ \cup {runs'}]
  /\ UNCHANGED <<store, now, outcome, crowded, told, stopping, stops, bounds>>

\* runKeys: the session's own key, here 0, and the run's.
Keys(k) == {0, k}
\* isRunStopping
IsStopping(s, k) == stopping[s] \cap Keys(k) # {}

\* onStatus while the stream goes on; it may lag behind the run.
StreamStatus(s, k) ==
  /\ k \in reading[s] \ (told \cup queued[s]) /\ outcome[k] # "refused"
  /\ view[s] # Run(k, "running", now)
  /\ Shows(s, Run(k, "running", now))
  /\ UNCHANGED <<bridge, reading, told, stopping, stops, bounds>>

\* The last status of a stream: a question to the user is a success, and so is a
\* cancellation that normalizeRunStatus takes for the user's own.
LastStatus(s, k) ==
  CASE outcome[k] \in {"success", "awaiting_human"} -> "success"
    [] outcome[k] = "cancelled" /\ IsStopping(s, k) -> "success"
    [] OTHER -> "error"

\* The last status is shown in the session on screen before the call returns.
StreamTells(s, k) ==
  /\ k \in reading[s] \ told /\ outcome[k] # "none"
  /\ told' = told \cup {k}
  /\ Shows(s, Run(k, LastStatus(s, k), now))
  /\ UNCHANGED <<bridge, reading, stopping, stops, bounds>>

\* clearStoppingRun when the call of sendMessage returns.
Closes(s, k) ==
  /\ reading' = [reading EXCEPT ![s] = @ \ {k}] /\ told' = told \ {k}
  /\ stopping' = [stopping EXCEPT ![s] = @ \ Keys(k)]
  /\ UNCHANGED <<bridge, stops, bounds>>

\* The call returns: an end shows its status.  A question shows in the session on screen
\* only, by commitFinalReply, which keeps the trace the view has by then.
StreamEnds(s, k) ==
  /\ k \in reading[s] /\ outcome[k] # "none"
  /\ Closes(s, k)
  /\ \/ outcome[k] # "awaiting_human" /\ Shows(s, Run(k, LastStatus(s, k), now))
     \/ /\ outcome[k] = "awaiting_human"
        /\ Shows(s, Run(IF k \in told THEN view[s].trace ELSE k, "success", now))
     \/ outcome[k] = "awaiting_human" /\ UNCHANGED <<view, tracked, conn>>

\* The stream breaks: "the task still runs", or an error.
StreamBreaks(s, k) ==
  /\ k \in reading[s]
  /\ Closes(s, k)
  /\ \E st \in {"running", "error"} : Shows(s, Run(k, st, now))

\* stopCurrentRun, of whatever run the view shows.
StopRun(s) ==
  LET k == view[s].trace
  IN  /\ view[s].status = "running" /\ ~IsStopping(s, k)
      /\ stopping' = [stopping EXCEPT ![s] = @ \cup Keys(k)]
      /\ stops' = stops \cup {[session |-> s, trace |-> k, run |-> 0, phase |-> "asked"]}
      /\ Shows(s, view[s]) /\ Tap
      /\ UNCHANGED <<bridge, reading, told>>

\* applyStoppedRun; after a stop, and not without one, syncStoppedSession follows.
StopAnswered(p) ==
  /\ p \in stops /\ p.phase \in {"stopped", "not_running"}
  /\ Shows(p.session, Run(0, "success", now))
  /\ IF p.phase = "stopped" THEN Proceeds(p, "syncing") ELSE stops' = stops \ {p}
  /\ UNCHANGED <<bridge, reading, told, stopping, bounds>>

StopSynced(p) ==
  /\ p \in stops /\ p.phase = "syncing"
  /\ stops' = stops \ {p}
  /\ \/ Shows(p.session, Run(0, "success", store[p.session].at))
     \/ Shows(p.session, Run(0, "error", now))
     \/ UNCHANGED <<view, tracked, conn>>
  /\ UNCHANGED <<bridge, reading, told, stopping, bounds>>

\* A failed stop, and no other, takes its keys back.
StopFails(p) ==
  /\ p \in stops /\ p.phase # "syncing"
  /\ stops' = stops \ {p}
  /\ stopping' = [stopping EXCEPT ![p.session] = @ \ Keys(p.trace)]
  /\ Shows(p.session, view[p.session])
  /\ UNCHANGED <<bridge, reading, told, bounds>>

\* What a session's detail shows: the draft of a run outlives its question or error,
\* both drafts of an unfinished run show as running, and a cancelled run may leave one.
Detail(s) ==
  LET r == store[s]
      none == Run(0, "success", r.at)
  IN  CASE r.status \in {"running", "awaiting_human"} -> {Run(r.trace, "running", r.at)}
        [] r.status = "cancelled" -> {Run(r.trace, st, r.at) : st \in {"running", "error"}} \cup {none}
        [] r.status = "error" -> {r}
        [] OTHER -> {none}

\* selectSession: a view that is not running is loaded anew.
Opens(s) ==
  /\ view[s].status # "running"
  /\ Tap /\ Shows(s, Run(0, "running", now))
  /\ UNCHANGED <<bridge, reading, told, stopping, stops>>

\* commitSessionDetail: the session on screen is synchronised, and polled while it runs
\* elsewhere; a view that runs by its own stream is read anew only when the user selects
\* the session or returns to it.
ShowHistory(s) ==
  /\ \/ (view[s].status # "running" \/ view[s].trace \notin reading[s]) /\ UNCHANGED bounds
     \/ Tap
  /\ \E r \in Detail(s) : view[s] # r /\ Shows(s, r)
  /\ UNCHANGED <<bridge, reading, told, stopping, stops>>

-----------------------------------------------------------------------------
Tracker ==
  \/ TimerFires
  \/ \E i \in DOMAIN asks : BridgeReads(i) \/ Answer(i)

Next ==
  \/ Tracker
  \/ \E i \in DOMAIN asks : RequestFails(i)
  \/ Connect \/ Disconnect \/ Hide \/ Show \/ Restart
  \/ \E s \in Sessions :
       \/ Begins(s) \/ Refuses(s) \/ Crowd(s)
       \/ \E st \in {"success", "error", "cancelled", "awaiting_human"} : Ends(s, st)
       \/ Send(s) \/ StopRun(s) \/ Opens(s) \/ ShowHistory(s)
       \/ \E k \in reading[s] :
            StreamStatus(s, k) \/ StreamTells(s, k) \/ StreamEnds(s, k) \/ StreamBreaks(s, k)
  \/ \E p \in stops :
       BridgeStops(p) \/ BridgeRecords(p) \/ StopAnswered(p) \/ StopSynced(p) \/ StopFails(p)

Spec == Init /\ [][Next]_vars

\* The tracker does not stop for good while a timer is due or a request is under way.
FairSpec == Spec /\ WF_vars(Tracker)

-----------------------------------------------------------------------------
(* Properties *)

\* At most one request is under way, and inFlight says so.
OneRequest ==
  Len(asks) = IF inFlight THEN 1 ELSE 0

\* While connected the tracker never falls silent: its timer is set, or the request
\* under way is one whose end sets it or sends the reconciliation that waits.
PollsGoOn ==
  connected =>
    \/ timer = connectionEpoch
    \/ /\ inFlight
       /\ \/ pendingReconcileEpoch = connectionEpoch
          \/ \E i \in DOMAIN asks : asks[i].epoch = connectionEpoch

\* No run is announced twice.
NotifiedOnce == \A k \in Traces : announced[k] < 2

\* The answer was read before k began and would replace it.
Outdated(a, s, k) ==
  a.read /\ IF s \in DOMAIN a.answer THEN a.answer[s].trace # k ELSE a.kind = "recent"

\* The tracker has saved k as unfinished, and at the bridge it has succeeded.
Due(s, k) ==
  /\ saved[s].trace = k /\ Incomplete(saved[s])
  /\ store[s].trace = k /\ store[s].status = "success"
  /\ \A i \in DOMAIN asks : ~Outdated(asks[i], s, k)

=============================================================================
