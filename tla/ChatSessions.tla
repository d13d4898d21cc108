---------------------------- MODULE ChatSessions ----------------------------
(***************************************************************************)
(* The chats of one page of the web application: which session is in view, *)
(* which runs the page believes to be running and where, and what each     *)
(* chat shows, while turns stream, are stopped, resolve the session of a   *)
(* new chat, end in the background, and are recovered after a visit.       *)
(*                                                                         *)
(* JavaScript runs one continuation at a time: an action is what happens   *)
(* from one await to the next, with the microtasks it leaves.  What a chat *)
(* shows is abstracted to the turns its messages are of; ChatTimeline has  *)
(* the messages.  A session is read at the moment its answer arrives: that *)
(* an answer may be out of date by then is left out, and so are the        *)
(* historySyncing spinner, errors, older history and the codex runtime.    *)
(***************************************************************************)
EXTENDS FiniteSetsExt, Naturals

CONSTANTS Sessions,     \* ids the bridge may give to sessions
          New,          \* the key of the chat that has no session yet: ''
          Existing,     \* the sessions that exist when the page is loaded
          MaxTurns,     \* turns and answers, this page's and other clients'
          MaxOthers,    \* those of other clients
          MaxStops,     \* clicks on stop
          MaxVisits,    \* clicks on a session or on "new chat"
          MaxDeletes,   \* deletions of a session
          MaxFaults,    \* streams that break, stop calls that fail
          MaxUsed       \* all of these but the turns of this page together

ASSUME SessionsAssumption == New \notin Sessions /\ Existing \subseteq Sessions

ASSUME BoundsAssumption ==
    /\ MaxTurns \in Nat
    /\ {MaxOthers, MaxStops, MaxVisits, MaxDeletes, MaxFaults, MaxUsed} \subseteq Nat

VARIABLES
    bridge,    \* the sessions there are, and the turns with their session and state
    page,      \* the page's chats and its mutable references
    streams,   \* the streams of the turns this page sent
    ops,       \* its calls in flight
    used,      \* how much of each bound is used
    hasty      \* history: the user sent a message while an earlier run of the chat was
               \* still to be cleared, left a chat while its run was being stopped,
               \* deleted a session that ran, or opened a new one before its first event

vars == <<bridge, page, streams, ops, used, hasty>>

Keys == Sessions \cup {New}
Traces == 1..MaxTurns

(* A run as the page knows it: the trace of the turn, and whether the page *)
(* reads the stream of a turn it sent or recovers one from the session's   *)
(* events.  Its session id is the key it is filed under.                   *)
NoRun == [trace |-> 0, direct |-> FALSE]
DirectRun(t) == [trace |-> t, direct |-> TRUE]
RecoveredRun(t) == [trace |-> t, direct |-> FALSE]

InitialChat ==
    [there |-> TRUE, loading |-> FALSE, activeRun |-> NoRun, historyLoading |-> FALSE,
     asked |-> FALSE, streaming |-> FALSE, turns |-> {}]

NoChat == [InitialChat EXCEPT !.there = FALSE]

NotRecovering == [trace |-> 0, live |-> FALSE, before |-> {}]

-----------------------------------------------------------------------------
(* The bridge, as far as the page can tell.                                *)

TurnsOf(s) == {t \in Traces : bridge.session[t] = s /\ bridge.turn[t] \notin {"none", "refused"}}
Running(s) == {t \in TurnsOf(s) : bridge.turn[t] = "running"}
Ended(s) == {t \in TurnsOf(s) : bridge.turn[t] \in {"asked", "answered", "done"}}
LastTurn(s) == IF TurnsOf(s) = {} THEN 0 ELSE Max(TurnsOf(s))
LastState(s) == IF TurnsOf(s) = {} THEN "none" ELSE bridge.turn[LastTurn(s)]

(* A turn leaves its draft when it asks and when it is stopped.            *)
HasDraft(s) == LastState(s) \in {"running", "asked", "stopped"}

NextTrace == 1 + Cardinality({t \in Traces : bridge.turn[t] # "none"})

(* A session runs one turn at a time; a turn for a session that is gone or *)
(* busy is refused.  One that waits for an answer may be refused or go on. *)
Accepted(s) ==
    IF bridge.sessions[s] = "gone" \/ Running(s) # {} THEN {"refused"}
    ELSE IF LastState(s) = "asked" THEN {"running", "refused"} ELSE {"running"}

-----------------------------------------------------------------------------
(* The page's state, one operator per function of the code.  there: the    *)
(* reducer has an entry for the key.                                       *)

SetLoading(p, k, value) ==
    [p EXCEPT !.chats[k].there = TRUE, !.chats[k].loading = value]

SetHistoryLoading(p, k, value) ==
    [p EXCEPT !.chats[k].there = TRUE, !.chats[k].historyLoading = value]

SetActiveRun(p, k, run) ==
    [p EXCEPT !.runs[k] = run, !.chats[k].there = TRUE, !.chats[k].activeRun = run]

SetStopPending(p, k, value) ==
    [p EXCEPT !.stops[k] = value, !.chats[k].there = TRUE]

MigrateSessionState_StateOnly(p, from, to) ==
    IF to = New \/ from = to \/ ~p.chats[from].there THEN p
    ELSE [p EXCEPT !.chats = [k \in Keys |-> IF k = to THEN p.chats[from]
                                             ELSE IF k = from THEN NoChat ELSE p.chats[k]]]

MigrateSessionState(p, from, to) ==
    IF to = New \/ from = to THEN p
    ELSE [p EXCEPT
           !.runs = [k \in Keys |-> IF k = to /\ p.runs[from] # NoRun THEN p.runs[from]
                                    ELSE IF k = from THEN NoRun ELSE p.runs[k]],
           !.stops = [k \in Keys |-> k # from /\ (p.stops[k] \/ (k = to /\ p.stops[from]))],
           !.chats = IF ~p.chats[from].there THEN p.chats
                     ELSE [k \in Keys |-> IF k = to THEN p.chats[from]
                                          ELSE IF k = from THEN NoChat ELSE p.chats[k]]]

(* The first entry with the trace: that of the new chat is the older one.  *)
ResolveActiveRunSessionId(p, t, fallback) ==
    LET found == {k \in Keys : p.runs[k].trace = t}
    IN  IF found = {} THEN fallback ELSE IF New \in found THEN New ELSE CHOOSE k \in found : TRUE

ClearMessages(p, k) ==
    [p EXCEPT !.chats[k].there = TRUE, !.chats[k].turns = {}, !.chats[k].asked = FALSE,
              !.chats[k].streaming = FALSE]

BeginRun(p, k, t) ==
    LET begun == SetLoading(SetActiveRun(SetStopPending(p, k, FALSE), k, DirectRun(t)), k, TRUE)
    IN  [begun EXCEPT !.chats[k].streaming = FALSE, !.chats[k].turns = @ \cup {t}]

EndRun(p, k) == SetStopPending(SetActiveRun(SetLoading(p, k, FALSE), k, NoRun), k, FALSE)

FinishRun_View(p, t) == EndRun(p, p.view)
FinishRun_Origin(p, t) == EndRun(p, streams[t].origin)

(* finishAgentRun and finishQuestionResponse.                              *)
FinishRun(p, t) == EndRun(p, ResolveActiveRunSessionId(p, t, streams[t].origin))

StopRecoveredRun(p, s) == [p EXCEPT !.recovering[s] = NotRecovering]

HydrateTurnDraft(p, s) ==
    [p EXCEPT !.chats[s].there = TRUE, !.chats[s].asked = LastState(s) = "asked",
              !.chats[s].streaming = HasDraft(s)]

(* A draft that still streams makes the session one that runs again, fed   *)
(* by its events once the page has subscribed to them.                     *)
RecoverTurnDraft(p, s) ==
    LET hydrated == HydrateTurnDraft(StopRecoveredRun(p, s), s)
        idle == EndRun(hydrated, s)
        run == RecoveredRun(LastTurn(s))
    IN  IF LastState(s) # "running" THEN idle
        ELSE [SetActiveRun(SetLoading(idle, s, TRUE), s, run) EXCEPT
               !.recovering[s] = [trace |-> run.trace, live |-> FALSE, before |-> {}]]

HydrateSessionHistory(p, s) ==
    RecoverTurnDraft([p EXCEPT !.chats[s].turns = TurnsOf(s)], s)

SyncRecentHistory(p, s) ==
    HydrateTurnDraft([p EXCEPT !.chats[s].turns = @ \cup TurnsOf(s)], s)

(* The first event of a turn tells the session; a new chat in view becomes *)
(* that session's.                                                         *)
ApplySessionResolution(p, t) ==
    LET s == bridge.session[t]
        previous == streams[t].key
        migrated == MigrateSessionState(p, previous, s)
    IN  IF previous = s THEN p
        ELSE IF previous = New /\ p.view = New THEN [migrated EXCEPT !.view = s] ELSE migrated

ShouldLoadSessionHistory(p, s) ==
    LET chat == p.chats[s]
    IN  ~chat.loading /\ chat.activeRun = NoRun /\ ~chat.historyLoading /\ ~chat.asked /\ ~chat.streaming

Op(kind, k, run) == [kind |-> kind, key |-> k, run |-> run]

(* Something will still clear the run of the chat, whichever it is by then. *)
Unsettled(k) ==
    \/ \E op \in ops : op.kind # "sync" /\ op.key \in {k, New}
    \/ k \in Sessions /\ page.recovering[k].trace # 0

Stopping == \E op \in ops : op.kind \in {"stop", "stopped"}

-----------------------------------------------------------------------------
Init ==
    /\ bridge = [sessions |-> [s \in Sessions |-> IF s \in Existing THEN "live" ELSE "free"],
                 session |-> [t \in Traces |-> New],
                 turn |-> [t \in Traces |-> "none"]]
    /\ page = [view |-> New,
               chats |-> [k \in Keys |-> NoChat],
               runs |-> [k \in Keys |-> NoRun],
               stops |-> [k \in Keys |-> FALSE],
               recovering |-> [s \in Sessions |-> NotRecovering],
               background |-> {}]
    /\ streams = [t \in Traces |-> [state |-> "none", key |-> New, origin |-> New, marks |-> FALSE]]
    /\ ops = {}
    /\ used = [others |-> 0, stops |-> 0, visits |-> 0, deletes |-> 0, faults |-> 0]
    /\ hasty = FALSE

Use(bound, max) ==
    /\ used[bound] < max
    /\ used.others + used.stops + used.visits + used.deletes + used.faults < MaxUsed
    /\ used' = [used EXCEPT ![bound] = @ + 1]

(* The bridge takes or refuses the turn; its session is that of the chat,  *)
(* or a new one.                                                           *)
BridgeTakes(t, s, state) ==
    bridge' = [bridge EXCEPT !.sessions[s] = IF @ = "free" THEN "live" ELSE @,
                             !.session[t] = s, !.turn[t] = state]

OpenStream(t, k, marks) ==
    streams' = [streams EXCEPT ![t] = [state |-> "open", key |-> k, origin |-> k, marks |-> marks]]

(* The composer: beginAgentRun, then the request for the stream.  Which id *)
(* a new session gets makes no difference.                                 *)
Fresh == {s \in Sessions : bridge.sessions[s] = "free"}

Send ==
    LET t == NextTrace
        k == page.view
        chat == page.chats[k]
        s == IF k = New THEN CHOOSE fresh \in Fresh : TRUE ELSE k
    IN  /\ t \in Traces
        /\ ~chat.loading /\ ~chat.historyLoading /\ ~chat.asked
        /\ k = New => Fresh # {}
        /\ \E state \in IF k = New THEN {"running"} ELSE Accepted(s) : BridgeTakes(t, s, state)
        /\ page' = BeginRun(page, k, t)
        /\ OpenStream(t, k, TRUE)
        /\ hasty' = (hasty \/ Unsettled(k))
        /\ UNCHANGED <<ops, used>>

(* executeQuestionResponse.  hasPendingQuestionInSession is that of the    *)
(* render before the answer, so an answered turn is never marked as one    *)
(* that ended in the background.                                           *)
Answer ==
    LET t == NextTrace
        k == page.view
    IN  /\ t \in Traces
        /\ k \in Sessions /\ page.chats[k].asked /\ ~page.chats[k].loading
        /\ bridge' = [bridge EXCEPT
                       !.session[t] = k,
                       !.turn = [u \in Traces |->
                                  IF u = t THEN IF LastState(k) = "asked" THEN "running" ELSE "refused"
                                  ELSE IF u = LastTurn(k) /\ @[u] = "asked" THEN "answered" ELSE @[u]]]
        /\ page' = [BeginRun(page, k, t) EXCEPT !.chats[k].asked = FALSE]
        /\ OpenStream(t, k, FALSE)
        /\ hasty' = (hasty \/ Unsettled(k))
        /\ UNCHANGED <<ops, used>>

(* Another client starts a turn in a session.                              *)
OtherTurn ==
    LET t == NextTrace
    IN  /\ t \in Traces
        /\ \E s \in Sessions :
             bridge.sessions[s] = "live" /\ Running(s) = {} /\ BridgeTakes(t, s, "running")
        /\ Use("others", MaxOthers)
        /\ UNCHANGED <<page, streams, ops, hasty>>

TurnEnds(t) ==
    /\ bridge.turn[t] = "running"
    /\ \E state \in {"asked", "done"} : bridge' = [bridge EXCEPT !.turn[t] = state]
    /\ UNCHANGED <<page, streams, ops, used, hasty>>

(* An event that does not end the stream.                                  *)
Shows(p, k, t) ==
    [p EXCEPT !.chats[k].there = TRUE, !.chats[k].streaming = TRUE, !.chats[k].turns = @ \cup {t}]

StreamEvent_View(t) ==
    LET s == bridge.session[t]
    IN  /\ streams[t].state = "open" /\ bridge.turn[t] # "refused"
        /\ page' = Shows(ApplySessionResolution(page, t), page.view, t)
        /\ streams' = [streams EXCEPT ![t].key = s]
        /\ UNCHANGED <<bridge, ops, used, hasty>>

StreamEvent(t) ==
    LET s == bridge.session[t]
    IN  /\ streams[t].state = "open" /\ bridge.turn[t] # "refused"
        /\ page' = Shows(ApplySessionResolution(page, t), s, t)
        /\ streams' = [streams EXCEPT ![t].key = s]
        /\ UNCHANGED <<bridge, ops, used, hasty>>

MarkCompleted_InView(p, t, terminal) ==
    LET s == bridge.session[t]
        marked == terminal = "done" /\ streams[t].marks /\ (streams[t].origin # New \/ p.view # New)
    IN  IF marked THEN [p EXCEPT !.background = @ \cup {s}] ELSE p

(* shouldMarkBackgroundCompleted and markBackgroundCompletionIfNeeded.     *)
MarkCompleted(p, t, terminal) ==
    LET s == bridge.session[t]
        marked == /\ terminal = "done" /\ streams[t].marks /\ p.view # s
                  /\ streams[t].origin # New \/ p.view # New
    IN  IF marked THEN [p EXCEPT !.background = @ \cup {s}] ELSE p

(* The last events and the end of a stream: the page asks for the history  *)
(* in the background, marks the session and finishes the run.              *)
EndStream(t) ==
    LET s == bridge.session[t]
        terminal == IF bridge.turn[t] = "done" THEN "done" ELSE "awaiting_human"
        last == [Shows(ApplySessionResolution(page, t), s, t) EXCEPT
                  !.chats[s].asked = @ \/ terminal = "awaiting_human",
                  !.chats[s].streaming = terminal = "awaiting_human"]
    IN  /\ streams[t].state = "open" /\ bridge.turn[t] \in {"asked", "answered", "done"}
        /\ page' = FinishRun(MarkCompleted(last, t, terminal), t)
        /\ streams' = [streams EXCEPT ![t].key = s, ![t].state = "closed"]
        /\ ops' = ops \cup {Op("sync", s, DirectRun(t))}
        /\ UNCHANGED <<bridge, used, hasty>>

(* A new chat's run that ends before its first event leaves its message in *)
(* the new chat.                                                           *)
Closed(t) == IF streams[t].key = New THEN "lost" ELSE "closed"

(* The stream breaks, or the bridge refused the turn.                      *)
FailStream(t) ==
    /\ streams[t].state = "open"
    /\ \/ bridge.turn[t] \in {"refused", "stopped"} /\ UNCHANGED used
       \/ Use("faults", MaxFaults)
    /\ page' = FinishRun(page, t)
    /\ streams' = [streams EXCEPT ![t].state = Closed(t)]
    /\ ops' = IF streams[t].key = New THEN ops
              ELSE ops \cup {Op("sync", streams[t].key, DirectRun(t))}
    /\ UNCHANGED <<bridge, hasty>>

-----------------------------------------------------------------------------
(* Stopping a run: the call, then the history, then the run is cleared.    *)
Stop ==
    LET k == page.view
    IN  /\ page.chats[k].loading /\ page.chats[k].activeRun # NoRun
        /\ page.runs[k] # NoRun /\ ~page.stops[k]
        /\ page' = SetStopPending(page, k, TRUE)
        /\ ops' = ops \cup {Op("stop", k, page.runs[k])}
        /\ Use("stops", MaxStops)
        /\ UNCHANGED <<bridge, streams, hasty>>

(* The abort fails the stream in the microtasks that follow.               *)
Aborts(run, k) == run.direct /\ streams[run.trace].state = "open"

Abort(p, run, k) ==
    IF Aborts(run, k) THEN FinishRun(p, run.trace)
    ELSE IF k \in Sessions /\ p.recovering[k].trace = run.trace /\ ~run.direct
    THEN StopRecoveredRun(p, k) ELSE p

AbortedStreams(run, k) ==
    IF Aborts(run, k) THEN [streams EXCEPT ![run.trace].state = Closed(run.trace)] ELSE streams

(* By session, or by trace when the run has none: what the bridge does not *)
(* find running is a success without a session id.                         *)
StopReplies(op) ==
    IF op.key # New
    THEN {[target |-> op.key, stopped |-> Running(op.key)]}
    ELSE {[target |-> New, stopped |-> {}]}
         \cup {[target |-> bridge.session[t], stopped |-> {t}] :
                 t \in {u \in Traces : u = op.run.trace /\ bridge.turn[u] = "running"}}

FinishStoppedRun(p, op) == EndRun(p, op.key)

StopReturns(op) ==
    /\ op \in ops /\ op.kind = "stop"
    /\ \E reply \in StopReplies(op) :
         LET target == reply.target
             migrated == MigrateSessionState(page, op.key, target)
             viewed == IF target = New THEN migrated ELSE [migrated EXCEPT !.view = target]
             aborted == Abort(viewed, op.run, op.key)
         IN  /\ bridge' = [bridge EXCEPT !.turn = [t \in Traces |-> IF t \in reply.stopped THEN "stopped" ELSE @[t]]]
             /\ page' = IF target = New THEN FinishStoppedRun(aborted, Op("stopped", New, op.run))
                        ELSE aborted
             /\ ops' = (ops \ {op}) \cup IF target = New THEN {} ELSE {Op("stopped", target, op.run)}
    /\ streams' = AbortedStreams(op.run, op.key)
    /\ UNCHANGED <<used, hasty>>

StopFails(op) ==
    /\ op \in ops /\ op.kind = "stop"
    /\ page' = SetStopPending(page, op.key, FALSE)
    /\ ops' = ops \ {op}
    /\ Use("faults", MaxFaults)
    /\ UNCHANGED <<bridge, streams, hasty>>

(* Answers to history requests; with ok = FALSE they fail.                 *)
Synced(p, s, ok) == IF ok /\ bridge.sessions[s] # "gone" THEN SyncRecentHistory(p, s) ELSE p

StopSynced(op, ok) ==
    /\ op \in ops /\ op.kind = "stopped"
    /\ page' = FinishStoppedRun(Synced(page, op.key, ok), op)
    /\ ops' = ops \ {op}
    /\ UNCHANGED <<bridge, streams, used, hasty>>

SyncReturns(op, ok) ==
    /\ op \in ops /\ op.kind = "sync"
    /\ page' = Synced(page, op.key, ok)
    /\ ops' = ops \ {op}
    /\ UNCHANGED <<bridge, streams, used, hasty>>

-----------------------------------------------------------------------------
(* Visits.                                                                 *)
SelectSession(s) ==
    LET seen == [page EXCEPT !.view = s, !.background = @ \ {s}]
        loads == ShouldLoadSessionHistory(page, s)
    IN  /\ bridge.sessions[s] = "live"
        /\ page' = IF loads THEN SetHistoryLoading(StopRecoveredRun(seen, s), s, TRUE) ELSE seen
        /\ ops' = IF loads THEN ops \cup {Op("load", s, NoRun)} ELSE ops
        /\ Use("visits", MaxVisits)
        /\ hasty' = \/ hasty \/ Stopping
                    \/ \E t \in TurnsOf(s) : streams[t].state = "open" /\ streams[t].key = New
        /\ UNCHANGED <<bridge, streams>>

LoadReturns(op) ==
    /\ op \in ops /\ op.kind = "load" /\ bridge.sessions[op.key] # "gone"
    /\ page' = SetHistoryLoading(HydrateSessionHistory(page, op.key), op.key, FALSE)
    /\ ops' = ops \ {op}
    /\ UNCHANGED <<bridge, streams, used, hasty>>

LoadFails(op) ==
    /\ op \in ops /\ op.kind = "load"
    /\ page' = SetHistoryLoading(ClearMessages(page, op.key), op.key, FALSE)
    /\ ops' = ops \ {op}
    /\ UNCHANGED <<bridge, streams, used, hasty>>

(* The session's events reach the page from the time it is subscribed.     *)
Subscribe(s) ==
    /\ page.recovering[s].trace # 0 /\ ~page.recovering[s].live
    /\ page' = [page EXCEPT !.recovering[s].live = TRUE, !.recovering[s].before = Ended(s)]
    /\ UNCHANGED <<bridge, streams, ops, used, hasty>>

(* The last event of a turn: stop reading and ask for the history.         *)
RecoveredEnds(s) ==
    /\ page.recovering[s].live /\ Ended(s) \ page.recovering[s].before # {}
    /\ page' = StopRecoveredRun(page, s)
    /\ ops' = ops \cup {Op("recovered", s, NoRun)}
    /\ UNCHANGED <<bridge, streams, used, hasty>>

RecoveredFails(s) ==
    /\ page.recovering[s].trace # 0
    /\ page' = SetLoading(SetActiveRun(StopRecoveredRun(page, s), s, NoRun), s, FALSE)
    /\ Use("faults", MaxFaults)
    /\ UNCHANGED <<bridge, streams, ops, hasty>>

RecoveredSynced(op, ok) ==
    /\ op \in ops /\ op.kind = "recovered"
    /\ page' = EndRun(Synced(page, op.key, ok), op.key)
    /\ ops' = ops \ {op}
    /\ UNCHANGED <<bridge, streams, used, hasty>>

NewChat ==
    /\ page' = ClearMessages([page EXCEPT !.view = New], New)
    /\ Use("visits", MaxVisits)
    /\ hasty' = (hasty \/ Stopping)
    /\ UNCHANGED <<bridge, streams, ops>>

(* A session is deleted: the call, then the chat is dropped, whether or    *)
(* not the bridge deleted the session, and the run in it aborted.  Which   *)
(* session was in view at the click decides if the new chat is cleared.    *)
DropSessionState(p, s) ==
    LET run == p.runs[s]
        dropped == [p EXCEPT !.runs[s] = NoRun, !.stops[s] = FALSE, !.chats[s] = NoChat,
                             !.background = @ \ {s}]
    IN  Abort(dropped, run, s)

DeleteKinds == {"delete", "delete_viewed"}

DeleteSession(s) ==
    /\ bridge.sessions[s] = "live"
    /\ ops' = ops \cup {Op(IF page.view = s THEN "delete_viewed" ELSE "delete", s, NoRun)}
    /\ Use("deletes", MaxDeletes)
    /\ UNCHANGED <<bridge, page, streams, hasty>>

DeleteReturns(op, ok) ==
    LET s == op.key
        run == page.runs[s]
        dropped == DropSessionState(IF ok /\ page.view = s THEN [page EXCEPT !.view = New] ELSE page, s)
    IN  /\ op \in ops /\ op.kind \in DeleteKinds
        /\ bridge' = IF ok THEN [bridge EXCEPT !.sessions[s] = "gone"] ELSE bridge
        /\ page' = IF op.kind = "delete_viewed" THEN ClearMessages(dropped, New) ELSE dropped
        /\ streams' = AbortedStreams(run, s)
        /\ ops' = ops \ {op}
        /\ hasty' = (hasty \/ run # NoRun \/ Stopping)
        /\ UNCHANGED used

-----------------------------------------------------------------------------
StreamStep(t) == StreamEvent(t) \/ EndStream(t) \/ FailStream(t)

Returns(op) ==
    \/ StopReturns(op) \/ StopFails(op) \/ LoadReturns(op) \/ LoadFails(op)
    \/ \E ok \in BOOLEAN :
         \/ StopSynced(op, ok) \/ SyncReturns(op, ok) \/ RecoveredSynced(op, ok)
         \/ DeleteReturns(op, ok)

Visit(s) ==
    \/ SelectSession(s) \/ DeleteSession(s)
    \/ Subscribe(s) \/ RecoveredEnds(s) \/ RecoveredFails(s)

Next ==
    \/ Send \/ Answer \/ OtherTurn \/ Stop \/ NewChat
    \/ \E t \in Traces : TurnEnds(t) \/ StreamStep(t)
    \/ \E op \in ops : Returns(op)
    \/ \E s \in Sessions : Visit(s)

(* Turns end, and streams deliver what was sent and then end.              *)
Spec ==
    /\ Init /\ [][Next]_vars
    /\ \A t \in Traces : WF_vars(TurnEnds(t) \/ EndStream(t) \/ FailStream(t))

-----------------------------------------------------------------------------
(* Properties.                                                             *)

Run == {NoRun} \cup [trace: Traces, direct: BOOLEAN]

Chat == [there: BOOLEAN, loading: BOOLEAN, activeRun: Run, historyLoading: BOOLEAN,
         asked: BOOLEAN, streaming: BOOLEAN, turns: SUBSET Traces]

Page == [view: Keys, chats: [Keys -> Chat], runs: [Keys -> Run], stops: [Keys -> BOOLEAN],
         recovering: [Sessions -> [trace: 0..MaxTurns, live: BOOLEAN, before: SUBSET Traces]],
         background: SUBSET Keys]

TypeOK ==
    /\ bridge \in [sessions: [Sessions -> {"free", "live", "gone"}], session: [Traces -> Keys],
                   turn: [Traces -> {"none", "running", "asked", "answered", "done", "stopped",
                                     "refused"}]]
    /\ page \in Page
    /\ streams \in [Traces -> [state: {"none", "open", "closed", "lost"}, key: Keys, origin: Keys,
                               marks: BOOLEAN]]
    /\ ops \subseteq [kind: {"load", "recovered", "stop", "stopped", "sync"} \cup DeleteKinds,
                     key: Keys, run: Run]
    /\ hasty \in BOOLEAN

(* A chat shows that it is busy exactly when it shows a run, and the run   *)
(* it shows is the one that the mutable reference has, so that it can be   *)
(* stopped: the reducer's state and the references never drift apart.      *)
RunsAgree ==
    \A k \in Keys :
      /\ page.chats[k].loading <=> page.chats[k].activeRun # NoRun
      /\ page.chats[k].activeRun # NoRun => page.runs[k] = page.chats[k].activeRun

(* A chat shows the turns of its session only, however visits, deletions,  *)
(* first events, failures and other clients' turns are interleaved, while  *)
(* the user is not hasty: does not send before the chat has settled, leave *)
(* it while its run is being stopped, or open a session before its first   *)
(* event.  A failed first message stays in the new chat and goes where the *)
(* next one goes.                                                          *)
ChatsApart ==
    ~hasty => \A s \in Sessions : \A t \in page.chats[s].turns :
                bridge.session[t] = s \/ streams[t].state = "lost"

(* While a turn that the page sent runs and streams, the chat where it     *)
(* streams shows that it runs, and can stop it.                            *)
RunShown ==
    ~hasty => \A t \in Traces : streams[t].state = "open" /\ bridge.turn[t] = "running" =>
                page.chats[streams[t].key].activeRun.trace = t

(* The session in view is not marked as one that ended in the background,  *)
(* while the user is not hasty: a new chat's session that is opened before *)
(* its first event, and ends there, is left out by name.                   *)
SeenIsUnmarked == ~hasty => page.view \notin page.background

(* No chat waits for a turn whose end has passed.  A run the page sent has *)
(* its stream open; a run that it recovers still runs, or its last event   *)
(* is on its way to the page, or a call that clears the run is.  Left out, *)
(* by name, is the run whose end came before the page had subscribed to    *)
(* the session's events: nothing but another click clears that one.        *)
Recovers(k, run) == k \in Sessions /\ ~run.direct /\ page.recovering[k].trace = run.trace

EndMissed(k, run) ==
    /\ Recovers(k, run) /\ run.trace \in Ended(k)
    /\ ~page.recovering[k].live \/ run.trace \in page.recovering[k].before

EndComes(k, run) ==
    \/ run.direct /\ streams[run.trace].state = "open"
    \/ ~run.direct /\ \E op \in ops : op.kind \in {"recovered", "stopped"} /\ op.key = k
    \/ /\ Recovers(k, run)
       /\ \/ bridge.turn[run.trace] = "running"
          \/ page.recovering[k].live /\ run.trace \in Ended(k) \ page.recovering[k].before

RunsEnd ==
    ~hasty => \A k \in Keys :
                LET run == page.chats[k].activeRun
                IN  run # NoRun /\ ~EndMissed(k, run) => EndComes(k, run)
=============================================================================
