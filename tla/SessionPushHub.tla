--------------------------- MODULE SessionPushHub ---------------------------
(***************************************************************************)
(* How the events of agent turns reach HTTP streams: the session push hub   *)
(* (orchestration/internal/trace/session_push.go), the turns that publish   *)
(* on it, one at a time per session (run_registry.go), and the handlers of  *)
(* GET /api/runs/{trace}/events, by which a client that lost its stream     *)
(* takes it up again after the last event it has seen.                      *)
(*                                                                          *)
(* A turn is known by its trace id.  Its goroutine publishes its events one *)
(* after the other; the n-th is [n, kind].  A step is what the code does    *)
(* under h.mu or the registry's mutex, or one channel operation.            *)
(***************************************************************************)
EXTENDS Naturals, Sequences

CONSTANTS
  Turns,       \* trace identifiers
  Sessions,
  SessionOf,   \* the session of each turn
  Streams,     \* requests for an event stream
  Cap,         \* capacity of a subscriber's channel (16 in the code)
  MaxDeltas,   \* bound on the events a turn publishes before it ends
  MaxCloses,   \* bound on Close
  Nil

ASSUME HubAssumption ==
  /\ SessionOf \in [Turns -> Sessions]
  /\ Cap \in Nat \ {0} /\ MaxDeltas \in Nat /\ MaxCloses \in Nat
  /\ Nil \notin Turns /\ Nil \notin Sessions

VARIABLES
  up,        \* FALSE once a goroutine has panicked, and the process with it
  inflight,  \* RunRegistry.bySessionID: session -> turn or Nil
  turn,      \* the turns' goroutines
  subs,      \* h.subscribers: session -> the streams whose channels it holds
  replay,    \* h.replaysByTrace: turn -> sequence of events, or Nil
  traceOf,   \* h.traceBySession: session -> turn or Nil
  chan,      \* stream -> its channel: how many events wait in it, and if it is open
  st,        \* the streams' handlers
  hist,      \* turn -> every event it has published
  closes

hub == <<subs, replay, traceOf, chan>>
vars == <<up, inflight, turn, hub, st, hist, closes>>

-----------------------------------------------------------------------------
(* Events *)

\* "delta" goes to a resumed stream, "end" too and closes it (done, error,
\* awaiting_human), "note" does not (assistant_message).
Event == [n : Nat, kind : {"delta", "end", "note"}]
ASSUME NilAssumption == Nil \notin Seq(Event)
Shown(e) == e.kind # "note"
Visible(es) ==
  LET upto[i \in 0..Len(es)] ==
        IF i = 0 THEN <<>>
        ELSE IF Shown(es[i]) THEN Append(upto[i - 1], es[i]) ELSE upto[i - 1]
  IN  upto[Len(es)]

Events(t) == IF replay[t] = Nil THEN <<>> ELSE replay[t]

\* Mutants of After: the event itself is sent again, or all of them.
After_Again(es, last) ==
  IF \E i \in DOMAIN es : es[i].n = last
  THEN SubSeq(es, CHOOSE i \in DOMAIN es : es[i].n = last, Len(es))
  ELSE es
After_All(es, last) == es

\* replayEventsAfter: what follows the event numbered last; all of it when that is
\* not among them.
After(es, last) ==
  IF \E i \in DOMAIN es : es[i].n = last
  THEN SubSeq(es, 1 + (CHOOSE i \in DOMAIN es : es[i].n = last), Len(es))
  ELSE es

\* writeResumedAgentEvents stops after the first event that ends the stream.
Ends(es) == \E i \in DOMAIN es : es[i].kind = "end"
Sent(es) ==
  IF Ends(es)
  THEN SubSeq(es, 1, CHOOSE i \in DOMAIN es :
                       es[i].kind = "end" /\ \A j \in 1..(i - 1) : es[j].kind # "end")
  ELSE es

\* Mutant of Deliver: one event less fits in the channel.
Deliver_Short(b) == IF b + 1 < Cap THEN b + 1 ELSE b

\* A send that does not block: a full channel drops the event.
Deliver(b) == IF b < Cap THEN b + 1 ELSE b

-----------------------------------------------------------------------------
IdleTurn == [pc |-> "new", sent |-> 0, todo |-> {}, cancelled |-> FALSE]
IdleStream == [pc |-> "idle", turn |-> Nil, sess |-> Nil, base |-> 0, last |-> 0,
               out |-> <<>>, pend |-> <<>>]

Init ==
  /\ up = TRUE
  /\ inflight = [s \in Sessions |-> Nil]
  /\ turn = [t \in Turns |-> IdleTurn]
  /\ subs = [s \in Sessions |-> {}]
  /\ replay = [t \in Turns |-> Nil]
  /\ traceOf = [s \in Sessions |-> Nil]
  /\ chan = [x \in Streams |-> [wait |-> 0, open |-> FALSE]]
  /\ st = [x \in Streams |-> IdleStream]
  /\ hist = [t \in Turns |-> <<>>]
  /\ closes = 0

-----------------------------------------------------------------------------
(* Publish *)

\* Mutant of Forgotten: the replays of earlier turns stay.
Forgotten_None(s) == {}

\* recordReplayLocked drops the replay of the session's previous trace.
Forgotten(s) == {traceOf[s]}

\* Under h.mu: the event is recorded, the subscribers are copied.  pc is where the
\* turn goes on once it has sent the event to each of them.
Publish(t, kind, pc) ==
  LET s == SessionOf[t]
      e == [n |-> turn[t].sent + 1, kind |-> kind]
  IN  /\ replay' = [u \in Turns |->
                      IF u = t THEN IF traceOf[s] = t THEN Append(Events(t), e) ELSE <<e>>
                      ELSE IF traceOf[s] # t /\ u \in Forgotten(s) THEN Nil
                      ELSE replay[u]]
      /\ traceOf' = [traceOf EXCEPT ![s] = t]
      /\ hist' = [hist EXCEPT ![t] = Append(@, e)]
      /\ turn' = [turn EXCEPT ![t].pc = pc, ![t].sent = @ + 1, ![t].todo = subs[s]]
      /\ UNCHANGED <<up, subs, chan, st, closes>>

\* After h.mu: the event is sent to a channel of the copy ...
Send(t, x) ==
  /\ up /\ x \in turn[t].todo
  /\ chan[x].open
  /\ chan' = [chan EXCEPT ![x].wait = Deliver(@)]
  /\ turn' = [turn EXCEPT ![t].todo = @ \ {x}]
  /\ UNCHANGED <<up, inflight, subs, replay, traceOf, st, hist, closes>>

\* ... which has been closed meanwhile.  Nothing recovers the turn's goroutine.
SendOnClosed(t, x) ==
  /\ up /\ x \in turn[t].todo
  /\ ~chan[x].open
  /\ up' = FALSE
  /\ UNCHANGED <<inflight, turn, hub, st, hist, closes>>

-----------------------------------------------------------------------------
(* Turns *)

\* The turn's goroutine is at pc, not in Publish.
At(t, pc) == up /\ turn[t].pc = pc /\ turn[t].todo = {}
Goto(t, pc) ==
  /\ turn' = [turn EXCEPT ![t].pc = pc]
  /\ UNCHANGED <<up, hub, st, hist, closes>>

\* Mutant of Free: what the check of the request saw is relied on at Register too.
Free_Checked(t) == turn[t].pc = "ready" \/ inflight[SessionOf[t]] = Nil

\* No turn is registered for the session.
Free(t) == inflight[SessionOf[t]] = Nil

\* Prepare: ensureSessionNotInflight, or the request is refused and no stream made.
Prepare(t) == At(t, "new") /\ Goto(t, IF Free(t) THEN "ready" ELSE "over")
              /\ UNCHANGED inflight

\* RegisterSessionRun ...
Register(t) ==
  /\ At(t, "ready") /\ Free(t)
  /\ inflight' = [inflight EXCEPT ![SessionOf[t]] = t]
  /\ Goto(t, "running")

\* ... fails if another turn was quicker, and so may what precedes it: the stream's
\* error event, of a turn that never held the session.
Reject(t) ==
  /\ At(t, "ready")
  /\ Publish(t, "end", "over")
  /\ UNCHANGED inflight

\* A cancelled turn publishes nothing more of its own: the sinks refuse its context.
\* (An event that had passed them is published as if before the cancellation.)
Going(t) == At(t, "running") /\ ~turn[t].cancelled

Emit(t) ==
  /\ Going(t) /\ turn[t].sent < MaxDeltas
  /\ Publish(t, "delta", "running")
  /\ UNCHANGED inflight

\* The terminal event: done, or an error.
Finish(t) ==
  /\ Going(t)
  /\ \E pc \in {"done", "failed"} : Publish(t, "end", pc)
  /\ UNCHANGED inflight

\* The turn asks a human, or its setup fails after Register: the event comes later.
Pause(t) == Going(t) /\ Goto(t, "awaiting") /\ UNCHANGED inflight
\* It ends because it was cancelled: no event.
Cut(t) == At(t, "running") /\ turn[t].cancelled /\ Goto(t, "failed") /\ UNCHANGED inflight

\* CommitTurn fails: an error event, and no question.
CommitFails(t) ==
  /\ turn[t].pc \in {"failed", "awaiting"} /\ At(t, turn[t].pc)
  /\ Publish(t, "end", "broken")
  /\ UNCHANGED inflight

\* CancelAndWait, by session or trace, up to its wait.
Cancel(t) ==
  /\ up /\ inflight[SessionOf[t]] = t /\ ~turn[t].cancelled
  /\ turn' = [turn EXCEPT ![t].cancelled = TRUE]
  /\ UNCHANGED <<up, inflight, hub, st, hist, closes>>

\* turn.Close: the session is free for another turn ...
Unregister(t) ==
  /\ turn[t].pc \in {"done", "failed", "awaiting", "broken"} /\ At(t, turn[t].pc)
  /\ inflight' = [inflight EXCEPT ![SessionOf[t]] = Nil]
  /\ Goto(t, CASE turn[t].pc = "done" -> "message"
               [] turn[t].pc = "awaiting" -> "question"
               [] OTHER -> "over")

\* ... and then this one publishes its message (an error if Finalize fails) or its
\* question.
PublishLate(t) ==
  /\ \/ At(t, "message") /\ \E kind \in {"note", "end"} : Publish(t, kind, "over")
     \/ At(t, "question") /\ Publish(t, "end", "over")
  /\ UNCHANGED inflight

-----------------------------------------------------------------------------
(* Streams *)

Opened(x, s) ==
  /\ up /\ st[x].pc = "idle"
  /\ subs' = [subs EXCEPT ![s] = @ \cup {x}]
  /\ chan' = [chan EXCEPT ![x].open = TRUE]
  /\ UNCHANGED <<up, inflight, turn, replay, traceOf, hist, closes>>

\* SubscribeTrace, for a client whose Last-Event-ID is event last of the turn: 0 for
\* none; the direct stream may have shown it an event not yet published.
OpenRun(x, t, last) ==
  /\ replay[t] # Nil
  /\ Opened(x, SessionOf[t])
  /\ st' = [st EXCEPT ![x] =
              [@ EXCEPT !.pc = "writing", !.turn = t, !.sess = SessionOf[t],
                        !.base = IF last <= Len(hist[t]) THEN last ELSE 0,
                        !.last = last, !.pend = After(replay[t], last)]]

\* Subscribe, for a stream of the session's live events only.
OpenSession(x, s) ==
  /\ Opened(x, s)
  /\ st' = [st EXCEPT ![x] = [@ EXCEPT !.pc = "draining", !.sess = s]]

Only(x, fields) ==
  /\ up
  /\ st' = [st EXCEPT ![x] = fields]
  /\ UNCHANGED <<up, inflight, turn, subs, replay, traceOf, hist, closes>>

\* writeResumedAgentEvents of all that is pending, or of the first events until the
\* client is found gone.
WriteAs(x, es, pc) ==
  Only(x, [st[x] EXCEPT !.pc = pc, !.pend = <<>>,
             !.last = IF Visible(es) = <<>> THEN @ ELSE Visible(es)[Len(Visible(es))].n,
             !.out = @ \o Visible(es)])
  /\ UNCHANGED chan
Write(x) ==
  /\ st[x].pc = "writing"
  /\ WriteAs(x, Sent(st[x].pend), IF Ends(st[x].pend) THEN "leaving" ELSE "waiting")
WriteBreaks(x, k) ==
  /\ st[x].pc = "writing"
  /\ WriteAs(x, SubSeq(Sent(st[x].pend), 1, k), "leaving")

\* An event in the channel only wakes the handler, which reads the replay again.
Wake(x) ==
  /\ st[x].pc = "waiting" /\ chan[x].wait > 0
  /\ chan' = [chan EXCEPT ![x].wait = @ - 1]
  /\ Only(x, [st[x] EXCEPT !.pc = "reading"])
Reread(x) ==
  /\ st[x].pc = "reading"
  /\ Only(x, [st[x] EXCEPT !.pc = "writing",
                           !.pend = After(Events(st[x].turn), st[x].last)])
  /\ UNCHANGED chan

\* The handler of a session's live events writes what it receives.
Drain(x) ==
  /\ st[x].pc = "draining" /\ chan[x].wait > 0
  /\ chan' = [chan EXCEPT ![x].wait = @ - 1]
  /\ Only(x, st[x])

\* The channel is closed and empty, or the request's context is done.
ChannelClosed(x) ==
  /\ st[x].pc \in {"waiting", "draining"}
  /\ ~chan[x].open /\ chan[x].wait = 0
  /\ Only(x, [st[x] EXCEPT !.pc = "leaving"])
  /\ UNCHANGED chan
Disconnect(x) ==
  /\ st[x].pc \in {"waiting", "draining"}
  /\ Only(x, [st[x] EXCEPT !.pc = "leaving"])
  /\ UNCHANGED chan

\* unsubscribe, deferred by the handler.
Leave(x) ==
  /\ up /\ st[x].pc = "leaving"
  /\ LET s == st[x].sess
     IN  /\ subs' = [subs EXCEPT ![s] = @ \ {x}]
         /\ chan' = IF x \in subs[s] THEN [chan EXCEPT ![x].open = FALSE] ELSE chan
  /\ st' = [st EXCEPT ![x].pc = "gone"]
  /\ UNCHANGED <<up, inflight, turn, replay, traceOf, hist, closes>>

\* Close, when the bridge shuts down.
Close ==
  /\ up /\ closes < MaxCloses
  /\ closes' = closes + 1
  /\ chan' = [x \in Streams |-> IF \E s \in Sessions : x \in subs[s]
                                THEN [chan[x] EXCEPT !.open = FALSE] ELSE chan[x]]
  /\ subs' = [s \in Sessions |-> {}]
  /\ replay' = [t \in Turns |-> Nil]
  /\ traceOf' = [s \in Sessions |-> Nil]
  /\ UNCHANGED <<up, inflight, turn, st, hist>>

-----------------------------------------------------------------------------
TurnStep(t) ==
  \/ Prepare(t) \/ Register(t) \/ Reject(t) \/ Emit(t) \/ Finish(t) \/ Pause(t)
  \/ Cut(t) \/ CommitFails(t) \/ Unregister(t) \/ PublishLate(t)
  \/ \E x \in Streams : Send(t, x) \/ SendOnClosed(t, x)

StreamStep(x) ==
  \/ \E t \in Turns : \E last \in 0..(turn[t].sent + 1) : OpenRun(x, t, last)
  \/ \E s \in Sessions : OpenSession(x, s)
  \/ Write(x) \/ Wake(x) \/ Reread(x) \/ Drain(x) \/ ChannelClosed(x)
  \/ Disconnect(x) \/ Leave(x)
  \/ \E k \in 0..Len(Sent(st[x].pend)) : WriteBreaks(x, k)

Next ==
  \/ \E t \in Turns : TurnStep(t) \/ Cancel(t)
  \/ \E x \in Streams : StreamStep(x)
  \/ Close

Spec == Init /\ [][Next]_vars

-----------------------------------------------------------------------------
(* Properties *)

\* What a resumed stream owes its client: the turn's events after the one it
\* resumes from, up to the first that ends the stream.
Owed(x) ==
  LET t == st[x].turn
  IN  Sent(Visible(SubSeq(hist[t], st[x].base + 1, Len(hist[t]))))
Prefix(es, fs) == Len(es) <= Len(fs) /\ es = SubSeq(fs, 1, Len(es))
Resumed(x) == st[x].turn # Nil

\* Nothing else was published on the turn's session, and the hub is open.
Alone(t) ==
  /\ closes = 0
  /\ \A u \in Turns \ {t} : SessionOf[u] = SessionOf[t] => hist[u] = <<>>

\* "returns events emitted after lastEventID. This closes the replay/live-event race
\* during reconnects" (session_push.go:95): a resumed stream shows its client the
\* events it owes it, in their order, none left out and none twice, wherever the
\* subscription falls among the turn's publications, and whatever is dropped.  It does
\* so as long as no other turn publishes on the session: an event of another one, also
\* of a turn that was refused or has ended, deletes the replay (Forgotten).
NoGapAlone ==
  \A x \in Streams :
    Resumed(x) /\ Alone(st[x].turn) => Prefix(st[x].out, Owed(x))

\* A dropped notification strands no stream: one that waits with an empty channel,
\* and that no Publish still has to notify, has shown all it owes.
NoLostTail ==
  \A x \in Streams :
    /\ Resumed(x) /\ st[x].pc = "waiting"
    /\ chan[x].open /\ chan[x].wait = 0
    /\ Alone(st[x].turn)
    /\ \A t \in Turns : x \notin turn[t].todo
    => st[x].out = Owed(x) /\ ~Ends(st[x].out)

\* Whatever the other turns of the session do to the replay, a stream never shows
\* an event again or out of order.
NoRepeat ==
  \A x \in Streams : \A i, j \in DOMAIN st[x].out :
    i < j => st[x].out[i].n < st[x].out[j].n

\* A turn holds its session from Register to Unregister, so that a session runs one
\* turn at a time, though requests check it well before they take it.
Holding == {"running", "done", "failed", "awaiting", "broken"}
RunsAlone == \A t \in Turns : turn[t].pc \in Holding => inflight[SessionOf[t]] = t

\* The hub keeps the events of one turn per session (session_push_replay_test.go:52).
OneReplay ==
  \A t, u \in Turns :
    SessionOf[t] = SessionOf[u] /\ replay[t] # Nil /\ replay[u] # Nil => t = u

\* The hub broadcasts to long-lived subscribers (session_push.go:38): one that leaves,
\* or a hub that closes, does not take the publisher down with it.
PublishSurvives == up
=============================================================================
