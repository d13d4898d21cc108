---------------------------- MODULE ChatTimeline ----------------------------
(***************************************************************************)
(* One session of the web chat: the bridge runs its turns, keeps a draft   *)
(* of the turn that runs and the history of those that ended; the page     *)
(* shows the committed messages and what streams, fed by the stream of the *)
(* turn it sent, by the session's events after a reload, and by answers to *)
(* history requests that arrive at any time and in any order.              *)
(*                                                                         *)
(* An event is emitted and handled in one step: streams deliver in order.  *)
(* The page's other state (loading, errors, stops) is in ChatSessions.     *)
(***************************************************************************)
EXTENDS ChatStream

CONSTANTS MaxTurns,     \* turns of the session
          MaxText,      \* pieces of assistant text, all turns together
          MaxThinking,  \* pieces of thinking
          MaxCalls,     \* tool calls
          MaxStreamed,  \* pieces of both kinds, calls and turns together
          MaxAsks,      \* questions to the user
          MaxSyncs,     \* history requests
          MaxReloads,   \* page loads after the first
          Sizes,        \* sizes of the pieces of text: 1 for long, 2 for short
          MayRepeat     \* whether a provider says a piece of a run again

ASSUME ChoicesAssumption == Sizes \subseteq {1, 2} /\ MayRepeat \in BOOLEAN

ASSUME BoundsAssumption ==
    {MaxTurns, MaxText, MaxThinking, MaxCalls, MaxStreamed, MaxAsks, MaxSyncs, MaxReloads} \subseteq Nat

VARIABLES
    bridge,   \* the server: the turn that runs, its draft and the history
    page,     \* the page: how its events arrive, its stream's runtime, the display, the buffer
    syncs,    \* history requests in flight
    used,     \* how much of each bound is used
    ghost     \* history: the unbuffered display, whether a provider repeated text or
              \* sent it after a call, whether it was misread, whether a reply disturbed
              \* a run, whether the page recovered one, whether the last reply was current

vars == <<bridge, page, syncs, used, ghost>>

-----------------------------------------------------------------------------
(* The bridge.  An LLM iteration streams thinking, text and tool calls;    *)
(* then its calls run, one after the other; the iteration without a call   *)
(* ends the turn.  The draft is that of the iteration.                     *)

NewIteration(b) ==
    [b EXCEPT !.phase = "llm", !.text = <<>>, !.thinking = <<>>, !.calls = <<>>, !.ended = 0,
              !.draft = EmptyStream, !.draftRuntime = ChatRuntime(b.run), !.drafting = TRUE]

NewRun(b, log) == NewIteration([b EXCEPT !.run = @ + 1, !.log = log])

InitBridge ==
    [phase |-> "idle", turn |-> 0, run |-> 0, history |-> <<>>, log |-> <<>>,
     text |-> <<>>, thinking |-> <<>>, calls |-> <<>>, ended |-> 0,
     drafting |-> FALSE, draft |-> EmptyStream, draftRuntime |-> ChatRuntime(0)]

(* The messages an iteration leaves in the session, as the page maps them. *)
IterationMessages(b) ==
    (IF b.thinking = <<>> THEN <<>> ELSE <<Message("thinking", <<>>, b.thinking, NoCall)>>)
    \o (IF b.text = <<>> THEN <<>> ELSE <<Message("assistant", <<>>, b.text, NoCall)>>)

AssistantText(messages) ==
    FoldLeft(LAMBDA acc, m : IF m.kind = "assistant" THEN acc \o m.body ELSE acc, <<>>, messages)

(* The text of the run: of its iterations so far, and of the one that streams. *)
Said(b) == AssistantText(b.log) \o b.text

HistoryMessages(history) ==
    [i \in DOMAIN history |-> [history[i] EXCEPT !.id = <<"history", i>>]]

(* The bridge projects the event into its draft by rules of its own that   *)
(* are the page's, without its trimming of text deltas.                    *)
WithDraft(b, out) ==
    [b EXCEPT !.draft = ApplyRuntimeActions([committed |-> <<>>, stream |-> @], out.actions).stream,
              !.draftRuntime = out.runtime]

Drafted(b, event) ==
    WithDraft(b, IF event.type = "text"
                 THEN Projected(b.draftRuntime, <<[type |-> "text", text |-> event.text]>>)
                 ELSE ProjectAgentEvent(b.draftRuntime, event))

-----------------------------------------------------------------------------
(* The page.  mode: idle; direct: it reads the stream of the turn it sent; *)
(* gap: it has loaded a draft and not subscribed yet; recovered: it reads  *)
(* the session's events.                                                   *)

Display(p) == ApplyRuntimeActions(p.chat, p.pending)

FlushedIf(now, out) == IF now THEN Flushed(out) ELSE out

(* The page projects an event and enqueues the actions; the last events of *)
(* a stream flush the buffer.                                              *)
IsTerminal(event) == event.type \in {"awaiting_human", "done", "message"}

WithOutput(p, runtime, out) ==
    [p EXCEPT !.runtime = runtime, !.chat = out.chat, !.pending = out.pending]

WithProjection(p, event, projected) ==
    WithOutput(p, projected.runtime,
               FlushedIf(IsTerminal(event),
                         Enqueue([chat |-> p.chat, pending |-> p.pending], projected.actions)))

Handled(p, event) == WithProjection(p, event, ProjectAgentEvent(p.runtime, event))

Listening == page.mode \in {"direct", "recovered"}

(* Events other than the last ones of a turn: project only, in both modes. *)
Shown(event) == page' = IF Listening THEN Handled(page, event) ELSE page

Unbuffered(event) ==
    IF Listening
    THEN ApplyRuntimeActions(ghost.display, ProjectAgentEvent(page.runtime, event).actions)
    ELSE ghost.display

(* Text that the provider sends again or after a call.                     *)
Irregular(event) ==
    event.type = "text" /\ (ToSet(event.text) \cap ToSet(Said(bridge)) # {} \/ bridge.calls # <<>>)

(* Text that the page takes for something else.  Alone: the run's only     *)
(* piece, or a long one, said twice running.  With all of the iteration's  *)
(* text, after that of other iterations: a piece said before, or the first *)
(* one after a short one.                                                  *)
Misleading(before, last, text) ==
    LET raw == before \o last
        piece == text[Len(text)]
    IN  IF Len(text) = 1
        THEN raw # <<>> /\ raw[Len(raw)] = piece /\ (Len(raw) = 1 \/ ~IsShort(piece))
        ELSE before # <<>> /\ (piece \in ToSet(raw) \/ (Len(last) = 1 /\ IsShort(last[1])))

Misread(event) ==
    event.type = "text" /\ Misleading(AssistantText(bridge.log), bridge.text, event.text)

Emit(event, b) ==
    /\ bridge' = Drafted(b, event)
    /\ Shown(event)
    /\ ghost' = [ghost EXCEPT !.display = Unbuffered(event),
                              !.irregular = @ \/ Irregular(event),
                              !.misread = @ \/ Misread(event)]
    /\ UNCHANGED syncs

MayStream == bridge.turn + used.text + used.thinking + used.calls < MaxStreamed

Count(kind) == used' = [used EXCEPT ![kind] = @ + 1]

Request(from) == [from |-> from, read |-> FALSE, ended |-> FALSE, page |-> <<>>,
                  drafting |-> FALSE, draft |-> EmptyStream]

-----------------------------------------------------------------------------
Init ==
    /\ bridge = InitBridge
    /\ page = [mode |-> "idle", runtime |-> ChatRuntime(0), chat |-> EmptyChat, pending |-> <<>>]
    /\ syncs = <<>>
    /\ used = [text |-> 0, thinking |-> 0, calls |-> 0, asks |-> 0, syncs |-> 0, reloads |-> 0]
    /\ ghost = [display |-> EmptyChat, irregular |-> FALSE, misread |-> FALSE, disturbed |-> FALSE,
                recovered |-> FALSE, current |-> TRUE]

(* The user sends a message; the page waits while a question is open.      *)
Send ==
    /\ bridge.phase = "idle" /\ page.mode = "idle"
    /\ bridge.turn < MaxTurns
    /\ page.chat.stream.questions = <<>>
    /\ LET turn == bridge.turn + 1
           user == UserMessage(turn, <<"local", turn>>)
           begun == [page.chat EXCEPT !.committed = Append(@, user),
                                      !.stream = ClearStreamingState(@)]
       IN  /\ bridge' = [NewRun(bridge, <<UserMessage(turn, <<>>)>>) EXCEPT !.turn = turn]
           /\ page' = [page EXCEPT !.mode = "direct", !.runtime = ChatRuntime(bridge.run + 1), !.chat = begun]
           /\ ghost' = [ghost EXCEPT !.display = begun, !.current = FALSE,
                                     !.disturbed = @ \/ syncs # <<>>]
    /\ UNCHANGED <<syncs, used>>

(* A new piece, or one of the run again.                                   *)
Pieces == {2 * used.text + size : size \in Sizes}
          \cup {piece \in 1 .. 2 * used.text : MayRepeat /\ piece \in ToSet(Said(bridge))}

(* A provider sends a piece alone, or with all text of the iteration so far. *)
StreamText(piece, cumulative) ==
    /\ bridge.phase = "llm" /\ used.text < MaxText /\ MayStream
    /\ piece \in Pieces
    /\ LET text == bridge.text \o <<piece>>
       IN  Emit([type |-> "text", text |-> IF cumulative THEN text ELSE <<piece>>],
                [bridge EXCEPT !.text = text])
    /\ Count("text")

StreamThinking ==
    /\ bridge.phase = "llm" /\ used.thinking < MaxThinking /\ MayStream
    /\ LET piece == <<used.thinking + 1>>
       IN  Emit([type |-> "thinking", text |-> piece], [bridge EXCEPT !.thinking = @ \o piece])
    /\ Count("thinking")

(* A call begins in the stream, which tells its id now or never.           *)
StreamCallStart(told) ==
    /\ bridge.phase = "llm" /\ used.calls < MaxCalls /\ MayStream /\ bridge.ended = 0
    /\ LET call == used.calls + 1
           b == [bridge EXCEPT !.calls = Append(@, call)]
       IN  Emit([type |-> "call_start", index |-> Len(bridge.calls),
                 call |-> IF told THEN call ELSE NoCall], b)
    /\ Count("calls")

(* endAll: the calls end, in their order, when the message is complete.    *)
StreamCallEnd ==
    /\ bridge.phase = "llm" /\ bridge.ended < Len(bridge.calls)
    /\ Emit([type |-> "call_end", index |-> bridge.ended, call |-> NoCall],
            [bridge EXCEPT !.ended = @ + 1])
    /\ UNCHANGED used

CallsToRun ==
    /\ bridge.phase = "llm" /\ bridge.calls # <<>> /\ bridge.ended = Len(bridge.calls)
    /\ bridge' = [bridge EXCEPT !.phase = "tools", !.log = @ \o IterationMessages(bridge),
                             !.text = <<>>, !.thinking = <<>>]
    /\ UNCHANGED <<page, syncs, used, ghost>>

ToolStarts ==
    /\ bridge.phase = "tools" /\ bridge.calls # <<>>
    /\ Emit([type |-> "tool_started", call |-> Head(bridge.calls)], [bridge EXCEPT !.phase = "running"])
    /\ UNCHANGED used

ToolFinishes ==
    /\ bridge.phase = "running"
    /\ LET call == Head(bridge.calls)
       IN  Emit([type |-> "tool_finished", call |-> call],
                [bridge EXCEPT !.phase = "tools", !.calls = Tail(@),
                               !.log = Append(@, Message("tool", <<>>, <<>>, call))])
    /\ UNCHANGED used

NextIteration ==
    /\ bridge.phase = "tools" /\ bridge.calls = <<>>
    /\ bridge' = NewIteration(bridge)
    /\ UNCHANGED <<page, syncs, used, ghost>>

(* The last events of a stream: the page flushes and asks for the history. *)
AskHistory(from, asked) ==
    /\ syncs' = IF asked THEN Append(syncs, Request(from)) ELSE syncs
    /\ used' = [used EXCEPT !.syncs = IF asked THEN @ + 1 ELSE @]

(* message and done: the turn is in the history and its draft is gone.  A  *)
(* page that recovered the turn does not project its message: it asks for  *)
(* the history and stops reading events.                                   *)
TurnEnds ==
    /\ bridge.phase = "llm" /\ bridge.calls = <<>>
    /\ bridge.text # <<>> \/ bridge.thinking # <<>>
    /\ Listening => used.syncs < MaxSyncs
    /\ LET message == [type |-> "message", text |-> bridge.text]
           done == [type |-> "done"]
       IN  /\ bridge' = [NewIteration(bridge) EXCEPT
                           !.phase = "idle", !.drafting = FALSE, !.log = <<>>,
                           !.history = @ \o bridge.log \o IterationMessages(bridge)]
           /\ page' = IF page.mode = "direct"
                      THEN [Handled(Handled(page, message), done) EXCEPT !.mode = "idle"]
                      ELSE IF page.mode = "recovered"
                      THEN [page EXCEPT !.mode = "idle", !.chat = Display(page), !.pending = <<>>]
                      ELSE page
           /\ ghost' = [ghost EXCEPT
                          !.current = FALSE,
                          !.display = IF page.mode = "direct"
                                      THEN ApplyRuntimeActions(Unbuffered(message),
                                             <<[type |-> "clear_thinking"]>>)
                                      ELSE @]
    /\ AskHistory(page.mode, Listening)

(* The running call asks the user: it has its result, the turn is in the   *)
(* history so far, the draft waits with its question and the stream ends.  *)
AskHuman ==
    /\ bridge.phase = "running" /\ used.asks < MaxAsks
    /\ Listening => used.syncs < MaxSyncs
    /\ LET finished == [type |-> "tool_finished", call |-> Head(bridge.calls)]
           asks == [type |-> "awaiting_human", question |-> used.asks + 1]
       IN  /\ bridge' = [Drafted(Drafted(bridge, finished), asks) EXCEPT
                           !.phase = "asked", !.history = @ \o bridge.log, !.log = <<>>]
           /\ page' = IF Listening
                      THEN [Handled(Handled(page, finished), asks) EXCEPT !.mode = "idle"]
                      ELSE page
           /\ ghost' = [ghost EXCEPT
                          !.current = FALSE,
                          !.display = IF Listening
                                      THEN ApplyRuntimeActions(@,
                                             ProjectAgentEvent(page.runtime, finished).actions
                                             \o ProjectAgentEvent(page.runtime, asks).actions)
                                      ELSE @]
    /\ syncs' = IF Listening THEN Append(syncs, Request(page.mode)) ELSE syncs
    /\ used' = [used EXCEPT !.asks = @ + 1, !.syncs = IF Listening THEN @ + 1 ELSE @]

(* The user answers; the bridge starts an iteration that has the answer in *)
(* its history and forgets the calls that had not run, and the page reads  *)
(* its stream with a new runtime.                                          *)
Answer ==
    /\ page.mode = "idle" /\ bridge.phase = "asked"
    /\ \E question \in ToSet(page.chat.stream.questions) :
         LET answer == Message("user", <<"answer", question>>, <<"answer", question>>, NoCall)
             begun == [committed |-> Append(page.chat.committed, answer),
                       stream |-> RemovePendingQuestion(ClearStreamingState(page.chat.stream), question)]
             asked == Message("question", <<>>, <<question>>, NoCall)
         IN  /\ question = used.asks
             /\ bridge' = NewRun(bridge, <<asked, answer>>)
             /\ page' = [page EXCEPT !.mode = "direct", !.runtime = ChatRuntime(bridge.run + 1), !.chat = begun]
             /\ ghost' = [ghost EXCEPT !.display = begun, !.current = FALSE,
                                       !.disturbed = @ \/ syncs # <<>> \/ ~ghost.current]
    /\ UNCHANGED <<syncs, used>>

(* The buffer's timer.                                                     *)
FlushTimer ==
    /\ page.pending # <<>>
    /\ page' = [page EXCEPT !.chat = Display(page), !.pending = <<>>]
    /\ UNCHANGED <<bridge, syncs, used, ghost>>

(* The bridge answers a history request with what it has now.              *)
ReadHistory ==
    \E i \in DOMAIN syncs :
      /\ ~syncs[i].read
      /\ syncs' = [syncs EXCEPT ![i].read = TRUE, ![i].ended = bridge.phase \in {"idle", "asked"},
                                ![i].page = HistoryMessages(bridge.history),
                                ![i].drafting = bridge.drafting, ![i].draft = bridge.draft]
      /\ UNCHANGED <<bridge, page, used, ghost>>

Hydrated(request, committed) ==
    IF request.drafting THEN HydrateTurnDraft(request.draft, committed) ELSE EmptyStream

(* syncRecentHistory merges and then hydrates; the sync that ends a        *)
(* recovered turn hydrates and then merges.                                *)
Synced(request, chat, merged) ==
    [committed |-> merged,
     stream |-> Hydrated(request, IF request.from = "recovered" THEN chat.committed ELSE merged)]

SyncHistory ==
    \E i \in DOMAIN syncs :
      LET request == syncs[i]
      IN  /\ request.read
          /\ syncs' = RemoveAt(syncs, i)
          /\ page' = [page EXCEPT !.chat =
                        Synced(request, @, MergeLatestCommitted(@.committed, request.page))]
          /\ ghost' = [ghost EXCEPT
                       !.display = Display(page'),
                       !.disturbed = @ \/ page.mode # "idle",
                       !.current = request.ended /\ Len(request.page) = Len(bridge.history)]
          /\ UNCHANGED <<bridge, used>>

SyncFails ==
    \E i \in DOMAIN syncs :
      /\ syncs' = RemoveAt(syncs, i)
      /\ UNCHANGED <<bridge, page, used, ghost>>

(* The page is loaded anew: history and draft, then, when the turn still   *)
(* streams, the session's events from the time the page subscribes.        *)
Reload ==
    /\ used.reloads < MaxReloads
    /\ LET committed == HistoryMessages(bridge.history)
           streaming == bridge.drafting /\ bridge.phase # "asked"
           chat == [committed |-> committed,
                    stream |-> IF bridge.drafting THEN HydrateTurnDraft(bridge.draft, committed)
                               ELSE EmptyStream]
       IN  /\ page' = [mode |-> IF streaming THEN "gap" ELSE "idle", chat |-> chat, pending |-> <<>>,
                       runtime |-> IF streaming THEN RuntimeFromDraft(bridge.draft, bridge.run)
                                   ELSE ChatRuntime(0)]
           /\ ghost' = [ghost EXCEPT !.display = chat, !.disturbed = FALSE, !.recovered = streaming,
                                     !.current = bridge.phase \in {"idle", "asked"}]
    /\ syncs' = <<>>
    /\ Count("reloads")
    /\ UNCHANGED bridge

Subscribe ==
    /\ page.mode = "gap"
    /\ page' = [page EXCEPT !.mode = "recovered"]
    /\ UNCHANGED <<bridge, syncs, used, ghost>>

BridgeStep ==
    \/ \E piece \in Pieces, cumulative \in BOOLEAN : StreamText(piece, cumulative)
    \/ StreamThinking
    \/ \E told \in BOOLEAN : StreamCallStart(told)
    \/ StreamCallEnd \/ CallsToRun \/ ToolStarts \/ ToolFinishes \/ NextIteration
    \/ TurnEnds \/ AskHuman

Next ==
    \/ Send \/ Answer \/ BridgeStep \/ FlushTimer
    \/ ReadHistory \/ SyncHistory \/ SyncFails \/ Reload \/ Subscribe

Spec == Init /\ [][Next]_vars

-----------------------------------------------------------------------------
(* Properties.  A run is undisturbed when no reply to a history request    *)
(* reached the page while it read a stream, and each run began after the   *)
(* replies to the requests of the run before.                              *)

(* The order of the stream's items names each segment, card and question   *)
(* once, and none that is not there: a row can neither be lost nor shown   *)
(* twice (streamingItemOrder against its four tables).                     *)
ItemsMatch ==
    LET stream == page.chat.stream
    IN  /\ IsInjective(stream.items)
        /\ ~ghost.disturbed =>
             ToSet(stream.items) =
               {<<"assistant", s.id>> : s \in ToSet(stream.assistant.segments)}
               \cup {<<"thinking", s.id>> : s \in ToSet(stream.thinking.segments)}
               \cup {<<"tool", t.id>> : t \in ToSet(stream.tools)}
               \cup {<<"question", q>> : q \in ToSet(stream.questions)}

(* What the buffer holds back is all that the display misses: whenever the *)
(* timer fires, and whatever actions pass the buffer, the display becomes  *)
(* the one that every action applied at once would have made.              *)
BufferExact == Display(page) = ghost.display

(* The page shows the text of the run it reads, each iteration once and in *)
(* order, whether the provider sends pieces or all of the text again, and  *)
(* also a short piece that it says twice.  The exceptions are named in     *)
(* Misleading: what is sent there looks like something else to the page.   *)
StreamedText(stream) == TextOf(stream.assistant.segments)

TextInOrder ==
    page.mode = "direct" /\ ~ghost.disturbed /\ ~ghost.misread =>
      StreamedText(Display(page).stream) = Said(bridge)

(* No piece of text is shown twice, committed and streamed, though history *)
(* and draft hold the same text when a question is open.  The draft keeps  *)
(* what a provider sends again, and is covered only up to the call that    *)
(* asks: irregular runs are left out.                                      *)
EachPieceOnce ==
    IsInjective(AssistantText(Display(page).committed) \o StreamedText(Display(page).stream))

TextOnce == ~ghost.disturbed /\ ~ghost.irregular /\ ~ghost.recovered => EachPieceOnce

(* The same of a page that has recovered a run from its draft.             *)
RecoveredTextOnce == ~ghost.disturbed /\ ~ghost.irregular => EachPieceOnce

(* Each call of the run has its card, made at its first event and found    *)
(* again by the later ones, whether its first event tells its id or not.   *)
OneCardPerCall ==
    page.mode = "direct" /\ ~ghost.disturbed =>
      LET tools == page.chat.stream.tools
          done == {m.call : m \in {l \in ToSet(bridge.log) : l.kind = "tool"}}
      IN  /\ Len(tools) = Len(bridge.calls) + Cardinality(done)
          /\ \A call \in done : Cardinality({t \in ToSet(tools) : t.call = call}) = 1

(* While a page reads the stream of the turn it sent, the card of one call *)
(* is never given to another.                                              *)
CardKeepsCall ==
    [][page.mode = "direct" /\ page'.mode = "direct" /\ ~ghost'.disturbed =>
         \A t \in ToSet(page.chat.stream.tools), u \in ToSet(page'.chat.stream.tools) :
           t.id = u.id /\ t.call # NoCall => u.call = t.call]_vars

(* When the turn has ended and the last history request was answered after *)
(* it, the page shows the history: nothing of the stream is left, nothing  *)
(* is missing, doubled or out of order.  Also after reloads, questions and *)
(* lost requests.  (Text that was misread stays, beside the history's.)    *)
SettlesOnHistory ==
    /\ page.mode = "idle" /\ bridge.phase = "idle" /\ syncs = <<>>
    /\ ghost.current /\ ~ghost.disturbed /\ ~ghost.misread
    => page.chat = [committed |-> HistoryMessages(bridge.history), stream |-> EmptyStream]
=============================================================================
