------------------------- MODULE ChatTimelineProofs -------------------------
(***************************************************************************)
(* BufferExact, ItemsMatch and TextInOrder, for every number of turns,     *)
(* pieces of text, calls, questions, history requests and page loads.      *)
(*                                                                         *)
(* TimelineInv is inductive: the bridge's draft, the drafts in answers     *)
(* under way and what the page shows are streams that list their rows, the *)
(* page's for as long as no reply disturbed it; the buffer holds at most   *)
(* one action, of text; and no question is open while the page reads.      *)
(* TextInv is inductive with it: an undisturbed page that reads a run has  *)
(* received, and shows, what the run has said.                             *)
(*                                                                         *)
(* CardInv is inductive with both, and gives OneCardPerCall and            *)
(* CardKeepsCall: such a page has one card for each call of the run, in    *)
(* their order, and the runtime's tables and its queue lead the later      *)
(* events of a call to that card.                                          *)
(***************************************************************************)
EXTENDS ChatTimeline, ChatStreamProofs, FiniteSetTheorems

-----------------------------------------------------------------------------
(* The page handles an event.                                              *)

Modes == {"idle", "direct", "gap", "recovered"}

Page(p) ==
  /\ p = [mode |-> p.mode, runtime |-> p.runtime, chat |-> p.chat, pending |-> p.pending]
  /\ p.mode \in Modes /\ Raw(p.runtime) /\ Chat(p.chat) /\ Waits(p.pending)

\* What an event leaves of a stream's rows and questions.
Reads(s, r, e) ==
  /\ e.type # "awaiting_human" => r.questions = s.questions
  /\ Listed(s) /\ (e.type = "message" => s.questions = <<>>) => Listed(r)
  /\ e.type = "awaiting_human" /\ s.questions = <<>> => ToSet(r.questions) \subseteq {e.question}

LEMMA KeepsReads ==
  ASSUME NEW t, NEW e, Actions(t, e), NEW s, NEW r, Keeps(s, r, ToSet(t))
  PROVE  Reads(s, r, e)
<1> DEFINE S == ToSet(t)
<1>1. \A a \in S : /\ a.type = "question" => e.type = "awaiting_human" /\ a.question = e.question
                   /\ a.type = "finalize" => e.type = "message"
  BY DEF Actions, Action
<1> HIDE DEF S
<1>2. /\ (\A a \in S : a.type # "question") => r.questions = s.questions
      /\ Listed(s) /\ (\A a \in S : a.type # "finalize") => Listed(r)
      /\ Listed(s) /\ s.questions = <<>> /\ (\A a \in S : a.type # "question") => Listed(r)
      /\ \A x \in ToSet(r.questions) :
           x \in ToSet(s.questions) \/ \E a \in S : a.type = "question" /\ a.question = x
  BY DEF Keeps, S
<1>3. e.type # "awaiting_human" => r.questions = s.questions
  BY <1>1, <1>2
<1>4. Listed(s) /\ (e.type = "message" => s.questions = <<>>) => Listed(r)
  BY <1>1, <1>2
<1>5. s.questions = <<>> => ToSet(r.questions) \subseteq {e.question}
  BY <1>1, <1>2, SequenceEmpty
<1> QED BY <1>3, <1>4, <1>5 DEF Reads

\* The page handles an event: its display becomes what the event's actions make of it.
LEMMA HandledIs ==
  ASSUME NEW p, Page(p), NEW e, Event(e), NEW h, h = Handled(p, e)
  PROVE  /\ Page(h) /\ h.mode = p.mode
         /\ Display(h) = ApplyRuntimeActions(Display(p), ProjectAgentEvent(p.runtime, e).actions)
         /\ IsTerminal(e) => h.pending = <<>>
         /\ Reads(p.chat.stream, h.chat.stream, e)
<1> DEFINE o == [chat |-> p.chat, pending |-> p.pending]
           t == ProjectAgentEvent(p.runtime, e).actions
           S == ToSet(t)
           q == Enqueue(o, t)
           f == FlushedIf(IsTerminal(e), q)
           runtime == ProjectAgentEvent(p.runtime, e).runtime
<1>1. /\ p = [mode |-> p.mode, runtime |-> p.runtime, chat |-> p.chat, pending |-> p.pending]
      /\ p.mode \in Modes /\ Raw(p.runtime) /\ Chat(p.chat) /\ Waits(p.pending)
  BY DEF Page
<1>2. o.chat = p.chat /\ o.pending = p.pending /\ Out(o) /\ Shows(o) = Display(p)
  BY <1>1 DEF Out, Shows, Display
<1>3. Actions(t, e) /\ Raw(runtime)
  BY <1>1, ActionsOf, RawOf
<1>4. h = [p EXCEPT !.runtime = runtime, !.chat = f.chat, !.pending = f.pending]
  BY DEF Handled, WithProjection, WithOutput
<1> HIDE DEF o, t, runtime
<1>5. t \in Seq(S) /\ \A a \in S : RuntimeAction(a)
  BY <1>3 DEF Actions, Action, Sequence
<1> HIDE DEF S
<1>6. /\ Out(q) /\ Shows(q) = ApplyRuntimeActions(Shows(o), t)
      /\ Keeps(o.chat.stream, q.chat.stream, S)
  BY <1>2, <1>5, EnqueueIs
<1> HIDE DEF q
<1>7. Reads(p.chat.stream, q.chat.stream, e)
  BY <1>2, <1>3, <1>6, KeepsReads DEF S
<1>8. /\ Out(f) /\ Shows(f) = Shows(q) /\ (IsTerminal(e) => f.pending = <<>>)
      /\ Reads(p.chat.stream, f.chat.stream, e)
  <2>1. CASE IsTerminal(e)
    <3>1. f = [chat |-> Shows(q), pending |-> <<>>] /\ Out(f) /\ Shows(f) = Shows(q)
      BY <1>6, <2>1, FlushedIs DEF FlushedIf
    <3> HIDE DEF f
    <3>2. f.chat = Shows(q) /\ f.pending = <<>>
      BY <3>1
    <3>3. /\ Listed(q.chat.stream) => Listed(Shows(q).stream)
          /\ Shows(q).stream.questions = q.chat.stream.questions
      BY <1>6, ShowsIs
    <3> QED BY <1>7, <3>1, <3>2, <3>3 DEF Reads
  <2>2. CASE ~IsTerminal(e)
    BY <1>6, <1>7, <2>2 DEF FlushedIf
  <2> QED BY <2>1, <2>2
<1> HIDE DEF f
<1>9. h = [mode |-> p.mode, runtime |-> runtime, chat |-> f.chat, pending |-> f.pending]
  BY <1>1, <1>4
<1>10. /\ h.mode = p.mode /\ h.runtime = runtime /\ h.chat = f.chat /\ h.pending = f.pending
       /\ h = [mode |-> h.mode, runtime |-> h.runtime, chat |-> h.chat, pending |-> h.pending]
  BY <1>9
<1>11. Chat(f.chat) /\ Waits(f.pending)
  BY <1>8 DEF Out
<1>12. Page(h)
  BY <1>1, <1>3, <1>10, <1>11 DEF Page
<1>13. Display(h) = Shows(f)
  BY <1>10 DEF Display, Shows
<1>14. Display(h) = ApplyRuntimeActions(Display(p), t)
  BY <1>2, <1>6, <1>8, <1>13
<1> QED BY <1>8, <1>10, <1>12, <1>14 DEF t

\* What the page shows.
LEMMA DisplayIs ==
  ASSUME NEW p, Page(p)
  PROVE  /\ Chat(Display(p)) /\ (Listed(p.chat.stream) => Listed(Display(p).stream))
         /\ Display(p).stream.questions = p.chat.stream.questions
         /\ p.pending = <<>> => Display(p) = p.chat
<1> DEFINE o == [chat |-> p.chat, pending |-> p.pending]
<1>1. o.chat = p.chat /\ o.pending = p.pending /\ Out(o) /\ Shows(o) = Display(p)
  BY DEF Out, Shows, Display, Page
<1> HIDE DEF o
<1> QED BY <1>1, ShowsIs

-----------------------------------------------------------------------------
(* The invariant.                                                          *)

One(questions) == \A q, r \in ToSet(questions) : q = r

Draft(s) == Stream(s) /\ Listed(s) /\ One(s.questions)

BridgeInv(b) ==
  /\ {"phase", "text", "draft"} \subseteq DOMAIN b
  /\ b.text \in Text /\ Draft(b.draft)
  /\ b.phase # "asked" => b.draft.questions = <<>>

SyncsInv(s) == Sequence(s) /\ \A request \in ToSet(s) : "draft" \in DOMAIN request /\ Draft(request.draft)

UsedInv(u) == {"text", "thinking"} \subseteq DOMAIN u /\ u.text \in Nat /\ u.thinking \in Nat

PageInv(p) == Page(p) /\ (p.mode \in {"idle", "gap"} => p.pending = <<>>)

\* An undisturbed page has a row for everything it shows, and no question open
\* while it reads.
CalmInv(p) ==
  /\ Listed(p.chat.stream) /\ One(p.chat.stream.questions)
  /\ p.mode # "idle" => p.chat.stream.questions = <<>>

GhostInv == {"display", "disturbed"} \subseteq DOMAIN ghost

TimelineInv ==
  /\ BridgeInv(bridge) /\ SyncsInv(syncs) /\ UsedInv(used) /\ GhostInv
  /\ PageInv(page)
  /\ ~ghost.disturbed => CalmInv(page)
  /\ BufferExact

\* The invariant holds initially,
LEMMA TimelineInit ==
  ASSUME Init
  PROVE  TimelineInv
<1>1. /\ Stream(EmptyStream) /\ Listed(EmptyStream) /\ EmptyStream.questions = <<>>
      /\ One(<<>>) /\ <<>> \in Text
  BY NothingStreamed, SequenceEmpty DEF One, Text
<1>2. Draft(EmptyStream)
  BY <1>1 DEF Draft
<1>3. BridgeInv(bridge)
  BY <1>1, <1>2 DEF Init, InitBridge, BridgeInv
<1>4. SyncsInv(syncs) /\ UsedInv(used) /\ GhostInv /\ ~ghost.disturbed /\ ghost.display = EmptyChat
  BY SequenceEmpty DEF Init, SyncsInv, UsedInv, GhostInv
<1>5. /\ page = [mode |-> page.mode, runtime |-> page.runtime, chat |-> page.chat,
                 pending |-> page.pending]
      /\ page.mode = "idle" /\ page.runtime = ChatRuntime(0) /\ page.chat = EmptyChat
      /\ page.pending = <<>>
  BY DEF Init
<1>6. EmptyChat.stream = EmptyStream /\ Chat(EmptyChat)
  BY <1>1 DEF EmptyChat, Chat
<1>7. PageInv(page)
  BY <1>5, <1>6, NewRuntimeIs DEF PageInv, Page, Modes, Waits
<1>8. CalmInv(page)
  BY <1>1, <1>5, <1>6 DEF CalmInv
<1>9. Display(page) = page.chat
  BY <1>5, <1>7, DisplayIs DEF PageInv
<1> QED BY <1>3, <1>4, <1>5, <1>7, <1>8, <1>9 DEF TimelineInv, BufferExact

\* An event leaves the bridge's draft a stream that lists its rows.
LEMMA DraftedIs ==
  ASSUME NEW b, BridgeInv(b), NEW e, Event(e), e.type # "message", NEW d, d = Drafted(b, e)
  PROVE  /\ {"phase", "text", "draft"} \subseteq DOMAIN d /\ d.phase = b.phase /\ d.text = b.text
         /\ Stream(d.draft) /\ Listed(d.draft)
         /\ e.type # "awaiting_human" => d.draft.questions = b.draft.questions
         /\ b.draft.questions = <<>> => One(d.draft.questions)
<1> DEFINE a == [type |-> "text", text |-> e.text]
           P == IF e.type = "text" THEN Projected(b.draftRuntime, <<a>>)
                ELSE ProjectAgentEvent(b.draftRuntime, e)
           t == P.actions
           S == ToSet(t)
           c == [committed |-> <<>>, stream |-> b.draft]
           r == ApplyRuntimeActions(c, t)
<1>1. Actions(t, e)
  <2>1. CASE e.type = "text"
    <3>1. Action(a, e)
      BY <2>1 DEF Action, RuntimeAction, Buffered, Event
    <3>2. t = <<a>>
      BY <2>1 DEF Projected
    <3> QED BY <3>1, <3>2, FewActions
  <2>2. CASE e.type # "text"
    BY <2>2, ActionsOf
  <2> QED BY <2>1, <2>2
<1>2. d = [b EXCEPT !.draft = r.stream, !.draftRuntime = P.runtime]
  BY DEF Drafted, WithDraft
<1>3. /\ {"phase", "text", "draft"} \subseteq DOMAIN b /\ Stream(b.draft) /\ Listed(b.draft)
      /\ One(b.draft.questions)
  BY DEF BridgeInv, Draft
<1> HIDE DEF t, P
<1>4. c.stream = b.draft /\ Chat(c)
  BY <1>3 DEF Chat
<1>5. t \in Seq(S) /\ \A x \in S : RuntimeAction(x)
  BY <1>1 DEF Actions, Action, Sequence
<1> HIDE DEF S, c
<1>6. Chat(r) /\ Keeps(c.stream, r.stream, S)
  BY <1>4, <1>5, ActionsAre
<1> HIDE DEF r
<1>7. Reads(b.draft, r.stream, e)
  BY <1>1, <1>4, <1>6, KeepsReads DEF S
<1>8. /\ {"phase", "text", "draft"} \subseteq DOMAIN d /\ d.phase = b.phase /\ d.text = b.text
      /\ d.draft = r.stream
  BY <1>2, <1>3
<1>9. Stream(r.stream) /\ Listed(r.stream)
  BY <1>3, <1>6, <1>7 DEF Reads, Chat
<1>10. e.type # "awaiting_human" => r.stream.questions = b.draft.questions
  BY <1>7 DEF Reads
<1>11. b.draft.questions = <<>> => One(r.stream.questions)
  <2>1. One(<<>>)
    BY SequenceEmpty DEF One
  <2>2. b.draft.questions = <<>> /\ e.type = "awaiting_human" => One(r.stream.questions)
    BY <1>7 DEF Reads, One
  <2> QED BY <1>10, <2>1, <2>2
<1> QED BY <1>8, <1>9, <1>10, <1>11

\* The page after an event that it handles, in either mode.
LEMMA ReadIs ==
  ASSUME NEW p, PageInv(p), p.mode \in {"direct", "recovered"}, NEW e, Event(e),
         NEW h, h = Handled(p, e)
  PROVE  /\ PageInv(h) /\ h.mode = p.mode
         /\ Display(h) = ApplyRuntimeActions(Display(p), ProjectAgentEvent(p.runtime, e).actions)
         /\ IsTerminal(e) => h.pending = <<>>
         /\ CalmInv(p) /\ e.type # "awaiting_human" => CalmInv(h)
         /\ CalmInv(p) /\ e.type = "awaiting_human" =>
              Listed(h.chat.stream) /\ One(h.chat.stream.questions)
<1>1. /\ Page(h) /\ h.mode = p.mode
      /\ Display(h) = ApplyRuntimeActions(Display(p), ProjectAgentEvent(p.runtime, e).actions)
      /\ IsTerminal(e) => h.pending = <<>>
      /\ Reads(p.chat.stream, h.chat.stream, e)
  BY HandledIs DEF PageInv
<1>2. PageInv(h)
  BY <1>1 DEF PageInv
<1>3. CalmInv(p) /\ e.type # "awaiting_human" => CalmInv(h)
  BY <1>1 DEF CalmInv, Reads
<1>4. CalmInv(p) /\ e.type = "awaiting_human" =>
        Listed(h.chat.stream) /\ One(h.chat.stream.questions)
  BY <1>1 DEF CalmInv, Reads, One
<1> QED BY <1>1, <1>2, <1>3, <1>4

\* An event that is not the last keeps the invariant, whether the page reads it or not.
LEMMA EmitIs ==
  ASSUME TimelineInv, NEW e, Event(e), e.type \notin {"message", "awaiting_human"},
         NEW b, BridgeInv(b), Emit(e, b), UsedInv(used')
  PROVE  TimelineInv'
<1>1. /\ bridge' = Drafted(b, e)
      /\ page' = IF Listening THEN Handled(page, e) ELSE page
      /\ ghost' = [ghost EXCEPT !.display = Unbuffered(e), !.irregular = @ \/ Irregular(e),
                              !.misread = @ \/ Misread(e)]
      /\ syncs' = syncs
  BY DEF Emit, Shown
<1>2. /\ SyncsInv(syncs) /\ PageInv(page) /\ {"display", "disturbed"} \subseteq DOMAIN ghost
      /\ (~ghost.disturbed => CalmInv(page)) /\ Display(page) = ghost.display
  BY DEF TimelineInv, GhostInv, BufferExact
<1>3. BridgeInv(bridge')
  <2>1. /\ {"phase", "text", "draft"} \subseteq DOMAIN b /\ b.text \in Text
        /\ One(b.draft.questions) /\ (b.phase # "asked" => b.draft.questions = <<>>)
    BY DEF BridgeInv, Draft
  <2> DEFINE d == Drafted(b, e)
  <2>2. /\ {"phase", "text", "draft"} \subseteq DOMAIN d /\ d.phase = b.phase /\ d.text = b.text
        /\ Stream(d.draft) /\ Listed(d.draft) /\ d.draft.questions = b.draft.questions
    BY DraftedIs
  <2> HIDE DEF d
  <2>3. BridgeInv(d)
    BY <2>1, <2>2 DEF BridgeInv, Draft
  <2> QED BY <1>1, <2>3 DEF d
<1>4. /\ {"display", "disturbed"} \subseteq DOMAIN ghost' /\ ghost'.disturbed = ghost.disturbed
      /\ ghost'.display = Unbuffered(e)
  BY <1>1, <1>2
<1>5. CASE Listening
  <2> DEFINE h == Handled(page, e)
  <2>1. page' = h /\ page.mode \in {"direct", "recovered"}
    BY <1>1, <1>5 DEF Listening
  <2>2. Unbuffered(e) = ApplyRuntimeActions(ghost.display, ProjectAgentEvent(page.runtime, e).actions)
    BY <1>5 DEF Unbuffered
  <2>3. /\ PageInv(h) /\ (CalmInv(page) => CalmInv(h))
        /\ Display(h) = ApplyRuntimeActions(Display(page), ProjectAgentEvent(page.runtime, e).actions)
    BY <1>2, <2>1, ReadIs
  <2> HIDE DEF h
  <2> QED BY <1>1, <1>2, <1>3, <1>4, <2>1, <2>2, <2>3 DEF TimelineInv, GhostInv, BufferExact
<1>6. CASE ~Listening
  <2>1. page' = page /\ Unbuffered(e) = ghost.display
    BY <1>1, <1>6 DEF Unbuffered
  <2> QED BY <1>1, <1>2, <1>3, <1>4, <2>1 DEF TimelineInv, GhostInv, BufferExact
<1> QED BY <1>5, <1>6

\* A piece that the bridge streams is a number, and the text stays text.
LEMMA PieceIs ==
  ASSUME UsedInv(used), bridge.text \in Text, NEW piece \in Pieces
  PROVE  piece \in Nat /\ <<piece>> \in Text /\ bridge.text \o <<piece>> \in Text
<1>1. piece \in Nat
  <2>1. CASE piece \in 1 .. 2 * used.text
    BY <2>1 DEF UsedInv
  <2>2. CASE piece \in {2 * used.text + size : size \in Sizes}
    BY <2>2, ChoicesAssumption DEF UsedInv
  <2> QED BY <2>1, <2>2 DEF Pieces
<1>2. <<piece>> \in Text
  BY <1>1 DEF Text
<1> QED BY <1>1, <1>2, TextConcat

LEMMA StreamTextKeeps ==
  ASSUME TimelineInv, NEW piece, NEW cumulative, StreamText(piece, cumulative)
  PROVE  TimelineInv'
<1> DEFINE text == bridge.text \o <<piece>>
           e == [type |-> "text", text |-> IF cumulative THEN text ELSE <<piece>>]
           b == [bridge EXCEPT !.text = text]
<1>1. Emit(e, b) /\ Count("text") /\ piece \in Pieces
  BY DEF StreamText
<1>2. BridgeInv(bridge) /\ UsedInv(used)
  BY DEF TimelineInv
<1>3. <<piece>> \in Text /\ text \in Text
  BY <1>1, <1>2, PieceIs DEF BridgeInv
<1> HIDE DEF text
<1>4. Event(e) /\ e.type = "text"
  BY <1>3 DEF Event
<1>5. BridgeInv(b)
  BY <1>2, <1>3 DEF BridgeInv
<1>6. UsedInv(used')
  BY <1>1, <1>2 DEF UsedInv, Count
<1> HIDE DEF e, b
<1> QED BY <1>1, <1>4, <1>5, <1>6, EmitIs

LEMMA StreamThinkingKeeps ==
  ASSUME TimelineInv, StreamThinking
  PROVE  TimelineInv'
<1> DEFINE piece == <<used.thinking + 1>>
           e == [type |-> "thinking", text |-> piece]
           b == [bridge EXCEPT !.thinking = @ \o piece]
<1>1. Emit(e, b) /\ Count("thinking")
  BY DEF StreamThinking
<1>2. BridgeInv(bridge) /\ UsedInv(used)
  BY DEF TimelineInv
<1>3. piece \in Text
  BY <1>2 DEF UsedInv, Text
<1> HIDE DEF piece
<1>4. Event(e) /\ e.type = "thinking"
  BY <1>3 DEF Event
<1>5. BridgeInv(b)
  BY <1>2 DEF BridgeInv
<1>6. UsedInv(used')
  BY <1>1, <1>2 DEF UsedInv, Count
<1> HIDE DEF e, b
<1> QED BY <1>1, <1>4, <1>5, <1>6, EmitIs

LEMMA CallStartKeeps ==
  ASSUME TimelineInv, NEW told, StreamCallStart(told)
  PROVE  TimelineInv'
<1> DEFINE call == used.calls + 1
           e == [type |-> "call_start", index |-> Len(bridge.calls),
                 call |-> IF told THEN call ELSE NoCall]
           b == [bridge EXCEPT !.calls = Append(@, call)]
<1>1. Emit(e, b) /\ Count("calls")
  BY DEF StreamCallStart
<1>2. BridgeInv(bridge) /\ UsedInv(used)
  BY DEF TimelineInv
<1>3. Event(e) /\ e.type = "call_start"
  BY DEF Event
<1>4. BridgeInv(b)
  BY <1>2 DEF BridgeInv
<1>5. UsedInv(used')
  BY <1>1, <1>2 DEF UsedInv, Count
<1> HIDE DEF e, b
<1> QED BY <1>1, <1>3, <1>4, <1>5, EmitIs

LEMMA CallEndKeeps ==
  ASSUME TimelineInv, StreamCallEnd
  PROVE  TimelineInv'
<1> DEFINE e == [type |-> "call_end", index |-> bridge.ended, call |-> NoCall]
           b == [bridge EXCEPT !.ended = @ + 1]
<1>1. Emit(e, b) /\ used' = used
  BY DEF StreamCallEnd
<1>2. BridgeInv(bridge) /\ UsedInv(used)
  BY DEF TimelineInv
<1>3. Event(e) /\ e.type = "call_end"
  BY DEF Event
<1>4. BridgeInv(b)
  BY <1>2 DEF BridgeInv
<1> HIDE DEF e, b
<1> QED BY <1>1, <1>2, <1>3, <1>4, EmitIs

LEMMA ToolStartsKeeps ==
  ASSUME TimelineInv, ToolStarts
  PROVE  TimelineInv'
<1> DEFINE e == [type |-> "tool_started", call |-> Head(bridge.calls)]
           b == [bridge EXCEPT !.phase = "running"]
<1>1. Emit(e, b) /\ used' = used /\ bridge.phase = "tools"
  BY DEF ToolStarts
<1>2. BridgeInv(bridge) /\ UsedInv(used)
  BY DEF TimelineInv
<1>3. Event(e) /\ e.type = "tool_started"
  BY DEF Event
<1>4. BridgeInv(b)
  BY <1>1, <1>2 DEF BridgeInv
<1> HIDE DEF e, b
<1> QED BY <1>1, <1>2, <1>3, <1>4, EmitIs

LEMMA ToolFinishesKeeps ==
  ASSUME TimelineInv, ToolFinishes
  PROVE  TimelineInv'
<1> DEFINE call == Head(bridge.calls)
           e == [type |-> "tool_finished", call |-> call]
           b == [bridge EXCEPT !.phase = "tools", !.calls = Tail(@),
                               !.log = Append(@, Message("tool", <<>>, <<>>, call))]
<1>1. Emit(e, b) /\ used' = used /\ bridge.phase = "running"
  BY DEF ToolFinishes
<1>2. BridgeInv(bridge) /\ UsedInv(used)
  BY DEF TimelineInv
<1>3. Event(e) /\ e.type = "tool_finished"
  BY DEF Event
<1>4. BridgeInv(b)
  BY <1>1, <1>2 DEF BridgeInv
<1> HIDE DEF e, b
<1> QED BY <1>1, <1>2, <1>3, <1>4, EmitIs

LEMMA NewDraftIs == Draft(EmptyStream) /\ EmptyStream.questions = <<>> /\ <<>> \in Text
<1>1. One(<<>>)
  BY SequenceEmpty DEF One
<1> QED BY <1>1, NothingStreamed DEF Draft, Text

LEMMA NewIterationIs ==
  ASSUME NEW b, BridgeInv(b)
  PROVE  BridgeInv(NewIteration(b))
BY NewDraftIs DEF NewIteration, BridgeInv

LEMMA BridgeAlone ==
  ASSUME TimelineInv, BridgeInv(bridge'), UNCHANGED <<page, syncs, used, ghost>>
  PROVE  TimelineInv'
BY DEF TimelineInv, GhostInv, BufferExact

LEMMA CallsToRunKeeps ==
  ASSUME TimelineInv, CallsToRun
  PROVE  TimelineInv'
<1>1. BridgeInv(bridge) /\ <<>> \in Text
  BY NewDraftIs DEF TimelineInv
<1>2. BridgeInv(bridge')
  BY <1>1 DEF CallsToRun, BridgeInv
<1> QED BY <1>2, BridgeAlone DEF CallsToRun

LEMMA NextIterationKeeps ==
  ASSUME TimelineInv, NextIteration
  PROVE  TimelineInv'
<1>1. BridgeInv(bridge')
  BY NewIterationIs DEF TimelineInv, NextIteration
<1> QED BY <1>1, BridgeAlone DEF NextIteration

\* The page begins a run with a chat.
LEMMA BegunIs ==
  ASSUME PageInv(page), page.mode = "idle", NEW begun, Chat(begun), NEW run,
         page' = [page EXCEPT !.mode = "direct", !.runtime = ChatRuntime(run), !.chat = begun]
  PROVE  PageInv(page') /\ Display(page') = begun /\ page'.chat = begun /\ page'.mode = "direct"
<1>1. /\ page = [mode |-> page.mode, runtime |-> page.runtime, chat |-> page.chat,
                 pending |-> page.pending]
      /\ page.pending = <<>>
  BY DEF PageInv, Page
<1>2. /\ page'.mode = "direct" /\ page'.runtime = ChatRuntime(run) /\ page'.chat = begun
      /\ page'.pending = <<>>
      /\ page' = [mode |-> page'.mode, runtime |-> page'.runtime, chat |-> page'.chat,
                  pending |-> page'.pending]
  BY <1>1
<1>3. Page(page')
  BY <1>2, NewRuntimeIs DEF Page, Modes, Waits
<1>4. Display(page') = begun
  BY <1>2, <1>3, DisplayIs
<1> QED BY <1>2, <1>3, <1>4 DEF PageInv

LEMMA SendKeeps ==
  ASSUME TimelineInv, Send
  PROVE  TimelineInv'
<1> DEFINE turn == bridge.turn + 1
           user == UserMessage(turn, <<"local", turn>>)
           begun == [page.chat EXCEPT !.committed = Append(@, user),
                                      !.stream = ClearStreamingState(@)]
           b == [bridge EXCEPT !.run = @ + 1, !.log = <<UserMessage(turn, <<>>)>>]
<1>1. /\ page.mode = "idle" /\ page.chat.stream.questions = <<>>
      /\ bridge' = [NewIteration(b) EXCEPT !.turn = turn]
      /\ page' = [page EXCEPT !.mode = "direct", !.runtime = ChatRuntime(bridge.run + 1),
                              !.chat = begun]
      /\ ghost' = [ghost EXCEPT !.display = begun, !.current = FALSE,
                                !.disturbed = @ \/ syncs # <<>>]
      /\ syncs' = syncs /\ used' = used
  BY DEF Send, NewRun
<1>2. /\ BridgeInv(bridge) /\ SyncsInv(syncs) /\ UsedInv(used) /\ PageInv(page) /\ GhostInv
      /\ (~ghost.disturbed => CalmInv(page))
  BY DEF TimelineInv
<1>3. BridgeInv(bridge')
  <2>1. BridgeInv(b)
    BY <1>2 DEF BridgeInv
  <2> HIDE DEF b
  <2>2. BridgeInv(NewIteration(b))
    BY <2>1, NewIterationIs
  <2> HIDE DEF turn
  <2> QED BY <1>1, <2>2 DEF BridgeInv
<1>4. page.chat = [committed |-> page.chat.committed, stream |-> page.chat.stream]
      /\ Stream(page.chat.stream)
  BY <1>2 DEF PageInv, Page, Chat
<1> DEFINE s == ClearStreamingState(page.chat.stream)
<1>5. Stream(s) /\ (Listed(page.chat.stream) => Listed(s)) /\ s.questions = <<>>
  BY <1>1, <1>4, ClearStreamingIs
<1> HIDE DEF user
<1>6. begun.stream = s /\ Chat(begun)
  <2> DEFINE c == Append(page.chat.committed, user)
  <2>1. begun = [page.chat EXCEPT !.committed = c, !.stream = s]
    OBVIOUS
  <2> HIDE DEF begun, c, s
  <2>2. begun = [committed |-> c, stream |-> s]
    BY <1>4, <2>1
  <2> QED BY <1>5, <2>2 DEF Chat
<1> HIDE DEF begun, s
<1>7. PageInv(page') /\ Display(page') = begun /\ page'.chat = begun /\ page'.mode = "direct"
  BY <1>1, <1>2, <1>6, BegunIs
<1>8. /\ GhostInv' /\ ghost'.display = begun /\ (~ghost'.disturbed => ~ghost.disturbed)
  BY <1>1, <1>2 DEF GhostInv
<1>9. ~ghost'.disturbed => CalmInv(page')
  <2>1. One(<<>>)
    BY SequenceEmpty DEF One
  <2> QED BY <1>2, <1>5, <1>6, <1>7, <1>8, <2>1 DEF CalmInv
<1> QED BY <1>1, <1>2, <1>3, <1>7, <1>8, <1>9 DEF TimelineInv, BufferExact

LEMMA NoMembers ==
  ASSUME NEW x, Sequence(x), ToSet(x) = {}
  PROVE  x = <<>>
<1>1. x \in Seq({})
  BY DEF Sequence
<1>2. Len(x) = 0
  <2>1. Len(x) \in Nat /\ \A i \in 1..Len(x) : x[i] \in {}
    BY <1>1
  <2> QED BY <2>1
<1> QED BY <1>1, <1>2

LEMMA AnswerKeeps ==
  ASSUME TimelineInv, Answer
  PROVE  TimelineInv'
<1>1. PICK question \in ToSet(page.chat.stream.questions) :
        LET answer == Message("user", <<"answer", question>>, <<"answer", question>>, NoCall)
            begun == [committed |-> Append(page.chat.committed, answer),
                      stream |-> RemovePendingQuestion(ClearStreamingState(page.chat.stream), question)]
            asked == Message("question", <<>>, <<question>>, NoCall)
        IN  /\ bridge' = NewRun(bridge, <<asked, answer>>)
            /\ page' = [page EXCEPT !.mode = "direct", !.runtime = ChatRuntime(bridge.run + 1),
                                    !.chat = begun]
            /\ ghost' = [ghost EXCEPT !.display = begun, !.current = FALSE,
                                      !.disturbed = @ \/ syncs # <<>> \/ ~ghost.current]
  BY DEF Answer
<1> DEFINE answer == Message("user", <<"answer", question>>, <<"answer", question>>, NoCall)
           s == ClearStreamingState(page.chat.stream)
           r == RemovePendingQuestion(s, question)
           begun == [committed |-> Append(page.chat.committed, answer), stream |-> r]
           log == <<Message("question", <<>>, <<question>>, NoCall), answer>>
           b == [bridge EXCEPT !.run = @ + 1, !.log = log]
<1>2. /\ page.mode = "idle" /\ syncs' = syncs /\ used' = used
      /\ bridge' = NewIteration(b)
      /\ page' = [page EXCEPT !.mode = "direct", !.runtime = ChatRuntime(bridge.run + 1),
                              !.chat = begun]
      /\ ghost' = [ghost EXCEPT !.display = begun, !.current = FALSE,
                                !.disturbed = @ \/ syncs # <<>> \/ ~ghost.current]
  BY <1>1 DEF Answer, NewRun
<1>3. /\ BridgeInv(bridge) /\ SyncsInv(syncs) /\ UsedInv(used) /\ PageInv(page) /\ GhostInv
      /\ (~ghost.disturbed => CalmInv(page))
  BY DEF TimelineInv
<1> HIDE DEF log, answer
<1>4. BridgeInv(bridge')
  <2>1. BridgeInv(b)
    BY <1>3 DEF BridgeInv
  <2> HIDE DEF b
  <2> QED BY <1>2, <2>1, NewIterationIs
<1>5. Stream(page.chat.stream)
  BY <1>3 DEF PageInv, Page, Chat
<1>6. /\ Stream(s) /\ (Listed(page.chat.stream) => Listed(s))
      /\ s.questions = page.chat.stream.questions
  BY <1>5, ClearStreamingIs
<1> HIDE DEF s
<1>7. /\ Stream(r) /\ (Listed(s) => Listed(r))
      /\ ToSet(r.questions) = ToSet(s.questions) \ {question}
  BY <1>6, RemoveQuestionIs
<1> HIDE DEF r
<1>8. begun.stream = r /\ Chat(begun)
  BY <1>7 DEF Chat
<1> HIDE DEF begun
<1>9. PageInv(page') /\ Display(page') = begun /\ page'.chat = begun /\ page'.mode = "direct"
  BY <1>2, <1>3, <1>8, BegunIs
<1>10. /\ GhostInv' /\ ghost'.display = begun /\ (~ghost'.disturbed => ~ghost.disturbed)
  BY <1>2, <1>3 DEF GhostInv
<1>11. ASSUME ~ghost'.disturbed PROVE CalmInv(page')
  <2>1. Listed(page.chat.stream) /\ One(page.chat.stream.questions)
    BY <1>3, <1>10, <1>11 DEF CalmInv
  <2>2. ToSet(r.questions) = {}
    BY <1>6, <1>7, <2>1 DEF One
  <2>3. r.questions = <<>>
    BY <1>7, <2>2, NoMembers DEF Stream
  <2>4. One(<<>>)
    BY SequenceEmpty DEF One
  <2> QED BY <1>6, <1>7, <1>8, <1>9, <2>1, <2>3, <2>4 DEF CalmInv
<1> QED BY <1>2, <1>3, <1>4, <1>9, <1>10, <1>11 DEF TimelineInv, BufferExact

\* The page shows what waited.
Settled(p, m) == [p EXCEPT !.mode = m, !.chat = Display(p), !.pending = <<>>]

\* A page that stops reading shows what waited.
LEMMA SettledIs ==
  ASSUME NEW p, PageInv(p), NEW m \in Modes, NEW h, h = Settled(p, m)
  PROVE  /\ PageInv(h) /\ h.mode = m /\ Display(h) = Display(p)
         /\ CalmInv(p) /\ (m # "idle" => p.mode # "idle") => CalmInv(h)
<1>1. p = [mode |-> p.mode, runtime |-> p.runtime, chat |-> p.chat, pending |-> p.pending]
      /\ p.mode \in Modes /\ Raw(p.runtime)
  BY DEF PageInv, Page
<1>2. /\ h.mode = m /\ h.runtime = p.runtime /\ h.chat = Display(p) /\ h.pending = <<>>
      /\ h = [mode |-> h.mode, runtime |-> h.runtime, chat |-> h.chat, pending |-> h.pending]
  BY <1>1 DEF Settled
<1>3. /\ Chat(Display(p)) /\ (Listed(p.chat.stream) => Listed(Display(p).stream))
      /\ Display(p).stream.questions = p.chat.stream.questions
  BY DisplayIs DEF PageInv
<1>4. Page(h)
  BY <1>1, <1>2, <1>3 DEF Page, Waits
<1>5. Display(h) = Display(p)
  BY <1>2, <1>4, DisplayIs
<1>6. CalmInv(p) /\ (m # "idle" => p.mode # "idle") => CalmInv(h)
  BY <1>2, <1>3 DEF CalmInv
<1> QED BY <1>2, <1>4, <1>5, <1>6 DEF PageInv

LEMMA PageAlone ==
  ASSUME TimelineInv, PageInv(page'), Display(page') = Display(page),
         ~ghost.disturbed => CalmInv(page'), UNCHANGED <<bridge, syncs, used, ghost>>
  PROVE  TimelineInv'
BY DEF TimelineInv, GhostInv, BufferExact

LEMMA FlushTimerKeeps ==
  ASSUME TimelineInv, FlushTimer
  PROVE  TimelineInv'
<1>1. page' = [page EXCEPT !.chat = Display(page), !.pending = <<>>]
  BY DEF FlushTimer
<1>2. PageInv(page) /\ (~ghost.disturbed => CalmInv(page))
  BY DEF TimelineInv
<1>3. page.mode \in Modes /\ page = [mode |-> page.mode, runtime |-> page.runtime,
                                     chat |-> page.chat, pending |-> page.pending]
  BY <1>2 DEF PageInv, Page
<1>4. page' = Settled(page, page.mode)
  BY <1>1, <1>3 DEF Settled
<1>5. PageInv(page') /\ Display(page') = Display(page) /\ (CalmInv(page) => CalmInv(page'))
  BY <1>2, <1>3, <1>4, SettledIs
<1> QED BY <1>2, <1>5, PageAlone DEF FlushTimer

\* A page that has nothing waiting changes its mode.
LEMMA ModeIs ==
  ASSUME NEW p, PageInv(p), p.pending = <<>>, NEW m \in Modes, NEW h, h = [p EXCEPT !.mode = m]
  PROVE  PageInv(h) /\ h.mode = m /\ h.chat = p.chat /\ Display(h) = Display(p)
<1>1. /\ p = [mode |-> p.mode, runtime |-> p.runtime, chat |-> p.chat, pending |-> p.pending]
      /\ p.mode \in Modes /\ Raw(p.runtime) /\ Chat(p.chat) /\ Waits(p.pending)
  BY DEF PageInv, Page
<1>2. /\ h.mode = m /\ h.runtime = p.runtime /\ h.chat = p.chat /\ h.pending = p.pending
      /\ h = [mode |-> h.mode, runtime |-> h.runtime, chat |-> h.chat, pending |-> h.pending]
  BY <1>1
<1>3. Page(h)
  BY <1>1, <1>2 DEF Page
<1>4. Display(h) = Display(p)
  BY <1>2 DEF Display
<1> QED BY <1>2, <1>3, <1>4 DEF PageInv

LEMMA SubscribeKeeps ==
  ASSUME TimelineInv, Subscribe
  PROVE  TimelineInv'
<1>1. page' = [page EXCEPT !.mode = "recovered"] /\ page.mode = "gap"
  BY DEF Subscribe
<1>2. PageInv(page) /\ (~ghost.disturbed => CalmInv(page)) /\ page.pending = <<>>
  BY <1>1 DEF TimelineInv, PageInv
<1>3. /\ PageInv(page') /\ page'.mode = "recovered" /\ page'.chat = page.chat
      /\ Display(page') = Display(page)
  BY <1>1, <1>2, ModeIs DEF Modes
<1>4. ~ghost.disturbed => CalmInv(page')
  BY <1>1, <1>2, <1>3 DEF CalmInv
<1> QED BY <1>3, <1>4, PageAlone DEF Subscribe

\* The requests in flight.
LEMMA RequestIs ==
  ASSUME SyncsInv(syncs), NEW from
  PROVE  SyncsInv(Append(syncs, Request(from)))
<1> DEFINE r == Request(from)
<1>1. "draft" \in DOMAIN r /\ Draft(r.draft)
  BY NewDraftIs DEF Request
<1> HIDE DEF r
<1>2. Sequence(Append(syncs, r)) /\ ToSet(Append(syncs, r)) = ToSet(syncs) \cup {r}
  BY SequenceAppend DEF SyncsInv
<1> QED BY <1>1, <1>2 DEF SyncsInv, r

LEMMA RemoveRequestIs ==
  ASSUME SyncsInv(syncs), NEW i \in DOMAIN syncs
  PROVE  SyncsInv(RemoveAt(syncs, i))
<1> DEFINE S == ToSet(syncs)
           left == SubSeq(syncs, 1, i - 1)
           right == SubSeq(syncs, i + 1, Len(syncs))
<1>1. /\ syncs \in Seq(S) /\ Len(syncs) \in Nat /\ i \in 1..Len(syncs)
      /\ \A request \in S : "draft" \in DOMAIN request /\ Draft(request.draft)
  <2>1. syncs \in Seq(S)
    BY DEF SyncsInv, Sequence
  <2> QED BY <2>1 DEF SyncsInv
<1> HIDE DEF S
<1>2. left \in Seq(S) /\ right \in Seq(S)
  BY <1>1, SubSeqProperties
<1> HIDE DEF left, right
<1>3. left \o right \in Seq(S)
  BY <1>2, ConcatProperties
<1>4. RemoveAt(syncs, i) = left \o right
  BY DEF RemoveAt, left, right
<1> QED BY <1>1, <1>3, <1>4, SequenceOf DEF SyncsInv

LEMMA ReadHistoryKeeps ==
  ASSUME TimelineInv, ReadHistory
  PROVE  TimelineInv'
<1>1. PICK i \in DOMAIN syncs :
        /\ syncs' = [syncs EXCEPT ![i].read = TRUE, ![i].ended = bridge.phase \in {"idle", "asked"},
                                  ![i].page = HistoryMessages(bridge.history),
                                  ![i].drafting = bridge.drafting, ![i].draft = bridge.draft]
        /\ UNCHANGED <<bridge, page, used, ghost>>
  BY DEF ReadHistory
<1>2. SyncsInv(syncs) /\ Draft(bridge.draft)
  BY DEF TimelineInv, BridgeInv
<1> DEFINE S == ToSet(syncs)
           n == Len(syncs)
           answered == [syncs[i] EXCEPT !.read = TRUE, !.ended = bridge.phase \in {"idle", "asked"},
                                        !.page = HistoryMessages(bridge.history),
                                        !.drafting = bridge.drafting, !.draft = bridge.draft]
           T == S \cup {answered}
<1>3. /\ syncs \in Seq(S) /\ n \in Nat /\ DOMAIN syncs = 1..n
      /\ \A j \in 1..n : syncs[j] \in S
      /\ \A request \in S : "draft" \in DOMAIN request /\ Draft(request.draft)
  <2>1. syncs \in Seq(S)
    BY <1>2 DEF SyncsInv, Sequence
  <2> QED BY <1>2, <2>1 DEF SyncsInv
<1>4. syncs' = [syncs EXCEPT ![i] = answered]
  BY <1>1
<1>5. "draft" \in DOMAIN answered /\ Draft(answered.draft)
  BY <1>2, <1>3
<1> HIDE DEF answered, S, n
<1>6. syncs' \in Seq(T)
  BY <1>3, <1>4
<1>7. SyncsInv(syncs')
  BY <1>3, <1>5, <1>6, SequenceOf DEF SyncsInv
<1> QED BY <1>1, <1>7 DEF TimelineInv, GhostInv, BufferExact

LEMMA SyncFailsKeeps ==
  ASSUME TimelineInv, SyncFails
  PROVE  TimelineInv'
<1>1. SyncsInv(syncs')
  BY RemoveRequestIs DEF SyncFails, TimelineInv
<1> QED BY <1>1 DEF SyncFails, TimelineInv, GhostInv, BufferExact

LEMMA HydratedStream ==
  ASSUME NEW request, Draft(request.draft), NEW committed, NEW r, r = Hydrated(request, committed)
  PROVE  Draft(r)
<1>1. CASE request.drafting
  <2>1. r = HydrateTurnDraft(request.draft, committed)
    BY <1>1 DEF Hydrated
  <2> QED BY <2>1, HydrateIs DEF Draft, One
<1>2. CASE ~request.drafting
  BY <1>2, NewDraftIs DEF Hydrated
<1> QED BY <1>1, <1>2

LEMMA SyncHistoryKeeps ==
  ASSUME TimelineInv, SyncHistory
  PROVE  TimelineInv'
<1>1. PICK i \in DOMAIN syncs :
        LET request == syncs[i]
        IN  /\ syncs' = RemoveAt(syncs, i)
            /\ page' = [page EXCEPT !.chat =
                          Synced(request, @, MergeLatestCommitted(@.committed, request.page))]
            /\ ghost' = [ghost EXCEPT
                         !.display = Display(page'),
                         !.disturbed = @ \/ page.mode # "idle",
                         !.current = request.ended /\ Len(request.page) = Len(bridge.history)]
            /\ UNCHANGED <<bridge, used>>
  BY DEF SyncHistory
<1>2. /\ BridgeInv(bridge) /\ SyncsInv(syncs) /\ UsedInv(used) /\ PageInv(page) /\ GhostInv
      /\ (~ghost.disturbed => CalmInv(page))
  BY DEF TimelineInv
<1> DEFINE request == syncs[i]
           merged == MergeLatestCommitted(page.chat.committed, request.page)
           shown == IF request.from = "recovered" THEN page.chat.committed ELSE merged
           chat == Synced(request, page.chat, merged)
<1>3. Draft(request.draft)
  <2>1. request \in ToSet(syncs)
    BY DEF ToSet
  <2> QED BY <1>2, <2>1 DEF SyncsInv
<1>4. SyncsInv(syncs')
  BY <1>1, <1>2, RemoveRequestIs
<1> HIDE DEF request
<1>5. chat = [committed |-> merged, stream |-> Hydrated(request, shown)]
  BY DEF Synced
<1> HIDE DEF merged, shown, chat
<1>6. Draft(chat.stream) /\ Chat(chat)
  BY <1>3, <1>5, HydratedStream DEF Draft, Chat
<1>7. page' = [page EXCEPT !.chat = chat]
  BY <1>1 DEF chat, merged, request
<1>8. /\ page = [mode |-> page.mode, runtime |-> page.runtime, chat |-> page.chat,
                 pending |-> page.pending]
      /\ page.mode \in Modes /\ Raw(page.runtime) /\ Waits(page.pending)
      /\ page.mode \in {"idle", "gap"} => page.pending = <<>>
  BY <1>2 DEF PageInv, Page
<1>9. /\ page'.mode = page.mode /\ page'.runtime = page.runtime /\ page'.chat = chat
      /\ page'.pending = page.pending
      /\ page' = [mode |-> page'.mode, runtime |-> page'.runtime, chat |-> page'.chat,
                  pending |-> page'.pending]
  BY <1>7, <1>8
<1>10. PageInv(page')
  BY <1>6, <1>8, <1>9 DEF PageInv, Page
<1>11. /\ GhostInv' /\ ghost'.display = Display(page')
       /\ (~ghost'.disturbed => page.mode = "idle")
  BY <1>1, <1>2 DEF GhostInv
<1>12. ~ghost'.disturbed => CalmInv(page')
  BY <1>6, <1>9, <1>11 DEF CalmInv, Draft
<1> QED BY <1>1, <1>2, <1>4, <1>10, <1>11, <1>12 DEF TimelineInv, BufferExact

LEMMA ReloadKeeps ==
  ASSUME TimelineInv, Reload
  PROVE  TimelineInv'
<1> DEFINE committed == HistoryMessages(bridge.history)
           streaming == bridge.drafting /\ bridge.phase # "asked"
           s == IF bridge.drafting THEN HydrateTurnDraft(bridge.draft, committed) ELSE EmptyStream
           chat == [committed |-> committed, stream |-> s]
           runtime == IF streaming THEN RuntimeFromDraft(bridge.draft, bridge.run) ELSE ChatRuntime(0)
<1>1. /\ page' = [mode |-> IF streaming THEN "gap" ELSE "idle", chat |-> chat, pending |-> <<>>,
                  runtime |-> runtime]
      /\ ghost' = [ghost EXCEPT !.display = chat, !.disturbed = FALSE, !.recovered = streaming,
                                !.current = bridge.phase \in {"idle", "asked"}]
      /\ syncs' = <<>> /\ bridge' = bridge /\ Count("reloads")
  BY DEF Reload
<1>2. BridgeInv(bridge) /\ UsedInv(used) /\ GhostInv
  BY DEF TimelineInv
<1>3. UsedInv(used')
  BY <1>1, <1>2 DEF UsedInv, Count
<1>4. Draft(bridge.draft) /\ (streaming => bridge.draft.questions = <<>>)
  BY <1>2 DEF BridgeInv
<1>5. Raw(runtime)
  BY <1>4, DraftRuntimeIs, NewRuntimeIs DEF Draft
<1> HIDE DEF runtime, committed
<1>6. Draft(s) /\ (streaming => s.questions = <<>>)
  <2>1. CASE bridge.drafting
    <3> DEFINE r == HydrateTurnDraft(bridge.draft, committed)
    <3>1. /\ Stream(r) /\ (Listed(bridge.draft) => Listed(r))
          /\ ToSet(r.questions) \subseteq ToSet(bridge.draft.questions)
      BY <1>4, HydrateIs DEF Draft
    <3> HIDE DEF r
    <3>2. Draft(r)
      BY <1>4, <3>1 DEF Draft, One
    <3>3. streaming => r.questions = <<>>
      BY <1>4, <3>1, SequenceEmpty, NoMembers DEF Stream
    <3> QED BY <2>1, <3>2, <3>3 DEF r
  <2>2. CASE ~bridge.drafting
    BY <2>2, NewDraftIs
  <2> QED BY <2>1, <2>2
<1> HIDE DEF s
<1>7. chat.stream = s /\ Chat(chat)
  BY <1>6 DEF Chat, Draft
<1> HIDE DEF chat
<1>8. /\ page'.mode = (IF streaming THEN "gap" ELSE "idle") /\ page'.chat = chat
      /\ page'.pending = <<>> /\ page'.runtime = runtime
      /\ page' = [mode |-> page'.mode, runtime |-> page'.runtime, chat |-> page'.chat,
                  pending |-> page'.pending]
  BY <1>1
<1>9. PageInv(page')
  BY <1>5, <1>7, <1>8 DEF PageInv, Page, Waits, Modes
<1>10. Display(page') = chat
  BY <1>8, <1>9, DisplayIs DEF PageInv
<1>11. GhostInv' /\ ghost'.display = chat
  BY <1>1, <1>2 DEF GhostInv
<1>12. CalmInv(page')
  BY <1>6, <1>7, <1>8 DEF CalmInv, Draft
<1>13. SyncsInv(syncs')
  BY <1>1, SequenceEmpty DEF SyncsInv
<1> QED BY <1>1, <1>2, <1>3, <1>9, <1>10, <1>11, <1>12, <1>13 DEF TimelineInv, BufferExact

\* The last events of a stream: the page asks for the history.
LEMMA AskHistoryIs ==
  ASSUME SyncsInv(syncs), UsedInv(used), NEW from, NEW asked, AskHistory(from, asked)
  PROVE  SyncsInv(syncs') /\ UsedInv(used')
<1>1. SyncsInv(syncs')
  BY RequestIs DEF AskHistory
<1>2. used' = [used EXCEPT !.syncs = IF asked THEN @ + 1 ELSE @]
  BY DEF AskHistory
<1>3. UsedInv(used')
  BY <1>2 DEF UsedInv
<1> QED BY <1>1, <1>3

LEMMA TurnEndsKeeps ==
  ASSUME TimelineInv, TurnEnds
  PROVE  TimelineInv'
<1> DEFINE message == [type |-> "message", text |-> bridge.text]
           done == [type |-> "done"]
           clear == <<[type |-> "clear_thinking"]>>
           h == Handled(page, message)
           g == Handled(h, done)
           b == NewIteration(bridge)
<1>1. /\ bridge' = [b EXCEPT !.phase = "idle", !.drafting = FALSE, !.log = <<>>,
                             !.history = @ \o bridge.log \o IterationMessages(bridge)]
      /\ page' = IF page.mode = "direct" THEN [g EXCEPT !.mode = "idle"]
                 ELSE IF page.mode = "recovered"
                 THEN [page EXCEPT !.mode = "idle", !.chat = Display(page), !.pending = <<>>]
                 ELSE page
      /\ ghost' = [ghost EXCEPT
                     !.current = FALSE,
                     !.display = IF page.mode = "direct"
                                 THEN ApplyRuntimeActions(Unbuffered(message), clear)
                                 ELSE @]
      /\ AskHistory(page.mode, Listening)
  BY DEF TurnEnds
<1>2. /\ BridgeInv(bridge) /\ SyncsInv(syncs) /\ UsedInv(used) /\ PageInv(page) /\ GhostInv
      /\ (~ghost.disturbed => CalmInv(page)) /\ Display(page) = ghost.display
  BY DEF TimelineInv, BufferExact
<1>3. BridgeInv(bridge')
  <2>1. BridgeInv(b) /\ b.draft = EmptyStream
    <3>1. BridgeInv(b)
      BY <1>2, NewIterationIs
    <3>2. b.draft = EmptyStream
      BY <1>2 DEF NewIteration, BridgeInv
    <3> QED BY <3>1, <3>2
  <2>2. EmptyStream.questions = <<>>
    BY NewDraftIs
  <2> HIDE DEF b
  <2>3. /\ {"phase", "text", "draft"} \subseteq DOMAIN bridge'
        /\ bridge'.text = b.text /\ bridge'.draft = b.draft
    BY <1>1, <2>1 DEF BridgeInv
  <2> QED BY <2>1, <2>2, <2>3 DEF BridgeInv
<1>4. SyncsInv(syncs') /\ UsedInv(used')
  BY <1>1, <1>2, AskHistoryIs
<1>5. /\ GhostInv' /\ ghost'.disturbed = ghost.disturbed
      /\ ghost'.display = IF page.mode = "direct"
                          THEN ApplyRuntimeActions(Unbuffered(message), clear)
                          ELSE ghost.display
  BY <1>1, <1>2 DEF GhostInv
<1>6. CASE page.mode = "direct"
  <2>1. Event(message) /\ message.type = "message" /\ Event(done) /\ done.type = "done"
    BY DEF Event
  <2>2. Unbuffered(message)
          = ApplyRuntimeActions(ghost.display, ProjectAgentEvent(page.runtime, message).actions)
    BY <1>6 DEF Unbuffered, Listening
  <2>3. ProjectAgentEvent(h.runtime, done).actions = clear
    BY DEF ProjectAgentEvent, Projected
  <2>4. IsTerminal(done)
    BY DEF IsTerminal
  <2> HIDE DEF message, done, clear, h, g
  <2>5. /\ PageInv(h) /\ h.mode = "direct" /\ (CalmInv(page) => CalmInv(h))
        /\ Display(h) = Unbuffered(message)
    BY <1>2, <1>6, <2>1, <2>2, ReadIs DEF h
  <2>6. /\ PageInv(g) /\ g.mode = "direct" /\ (CalmInv(h) => CalmInv(g))
        /\ Display(g) = ApplyRuntimeActions(Display(h), clear) /\ g.pending = <<>>
    BY <2>1, <2>3, <2>4, <2>5, ReadIs DEF g
  <2>7. page' = [g EXCEPT !.mode = "idle"]
    BY <1>1, <1>6
  <2>8. /\ PageInv(page') /\ page'.mode = "idle" /\ page'.chat = g.chat
        /\ Display(page') = Display(g)
    BY <2>6, <2>7, ModeIs DEF Modes
  <2>9. ~ghost'.disturbed => CalmInv(page')
    BY <1>2, <1>5, <2>5, <2>6, <2>8 DEF CalmInv
  <2> QED BY <1>3, <1>4, <1>5, <1>6, <2>5, <2>6, <2>8, <2>9 DEF TimelineInv, BufferExact
<1>7. CASE page.mode = "recovered"
  <2> HIDE DEF message, done, clear, h, g
  <2>1. page' = Settled(page, "idle")
    BY <1>1, <1>7 DEF Settled
  <2>2. /\ PageInv(page') /\ Display(page') = Display(page)
        /\ (CalmInv(page) => CalmInv(page'))
    BY <1>2, <2>1, SettledIs DEF Modes
  <2> QED BY <1>2, <1>3, <1>4, <1>5, <1>7, <2>2 DEF TimelineInv, BufferExact
<1>8. CASE page.mode \notin {"direct", "recovered"}
  <2> HIDE DEF message, done, clear, h, g
  <2>1. page' = page
    BY <1>1, <1>8
  <2> QED BY <1>2, <1>3, <1>4, <1>5, <1>8, <2>1 DEF TimelineInv, BufferExact
<1> QED BY <1>6, <1>7, <1>8

LEMMA AskHumanKeeps ==
  ASSUME TimelineInv, AskHuman
  PROVE  TimelineInv'
<1> DEFINE finished == [type |-> "tool_finished", call |-> Head(bridge.calls)]
           asks == [type |-> "awaiting_human", question |-> used.asks + 1]
           h == Handled(page, finished)
           g == Handled(h, asks)
           b == Drafted(bridge, finished)
           d == Drafted(b, asks)
           first == ProjectAgentEvent(page.runtime, finished).actions
           second == ProjectAgentEvent(page.runtime, asks).actions
<1>1. /\ bridge.phase = "running"
      /\ bridge' = [d EXCEPT !.phase = "asked", !.history = @ \o bridge.log, !.log = <<>>]
      /\ page' = IF Listening THEN [g EXCEPT !.mode = "idle"] ELSE page
      /\ ghost' = [ghost EXCEPT
                     !.current = FALSE,
                     !.display = IF Listening THEN ApplyRuntimeActions(@, first \o second) ELSE @]
      /\ syncs' = IF Listening THEN Append(syncs, Request(page.mode)) ELSE syncs
      /\ used' = [used EXCEPT !.asks = @ + 1, !.syncs = IF Listening THEN @ + 1 ELSE @]
  BY DEF AskHuman
<1>2. /\ BridgeInv(bridge) /\ SyncsInv(syncs) /\ UsedInv(used) /\ PageInv(page) /\ GhostInv
      /\ (~ghost.disturbed => CalmInv(page)) /\ Display(page) = ghost.display
  BY DEF TimelineInv, BufferExact
<1>3. /\ Event(finished) /\ finished.type = "tool_finished"
      /\ Event(asks) /\ asks.type = "awaiting_human" /\ IsTerminal(asks)
  BY DEF Event, IsTerminal
<1>4. \A runtime : ProjectAgentEvent(runtime, asks).actions = second
  BY DEF ProjectAgentEvent, Projected
<1>5. /\ Actions(first, finished) /\ Actions(second, asks)
  BY <1>3, ActionsOf
<1> HIDE DEF finished, asks, h, g, b, d, first, second
<1>6. BridgeInv(bridge')
  <2>1. bridge.draft.questions = <<>> /\ bridge.text \in Text
    BY <1>1, <1>2 DEF BridgeInv
  <2>2. /\ {"phase", "text", "draft"} \subseteq DOMAIN b /\ b.phase = "running" /\ b.text = bridge.text
        /\ Stream(b.draft) /\ Listed(b.draft) /\ b.draft.questions = <<>>
        /\ One(b.draft.questions)
    BY <1>1, <1>2, <1>3, <2>1, DraftedIs DEF b
  <2>3. BridgeInv(b)
    BY <2>1, <2>2 DEF BridgeInv, Draft
  <2>4. /\ {"phase", "text", "draft"} \subseteq DOMAIN d /\ d.text = b.text
        /\ Stream(d.draft) /\ Listed(d.draft) /\ One(d.draft.questions)
    BY <1>3, <2>2, <2>3, DraftedIs DEF d
  <2>5. /\ {"phase", "text", "draft"} \subseteq DOMAIN bridge'
        /\ bridge'.text = d.text /\ bridge'.draft = d.draft /\ bridge'.phase = "asked"
    BY <1>1, <2>4
  <2> QED BY <2>1, <2>2, <2>4, <2>5 DEF BridgeInv, Draft
<1>7. SyncsInv(syncs') /\ UsedInv(used')
  <2>1. SyncsInv(syncs')
    BY <1>1, <1>2, RequestIs
  <2>2. UsedInv(used')
    BY <1>1, <1>2 DEF UsedInv
  <2> QED BY <2>1, <2>2
<1>8. /\ GhostInv' /\ ghost'.disturbed = ghost.disturbed
      /\ ghost'.display = IF Listening THEN ApplyRuntimeActions(ghost.display, first \o second)
                          ELSE ghost.display
  BY <1>1, <1>2 DEF GhostInv
<1>9. CASE Listening
  <2>1. page.mode \in {"direct", "recovered"}
    BY <1>9 DEF Listening
  <2>2. /\ PageInv(h) /\ h.mode = page.mode /\ (CalmInv(page) => CalmInv(h))
        /\ Display(h) = ApplyRuntimeActions(Display(page), first)
    BY <1>2, <1>3, <2>1, ReadIs DEF h, first
  <2>3. /\ PageInv(g) /\ g.pending = <<>>
        /\ CalmInv(h) => Listed(g.chat.stream) /\ One(g.chat.stream.questions)
        /\ Display(g) = ApplyRuntimeActions(Display(h), second)
    BY <1>3, <1>4, <2>1, <2>2, ReadIs DEF g
  <2>4. page' = [g EXCEPT !.mode = "idle"]
    BY <1>1, <1>9
  <2>5. /\ PageInv(page') /\ page'.mode = "idle" /\ page'.chat = g.chat
        /\ Display(page') = Display(g)
    BY <2>3, <2>4, ModeIs DEF Modes
  <2>6. ~ghost'.disturbed => CalmInv(page')
    BY <1>2, <1>8, <2>2, <2>3, <2>5 DEF CalmInv
  <2>7. ApplyRuntimeActions(ghost.display, first \o second)
          = ApplyRuntimeActions(ApplyRuntimeActions(ghost.display, first), second)
    <3> DEFINE S == ToSet(first) \cup ToSet(second)
    <3>1. first \in Seq(ToSet(first)) /\ second \in Seq(ToSet(second))
      BY <1>5 DEF Actions, Sequence
    <3>2. first \in Seq(S) /\ second \in Seq(S)
      BY <3>1
    <3> HIDE DEF S
    <3> QED BY <3>2, MoreActions
  <2> QED BY <1>2, <1>6, <1>7, <1>8, <1>9, <2>2, <2>3, <2>5, <2>6, <2>7
       DEF TimelineInv, BufferExact
<1>10. CASE ~Listening
  <2>1. page' = page
    BY <1>1, <1>10
  <2> QED BY <1>2, <1>6, <1>7, <1>8, <1>10, <2>1 DEF TimelineInv, BufferExact
<1> QED BY <1>9, <1>10

-----------------------------------------------------------------------------
\* and every step keeps it.
LEMMA TimelineStep ==
  ASSUME TimelineInv, [Next]_vars
  PROVE  TimelineInv'
<1>1. CASE Next
  BY <1>1, SendKeeps, AnswerKeeps, StreamTextKeeps, StreamThinkingKeeps, CallStartKeeps,
     CallEndKeeps, CallsToRunKeeps, ToolStartsKeeps, ToolFinishesKeeps, NextIterationKeeps,
     TurnEndsKeeps, AskHumanKeeps, FlushTimerKeeps, ReadHistoryKeeps, SyncHistoryKeeps,
     SyncFailsKeeps, ReloadKeeps, SubscribeKeeps DEF Next, BridgeStep
<1>2. CASE UNCHANGED vars
  BY <1>2 DEF vars, TimelineInv, GhostInv, BufferExact
<1> QED BY <1>1, <1>2

\* The inductive invariant holds: the bridge's draft (sessiondraft), the drafts of answers under
\* way and the page's stream (runtimeReducer.ts) keep their tables and their order of items in
\* step, and the buffer holds back at most one action, of text (actionBuffer.ts).
THEOREM TimelineInvariant == Spec => []TimelineInv
<1>1. Init => TimelineInv
  BY TimelineInit
<1>2. TimelineInv /\ [Next]_vars => TimelineInv'
  BY TimelineStep
<1> QED BY <1>1, <1>2, PTL DEF Spec

\* The display with what the action buffer holds back is the display that every action applied
\* at once would have made, whenever the timer fires.
THEOREM BufferIsExact == Spec => []BufferExact
<1>1. TimelineInv => BufferExact
  BY DEF TimelineInv
<1> QED BY <1>1, TimelineInvariant, PTL

\* The invariant gives the rows of the page.
LEMMA RowsMatch ==
  ASSUME TimelineInv
  PROVE  ItemsMatch
<1> DEFINE s == page.chat.stream
<1>1. Stream(s) /\ (~ghost.disturbed => Listed(s))
  BY DEF TimelineInv, PageInv, Page, Chat, CalmInv
<1>2. IsInjective(s.items)
  BY <1>1 DEF Stream
<1>3. Listed(s) => ToSet(s.items) =
               {<<"assistant", x.id>> : x \in ToSet(s.assistant.segments)}
               \cup {<<"thinking", x.id>> : x \in ToSet(s.thinking.segments)}
               \cup {<<"tool", t.id>> : t \in ToSet(s.tools)}
               \cup {<<"question", q>> : q \in ToSet(s.questions)}
  BY DEF Listed, Rows, SegmentIds, ToolIds
<1> HIDE DEF s
<1> QED BY <1>1, <1>2, <1>3 DEF ItemsMatch, s

\* A row of the stream is never listed twice; and, until a reply disturbs a run, each segment, card
\* and question has its row and no row is left of one that is gone (streamingItemOrder).
THEOREM ItemsAlwaysMatch == Spec => []ItemsMatch
<1> QED BY RowsMatch, TimelineInvariant, PTL

-----------------------------------------------------------------------------
(* The text a run has said.                                                *)

\* The text of a list of messages is such a fold.
LEMMA SaidFold ==
  ASSUME NEW t, NEW n \in Nat, DOMAIN t = 1..n, Len(t) = n
  PROVE  AssistantText(t) = Folded(<<"said">>, <<>>, t)
<1> DEFINE Raw1(f) == f = [u \in SUBSET (1..n) |->
                            IF u = {} THEN <<>>
                            ELSE IF t[Max(u)].kind = "assistant" THEN f[u \ {Max(u)}] \o t[Max(u)].body
                            ELSE f[u \ {Max(u)}]]
           h == CHOOSE f : Raw1(f)
           g == CHOOSE f : Iterates(<<"said">>, <<>>, t, n, f)
<1>1. ASSUME NEW f PROVE Raw1(f) <=> Iterates(<<"said">>, <<>>, t, n, f)
  BY DEF Iterates, Step
<1>2. AssistantText(t) = h[1..n]
  BY DEF AssistantText, FoldLeft, MapThenFoldSet
<1>3. Folded(<<"said">>, <<>>, t) = g[1..n]
  BY DEF Folded
<1>4. Iterates(<<"said">>, <<>>, t, n, g)
  BY IterationIs
<1> HIDE DEF g, Raw1
<1>5. Raw1(h)
  BY <1>1, <1>4
<1> HIDE DEF h
<1>6. Iterates(<<"said">>, <<>>, t, n, h)
  BY <1>1, <1>5
<1>7. h[1..n] = g[1..n]
  BY <1>4, <1>6, IterationsAgree
<1> QED BY <1>2, <1>3, <1>7

\* A message of the assistant adds its text, another adds none.
LEMMA SaidIs ==
  /\ AssistantText(<<>>) = <<>>
  /\ \A t, m : Sequence(t) =>
       AssistantText(Append(t, m)) = IF m.kind = "assistant" THEN AssistantText(t) \o m.body
                                     ELSE AssistantText(t)
<1> DEFINE fold == <<"said">>
<1>1. AssistantText(<<>>) = <<>>
  <2>1. DOMAIN <<>> = 1..0 /\ Len(<<>>) = 0
    OBVIOUS
  <2> QED BY <2>1, SaidFold, FoldedNone
<1>2. ASSUME NEW t, NEW m, Sequence(t)
      PROVE  AssistantText(Append(t, m)) = IF m.kind = "assistant" THEN AssistantText(t) \o m.body
                                           ELSE AssistantText(t)
  <2> DEFINE S == ToSet(t) \cup {m}
             x == Append(t, m)
  <2>1. t \in Seq(S) /\ m \in S
    <3>1. t \in Seq(ToSet(t)) /\ ToSet(t) \subseteq S
      BY <1>2 DEF Sequence
    <3> HIDE DEF S
    <3> QED BY <3>1 DEF S
  <2> HIDE DEF S
  <2>2. /\ Len(t) \in Nat /\ DOMAIN t = 1..Len(t)
        /\ Len(x) \in Nat /\ DOMAIN x = 1..Len(x)
    BY <2>1
  <2>3. AssistantText(t) = Folded(fold, <<>>, t) /\ AssistantText(x) = Folded(fold, <<>>, x)
    BY <2>2, SaidFold
  <2>4. Folded(fold, <<>>, x) = Step(fold, Folded(fold, <<>>, t), m)
    BY <2>1, FoldedOneMore
  <2> QED BY <2>3, <2>4 DEF Step
<1> QED BY <1>1, <1>2

LEMMA MoreIs ==
  ASSUME NEW x, Sequence(x), NEW m, NEW k
  PROVE  /\ x \o <<>> = x /\ x \o <<m>> = Append(x, m)
         /\ x \o (<<m>> \o <<k>>) = Append(Append(x, m), k)
         /\ <<>> \o <<k>> = <<k>> /\ <<m>> \o <<>> = <<m>> /\ <<>> \o <<>> = <<>>
<1> DEFINE S == ToSet(x) \cup {m, k}
<1>1. x \in Seq(ToSet(x))
  BY DEF Sequence
<1>2. x \in Seq(S) /\ m \in S /\ k \in S
  BY <1>1
<1> HIDE DEF S
<1>3. x \o <<>> = x /\ x \o <<m>> = Append(x, m)
  BY <1>2
<1>4. <<>> \o <<k>> = <<k>> /\ <<m>> \o <<>> = <<m>> /\ <<>> \o <<>> = <<>>
  BY <1>2
<1>5. x \o (<<m>> \o <<k>>) = Append(Append(x, m), k)
  <2>1. <<m>> \in Seq(S) /\ <<k>> \in Seq(S) /\ Append(x, m) \in Seq(S)
    BY <1>2
  <2>2. (x \o <<m>>) \o <<k>> = x \o (<<m>> \o <<k>>)
    BY <1>2, <2>1, ConcatAssociative
  <2>3. Append(x, m) \o <<k>> = Append(Append(x, m), k)
    BY <1>2, <2>1
  <2> QED BY <1>3, <2>2, <2>3
<1> QED BY <1>3, <1>4, <1>5

\* The messages of an iteration, one after the other.
LEMMA IterationLog ==
  ASSUME NEW b, Sequence(b.log), NEW log, log = b.log \o IterationMessages(b)
  PROVE  LET m == Message("thinking", <<>>, b.thinking, NoCall)
             k == Message("assistant", <<>>, b.text, NoCall)
         IN  log = IF b.thinking = <<>> THEN IF b.text = <<>> THEN b.log ELSE Append(b.log, k)
                   ELSE IF b.text = <<>> THEN Append(b.log, m) ELSE Append(Append(b.log, m), k)
<1> DEFINE m == Message("thinking", <<>>, b.thinking, NoCall)
           k == Message("assistant", <<>>, b.text, NoCall)
<1>1. IterationMessages(b) = (IF b.thinking = <<>> THEN <<>> ELSE <<m>>)
                             \o (IF b.text = <<>> THEN <<>> ELSE <<k>>)
  BY DEF IterationMessages
<1> HIDE DEF m, k
<1>2. IterationMessages(b) = IF b.thinking = <<>> THEN IF b.text = <<>> THEN <<>> ELSE <<k>>
                             ELSE IF b.text = <<>> THEN <<m>> ELSE <<m>> \o <<k>>
  <2>1. <<>> \o <<k>> = <<k>> /\ <<m>> \o <<>> = <<m>> /\ <<>> \o <<>> = <<>>
    BY MoreIs
  <2> QED BY <1>1, <2>1, Zenon
<1>3. /\ b.log \o <<>> = b.log /\ b.log \o <<m>> = Append(b.log, m)
      /\ b.log \o <<k>> = Append(b.log, k)
      /\ b.log \o (<<m>> \o <<k>>) = Append(Append(b.log, m), k)
  BY MoreIs
<1>4. log = IF b.thinking = <<>> THEN IF b.text = <<>> THEN b.log ELSE Append(b.log, k)
            ELSE IF b.text = <<>> THEN Append(b.log, m) ELSE Append(Append(b.log, m), k)
  BY <1>2, <1>3, Zenon
<1> QED BY <1>4 DEF m, k

\* The messages of an iteration say its text.
LEMMA IterationSays ==
  ASSUME NEW b, Sequence(b.log), AssistantText(b.log) \in Text, b.text \in Text,
         NEW log, log = b.log \o IterationMessages(b)
  PROVE  Sequence(log) /\ AssistantText(log) = AssistantText(b.log) \o b.text
<1> DEFINE m == Message("thinking", <<>>, b.thinking, NoCall)
           k == Message("assistant", <<>>, b.text, NoCall)
<1>1. m.kind # "assistant" /\ k.kind = "assistant" /\ k.body = b.text
  BY DEF Message
<1>3. log = IF b.thinking = <<>> THEN IF b.text = <<>> THEN b.log ELSE Append(b.log, k)
            ELSE IF b.text = <<>> THEN Append(b.log, m) ELSE Append(Append(b.log, m), k)
  BY IterationLog
<1> HIDE DEF m, k
<1>4. /\ Sequence(Append(b.log, k)) /\ Sequence(Append(b.log, m))
      /\ Sequence(Append(Append(b.log, m), k))
  BY SequenceAppend
<1>5. /\ AssistantText(Append(b.log, k)) = AssistantText(b.log) \o b.text
      /\ AssistantText(Append(b.log, m)) = AssistantText(b.log)
      /\ AssistantText(Append(Append(b.log, m), k)) = AssistantText(b.log) \o b.text
  BY <1>1, <1>4, SaidIs
<1>6. AssistantText(b.log) \o <<>> = AssistantText(b.log)
  BY TextConcat
<1> QED BY <1>3, <1>4, <1>5, <1>6

Bounded(x, k) == \A i \in DOMAIN x : x[i] <= k

\* What the run has said, in pieces that were counted: the next is above them all.
LogInv(b, u) ==
  /\ {"log", "text", "phase"} \subseteq DOMAIN b
  /\ Sequence(b.log) /\ AssistantText(b.log) \in Text
  /\ b.phase \in {"tools", "running"} => b.text = <<>>
  /\ Bounded(Said(b), 2 * u.text)

\* An undisturbed page that reads the stream of its run and has misread nothing has
\* received, and shows, what the run has said.
Intact == page.mode = "direct" /\ ~ghost.disturbed /\ ~ghost.misread

ReadInv ==
  Intact =>
    page.runtime.raw = Said(bridge) /\ Streams(ghost.display, Said(bridge))

TextInv == LogInv(bridge, used) /\ ReadInv

LEMMA SaysNothing ==
  /\ Sequence(<<>>) /\ AssistantText(<<>>) = <<>> /\ <<>> \in Text /\ <<>> \o <<>> = <<>>
  /\ \A k : Bounded(<<>>, k)
<1>1. <<>> \in Text /\ <<>> \o <<>> = <<>>
  BY DEF Text
<1>2. DOMAIN <<>> = {}
  OBVIOUS
<1> QED BY <1>1, <1>2, SequenceEmpty, SaidIs DEF Bounded

LEMMA SaysText ==
  ASSUME BridgeInv(bridge), LogInv(bridge, used)
  PROVE  Said(bridge) \in Text /\ bridge.text \in Text
BY TextConcat DEF BridgeInv, LogInv, Said

LEMMA TextInit ==
  ASSUME Init
  PROVE  TextInv
<1>1. LogInv(bridge, used)
  BY SaysNothing DEF Init, InitBridge, LogInv, Said
<1>2. page.mode = "idle"
  BY DEF Init
<1> QED BY <1>1, <1>2 DEF TextInv, ReadInv, Intact

\* A piece is counted or new.
LEMMA NextPiece ==
  ASSUME UsedInv(used), bridge.text \in Text, NEW x \in Text, Bounded(x, 2 * used.text),
         NEW piece \in Pieces, NEW p, p = <<piece>>
  PROVE  p \in Text /\ x \o p \in Text /\ Bounded(x \o p, 2 * (used.text + 1))
<1>1. piece \in Nat /\ piece <= 2 * (used.text + 1) /\ used.text \in Nat
  <2>1. piece \in Nat /\ used.text \in Nat
    BY PieceIs DEF UsedInv
  <2> QED BY <2>1, ChoicesAssumption DEF Pieces
<1>2. p \in Text /\ x \o p = Append(x, piece)
  BY <1>1 DEF Text
<1>3. x \o p \in Text
  BY <1>2, TextConcat
<1> DEFINE y == Append(x, piece)
<1>4. /\ Len(x) \in Nat /\ DOMAIN x = 1..Len(x) /\ \A i \in 1..Len(x) : x[i] \in Nat
      /\ DOMAIN y = 1..(Len(x) + 1) /\ y[Len(x) + 1] = piece
      /\ \A i \in 1..Len(x) : y[i] = x[i]
  BY <1>1, AppendProperties DEF Text
<1> HIDE DEF y
<1>5. \A i \in 1..(Len(x) + 1) : i = Len(x) + 1 \/ i \in 1..Len(x)
  BY <1>4
<1>6. Bounded(y, 2 * (used.text + 1))
  BY <1>1, <1>4, <1>5 DEF Bounded
<1> QED BY <1>2, <1>3, <1>6 DEF y

LEMMA HandledRuntime ==
  ASSUME NEW p, Page(p), NEW e, NEW h, h = Handled(p, e)
  PROVE  h.runtime = ProjectAgentEvent(p.runtime, e).runtime
<1> DEFINE runtime == ProjectAgentEvent(p.runtime, e).runtime
<1>1. \E x, y : h = [p EXCEPT !.runtime = runtime, !.chat = x, !.pending = y]
  BY DEF Handled, WithProjection, WithOutput
<1> HIDE DEF runtime
<1>2. p = [mode |-> p.mode, runtime |-> p.runtime, chat |-> p.chat, pending |-> p.pending]
  BY DEF Page
<1> QED BY <1>1, <1>2 DEF runtime

LEMMA DraftedSays ==
  ASSUME NEW b, {"log", "text", "phase"} \subseteq DOMAIN b, NEW e, NEW d, d = Drafted(b, e)
  PROVE  /\ {"log", "text", "phase"} \subseteq DOMAIN d /\ d.log = b.log /\ d.text = b.text
         /\ d.phase = b.phase
<1>1. \E x, y : d = [b EXCEPT !.draft = x, !.draftRuntime = y]
  BY DEF Drafted, WithDraft
<1> QED BY <1>1

\* An event that adds to the text received what the bridge adds to the text said keeps TextInv.
LEMMA EmitSays ==
  ASSUME TimelineInv, TextInv, NEW e, Event(e), e.type \notin {"awaiting_human", "message", "done"},
         NEW b, Emit(e, b), LogInv(b, used'),
         Intact /\ ~Misread(e) => Said(b) = Said(bridge) \o Added(page.runtime, e)
  PROVE  TextInv'
<1>1. /\ bridge' = Drafted(b, e)
      /\ page' = IF Listening THEN Handled(page, e) ELSE page
      /\ ghost' = [ghost EXCEPT !.display = Unbuffered(e), !.irregular = @ \/ Irregular(e),
                              !.misread = @ \/ Misread(e)]
  BY DEF Emit, Shown
<1>2. /\ Page(page) /\ {"display", "disturbed"} \subseteq DOMAIN ghost
  BY DEF TimelineInv, GhostInv, PageInv
<1> DEFINE d == Drafted(b, e)
<1>3. /\ {"log", "text", "phase"} \subseteq DOMAIN d /\ d.log = b.log /\ d.text = b.text
      /\ d.phase = b.phase
  BY DraftedSays DEF LogInv
<1> HIDE DEF d
<1>4. Said(bridge') = Said(b) /\ LogInv(bridge', used')
  BY <1>1, <1>3 DEF LogInv, Said, d
<1>5. /\ ghost'.disturbed = ghost.disturbed /\ ghost'.display = Unbuffered(e)
      /\ ghost'.misread = (ghost.misread \/ Misread(e))
  BY <1>1, <1>2
<1>6. ASSUME page'.mode = "direct", ~ghost'.disturbed, ~ghost'.misread
      PROVE  page'.runtime.raw = Said(b) /\ Streams(ghost'.display, Said(b))
  <2> DEFINE h == Handled(page, e)
             t == ProjectAgentEvent(page.runtime, e).actions
  <2>1. h.mode = page.mode
    BY <1>2, HandledIs
  <2>2. h.runtime = ProjectAgentEvent(page.runtime, e).runtime
    BY <1>2, HandledRuntime
  <2> HIDE DEF h
  <2>3. page.mode = "direct" /\ page' = h
    BY <1>1, <1>6, <2>1 DEF Listening, h
  <2>4. /\ page.runtime.raw = Said(bridge) /\ Streams(ghost.display, Said(bridge))
        /\ Raw(page.runtime)
    BY <1>2, <1>5, <1>6, <2>3 DEF TextInv, ReadInv, Intact, Page
  <2>5. ghost'.display = ApplyRuntimeActions(ghost.display, t)
    BY <1>5, <2>3 DEF Unbuffered, Listening
  <2>6. Streams(ApplyRuntimeActions(ghost.display, t), Said(bridge) \o Added(page.runtime, e))
    BY <2>4, EventText
  <2>7. page'.runtime.raw = Said(bridge) \o Added(page.runtime, e)
    BY <2>2, <2>3, <2>4, RawOf
  <2> HIDE DEF t
  <2> QED BY <1>5, <1>6, <2>3, <2>5, <2>6, <2>7 DEF Intact
<1> QED BY <1>4, <1>6 DEF TextInv, ReadInv, Intact

\* What does not mislead the page is read as what it adds.
LEMMA ReadAsMeant ==
  ASSUME NEW before \in Text, NEW last \in Text, NEW piece \in Nat,
         NEW sent \in {last \o <<piece>>, <<piece>>}, ~Misleading(before, last, sent)
  PROVE  NormalizeTextDelta(before \o last, sent) = <<piece>>
<1> DEFINE raw == before \o last
           one == <<piece>>
           text == last \o <<piece>>
<1>1. /\ raw \in Text /\ one \in Text /\ Len(one) = 1 /\ one[1] = piece
      /\ Len(last) \in Nat /\ Len(raw) \in Nat /\ (raw = <<>> <=> Len(raw) = 0)
      /\ (last = <<>> <=> Len(last) = 0) /\ Len(raw) = Len(before) + Len(last)
      /\ (before = <<>> <=> Len(before) = 0) /\ Len(before) \in Nat
  BY TextConcat DEF Text
<1>2. /\ text \in Seq(Nat) /\ Len(text) = Len(last) + 1 /\ text[Len(last) + 1] = piece
      /\ last = <<>> => text = one
  <2>1. text = Append(last, piece)
    BY DEF Text
  <2>2. last = <<>> => text = one
    BY <1>1, TextConcat
  <2>3. text \in Seq(Nat) /\ Len(text) = Len(last) + 1 /\ text[Len(last) + 1] = piece
    BY <2>1, AppendProperties DEF Text
  <2> QED BY <2>2, <2>3
<1>3. sent = text \/ sent = one
  OBVIOUS
<1>4. sent[Len(sent)] = piece
  BY <1>1, <1>2, <1>3
<1>5. CASE raw = <<>>
  <2>1. last = <<>> /\ sent = one
    BY <1>1, <1>2, <1>3, <1>5
  <2>2. raw \o one = one
    BY <1>1, <1>5, TextConcat
  <2>3. NormalizeTextDelta(raw, raw \o one) = one
    BY <1>1, AllAgainIs
  <2> QED BY <2>1, <2>2, <2>3
<1>6. CASE raw # <<>> /\ sent = one
  <2>1. raw[Len(raw)] = piece => Len(raw) # 1 /\ IsShort(piece)
    BY <1>1, <1>4, <1>6 DEF Misleading
  <2> QED BY <1>1, <1>6, <2>1, LonePieceIs
<1>7. CASE raw # <<>> /\ sent # one
  <2>1. sent = text /\ Len(sent) # 1
    BY <1>1, <1>2, <1>3, <1>7
  <2>2. CASE before = <<>>
    <3>1. raw = last
      BY <2>2, TextConcat
    <3>2. NormalizeTextDelta(last, text) = one
      BY AllAgainIs
    <3> QED BY <2>1, <3>1, <3>2
  <2>3. CASE before # <<>>
    <3>1. piece \notin ToSet(raw) /\ ~(Len(last) = 1 /\ IsShort(last[1]))
      BY <1>4, <2>1, <2>3 DEF Misleading
    <3>2. \A i \in DOMAIN raw : raw[i] # piece
      BY <3>1 DEF ToSet
    <3> QED BY <2>1, <3>1, <3>2, NewPieceIs
  <2> QED BY <2>2, <2>3
<1> QED BY <1>5, <1>6, <1>7

LEMMA StreamTextSays ==
  ASSUME TimelineInv, TextInv, NEW piece, NEW cumulative, StreamText(piece, cumulative)
  PROVE  TextInv'
<1> DEFINE n == used.text
           one == <<piece>>
           last == bridge.text
           before == AssistantText(bridge.log)
           sent == IF cumulative THEN last \o one ELSE one
           e == [type |-> "text", text |-> sent]
           b == [bridge EXCEPT !.text = last \o one]
           said == Said(bridge)
<1>1. Emit(e, b) /\ used' = [used EXCEPT !.text = n + 1] /\ piece \in Pieces
  BY DEF StreamText, Count
<1>2. BridgeInv(bridge) /\ UsedInv(used) /\ LogInv(bridge, used)
  BY DEF TimelineInv, TextInv
<1>3. said \in Text /\ last \in Text /\ before \in Text /\ n \in Nat /\ said = before \o last
      /\ Bounded(said, 2 * n)
  BY <1>2, SaysText DEF LogInv, UsedInv, Said
<1>4. used'.text = n + 1 /\ piece \in Nat
  BY <1>1, <1>2, <1>3, PieceIs DEF UsedInv
<1>5. b.log = bridge.log /\ b.text = last \o one /\ b.phase = bridge.phase
      /\ {"log", "text", "phase"} \subseteq DOMAIN b
  BY <1>2 DEF LogInv
<1>6. e.type = "text" /\ e.text = sent
  OBVIOUS
<1>6a. Sequence(bridge.log) /\ bridge.phase \notin {"tools", "running"}
  BY <1>2 DEF LogInv, StreamText
<1>6b. Said(b) = before \o (last \o one)
  BY <1>5 DEF Said
<1>6c. sent \in {last \o <<piece>>, <<piece>>}
  OBVIOUS
<1>6d. Misread(e) <=> Misleading(before, last, sent)
  BY <1>6 DEF Misread
<1> HIDE DEF e, b, n, said, sent
<1>7. one \in Text /\ said \o one \in Text /\ Bounded(said \o one, 2 * (n + 1))
  BY <1>1, <1>2, <1>3, NextPiece DEF n
<1>8. last \o one \in Text
  BY <1>3, <1>7, TextConcat
<1> HIDE DEF before
<1>9. Said(b) = said \o one
  BY <1>3, <1>6b, <1>7, TextAssociative
<1>10. LogInv(b, used')
  BY <1>3, <1>4, <1>5, <1>6a, <1>7, <1>9 DEF LogInv, before
<1>11. Event(e)
  BY <1>6, <1>7, <1>8 DEF Event, sent
<1>12. ASSUME Intact, ~Misread(e) PROVE Added(page.runtime, e) = one
  <2>1. page.runtime.raw = said
    BY <1>12 DEF TextInv, ReadInv, said
  <2>2. Added(page.runtime, e) = NormalizeTextDelta(said, sent)
    BY <1>6, <2>1 DEF Added
  <2>3. NormalizeTextDelta(before \o last, sent) = one
    BY <1>3, <1>4, <1>6c, <1>6d, <1>12, ReadAsMeant
  <2> QED BY <1>3, <2>2, <2>3
<1>13. Intact /\ ~Misread(e) => Said(b) = Said(bridge) \o Added(page.runtime, e)
  BY <1>9, <1>12 DEF said
<1> QED BY <1>1, <1>6, <1>10, <1>11, <1>13, EmitSays

\* An event that is no text says nothing more.
LEMMA OtherEventSays ==
  ASSUME TimelineInv, TextInv, NEW e,
         e.type \in {"thinking", "call_start", "call_end", "tool_started", "tool_finished"},
         Event(e), NEW b, Emit(e, b), used'.text = used.text,
         {"log", "text", "phase"} \subseteq DOMAIN b, Sequence(b.log),
         AssistantText(b.log) = AssistantText(bridge.log), b.text = bridge.text,
         b.phase \in {"tools", "running"} => b.text = <<>>
  PROVE  TextInv'
<1>1. BridgeInv(bridge) /\ LogInv(bridge, used)
  BY DEF TimelineInv, TextInv
<1>2. Said(b) = Said(bridge) /\ LogInv(b, used')
  BY <1>1 DEF LogInv, Said
<1>3. Added(page.runtime, e) = <<>>
  BY DEF Added
<1>4. Said(bridge) \in Text
  BY <1>1, SaysText
<1>5. Said(bridge) \o <<>> = Said(bridge)
  BY <1>4, TextConcat
<1> QED BY <1>2, <1>3, <1>5, EmitSays

LEMMA StreamThinkingSays ==
  ASSUME TimelineInv, TextInv, StreamThinking
  PROVE  TextInv'
<1> DEFINE piece == <<used.thinking + 1>>
           e == [type |-> "thinking", text |-> piece]
           b == [bridge EXCEPT !.thinking = @ \o piece]
<1>1. Emit(e, b) /\ used' = [used EXCEPT !.thinking = @ + 1] /\ bridge.phase = "llm"
  BY DEF StreamThinking, Count
<1>2. UsedInv(used) /\ LogInv(bridge, used)
  BY DEF TimelineInv, TextInv
<1>3. piece \in Text /\ used'.text = used.text
  BY <1>1, <1>2 DEF UsedInv, Text
<1> HIDE DEF piece
<1>4. Event(e) /\ e.type = "thinking"
  BY <1>3 DEF Event
<1>5. /\ b.log = bridge.log /\ b.text = bridge.text /\ b.phase = bridge.phase
      /\ {"log", "text", "phase"} \subseteq DOMAIN b
  BY <1>2 DEF LogInv
<1> HIDE DEF e, b
<1> QED BY <1>1, <1>2, <1>3, <1>4, <1>5, OtherEventSays DEF LogInv

LEMMA CallStartSays ==
  ASSUME TimelineInv, TextInv, NEW told, StreamCallStart(told)
  PROVE  TextInv'
<1> DEFINE call == used.calls + 1
           e == [type |-> "call_start", index |-> Len(bridge.calls),
                 call |-> IF told THEN call ELSE NoCall]
           b == [bridge EXCEPT !.calls = Append(@, call)]
<1>1. Emit(e, b) /\ used' = [used EXCEPT !.calls = @ + 1] /\ bridge.phase = "llm"
  BY DEF StreamCallStart, Count
<1>2. UsedInv(used) /\ LogInv(bridge, used)
  BY DEF TimelineInv, TextInv
<1>3. used'.text = used.text
  BY <1>1, <1>2 DEF UsedInv
<1>4. Event(e) /\ e.type = "call_start"
  BY DEF Event
<1>5. /\ b.log = bridge.log /\ b.text = bridge.text /\ b.phase = bridge.phase
      /\ {"log", "text", "phase"} \subseteq DOMAIN b
  BY <1>2 DEF LogInv
<1> HIDE DEF e, b
<1> QED BY <1>1, <1>2, <1>3, <1>4, <1>5, OtherEventSays DEF LogInv

LEMMA CallEndSays ==
  ASSUME TimelineInv, TextInv, StreamCallEnd
  PROVE  TextInv'
<1> DEFINE e == [type |-> "call_end", index |-> bridge.ended, call |-> NoCall]
           b == [bridge EXCEPT !.ended = @ + 1]
<1>1. Emit(e, b) /\ used' = used /\ bridge.phase = "llm"
  BY DEF StreamCallEnd
<1>2. LogInv(bridge, used)
  BY DEF TextInv
<1>4. Event(e) /\ e.type = "call_end"
  BY DEF Event
<1>5. /\ b.log = bridge.log /\ b.text = bridge.text /\ b.phase = bridge.phase
      /\ {"log", "text", "phase"} \subseteq DOMAIN b
  BY <1>2 DEF LogInv
<1> HIDE DEF e, b
<1> QED BY <1>1, <1>2, <1>4, <1>5, OtherEventSays DEF LogInv

LEMMA ToolStartsSays ==
  ASSUME TimelineInv, TextInv, ToolStarts
  PROVE  TextInv'
<1> DEFINE e == [type |-> "tool_started", call |-> Head(bridge.calls)]
           b == [bridge EXCEPT !.phase = "running"]
<1>1. Emit(e, b) /\ used' = used /\ bridge.phase = "tools"
  BY DEF ToolStarts
<1>2. LogInv(bridge, used)
  BY DEF TextInv
<1>4. Event(e) /\ e.type = "tool_started"
  BY DEF Event
<1>5. /\ b.log = bridge.log /\ b.text = bridge.text
      /\ {"log", "text", "phase"} \subseteq DOMAIN b
  BY <1>2 DEF LogInv
<1> HIDE DEF e, b
<1> QED BY <1>1, <1>2, <1>4, <1>5, OtherEventSays DEF LogInv

LEMMA ToolFinishesSays ==
  ASSUME TimelineInv, TextInv, ToolFinishes
  PROVE  TextInv'
<1> DEFINE call == Head(bridge.calls)
           m == Message("tool", <<>>, <<>>, call)
           e == [type |-> "tool_finished", call |-> call]
           b == [bridge EXCEPT !.phase = "tools", !.calls = Tail(@), !.log = Append(@, m)]
<1>1. Emit(e, b) /\ used' = used /\ bridge.phase = "running"
  BY DEF ToolFinishes
<1>2. LogInv(bridge, used)
  BY DEF TextInv
<1>3. m.kind # "assistant"
  BY DEF Message
<1>4. Event(e) /\ e.type = "tool_finished"
  BY DEF Event
<1> HIDE DEF m
<1>5. /\ b.log = Append(bridge.log, m) /\ b.text = bridge.text
      /\ {"log", "text", "phase"} \subseteq DOMAIN b
  BY <1>2 DEF LogInv
<1>6. Sequence(b.log) /\ AssistantText(b.log) = AssistantText(bridge.log)
  BY <1>2, <1>3, <1>5, SequenceAppend, SaidIs DEF LogInv
<1>7. b.text = <<>> /\ used'.text = used.text
  BY <1>1, <1>2, <1>5 DEF LogInv
<1> HIDE DEF e, b, call
<1>8. b.text = bridge.text /\ {"log", "text", "phase"} \subseteq DOMAIN b
  BY <1>5
<1>9. e.type \in {"thinking", "call_start", "call_end", "tool_started", "tool_finished"}
  BY <1>4
<1> QED BY <1>1, <1>4, <1>6, <1>7, <1>8, <1>9, OtherEventSays

LEMMA CallsToRunSays ==
  ASSUME TimelineInv, TextInv, CallsToRun
  PROVE  TextInv'
<1> DEFINE log == bridge.log \o IterationMessages(bridge)
<1>1. /\ bridge' = [bridge EXCEPT !.phase = "tools", !.log = log, !.text = <<>>, !.thinking = <<>>]
      /\ page' = page /\ used' = used /\ ghost' = ghost
  BY DEF CallsToRun
<1>2. BridgeInv(bridge) /\ LogInv(bridge, used)
  BY DEF TimelineInv, TextInv
<1>3. Said(bridge) \in Text /\ bridge.text \in Text
  BY <1>2, SaysText
<1>4. Sequence(log) /\ AssistantText(log) = Said(bridge)
  BY <1>2, <1>3, IterationSays DEF LogInv, Said
<1> HIDE DEF log
<1>5. /\ bridge'.log = log /\ bridge'.text = <<>>
      /\ {"log", "text", "phase"} \subseteq DOMAIN bridge'
  BY <1>1, <1>2 DEF LogInv
<1>6. Said(bridge) \o <<>> = Said(bridge)
  BY <1>3, TextConcat
<1>7. Said(bridge') = Said(bridge)
  BY <1>4, <1>5, <1>6 DEF Said
<1>8. LogInv(bridge', used')
  BY <1>1, <1>2, <1>3, <1>4, <1>5, <1>7 DEF LogInv
<1> QED BY <1>1, <1>7, <1>8 DEF TextInv, ReadInv, Intact

LEMMA NewIterationSays ==
  ASSUME NEW b, {"log", "text", "phase"} \subseteq DOMAIN b, NEW d, d = NewIteration(b)
  PROVE  /\ d.log = b.log /\ d.text = <<>> /\ d.phase = "llm"
         /\ {"log", "text", "phase"} \subseteq DOMAIN d
BY DEF NewIteration

LEMMA NextIterationSays ==
  ASSUME TimelineInv, TextInv, NextIteration
  PROVE  TextInv'
<1>1. /\ bridge' = NewIteration(bridge) /\ bridge.phase = "tools"
      /\ page' = page /\ used' = used /\ ghost' = ghost
  BY DEF NextIteration
<1>2. LogInv(bridge, used)
  BY DEF TextInv
<1>3. /\ bridge'.log = bridge.log /\ bridge'.text = <<>>
      /\ {"log", "text", "phase"} \subseteq DOMAIN bridge'
  BY <1>1, <1>2, NewIterationSays DEF LogInv
<1>4. bridge.text = <<>>
  BY <1>1, <1>2 DEF LogInv
<1>5. Said(bridge') = Said(bridge) /\ LogInv(bridge', used')
  BY <1>1, <1>2, <1>3, <1>4 DEF LogInv, Said
<1> QED BY <1>1, <1>5 DEF TextInv, ReadInv, Intact

\* A page that does not read the stream of its run tells nothing of the text.
LEMMA NotDirect ==
  ASSUME LogInv(bridge', used'), page'.mode # "direct"
  PROVE  TextInv'
BY DEF TextInv, ReadInv, Intact

\* A run begins with nothing said and nothing shown.
LEMMA BeginsSilent ==
  ASSUME NEW begun, Chat(begun), begun.stream.assistant = EmptySegments,
         Sequence(bridge'.log), AssistantText(bridge'.log) = <<>>, bridge'.text = <<>>,
         {"log", "text", "phase"} \subseteq DOMAIN bridge',
         page'.runtime.raw = <<>>, ghost'.display = begun
  PROVE  TextInv'
<1>1. Said(bridge') = <<>>
  BY SaysNothing DEF Said
<1>2. LogInv(bridge', used')
  BY <1>1, SaysNothing DEF LogInv
<1>3. Streams(begun, <<>>)
  BY TextOfIs DEF EmptySegments, Streams, Grows
<1> QED BY <1>1, <1>2, <1>3 DEF TextInv, ReadInv, Intact

LEMMA ClearedIs ==
  ASSUME NEW s
  PROVE  ClearStreamingState(s).assistant = EmptySegments /\ ClearStreamingState(s).tools = <<>>
BY DEF ClearStreamingState, EmptyStream

LEMMA QuestionGone ==
  ASSUME NEW s, Stream(s), NEW q
  PROVE  /\ RemovePendingQuestion(s, q).assistant = s.assistant
         /\ RemovePendingQuestion(s, q).tools = s.tools
<1>1. \E x, y : RemovePendingQuestion(s, q) = [s EXCEPT !.questions = x, !.items = y]
  BY Zenon DEF RemovePendingQuestion
<1> QED BY <1>1 DEF Stream, Fields

\* The runtime of a run that begins has received nothing.
LEMMA BegunRuntime ==
  ASSUME PageInv(page), NEW begun, NEW run,
         page' = [page EXCEPT !.mode = "direct", !.runtime = ChatRuntime(run), !.chat = begun]
  PROVE  page'.runtime.raw = <<>>
<1>1. page = [mode |-> page.mode, runtime |-> page.runtime, chat |-> page.chat,
              pending |-> page.pending]
  BY DEF PageInv, Page
<1>2. page'.runtime = ChatRuntime(run)
  BY <1>1
<1> QED BY <1>2 DEF ChatRuntime

LEMMA SendSays ==
  ASSUME TimelineInv, TextInv, Send
  PROVE  TextInv'
<1> DEFINE turn == bridge.turn + 1
           user == UserMessage(turn, <<"local", turn>>)
           first == UserMessage(turn, <<>>)
           begun == [page.chat EXCEPT !.committed = Append(@, user),
                                      !.stream = ClearStreamingState(@)]
           b == [bridge EXCEPT !.run = @ + 1, !.log = <<first>>]
           d == NewIteration(b)
           s == ClearStreamingState(page.chat.stream)
<1>1. /\ bridge' = [d EXCEPT !.turn = turn]
      /\ page' = [page EXCEPT !.mode = "direct", !.runtime = ChatRuntime(bridge.run + 1),
                              !.chat = begun]
      /\ ghost' = [ghost EXCEPT !.display = begun, !.current = FALSE,
                                !.disturbed = @ \/ syncs # <<>>]
  BY DEF Send, NewRun
<1>2. PageInv(page) /\ GhostInv /\ LogInv(bridge, used)
  BY DEF TimelineInv, TextInv
<1>3. first.kind # "assistant"
  BY DEF UserMessage, Message
<1>4. Sequence(<<first>>) /\ AssistantText(<<first>>) = <<>>
  <2>1. <<first>> = Append(<<>>, first)
    OBVIOUS
  <2> HIDE DEF first
  <2>2. Sequence(Append(<<>>, first)) /\ AssistantText(Append(<<>>, first)) = <<>>
    BY <1>3, SequenceEmpty, SequenceAppend, SaidIs
  <2> QED BY <2>1, <2>2, Zenon
<1> HIDE DEF first, user
<1>5. b.log = <<first>> /\ {"log", "text", "phase"} \subseteq DOMAIN b
  BY <1>2 DEF LogInv
<1> HIDE DEF b
<1>6. d.log = <<first>> /\ d.text = <<>> /\ {"log", "text", "phase"} \subseteq DOMAIN d
  BY <1>5, NewIterationSays
<1> HIDE DEF d, turn
<1>7. /\ bridge'.log = <<first>> /\ bridge'.text = <<>>
      /\ {"log", "text", "phase"} \subseteq DOMAIN bridge'
  BY <1>1, <1>6
<1>8. page.chat = [committed |-> page.chat.committed, stream |-> page.chat.stream]
      /\ Stream(page.chat.stream)
  BY <1>2 DEF PageInv, Page, Chat
<1>9. Stream(s) /\ s.assistant = EmptySegments
  BY <1>8, ClearStreamingIs, ClearedIs
<1>10. begun.stream = s /\ Chat(begun)
  <2> DEFINE c == Append(page.chat.committed, user)
  <2>1. begun = [page.chat EXCEPT !.committed = c, !.stream = s]
    OBVIOUS
  <2> HIDE DEF begun, c, s
  <2>2. begun = [committed |-> c, stream |-> s]
    BY <1>8, <2>1
  <2> QED BY <1>9, <2>2 DEF Chat
<1> HIDE DEF begun, s
<1>11. page'.runtime.raw = <<>>
  BY <1>1, <1>2, BegunRuntime
<1>12. ghost'.display = begun
  BY <1>1, <1>2 DEF GhostInv
<1> QED BY <1>4, <1>7, <1>9, <1>10, <1>11, <1>12, BeginsSilent

LEMMA AnswerSays ==
  ASSUME TimelineInv, TextInv, Answer
  PROVE  TextInv'
<1>1. PICK question \in ToSet(page.chat.stream.questions) :
        LET answer == Message("user", <<"answer", question>>, <<"answer", question>>, NoCall)
            begun == [committed |-> Append(page.chat.committed, answer),
                      stream |-> RemovePendingQuestion(ClearStreamingState(page.chat.stream), question)]
            asked == Message("question", <<>>, <<question>>, NoCall)
        IN  /\ bridge' = NewRun(bridge, <<asked, answer>>)
            /\ page' = [page EXCEPT !.mode = "direct", !.runtime = ChatRuntime(bridge.run + 1),
                                    !.chat = begun]
            /\ ghost' = [ghost EXCEPT !.display = begun, !.current = FALSE,
                                      !.disturbed = @ \/ syncs # <<>> \/ ~ghost.current]
  BY DEF Answer
<1> DEFINE answer == Message("user", <<"answer", question>>, <<"answer", question>>, NoCall)
           asked == Message("question", <<>>, <<question>>, NoCall)
           s == ClearStreamingState(page.chat.stream)
           r == RemovePendingQuestion(s, question)
           begun == [committed |-> Append(page.chat.committed, answer), stream |-> r]
           b == [bridge EXCEPT !.run = @ + 1, !.log = <<asked, answer>>]
           d == NewIteration(b)
<1>2. /\ bridge' = d
      /\ page' = [page EXCEPT !.mode = "direct", !.runtime = ChatRuntime(bridge.run + 1),
                              !.chat = begun]
      /\ ghost' = [ghost EXCEPT !.display = begun, !.current = FALSE,
                                !.disturbed = @ \/ syncs # <<>> \/ ~ghost.current]
  BY <1>1 DEF NewRun
<1>3. PageInv(page) /\ GhostInv /\ LogInv(bridge, used)
  BY DEF TimelineInv, TextInv
<1>4. answer.kind # "assistant" /\ asked.kind # "assistant"
  BY DEF Message
<1> HIDE DEF answer, asked
<1>5. Sequence(<<asked, answer>>) /\ AssistantText(<<asked, answer>>) = <<>>
  <2> DEFINE x == Append(<<>>, asked)
  <2>1. <<asked, answer>> = Append(x, answer)
    OBVIOUS
  <2>2. Sequence(x) /\ AssistantText(x) = <<>>
    BY <1>4, SequenceEmpty, SequenceAppend, SaidIs
  <2> HIDE DEF x
  <2>3. Sequence(Append(x, answer)) /\ AssistantText(Append(x, answer)) = <<>>
    BY <1>4, <2>2, SequenceAppend, SaidIs
  <2> QED BY <2>1, <2>3, Zenon
<1>6. b.log = <<asked, answer>> /\ {"log", "text", "phase"} \subseteq DOMAIN b
  BY <1>3 DEF LogInv
<1> HIDE DEF b
<1>7. /\ d.log = <<asked, answer>> /\ d.text = <<>>
      /\ {"log", "text", "phase"} \subseteq DOMAIN d
  BY <1>6, NewIterationSays
<1> HIDE DEF d
<1>8. Stream(page.chat.stream)
  BY <1>3 DEF PageInv, Page, Chat
<1>9. Stream(s) /\ s.assistant = EmptySegments
  BY <1>8, ClearStreamingIs, ClearedIs
<1> HIDE DEF s
<1>10. Stream(r) /\ r.assistant = EmptySegments
  BY <1>9, RemoveQuestionIs, QuestionGone
<1> HIDE DEF r
<1>11. begun.stream = r /\ Chat(begun)
  BY <1>10 DEF Chat
<1> HIDE DEF begun
<1>12. page'.runtime.raw = <<>>
  BY <1>2, <1>3, BegunRuntime
<1>13. ghost'.display = begun
  BY <1>2, <1>3 DEF GhostInv
<1> QED BY <1>2, <1>5, <1>7, <1>10, <1>11, <1>12, <1>13, BeginsSilent

\* A page that reads the last event of its stream reads it no more.
LEMMA LastEvent ==
  ASSUME NEW p, Page(p), NEW e, Event(e), NEW f, Event(f),
         NEW h, h = [Handled(Handled(p, e), f) EXCEPT !.mode = "idle"]
  PROVE  h.mode = "idle"
<1> DEFINE g == Handled(p, e)
           d == Handled(g, f)
<1>1. Page(g)
  BY HandledIs
<1> HIDE DEF g
<1>2. Page(d)
  BY <1>1, HandledIs
<1> HIDE DEF d
<1>3. h = [d EXCEPT !.mode = "idle"]
  BY DEF d, g
<1> QED BY <1>2, <1>3 DEF Page

LEMMA TurnEndsMode ==
  ASSUME TimelineInv, TurnEnds
  PROVE  page'.mode # "direct"
<1> DEFINE message == [type |-> "message", text |-> bridge.text]
           done == [type |-> "done"]
<1>1. page' = IF page.mode = "direct"
              THEN [Handled(Handled(page, message), done) EXCEPT !.mode = "idle"]
              ELSE IF page.mode = "recovered"
              THEN [page EXCEPT !.mode = "idle", !.chat = Display(page), !.pending = <<>>]
              ELSE page
  BY DEF TurnEnds
<1>2. Page(page)
  BY DEF TimelineInv, PageInv
<1>3. Event(message) /\ Event(done)
  BY DEF Event
<1> HIDE DEF message, done
<1>4. page.mode = "direct" => page'.mode = "idle"
  BY <1>1, <1>2, <1>3, LastEvent
<1> QED BY <1>1, <1>2, <1>4 DEF Page

LEMMA AskHumanMode ==
  ASSUME TimelineInv, AskHuman
  PROVE  page'.mode # "direct"
<1> DEFINE finished == [type |-> "tool_finished", call |-> Head(bridge.calls)]
           asks == [type |-> "awaiting_human", question |-> used.asks + 1]
<1>1. page' = IF Listening THEN [Handled(Handled(page, finished), asks) EXCEPT !.mode = "idle"]
              ELSE page
  BY DEF AskHuman
<1>2. Page(page)
  BY DEF TimelineInv, PageInv
<1>3. Event(finished) /\ Event(asks)
  BY DEF Event
<1> HIDE DEF finished, asks
<1>4. Listening => page'.mode = "idle"
  BY <1>1, <1>2, <1>3, LastEvent
<1> QED BY <1>1, <1>4 DEF Listening

LEMMA TurnEndsSays ==
  ASSUME TimelineInv, TextInv, TurnEnds
  PROVE  TextInv'
<1> DEFINE b == NewIteration(bridge)
           history == bridge.history \o bridge.log \o IterationMessages(bridge)
<1>1. /\ bridge' = [b EXCEPT !.phase = "idle", !.drafting = FALSE, !.log = <<>>,
                             !.history = @ \o bridge.log \o IterationMessages(bridge)]
  BY DEF TurnEnds
<1>2. LogInv(bridge, used) /\ Page(page)
  BY DEF TimelineInv, TextInv, PageInv
<1>3. /\ b.text = <<>> /\ {"log", "text", "phase"} \subseteq DOMAIN b
  BY <1>2, NewIterationSays DEF LogInv
<1> HIDE DEF b
<1>4. /\ bridge'.log = <<>> /\ bridge'.text = <<>>
      /\ {"log", "text", "phase"} \subseteq DOMAIN bridge'
  BY <1>1, <1>3
<1>5. LogInv(bridge', used')
  BY <1>4, SaysNothing DEF LogInv, Said
<1>6. page'.mode # "direct"
  BY TurnEndsMode
<1> QED BY <1>5, <1>6, NotDirect

LEMMA AskHumanSays ==
  ASSUME TimelineInv, TextInv, AskHuman
  PROVE  TextInv'
<1> DEFINE finished == [type |-> "tool_finished", call |-> Head(bridge.calls)]
           asks == [type |-> "awaiting_human", question |-> used.asks + 1]
           b == Drafted(bridge, finished)
           d == Drafted(b, asks)
<1>1. /\ bridge.phase = "running"
      /\ bridge' = [d EXCEPT !.phase = "asked", !.history = @ \o bridge.log, !.log = <<>>]
  BY DEF AskHuman
<1>2. LogInv(bridge, used) /\ Page(page)
  BY DEF TimelineInv, TextInv, PageInv
<1>3. Event(finished) /\ Event(asks)
  BY DEF Event
<1> HIDE DEF finished, asks
<1>4. b.text = bridge.text /\ {"log", "text", "phase"} \subseteq DOMAIN b
  BY <1>2, DraftedSays DEF LogInv
<1> HIDE DEF b
<1>5. d.text = bridge.text /\ {"log", "text", "phase"} \subseteq DOMAIN d
  BY <1>4, DraftedSays
<1> HIDE DEF d
<1>6. /\ bridge'.log = <<>> /\ bridge'.text = <<>>
      /\ {"log", "text", "phase"} \subseteq DOMAIN bridge'
  BY <1>1, <1>2, <1>5 DEF LogInv
<1>7. LogInv(bridge', used')
  BY <1>6, SaysNothing DEF LogInv, Said
<1>8. page'.mode # "direct"
  BY AskHumanMode
<1> QED BY <1>7, <1>8, NotDirect

LEMMA FlushTimerSays ==
  ASSUME TimelineInv, TextInv, FlushTimer
  PROVE  TextInv'
<1>1. /\ page' = [page EXCEPT !.chat = Display(page), !.pending = <<>>]
      /\ bridge' = bridge /\ used' = used /\ ghost' = ghost
  BY DEF FlushTimer
<1>2. page'.mode = page.mode /\ page'.runtime = page.runtime
  BY <1>1 DEF TimelineInv, PageInv, Page
<1> QED BY <1>1, <1>2 DEF TextInv, ReadInv, Intact

LEMMA SyncHistorySays ==
  ASSUME TimelineInv, TextInv, SyncHistory
  PROVE  TextInv'
<1>1. PICK chat, now :
        /\ page' = [page EXCEPT !.chat = chat]
        /\ ghost' = [ghost EXCEPT !.display = Display(page'), !.disturbed = @ \/ page.mode # "idle",
                                  !.current = now]
        /\ bridge' = bridge /\ used' = used
  BY DEF SyncHistory
<1>2. page'.mode = page.mode
  BY <1>1 DEF TimelineInv, PageInv, Page
<1>3. ~ghost'.disturbed => page.mode = "idle"
  BY <1>1 DEF TimelineInv, GhostInv
<1> QED BY <1>1, <1>2, <1>3 DEF TextInv, ReadInv, Intact

LEMMA ReloadSays ==
  ASSUME TimelineInv, TextInv, Reload
  PROVE  TextInv'
<1>1. page'.mode # "direct" /\ bridge' = bridge
  BY DEF Reload
<1>2. used'.text = used.text
  BY DEF Reload, Count, TimelineInv, UsedInv
<1> QED BY <1>1, <1>2, NotDirect DEF TextInv, LogInv

LEMMA SubscribeSays ==
  ASSUME TimelineInv, TextInv, Subscribe
  PROVE  TextInv'
<1>1. page'.mode = "recovered" /\ bridge' = bridge /\ used' = used
  BY DEF Subscribe, TimelineInv, PageInv, Page
<1> QED BY <1>1, NotDirect DEF TextInv

\* Every step keeps TextInv.
LEMMA TextStep ==
  ASSUME TimelineInv, TextInv, [Next]_vars
  PROVE  TextInv'
<1>1. CASE UNCHANGED <<bridge, page, used, ghost>>
  BY <1>1 DEF TextInv, ReadInv, Intact
<1>2. CASE Next
  BY <1>1, <1>2, SendSays, AnswerSays, StreamTextSays, StreamThinkingSays, CallStartSays,
     CallEndSays, CallsToRunSays, ToolStartsSays, ToolFinishesSays, NextIterationSays,
     TurnEndsSays, AskHumanSays, FlushTimerSays, SyncHistorySays, ReloadSays, SubscribeSays
     DEF Next, BridgeStep, ReadHistory, SyncFails
<1>3. CASE UNCHANGED vars
  BY <1>1, <1>3 DEF vars
<1> QED BY <1>2, <1>3

\* A page that reads the stream of the turn it sent shows the text of the run, each iteration
\* once and in order, whether the provider sends pieces or all of the text again
\* (normalizeTextDelta).
THEOREM TextIsInOrder == Spec => []TextInOrder
<1>1. Init => TextInv
  BY TextInit
<1>2. TimelineInv /\ TextInv /\ [Next]_vars => TextInv'
  BY TextStep
<1>3. TimelineInv /\ TextInv => TextInOrder
  BY DEF TimelineInv, BufferExact, TextInv, ReadInv, Intact, TextInOrder,
         Streams, StreamedText, Said
<1> QED BY <1>1, <1>2, <1>3, TimelineInvariant, PTL DEF Spec

-----------------------------------------------------------------------------
(* The cards of a run's calls.                                             *)

RuntimeFields(r) ==
  /\ {"trace", "nextPreview", "queue", "messageIds", "previewIds", "previewCalls"} \subseteq DOMAIN r
  /\ r.nextPreview \in Nat /\ Sequence(r.queue)

\* The card that an event of a call upserts.
CardOf(r, e) ==
  IF e.type \in {"call_start", "call_end"}
  THEN LET found == ResolvePreview(r, e.index, e.call)
       IN  Tool(r, found.id, CallOfCard(found.runtime, found.id), "pending")
  ELSE Tool(r, ResolveCall(r, e.call).id, e.call,
            IF e.type = "tool_started" THEN "running" ELSE "success")

\* g is f with y at x.
Puts(g, f, x, y) ==
  /\ DOMAIN g = DOMAIN f \cup {x} /\ g[x] = y
  /\ \A z \in DOMAIN f : z # x => g[z] = f[z]

\* What an event of a call that streams leaves in the runtime's tables.
LEMMA PreviewRuntime ==
  ASSUME NEW r, RuntimeFields(r), NEW e, e.type \in {"call_start", "call_end"},
         NEW id, id = ResolvePreview(r, e.index, e.call).id,
         NEW q, q = ProjectAgentEvent(r, e).runtime
  PROVE  /\ RuntimeFields(q) /\ q.trace = r.trace
         /\ q.nextPreview = IF e.index \notin DOMAIN r.previewIds /\ e.call = NoCall
                            THEN r.nextPreview + 1 ELSE r.nextPreview
         /\ IF e.call = NoCall
            THEN q.messageIds = r.messageIds /\ q.previewCalls = r.previewCalls
            ELSE /\ Puts(q.messageIds, r.messageIds, e.call, id)
                 /\ Puts(q.previewCalls, r.previewCalls, e.index, e.call)
         /\ Puts(q.previewIds, r.previewIds, e.index, id)
         /\ q.queue = IF e.type = "call_end" /\ e.index \notin DOMAIN q.previewCalls
                         /\ id \notin ToSet(r.queue)
                      THEN Append(r.queue, id) ELSE r.queue
         /\ CardOf(r, e) = [id |-> id, call |-> CallOfCard(q, id), status |-> "pending"]
<1> DEFINE found == ResolvePreview(r, e.index, e.call)
           f == found.runtime
           pids == Put(r.previewIds, e.index, id)
           np == IF e.index \notin DOMAIN r.previewIds /\ e.call = NoCall
                 THEN r.nextPreview + 1 ELSE r.nextPreview
           named == [r EXCEPT !.previewIds = pids, !.nextPreview = np]
           ms == Put(r.messageIds, e.call, id)
           cs == Put(r.previewCalls, e.index, e.call)
<1>1. found.id = id
  OBVIOUS
<1>2. f = IF e.call = NoCall THEN named
          ELSE [named EXCEPT !.messageIds = ms, !.previewCalls = cs]
  BY DEF ResolvePreview
<1>3. q = [f EXCEPT !.queue = IF e.type = "call_end" /\ e.index \notin DOMAIN f.previewCalls
                                 /\ id \notin ToSet(f.queue)
                              THEN Append(@, id) ELSE @]
  BY <1>1 DEF ProjectAgentEvent, ProjectToolPreview, Previewed, Projected
<1>4. CardOf(r, e) = [id |-> id, call |-> CallOfCard(f, id), status |-> "pending"]
  BY <1>1 DEF CardOf, Tool
<1>4a. /\ Puts(pids, r.previewIds, e.index, id) /\ Puts(ms, r.messageIds, e.call, id)
       /\ Puts(cs, r.previewCalls, e.index, e.call)
  BY DEF Puts, Put
<1> HIDE DEF found, f, pids, np, ms, cs
<1>5. /\ {"trace", "nextPreview", "queue", "messageIds", "previewIds", "previewCalls"} \subseteq DOMAIN f
      /\ f.trace = r.trace /\ f.nextPreview = np /\ f.queue = r.queue /\ f.previewIds = pids
      /\ f.messageIds = IF e.call = NoCall THEN r.messageIds ELSE ms
      /\ f.previewCalls = IF e.call = NoCall THEN r.previewCalls ELSE cs
  BY <1>2 DEF RuntimeFields
<1>6. /\ {"trace", "nextPreview", "queue", "messageIds", "previewIds", "previewCalls"} \subseteq DOMAIN q
      /\ q.trace = f.trace /\ q.nextPreview = f.nextPreview /\ q.previewIds = f.previewIds
      /\ q.messageIds = f.messageIds /\ q.previewCalls = f.previewCalls
      /\ q.queue = IF e.type = "call_end" /\ e.index \notin DOMAIN q.previewCalls
                      /\ id \notin ToSet(r.queue)
                   THEN Append(r.queue, id) ELSE r.queue
  BY <1>3, <1>5
<1>7. CallOfCard(q, id) = CallOfCard(f, id)
  BY <1>6, Zenon DEF CallOfCard
<1>8. np \in Nat
  BY DEF np, RuntimeFields
<1>9. Sequence(q.queue)
  BY <1>6, SequenceAppend DEF RuntimeFields
<1> QED BY <1>4, <1>4a, <1>5, <1>6, <1>7, <1>8, <1>9 DEF RuntimeFields, np

\* What an event of a call that runs leaves in them.
LEMMA RunRuntime ==
  ASSUME NEW r, RuntimeFields(r), NEW e, e.type \in {"tool_started", "tool_finished"},
         NEW id, id = ResolveCall(r, e.call).id,
         NEW q, q = ProjectAgentEvent(r, e).runtime,
         e.call \notin DOMAIN r.messageIds /\ r.queue # <<>> => Sequence(Tail(r.queue))
  PROVE  /\ RuntimeFields(q) /\ q.trace = r.trace /\ q.nextPreview = r.nextPreview
         /\ Puts(q.messageIds, r.messageIds, e.call, id)
         /\ q.previewIds = NoFunction /\ q.previewCalls = NoFunction
         /\ q.queue = IF e.call \notin DOMAIN r.messageIds /\ r.queue # <<>> THEN Tail(r.queue)
                      ELSE r.queue
         /\ id = IF e.call \in DOMAIN r.messageIds THEN r.messageIds[e.call]
                 ELSE IF r.queue # <<>> THEN Head(r.queue) ELSE CallCard(e.call)
         /\ CardOf(r, e).id = id /\ CardOf(r, e).call = e.call
<1> DEFINE ms == Put(r.messageIds, e.call, id)
           queue == IF e.call \notin DOMAIN r.messageIds /\ r.queue # <<>> THEN Tail(r.queue)
                    ELSE r.queue
           cleared == [r EXCEPT !.previewIds = NoFunction, !.previewCalls = NoFunction]
<1>1. q = [cleared EXCEPT !.messageIds = ms, !.queue = queue]
  BY DEF ProjectAgentEvent, ProjectToolRun, Projected, ResolveCall, RuntimeFields
<1>2. id = IF e.call \in DOMAIN r.messageIds THEN r.messageIds[e.call]
           ELSE IF r.queue # <<>> THEN Head(r.queue) ELSE CallCard(e.call)
  BY DEF ResolveCall
<1>3. CardOf(r, e).id = id /\ CardOf(r, e).call = e.call
  BY DEF CardOf, Tool
<1>4. Sequence(queue)
  BY DEF RuntimeFields
<1>4a. Puts(ms, r.messageIds, e.call, id)
  BY DEF Puts, Put
<1> HIDE DEF ms, queue
<1>5. /\ {"trace", "nextPreview", "queue", "messageIds", "previewIds", "previewCalls"} \subseteq DOMAIN q
      /\ q.trace = r.trace /\ q.nextPreview = r.nextPreview /\ q.queue = queue
      /\ q.previewIds = NoFunction /\ q.previewCalls = NoFunction /\ q.messageIds = ms
  BY <1>1 DEF RuntimeFields
<1> QED BY <1>2, <1>3, <1>4, <1>4a, <1>5 DEF RuntimeFields, queue

\* What an event that is of no call leaves in them.
LEMMA OtherRuntime ==
  ASSUME NEW r, RuntimeFields(r), NEW e, e.type \in {"text", "thinking"},
         NEW q, q = ProjectAgentEvent(r, e).runtime
  PROVE  /\ RuntimeFields(q) /\ q.trace = r.trace /\ q.nextPreview = r.nextPreview
         /\ q.messageIds = r.messageIds /\ q.previewIds = r.previewIds
         /\ q.previewCalls = r.previewCalls /\ q.queue = r.queue
<1>1. q = r \/ \E x, y : q = [r EXCEPT !.raw = x, !.buffer = y]
  BY DEF ProjectAgentEvent, ProjectTextDelta, Projected
<1> QED BY <1>1 DEF RuntimeFields

LEMMA NewRuntimeFields ==
  ASSUME NEW run, NEW r, r = ChatRuntime(run)
  PROVE  /\ RuntimeFields(r) /\ r.queue = <<>> /\ r.messageIds = NoFunction
         /\ r.previewIds = NoFunction /\ r.previewCalls = NoFunction /\ DOMAIN NoFunction = {}
<1>1. DOMAIN <<>> = {}
  OBVIOUS
<1> QED BY <1>1, SequenceEmpty DEF RuntimeFields, ChatRuntime, NoFunction

\* What an action does to the cards that a chat shows.
LEMMA ActionTools ==
  ASSUME NEW c, Chat(c), NEW a, Streaming(a), NEW r, r = ApplyRuntimeAction(c, a)
  PROVE  /\ Chat(r)
         /\ r.stream.tools = IF a.type = "tool" THEN UpsertTool(c.stream.tools, a.tool)
                             ELSE c.stream.tools
<1>1. c = [committed |-> c.committed, stream |-> c.stream] /\ Fields(c.stream)
  BY DEF Chat, Stream
<1>2. Chat(r)
  BY ActionIs DEF Streaming
<1>3. \A s : [c EXCEPT !.stream = s].stream = s
  BY <1>1
<1>4. CASE a.type = "text"
  <2> DEFINE t == AppendSegment(c.stream.assistant, a.text)
             s == AppendAssistantText(c.stream, a.text)
  <2>1. r = [c EXCEPT !.stream = s]
    BY <1>4 DEF ApplyRuntimeAction
  <2> HIDE DEF s, t
  <2>2. s = [assistant |-> t, thinking |-> Break(c.stream.thinking), tools |-> c.stream.tools,
             questions |-> c.stream.questions,
             items |-> AddItem(c.stream.items, <<"assistant", t.active>>)]
    BY <1>1, AssistantForm DEF s, t
  <2> QED BY <1>2, <1>3, <1>4, <2>1, <2>2
<1>5. CASE a.type = "thinking"
  <2> DEFINE t == AppendSegment(c.stream.thinking, a.text)
             s == AppendThinkingText(c.stream, a.text)
  <2>1. r = [c EXCEPT !.stream = s]
    BY <1>5 DEF ApplyRuntimeAction
  <2> HIDE DEF s, t
  <2>2. s = [assistant |-> c.stream.assistant, thinking |-> t, tools |-> c.stream.tools,
             questions |-> c.stream.questions,
             items |-> AddItem(c.stream.items, <<"thinking", t.active>>)]
    BY <1>1, ThinkingForm DEF s, t
  <2> QED BY <1>2, <1>3, <1>5, <2>1, <2>2
<1>6. CASE a.type = "boundary"
  <2>1. r = [c EXCEPT !.stream.thinking = Break(@)]
    BY <1>6 DEF ApplyRuntimeAction
  <2> QED BY <1>1, <1>2, <1>6, <2>1 DEF Fields
<1>7. CASE a.type = "tool"
  <2> DEFINE s == UpsertStreamingTool(c.stream, a.tool)
             tools == UpsertTool(c.stream.tools, a.tool)
  <2>1. r = [c EXCEPT !.stream = s]
    BY <1>7 DEF ApplyRuntimeAction
  <2>2. \E x, y, z : s = [c.stream EXCEPT !.assistant = x, !.thinking = y, !.tools = tools, !.items = z]
    BY Zenon DEF UpsertStreamingTool
  <2> HIDE DEF s, tools
  <2>3. s.tools = tools
    BY <1>1, <2>2 DEF Fields
  <2> QED BY <1>2, <1>3, <1>7, <2>1, <2>3 DEF tools
<1> QED BY <1>4, <1>5, <1>6, <1>7 DEF Streaming

\* What an event does to them.
LEMMA EventTools ==
  ASSUME NEW c, Chat(c), NEW runtime, Raw(runtime), NEW e, Event(e),
         e.type \notin {"awaiting_human", "message", "done"},
         NEW r, r = ApplyRuntimeActions(c, ProjectAgentEvent(runtime, e).actions)
  PROVE  r.stream.tools = IF e.type \in {"text", "thinking"} THEN c.stream.tools
                          ELSE UpsertTool(c.stream.tools, CardOf(runtime, e))
<1> DEFINE t == ProjectAgentEvent(runtime, e).actions
           boundary == [type |-> "boundary"]
           card == CardOf(runtime, e)
           a == [type |-> "tool", tool |-> card]
<1>1. Streaming(boundary) /\ boundary.type # "tool"
  BY DEF Streaming, RuntimeAction
<1>2. Streaming(a) /\ a.type = "tool" /\ a.tool = card
  BY DEF Streaming, RuntimeAction
<1>3. ASSUME e.type \in {"text", "thinking"}
      PROVE  t = <<>> \/ \E x : t = <<x>> /\ Streaming(x) /\ x.type # "tool"
  <2>1. CASE e.type = "text"
    <3> DEFINE d == NormalizeTextDelta(runtime.raw, e.text)
               x == [type |-> "text", text |-> d]
    <3>1. t = IF d = <<>> THEN <<>> ELSE <<x>>
      BY <2>1 DEF ProjectAgentEvent, ProjectTextDelta, Projected
    <3>2. d \in Text
      BY <2>1, DeltaIs DEF Event, Raw
    <3> HIDE DEF t, d
    <3>3. Streaming(x) /\ x.type # "tool"
      BY <3>2 DEF Streaming, RuntimeAction, Buffered
    <3> QED BY <3>1, <3>3
  <2>2. CASE e.type = "thinking"
    <3> DEFINE x == [type |-> "thinking", text |-> e.text]
    <3>1. t = <<x>>
      BY <2>2 DEF ProjectAgentEvent, Projected
    <3>2. Streaming(x) /\ x.type # "tool"
      BY <2>2 DEF Streaming, RuntimeAction, Buffered, Event
    <3> QED BY <3>1, <3>2
  <2> QED BY <1>3, <2>1, <2>2
<1>4. ASSUME e.type \notin {"text", "thinking"} PROVE t = <<boundary, a>> \/ t = <<a>>
  <2>1. CASE e.type \in {"call_start", "call_end"}
    <3>1. t = IF e.type = "call_start" THEN <<boundary>> \o <<a>> ELSE <<a>>
      BY <2>1 DEF ProjectAgentEvent, ProjectToolPreview, Previewed, Projected, CardOf
    <3> HIDE DEF boundary, a, t
    <3>2. <<boundary>> \o <<a>> = <<boundary, a>>
      <4> DEFINE one == <<boundary>>
      <4>1. one = Append(<<>>, boundary)
        OBVIOUS
      <4>1a. <<boundary, a>> = Append(<<boundary>>, a)
        <5> \A x, y : <<x, y>> = Append(<<x>>, y)
          OBVIOUS
        <5> QED OBVIOUS
      <4>2. Sequence(Append(<<>>, boundary))
        BY SequenceEmpty, SequenceAppend
      <4> HIDE DEF one
      <4>3. one \o <<a>> = Append(one, a)
        BY <4>1, <4>2, MoreIs
      <4> QED BY <4>1a, <4>3 DEF one
    <3> QED BY <3>1, <3>2
  <2>2. CASE e.type \in {"tool_started", "tool_finished"}
    <3>1. t = <<boundary, a>>
      BY <2>2 DEF ProjectAgentEvent, ProjectToolRun, Projected, CardOf
    <3> QED BY <3>1
  <2> QED BY <1>4, <2>1, <2>2 DEF Event
<1> HIDE DEF t, card, a, boundary
<1>5. CASE e.type \in {"text", "thinking"}
  <2>1. CASE t = <<>>
    BY <1>5, <2>1, NoActions DEF t
  <2>2. ASSUME NEW x, t = <<x>>, Streaming(x), x.type # "tool"
        PROVE  r.stream.tools = c.stream.tools
    BY <2>2, OneAction, ActionTools DEF t
  <2> QED BY <1>3, <1>5, <2>1, <2>2
<1>6. CASE e.type \notin {"text", "thinking"}
  <2> DEFINE m == ApplyRuntimeAction(c, boundary)
  <2>1. Chat(m) /\ m.stream.tools = c.stream.tools
    BY <1>1, ActionTools
  <2>2. /\ ApplyRuntimeActions(c, <<a>>) = ApplyRuntimeAction(c, a)
        /\ ApplyRuntimeActions(c, <<boundary, a>>) = ApplyRuntimeAction(m, a)
    <3> DEFINE S == {boundary, a}
               one == <<boundary>>
    <3>1. <<boundary, a>> = Append(one, a) /\ one \in Seq(S) /\ a \in S
      OBVIOUS
    <3> HIDE DEF S, one
    <3>2. ApplyRuntimeActions(c, Append(one, a))
            = ApplyRuntimeAction(ApplyRuntimeActions(c, one), a)
      BY <3>1, OneMoreAction
    <3>3. ApplyRuntimeActions(c, one) = m
      BY OneAction DEF one
    <3> HIDE DEF m
    <3>4. ApplyRuntimeActions(c, Append(one, a)) = ApplyRuntimeAction(m, a)
      BY <3>2, <3>3, Zenon
    <3>5. ApplyRuntimeActions(c, <<a>>) = ApplyRuntimeAction(c, a)
      BY OneAction
    <3> QED BY <3>1, <3>4, <3>5, Zenon
  <2> HIDE DEF m
  <2>3. r = ApplyRuntimeAction(c, a) \/ r = ApplyRuntimeAction(m, a)
    BY <1>4, <1>6, <2>2, Zenon DEF t
  <2>4. r.stream.tools = UpsertTool(c.stream.tools, card)
    BY <1>2, <2>1, <2>3, ActionTools
  <2> QED BY <1>6, <2>4 DEF card
<1> QED BY <1>5, <1>6

\* The buffer holds back no card.
LEMMA DisplayTools ==
  ASSUME NEW p, Page(p)
  PROVE  Display(p).stream.tools = p.chat.stream.tools
<1>1. Chat(p.chat) /\ Waits(p.pending)
  BY DEF Page
<1>2. CASE p.pending = <<>>
  BY <1>2, DisplayIs
<1>3. ASSUME NEW a, p.pending = <<a>>, Buffered(a)
      PROVE  Display(p).stream.tools = p.chat.stream.tools
  <2>1. Streaming(a) /\ a.type # "tool"
    BY <1>3 DEF Streaming, RuntimeAction, Buffered
  <2>2. Display(p) = ApplyRuntimeAction(p.chat, a)
    BY <1>3, OneAction DEF Display
  <2> QED BY <1>1, <2>1, <2>2, ActionTools
<1> QED BY <1>1, <1>2, <1>3 DEF Waits

\* No two cards have one name.
IdsApart(t) == \A j, k \in 1..Len(t) : t[j].id = t[k].id => j = k

\* A card whose name is there replaces that one, another comes last.
Upserted(t, card, r) ==
  /\ Sequence(r) /\ Len(t) \in Nat
  /\ \A k \in 1..Len(t) : card.id = t[k].id =>
       /\ Len(r) = Len(t) /\ r[k] = card
       /\ \A j \in 1..Len(t) : j # k => r[j] = t[j]
  /\ (\A k \in 1..Len(t) : card.id # t[k].id) =>
       /\ Len(r) = Len(t) + 1 /\ r[Len(t) + 1] = card
       /\ \A j \in 1..Len(t) : r[j] = t[j]

LEMMA UpsertAt ==
  ASSUME NEW t, Sequence(t), IdsApart(t), NEW card, NEW r, r = UpsertTool(t, card)
  PROVE  Upserted(t, card, r)
<1>1. Sequence(r)
  BY UpsertToolIs
<1>2. t \in Seq(ToSet(t)) /\ Len(t) \in Nat /\ DOMAIN t = 1..Len(t)
  BY DEF Sequence
<1>3. ToolIds(t) = {t[i].id : i \in 1..Len(t)}
  BY <1>2 DEF ToolIds, ToSet
<1>4. ASSUME NEW k \in 1..Len(t), card.id = t[k].id
      PROVE  /\ Len(r) = Len(t) /\ r[k] = card
             /\ \A j \in 1..Len(t) : j # k => r[j] = t[j]
  <2>1. r = [i \in 1..Len(t) |-> IF t[i].id = card.id THEN card ELSE t[i]]
    BY <1>2, <1>3, <1>4 DEF UpsertTool, IdsApart
  <2>2. Len(r) = Len(t)
    BY <1>2, <2>1
  <2> QED BY <1>4, <2>1, <2>2 DEF IdsApart
<1>5. ASSUME \A k \in 1..Len(t) : card.id # t[k].id
      PROVE  /\ Len(r) = Len(t) + 1 /\ r[Len(t) + 1] = card
             /\ \A j \in 1..Len(t) : r[j] = t[j]
  <2>1. r = Append(t, card)
    BY <1>3, <1>5 DEF UpsertTool
  <2> DEFINE S == ToSet(t) \cup {card}
  <2>2. t \in Seq(S) /\ card \in S
    BY <1>2
  <2> HIDE DEF S
  <2> QED BY <2>1, <2>2, AppendProperties
<1> QED BY <1>1, <1>2, <1>4, <1>5 DEF Upserted

\* The names in a queue are those of cards, in the cards' order.
Ordered(queue, t) ==
  \A i, j \in 1..Len(queue), k, l \in 1..Len(t) :
    i < j /\ queue[i] = t[k].id /\ queue[j] = t[l].id => k < l

LEMMA OrderedSame ==
  ASSUME NEW queue, NEW t, NEW s, Ordered(queue, t), Len(s) = Len(t),
         \A k \in 1..Len(t) : s[k].id = t[k].id
  PROVE  Ordered(queue, s)
BY DEF Ordered

LEMMA OrderedMore ==
  ASSUME NEW queue, NEW t, NEW s, NEW n \in Nat, Len(t) = n, Len(s) = n + 1, Ordered(queue, t),
         IdsApart(s), \A k \in 1..n : s[k].id = t[k].id, Sequence(queue),
         \A id \in ToSet(queue) : \E k \in 1..n : id = t[k].id
  PROVE  Ordered(queue, s)
<1> SUFFICES ASSUME NEW i \in 1..Len(queue), NEW j \in 1..Len(queue),
                    NEW k \in 1..(n + 1), NEW l \in 1..(n + 1),
                    i < j, queue[i] = s[k].id, queue[j] = s[l].id
             PROVE  k < l
  BY DEF Ordered
<1>1. queue[i] \in ToSet(queue) /\ queue[j] \in ToSet(queue)
  BY DEF Sequence
<1>2. PICK x \in 1..n, y \in 1..n : queue[i] = t[x].id /\ queue[j] = t[y].id
  BY <1>1
<1>3. x \in 1..(n + 1) /\ y \in 1..(n + 1) /\ Len(s) = n + 1
  BY <1>2
<1>4. s[k].id = s[x].id /\ s[l].id = s[y].id
  BY <1>2
<1>5. x = k /\ y = l
  BY <1>3, <1>4 DEF IdsApart
<1>6. x < y
  BY <1>2 DEF Ordered
<1> QED BY <1>5, <1>6

LEMMA OrderedAppend ==
  ASSUME NEW queue, Sequence(queue), NEW t, Sequence(t), IdsApart(t), Ordered(queue, t),
         NEW k \in 1..Len(t), \A id \in ToSet(queue) : \E l \in 1..(k - 1) : id = t[l].id,
         NEW q, q = Append(queue, t[k].id)
  PROVE  Ordered(q, t)
<1> DEFINE S == ToSet(queue) \cup {t[k].id}
           z == Len(queue)
           n == Len(t)
<1>1. queue \in Seq(S) /\ t[k].id \in S /\ queue \in Seq(ToSet(queue)) /\ n \in Nat
  BY DEF Sequence
<1> HIDE DEF S
<1>2. /\ z \in Nat /\ Len(q) = z + 1 /\ q[z + 1] = t[k].id
      /\ \A i \in 1..z : q[i] = queue[i] /\ queue[i] \in ToSet(queue)
  BY <1>1, AppendProperties
<1> HIDE DEF z, n
<1> SUFFICES ASSUME NEW i \in 1..(z + 1), NEW j \in 1..(z + 1), NEW x \in 1..n, NEW y \in 1..n,
                    i < j, q[i] = t[x].id, q[j] = t[y].id
             PROVE  x < y
  BY <1>2 DEF Ordered, n
<1>3. i \in 1..z /\ (j \in 1..z \/ j = z + 1)
  BY <1>2
<1>4. CASE j \in 1..z
  BY <1>2, <1>3, <1>4 DEF Ordered, n, z
<1>5. CASE j = z + 1
  <2>1. y = k
    BY <1>2, <1>5 DEF IdsApart, n
  <2>2. PICK l \in 1..(k - 1) : t[x].id = t[l].id
    BY <1>2, <1>3
  <2>3. l \in 1..n /\ l < k
    BY <1>1 DEF n
  <2>4. x = l
    BY <2>2, <2>3 DEF IdsApart, n
  <2> QED BY <2>1, <2>3, <2>4
<1> QED BY <1>3, <1>4, <1>5

\* The names in a queue are those of cards from the k-th on, and the k-th's is there.
Leads(queue, t, k) ==
  /\ Sequence(queue) /\ Sequence(t) /\ IdsApart(t) /\ Ordered(queue, t)
  /\ k \in 1..Len(t) /\ t[k].id \in ToSet(queue)
  /\ \A id \in ToSet(queue) : \E l \in k..Len(t) : id = t[l].id

\* The first name is that of the first card, of those in the queue.
LEMMA OrderedTail ==
  ASSUME NEW queue, NEW t, NEW k, Leads(queue, t, k)
  PROVE  /\ Head(queue) = t[k].id /\ Sequence(Tail(queue)) /\ Ordered(Tail(queue), t)
         /\ ToSet(Tail(queue)) = ToSet(queue) \ {t[k].id}
<1>0. /\ Sequence(queue) /\ Sequence(t) /\ IdsApart(t) /\ Ordered(queue, t)
      /\ k \in 1..Len(t) /\ t[k].id \in ToSet(queue)
      /\ \A id \in ToSet(queue) : \E l \in k..Len(t) : id = t[l].id
  BY DEF Leads
<1> DEFINE z == Len(queue)
           n == Len(t)
           S == ToSet(queue)
           q == Tail(queue)
<1>1. /\ queue \in Seq(S) /\ z \in Nat /\ S = {queue[i] : i \in 1..z} /\ n \in Nat
  BY <1>0 DEF Sequence, ToSet
<1>2. PICK p \in 1..z : queue[p] = t[k].id
  BY <1>0, <1>1
<1>3. queue # <<>> /\ 1 \in 1..z
  BY <1>0, <1>1
<1>4. /\ Head(queue) = queue[1] /\ q \in Seq(S) /\ Len(q) = z - 1
      /\ \A i \in 1..(z - 1) : q[i] = queue[i + 1]
  BY <1>0, <1>1, <1>3, HeadTailProperties
<1> HIDE DEF z, n, S, q
<1>5. p = 1
  <2> SUFFICES ASSUME 1 < p PROVE FALSE
    BY <1>0, <1>2
  <2>1. PICK l \in k..n : queue[1] = t[l].id
    BY <1>0, <1>1, <1>3 DEF S, n
  <2>2. l \in 1..n /\ k \in 1..n
    BY <1>0, <1>1 DEF n
  <2>3. l < k
    BY <1>0, <1>2, <1>3, <2>1, <2>2 DEF Ordered, n, z
  <2> QED BY <1>0, <1>1, <2>2, <2>3
<1>6. Ordered(q, t)
  <2> SUFFICES ASSUME NEW i \in 1..(z - 1), NEW j \in 1..(z - 1), NEW x \in 1..n, NEW y \in 1..n,
                      i < j, q[i] = t[x].id, q[j] = t[y].id
               PROVE  x < y
    BY <1>0, <1>4 DEF Ordered, n
  <2>1. /\ i + 1 \in 1..z /\ j + 1 \in 1..z /\ i + 1 < j + 1
        /\ queue[i + 1] = t[x].id /\ queue[j + 1] = t[y].id
    BY <1>0, <1>1, <1>4
  <2> QED BY <1>0, <2>1 DEF Ordered, n, z
<1>7. Sequence(q) /\ ToSet(q) = {q[i] : i \in 1..(z - 1)}
  <2>1. q \in Seq(S)
    BY <1>0, <1>4
  <2>2. Sequence(q)
    BY <1>0, <2>1, SequenceOf
  <2>3. DOMAIN q = 1..(z - 1)
    BY <1>0, <1>4, <2>1
  <2> QED BY <1>0, <2>2, <2>3 DEF ToSet
<1>8. \A x \in ToSet(q) : x \in S /\ x # t[k].id
  <2> SUFFICES ASSUME NEW i \in 1..(z - 1) PROVE q[i] \in S /\ q[i] # t[k].id
    BY <1>0, <1>7
  <2>1. i + 1 \in 1..z /\ q[i] = queue[i + 1]
    BY <1>0, <1>1, <1>4
  <2>2. queue[i + 1] \in S /\ 1 < i + 1
    BY <1>0, <1>1, <2>1
  <2>3. k \in 1..n
    BY <1>0 DEF n
  <2>4. queue[i + 1] = t[k].id => k < k
    BY <1>0, <1>2, <1>3, <1>5, <2>1, <2>2, <2>3 DEF Ordered, n, z
  <2>5. ~(k < k)
    BY <1>0, <1>1, <2>3
  <2>6. queue[i + 1] # t[k].id
    BY <1>0, <2>4, <2>5
  <2> QED BY <1>0, <2>1, <2>2, <2>6
<1>9. \A x \in S : x # t[k].id => x \in ToSet(q)
  <2> SUFFICES ASSUME NEW i \in 1..z, queue[i] # t[k].id PROVE queue[i] \in ToSet(q)
    BY <1>0, <1>1
  <2>1. i # 1 /\ i - 1 \in 1..(z - 1) /\ (i - 1) + 1 = i
    BY <1>0, <1>1, <1>2, <1>5
  <2>2. q[i - 1] = queue[i]
    BY <1>0, <1>4, <2>1
  <2> QED BY <1>0, <1>7, <2>1, <2>2
<1> QED BY <1>0, <1>2, <1>4, <1>5, <1>6, <1>7, <1>8, <1>9 DEF S, q

CallFields(b) == {"log", "calls", "ended", "phase"} \subseteq DOMAIN b

Done(b) == {m.call : m \in {l \in ToSet(b.log) : l.kind = "tool"}}

Told(r, call) == call \in DOMAIN r.messageIds

\* The run's calls are the last ones made: those that are done, then those of the iteration.
\* Each has one card, in their order.
Counted(t, b, from, done) ==
  /\ Sequence(t) /\ b.calls \in Seq(Nat) /\ Len(t) = done + Len(b.calls)
  /\ \A i \in 1..Len(b.calls) : b.calls[i] = from + done + i
  /\ Done(b) = (from + 1)..(from + done)

\* A card knows its call when the runtime was told of it, under the card's name.
Named(t, r, from) ==
  /\ IdsApart(t)
  /\ DOMAIN r.messageIds \subseteq (from + 1)..(from + Len(t))
  /\ \A k \in 1..Len(t) : t[k].call = IF Told(r, from + k) THEN from + k ELSE NoCall
  /\ \A k \in 1..Len(t) : Told(r, from + k) => r.messageIds[from + k] = t[k].id

\* The name of the next card is new.
Fresh(t, r, from) ==
  \A k \in 1..Len(t) :
    \/ t[k].id = CallCard(from + k)
    \/ \E n \in Nat, i \in Nat : n < r.nextPreview /\ t[k].id = <<"preview", r.trace, n, i>>

\* The runtime was told of the calls that began to run.
Ran(r, b, from, done) ==
  /\ \A k \in 1..done : Told(r, from + k)
  /\ b.phase = "running" => b.calls # <<>> /\ Told(r, from + done + 1)

\* The queue holds, in their order, the cards of the calls that ended in the stream and that
\* the runtime was not told of.
Announced(t, b, done) == IF b.phase = "llm" THEN done + b.ended ELSE Len(t)

Untold(r, n, from) == {j \in 1..n : ~Told(r, from + j)}

IdsOf(t, K) == {t[k].id : k \in K}

Queued(t, r, n, from) ==
  ToSet(r.queue) = IdsOf(t, Untold(r, n, from)) /\ Ordered(r.queue, t)

\* The tables of indices are of the message that streams.
Indexed(t, r, b, from, done) ==
  /\ b.phase = "llm" =>
       /\ b.ended \in 0..Len(b.calls)
       /\ DOMAIN r.previewIds = 0..(Len(b.calls) - 1)
       /\ \A i \in 0..(Len(b.calls) - 1) : r.previewIds[i] = t[done + i + 1].id
       /\ DOMAIN r.previewCalls = {i \in 0..(Len(b.calls) - 1) : Told(r, from + done + i + 1)}
  /\ b.phase = "running" \/ (b.phase = "tools" /\ b.calls = <<>>) =>
       r.previewIds = NoFunction /\ r.previewCalls = NoFunction

CardsOf(t, r, b, from, done) ==
  /\ b.phase \in {"llm", "tools", "running"} /\ RuntimeFields(r)
  /\ Counted(t, b, from, done) /\ Named(t, r, from) /\ Fresh(t, r, from)
  /\ Ran(r, b, from, done) /\ Queued(t, r, Announced(t, b, done), from)
  /\ Indexed(t, r, b, from, done)

\* No card goes, none is renamed and none is given to another call.
KeepsCards(t, s) ==
  /\ Len(t) <= Len(s)
  /\ \A k \in 1..Len(t) : s[k].id = t[k].id /\ (t[k].call # NoCall => s[k].call = t[k].call)

LEMMA NamesApart ==
  ASSUME NEW c, NEW d, NEW p, NEW i, NEW j, NEW x \in Nat, NEW y \in Nat, NEW q
  PROVE  /\ CallCard(c) = CallCard(d) => c = d
         /\ CallCard(c) # <<"preview", p, x, i>>
         /\ <<"preview", p, x, i>> = <<"preview", q, y, j>> => x = y
BY DEF CallCard

\* The call that a runtime knows a card to be of.
LEMMA CallOfCardIs ==
  ASSUME NEW r, NEW id
  PROVE  /\ \A c \in DOMAIN r.messageIds :
              /\ r.messageIds[c] = id
              /\ \A d \in DOMAIN r.messageIds : r.messageIds[d] = id => d = c
              => CallOfCard(r, id) = c
         /\ (\A c \in DOMAIN r.messageIds : r.messageIds[c] # id) => CallOfCard(r, id) = NoCall
BY DEF CallOfCard

\* A call's end queues its card, unless the runtime was told of the call, and gives the card
\* the call it has.
LEMMA EndedCards ==
  ASSUME NEW from \in Nat, NEW done \in Nat, NEW t, NEW r, NEW b, CardsOf(t, r, b, from, done),
         b.phase = "llm", b.ended < Len(b.calls),
         NEW e, e = [type |-> "call_end", index |-> b.ended, call |-> NoCall],
         NEW q, q = ProjectAgentEvent(r, e).runtime,
         NEW s, s = UpsertTool(t, CardOf(r, e)),
         NEW d, d.phase = "llm", d.log = b.log, d.calls = b.calls, d.ended = b.ended + 1
  PROVE  CardsOf(s, q, d, from, done) /\ KeepsCards(t, s) /\ Len(s) = Len(t)
<1> DEFINE m == Len(b.calls)
           n == Len(t)
           k == done + b.ended + 1
           id == ResolvePreview(r, e.index, e.call).id
           card == CardOf(r, e)
<1>1. /\ RuntimeFields(r) /\ Counted(t, b, from, done) /\ Named(t, r, from) /\ Fresh(t, r, from)
      /\ Ran(r, b, from, done) /\ Queued(t, r, done + b.ended, from)
      /\ Indexed(t, r, b, from, done)
  BY DEF CardsOf, Announced
<1>2. /\ m \in Nat /\ n \in Nat /\ n = done + m /\ b.ended \in 0..(m - 1) /\ k \in 1..n
      /\ Sequence(t)
  <2>1. b.calls \in Seq(Nat) /\ n = done + m /\ Sequence(t)
    BY <1>1 DEF Counted
  <2>2. m \in Nat /\ b.ended \in 0..m
    BY <1>1, <2>1 DEF Indexed
  <2> QED BY <2>1, <2>2
<1> HIDE DEF m, n, id, card, k
<1>3. e.type = "call_end" /\ e.index = b.ended /\ e.call = NoCall
  OBVIOUS
<1>4. b.ended \in DOMAIN r.previewIds /\ r.previewIds[b.ended] = t[k].id
  BY <1>1, <1>2 DEF Indexed, m, k
<1>5. id = t[k].id
  BY <1>3, <1>4 DEF ResolvePreview, id
<1>6. /\ RuntimeFields(q) /\ q.trace = r.trace /\ q.nextPreview = r.nextPreview
      /\ q.messageIds = r.messageIds /\ q.previewCalls = r.previewCalls
      /\ Puts(q.previewIds, r.previewIds, b.ended, id)
      /\ q.queue = IF b.ended \notin DOMAIN r.previewCalls /\ id \notin ToSet(r.queue)
                   THEN Append(r.queue, id) ELSE r.queue
      /\ card = [id |-> id, call |-> CallOfCard(q, id), status |-> "pending"]
  BY <1>1, <1>3, <1>4, PreviewRuntime DEF id, card
<1>7. CallOfCard(q, id) = t[k].call
  <2>1. \A c \in DOMAIN r.messageIds :
          \E j \in 1..n : c = from + j /\ Told(r, from + j) /\ r.messageIds[c] = t[j].id
    <3>1. \A c \in (from + 1)..(from + n) : \E j \in 1..n : c = from + j
      <4> SUFFICES ASSUME NEW c \in (from + 1)..(from + n) PROVE \E j \in 1..n : c = from + j
        OBVIOUS
      <4>1. c - from \in 1..n /\ c = from + (c - from)
        BY <1>2
      <4> QED BY <4>1
    <3> SUFFICES ASSUME NEW c \in DOMAIN r.messageIds
                 PROVE  \E j \in 1..n : c = from + j /\ Told(r, from + j) /\ r.messageIds[c] = t[j].id
      OBVIOUS
    <3>2. PICK j \in 1..n : c = from + j
      BY <1>1, <3>1 DEF Named, n
    <3>3. Told(r, from + j)
      BY <3>2 DEF Told
    <3>4. r.messageIds[from + j] = t[j].id
      BY <1>1, <3>3 DEF Named, n
    <3> QED BY <3>2, <3>3, <3>4
  <2>2. \A j \in 1..n : t[j].id = id => j = k
    BY <1>1, <1>2, <1>5 DEF Named, IdsApart, n
  <2>3. CASE Told(r, from + k)
    <3>1. from + k \in DOMAIN r.messageIds /\ r.messageIds[from + k] = id /\ t[k].call = from + k
      BY <1>1, <1>2, <1>5, <2>3 DEF Named, Told, n
    <3>2. \A c \in DOMAIN r.messageIds : r.messageIds[c] = id => c = from + k
      BY <2>1, <2>2
    <3> QED BY <1>6, <3>1, <3>2, CallOfCardIs
  <2>4. CASE ~Told(r, from + k)
    <3>1. t[k].call = NoCall
      BY <1>1, <1>2, <2>4 DEF Named, n
    <3>2. \A c \in DOMAIN r.messageIds : r.messageIds[c] # id
      BY <2>1, <2>2, <2>4
    <3> QED BY <1>6, <3>1, <3>2, CallOfCardIs
  <2> QED BY <2>3, <2>4
<1>8. card.id = t[k].id /\ card.call = t[k].call
  BY <1>5, <1>6, <1>7
<1>9. /\ Sequence(s) /\ Len(s) = n
      /\ \A j \in 1..n : s[j].id = t[j].id /\ s[j].call = t[j].call
  <2>1. Upserted(t, card, s)
    BY <1>1, <1>2, UpsertAt DEF Named, card
  <2>2. /\ Sequence(s) /\ Len(s) = n /\ s[k] = card
        /\ \A j \in 1..n : j # k => s[j] = t[j]
    BY <1>2, <1>8, <2>1 DEF Upserted, n
  <2> QED BY <1>8, <2>2
<1>10. Counted(s, d, from, done)
  BY <1>1, <1>9 DEF Counted, Done, n
<1>11. Named(s, q, from)
  <2>1. IdsApart(s)
    <3>1. IdsApart(t) /\ Len(t) = n
      BY <1>1 DEF Named, n
    <3>2. \A j, l \in 1..n : t[j].id = t[l].id => j = l
      BY <3>1 DEF IdsApart
    <3> QED BY <1>9, <3>2 DEF IdsApart
  <2>2. DOMAIN q.messageIds \subseteq (from + 1)..(from + Len(s))
    <3>1. DOMAIN r.messageIds \subseteq (from + 1)..(from + n)
      BY <1>1 DEF Named, n
    <3>2. q.messageIds = r.messageIds /\ Len(s) = n
      BY <1>6, <1>9
    <3> QED BY <3>1, <3>2
  <2>3. \A j \in 1..n : Told(q, from + j) = Told(r, from + j)
    BY <1>6 DEF Told
  <2>4. \A j \in 1..n : t[j].call = IF Told(r, from + j) THEN from + j ELSE NoCall
    BY <1>1 DEF Named, n
  <2>5. \A j \in 1..n : Told(r, from + j) => r.messageIds[from + j] = t[j].id
    BY <1>1 DEF Named, n
  <2>6. \A j \in 1..n : s[j].call = IF Told(q, from + j) THEN from + j ELSE NoCall
    BY <1>9, <2>3, <2>4
  <2>7. \A j \in 1..n : Told(q, from + j) => q.messageIds[from + j] = s[j].id
    BY <1>6, <1>9, <2>3, <2>5
  <2>8. Len(s) = n
    BY <1>9
  <2> QED BY <2>1, <2>2, <2>6, <2>7, <2>8 DEF Named
<1>12. Fresh(s, q, from)
  <2> SUFFICES ASSUME NEW j \in 1..n
               PROVE  \/ s[j].id = CallCard(from + j)
                      \/ \E x \in Nat, i \in Nat :
                           x < q.nextPreview /\ s[j].id = <<"preview", q.trace, x, i>>
    BY <1>9 DEF Fresh
  <2>1. \/ t[j].id = CallCard(from + j)
        \/ \E x \in Nat, i \in Nat :
             x < r.nextPreview /\ t[j].id = <<"preview", r.trace, x, i>>
    BY <1>1 DEF Fresh, n
  <2> QED BY <1>6, <1>9, <2>1
<1>13. Ran(q, d, from, done)
  BY <1>1, <1>6 DEF Ran, Told
<1>14. Indexed(s, q, d, from, done)
  <2>1. d.ended \in 0..m /\ d.calls = b.calls
    BY <1>2
  <2>2. DOMAIN q.previewIds = 0..(m - 1)
    <3>1. DOMAIN q.previewIds = DOMAIN r.previewIds \cup {b.ended}
      BY <1>6 DEF Puts
    <3>2. DOMAIN r.previewIds = 0..(m - 1)
      BY <1>1 DEF Indexed, m
    <3> QED BY <1>2, <3>1, <3>2
  <2>3. \A i \in 0..(m - 1) : q.previewIds[i] = s[done + i + 1].id
    <3> SUFFICES ASSUME NEW i \in 0..(m - 1) PROVE q.previewIds[i] = s[done + i + 1].id
      OBVIOUS
    <3>1. done + i + 1 \in 1..n
      BY <1>2
    <3>2. r.previewIds[i] = t[done + i + 1].id /\ i \in DOMAIN r.previewIds
      BY <1>1 DEF Indexed, m
    <3>3. q.previewIds[i] = IF i = b.ended THEN id ELSE r.previewIds[i]
      BY <1>6, <3>2 DEF Puts
    <3> QED BY <1>5, <1>9, <3>1, <3>2, <3>3 DEF k
  <2>4. DOMAIN q.previewCalls = {i \in 0..(m - 1) : Told(q, from + done + i + 1)}
    BY <1>1, <1>6 DEF Indexed, Told, m
  <2> QED BY <2>1, <2>2, <2>3, <2>4 DEF Indexed, m
<1>15. Queued(s, q, done + d.ended, from)
  <2>1. done + d.ended = k
    BY <1>2 DEF k
  <2>2. (b.ended \in DOMAIN r.previewCalls) <=> Told(r, from + k)
    <3>1. from + done + b.ended + 1 = from + k
      BY <1>2 DEF k
    <3> QED BY <1>1, <1>2, <3>1 DEF Indexed, m
  <2>3. \A j \in 1..n : Told(q, from + j) = Told(r, from + j)
    BY <1>6 DEF Told
  <2>4. done + b.ended = k - 1 /\ k - 1 \in Nat
    BY <1>2 DEF k
  <2> DEFINE K == Untold(r, k - 1, from)
  <2>5. ToSet(r.queue) = IdsOf(t, K) /\ Ordered(r.queue, t)
    BY <1>1, <2>4 DEF Queued
  <2>6. \A x \in ToSet(r.queue) : \E l \in 1..(k - 1) : x = t[l].id
    BY <2>5 DEF IdsOf, Untold
  <2>7. id \notin ToSet(r.queue)
    <3> SUFFICES ASSUME NEW l \in 1..(k - 1), id = t[l].id PROVE FALSE
      BY <2>6
    <3>1. l \in 1..n /\ l # k
      BY <1>2
    <3> QED BY <1>1, <1>2, <1>5, <3>1 DEF Named, IdsApart, n
  <2>8. K \subseteq 1..n
    BY <1>2 DEF Untold
  <2>9. IdsOf(s, K) = IdsOf(t, K) /\ IdsOf(s, K \cup {k}) = IdsOf(t, K) \cup {id}
    <3> HIDE DEF K
    <3>1. \A j \in K \cup {k} : s[j].id = t[j].id
      BY <1>2, <1>9, <2>8
    <3>2. s[k].id = id
      BY <1>2, <1>5, <1>9
    <3>3. IdsOf(s, K) = IdsOf(t, K)
      BY <3>1 DEF IdsOf
    <3>4. IdsOf(s, K \cup {k}) = IdsOf(s, K) \cup {id}
      BY <3>2 DEF IdsOf
    <3> QED BY <3>3, <3>4
  <2>10. Untold(q, k, from) = IF Told(r, from + k) THEN K ELSE K \cup {k}
    <3>1. 1..k = 1..(k - 1) \cup {k}
      BY <1>2
    <3> QED BY <1>6, <3>1 DEF Untold, Told
  <2> HIDE DEF K
  <2>11. Ordered(q.queue, t) /\ ToSet(q.queue) = IdsOf(s, Untold(q, k, from))
    <3>1. CASE Told(r, from + k)
      BY <1>6, <2>2, <2>5, <2>9, <2>10, <3>1
    <3>2. CASE ~Told(r, from + k)
      <4>1. q.queue = Append(r.queue, t[k].id)
        BY <1>5, <1>6, <2>2, <2>7, <3>2
      <4>2. Sequence(r.queue)
        BY <1>1 DEF RuntimeFields
      <4>3. ToSet(q.queue) = ToSet(r.queue) \cup {id}
        BY <1>5, <4>1, <4>2, SequenceAppend
      <4>4. Ordered(q.queue, t)
        BY <1>1, <1>2, <2>5, <2>6, <4>1, <4>2, OrderedAppend DEF Named, n
      <4> QED BY <2>5, <2>9, <2>10, <3>2, <4>3, <4>4
    <3> QED BY <3>1, <3>2
  <2>12. Ordered(q.queue, s)
    BY <1>9, <2>11, OrderedSame DEF n
  <2> QED BY <2>1, <2>11, <2>12 DEF Queued
<1>16. KeepsCards(t, s) /\ Len(s) = Len(t)
  BY <1>2, <1>9 DEF KeepsCards, n
<1> QED BY <1>6, <1>10, <1>11, <1>12, <1>13, <1>14, <1>15, <1>16 DEF CardsOf, Announced

\* A call's start makes a card whose name is new, and which knows the call when the stream
\* tells it.
LEMMA StartedCards ==
  ASSUME NEW from \in Nat, NEW done \in Nat, NEW t, NEW r, NEW b, CardsOf(t, r, b, from, done),
         b.phase = "llm", b.ended = 0, NEW u, u = from + Len(t) + 1,
         NEW e, e.type = "call_start", e.index = Len(b.calls), e.call \in {u, NoCall},
         NEW q, q = ProjectAgentEvent(r, e).runtime,
         NEW s, s = UpsertTool(t, CardOf(r, e)),
         NEW d, d.phase = "llm", d.log = b.log, d.calls = Append(b.calls, u), d.ended = 0
  PROVE  CardsOf(s, q, d, from, done) /\ KeepsCards(t, s) /\ Len(s) = Len(t) + 1
<1> DEFINE m == Len(b.calls)
           n == Len(t)
           id == ResolvePreview(r, e.index, e.call).id
           card == CardOf(r, e)
           told == e.call # NoCall
<1>1. /\ RuntimeFields(r) /\ Counted(t, b, from, done) /\ Named(t, r, from) /\ Fresh(t, r, from)
      /\ Ran(r, b, from, done) /\ Queued(t, r, done, from)
      /\ Indexed(t, r, b, from, done)
  BY DEF CardsOf, Announced
<1>2. m \in Nat /\ n \in Nat /\ n = done + m /\ Sequence(t) /\ u \in Nat /\ u # NoCall
  <2>1. b.calls \in Seq(Nat) /\ n = done + m /\ Sequence(t)
    BY <1>1 DEF Counted
  <2>2. m \in Nat
    BY <2>1
  <2> QED BY <2>1, <2>2 DEF NoCall
<1> HIDE DEF m, n, id, card
<1>3. e.index = m /\ u = from + n + 1 /\ (told => e.call = u) /\ (~told => e.call = NoCall)
  BY DEF m, n
<1> HIDE DEF told
<1>4. m \notin DOMAIN r.previewIds /\ u \notin DOMAIN r.messageIds
  <2>1. DOMAIN r.previewIds = 0..(m - 1)
    BY <1>1 DEF Indexed, m
  <2>2. DOMAIN r.messageIds \subseteq (from + 1)..(from + n)
    BY <1>1 DEF Named, n
  <2>3. m \notin 0..(m - 1) /\ u \notin (from + 1)..(from + n)
    BY <1>2, <1>3
  <2> QED BY <2>1, <2>2, <2>3
<1>5. id = IF told THEN CallCard(u) ELSE <<"preview", r.trace, r.nextPreview, m>>
  BY <1>2, <1>3, <1>4 DEF ResolvePreview, id, PreviewCard
<1>6. r.nextPreview \in Nat
  BY <1>1 DEF RuntimeFields
<1>7. \A k \in 1..n : t[k].id # id
  <2> SUFFICES ASSUME NEW k \in 1..n PROVE t[k].id # id
    OBVIOUS
  <2>1. from + k # u
    BY <1>2, <1>3
  <2>2. \/ t[k].id = CallCard(from + k)
        \/ \E x \in Nat, i \in Nat : x < r.nextPreview /\ t[k].id = <<"preview", r.trace, x, i>>
    BY <1>1 DEF Fresh, n
  <2>3. CASE t[k].id = CallCard(from + k)
    <3>1. \A x, y : <<"call", x>> = <<"call", y>> => x = y
      OBVIOUS
    <3>2. \A x, y : <<"call", x>> # <<"preview", r.trace, y, m>>
      OBVIOUS
    <3> QED BY <1>5, <2>1, <2>3, <3>1, <3>2 DEF CallCard
  <2>4. ASSUME NEW x \in Nat, NEW i \in Nat, x < r.nextPreview,
               t[k].id = <<"preview", r.trace, x, i>>
        PROVE  t[k].id # id
    <3>1. x # r.nextPreview
      BY <1>6, <2>4
    <3>2. \A y, z, w : <<"preview", r.trace, x, w>> = <<"preview", r.trace, y, z>> => x = y
      OBVIOUS
    <3>3. \A y : <<"call", y>> # <<"preview", r.trace, x, i>>
      OBVIOUS
    <3> QED BY <1>5, <2>4, <3>1, <3>2, <3>3 DEF CallCard
  <2> QED BY <2>2, <2>3, <2>4
<1>8. /\ RuntimeFields(q) /\ q.trace = r.trace
      /\ q.nextPreview = (IF told THEN r.nextPreview ELSE r.nextPreview + 1)
      /\ ~told => q.messageIds = r.messageIds /\ q.previewCalls = r.previewCalls
      /\ told => /\ Puts(q.messageIds, r.messageIds, u, id)
                 /\ Puts(q.previewCalls, r.previewCalls, m, u)
      /\ Puts(q.previewIds, r.previewIds, m, id) /\ q.queue = r.queue
      /\ card = [id |-> id, call |-> CallOfCard(q, id), status |-> "pending"]
  <2>1. e.type \in {"call_start", "call_end"} /\ e.type # "call_end"
    OBVIOUS
  <2>2. told <=> e.call # NoCall
    BY DEF told
  <2> HIDE DEF told
  <2>3. /\ RuntimeFields(q) /\ q.trace = r.trace
        /\ q.nextPreview = (IF e.index \notin DOMAIN r.previewIds /\ e.call = NoCall
                            THEN r.nextPreview + 1 ELSE r.nextPreview)
        /\ IF e.call = NoCall
           THEN q.messageIds = r.messageIds /\ q.previewCalls = r.previewCalls
           ELSE /\ Puts(q.messageIds, r.messageIds, e.call, id)
                /\ Puts(q.previewCalls, r.previewCalls, e.index, e.call)
        /\ Puts(q.previewIds, r.previewIds, e.index, id)
        /\ q.queue = IF e.type = "call_end" /\ e.index \notin DOMAIN q.previewCalls
                        /\ id \notin ToSet(r.queue)
                     THEN Append(r.queue, id) ELSE r.queue
        /\ card = [id |-> id, call |-> CallOfCard(q, id), status |-> "pending"]
    BY <1>1, <2>1, PreviewRuntime DEF id, card
  <2> QED BY <1>2, <1>3, <1>4, <2>1, <2>2, <2>3
<1>9. \A c \in DOMAIN r.messageIds : r.messageIds[c] # id /\ c # u
  <2> SUFFICES ASSUME NEW c \in DOMAIN r.messageIds PROVE r.messageIds[c] # id
    BY <1>4
  <2>1. c \in (from + 1)..(from + n)
    BY <1>1 DEF Named, n
  <2>2. c - from \in 1..n /\ c = from + (c - from)
    BY <1>2, <2>1
  <2>3. Told(r, from + (c - from))
    BY <2>2 DEF Told
  <2>4. r.messageIds[from + (c - from)] = t[c - from].id
    BY <1>1, <2>2, <2>3 DEF Named, n
  <2> QED BY <1>7, <2>2, <2>4
<1>10. CallOfCard(q, id) = e.call
  <2>1. CASE told
    <3>1. u \in DOMAIN q.messageIds /\ q.messageIds[u] = id
      BY <1>8, <2>1 DEF Puts
    <3>2. \A c \in DOMAIN q.messageIds : q.messageIds[c] = id => c = u
      BY <1>8, <1>9, <2>1 DEF Puts
    <3> QED BY <1>3, <2>1, <3>1, <3>2, CallOfCardIs
  <2>2. CASE ~told
    BY <1>3, <1>8, <1>9, <2>2, CallOfCardIs
  <2> QED BY <2>1, <2>2
<1>11. card.id = id /\ card.call = e.call
  BY <1>8, <1>10
<1>12. /\ Sequence(s) /\ Len(s) = n + 1 /\ s[n + 1].id = id /\ s[n + 1].call = e.call
       /\ \A j \in 1..n : s[j].id = t[j].id /\ s[j].call = t[j].call
  <2>1. Upserted(t, card, s)
    BY <1>1, <1>2, UpsertAt DEF Named, card
  <2>2. Sequence(s) /\ Len(s) = n + 1 /\ s[n + 1] = card /\ \A j \in 1..n : s[j] = t[j]
    BY <1>7, <1>11, <2>1 DEF Upserted, n
  <2> QED BY <1>11, <2>2
<1>13. /\ \A k \in 1..n : Told(q, from + k) <=> Told(r, from + k)
       /\ Told(q, u) <=> told
  <2>1. \A k \in 1..n : from + k # u
    BY <1>2, <1>3
  <2>2. CASE told
    BY <1>8, <2>1, <2>2 DEF Told, Puts
  <2>3. CASE ~told
    BY <1>4, <1>8, <2>3 DEF Told
  <2> QED BY <2>2, <2>3
<1>14. \A k \in 1..(n + 1) : k = n + 1 \/ k \in 1..n
  BY <1>2
<1>15. Counted(s, d, from, done)
  <2> DEFINE calls == Append(b.calls, u)
  <2>1. b.calls \in Seq(Nat) /\ (\A i \in 1..m : b.calls[i] = from + done + i)
        /\ Done(b) = (from + 1)..(from + done)
    BY <1>1 DEF Counted, m
  <2>2. /\ calls \in Seq(Nat) /\ Len(calls) = m + 1 /\ calls[m + 1] = u
        /\ \A i \in 1..m : calls[i] = b.calls[i]
    BY <1>2, <2>1, AppendProperties DEF m
  <2>3. d.calls = calls /\ d.log = b.log
    OBVIOUS
  <2> HIDE DEF calls
  <2>4. \A i \in 1..(m + 1) : calls[i] = from + done + i
    <3> SUFFICES ASSUME NEW i \in 1..(m + 1) PROVE calls[i] = from + done + i
      OBVIOUS
    <3>1. CASE i \in 1..m
      BY <2>1, <2>2, <3>1
    <3>2. CASE i = m + 1
      <4>1. from + n + 1 = from + done + (m + 1)
        BY <1>2
      <4> QED BY <1>3, <2>2, <3>2, <4>1
    <3> QED BY <1>2, <3>1, <3>2
  <2>5. Done(d) = Done(b)
    BY <2>3 DEF Done
  <2>6. n + 1 = done + (m + 1)
    BY <1>2
  <2> QED BY <1>12, <2>1, <2>2, <2>3, <2>4, <2>5, <2>6 DEF Counted
<1>16. IdsApart(s)
  <2>1. \A j, k \in 1..n : t[j].id = t[k].id => j = k
    BY <1>1 DEF Named, IdsApart, n
  <2> QED BY <1>7, <1>12, <1>14, <2>1 DEF IdsApart
<1>17. Named(s, q, from)
  <2>1. DOMAIN q.messageIds \subseteq (from + 1)..(from + (n + 1))
    <3>1. DOMAIN q.messageIds \subseteq DOMAIN r.messageIds \cup {u}
      BY <1>8 DEF Puts
    <3>2. DOMAIN r.messageIds \subseteq (from + 1)..(from + n)
      BY <1>1 DEF Named, n
    <3> QED BY <1>2, <1>3, <3>1, <3>2
  <2>2. ASSUME NEW k \in 1..(n + 1)
        PROVE  /\ s[k].call = (IF Told(q, from + k) THEN from + k ELSE NoCall)
               /\ Told(q, from + k) => q.messageIds[from + k] = s[k].id
    <3>1. CASE k = n + 1
      <4>1. from + k = u
        BY <1>2, <1>3, <3>1
      <4> QED BY <1>3, <1>8, <1>12, <1>13, <3>1, <4>1 DEF Puts
    <3>2. CASE k \in 1..n
      <4>1. /\ t[k].call = (IF Told(r, from + k) THEN from + k ELSE NoCall)
            /\ Told(r, from + k) => r.messageIds[from + k] = t[k].id
        BY <1>1, <3>2 DEF Named, n
      <4>2. Told(r, from + k) => q.messageIds[from + k] = r.messageIds[from + k]
        BY <1>8, <1>9 DEF Puts, Told
      <4> QED BY <1>12, <1>13, <3>2, <4>1, <4>2
    <3> QED BY <1>14, <3>1, <3>2
  <2> QED BY <1>12, <1>16, <2>1, <2>2 DEF Named
<1>18. Fresh(s, q, from)
  <2> SUFFICES ASSUME NEW k \in 1..(n + 1)
               PROVE  \/ s[k].id = CallCard(from + k)
                      \/ \E x \in Nat, i \in Nat :
                           x < q.nextPreview /\ s[k].id = <<"preview", q.trace, x, i>>
    BY <1>12 DEF Fresh
  <2>1. CASE k = n + 1
    <3>1. from + k = u
      BY <1>2, <1>3, <2>1
    <3>2. r.nextPreview < r.nextPreview + 1
      BY <1>6
    <3> QED BY <1>2, <1>5, <1>6, <1>8, <1>12, <2>1, <3>1, <3>2
  <2>2. CASE k \in 1..n
    <3>1. \/ t[k].id = CallCard(from + k)
          \/ \E x \in Nat, i \in Nat :
               x < r.nextPreview /\ t[k].id = <<"preview", r.trace, x, i>>
      BY <1>1, <2>2 DEF Fresh, n
    <3>2. \A x \in Nat : x < r.nextPreview => x < q.nextPreview
      BY <1>6, <1>8
    <3> QED BY <1>8, <1>12, <2>2, <3>1, <3>2
  <2> QED BY <1>14, <2>1, <2>2
<1>19. Ran(q, d, from, done)
  <2>1. \A k \in 1..done : k \in 1..n
    BY <1>2
  <2> QED BY <1>1, <1>13, <2>1 DEF Ran
<1>20. Indexed(s, q, d, from, done)
  <2>1. d.ended \in 0..(m + 1) /\ Len(d.calls) = m + 1
    <3>1. b.calls \in Seq(Nat)
      BY <1>1 DEF Counted
    <3> QED BY <1>2, <3>1 DEF m
  <2>2. \A i \in 0..m : i = m \/ i \in 0..(m - 1)
    BY <1>2
  <2>3. (m + 1) - 1 = m /\ 0..m = 0..(m - 1) \cup {m}
    BY <1>2
  <2>4. DOMAIN q.previewIds = 0..m
    <3>1. DOMAIN q.previewIds = DOMAIN r.previewIds \cup {m}
      BY <1>8 DEF Puts
    <3>2. DOMAIN r.previewIds = 0..(m - 1)
      BY <1>1 DEF Indexed, m
    <3> QED BY <2>3, <3>1, <3>2
  <2>5. ASSUME NEW i \in 0..m PROVE q.previewIds[i] = s[done + i + 1].id
    <3>1. CASE i = m
      <4>1. done + i + 1 = n + 1
        BY <1>2, <3>1
      <4> QED BY <1>8, <1>12, <3>1, <4>1 DEF Puts
    <3>2. CASE i \in 0..(m - 1)
      <4>1. done + i + 1 \in 1..n /\ i # m
        BY <1>2, <3>2
      <4>2. r.previewIds[i] = t[done + i + 1].id /\ i \in DOMAIN r.previewIds
        BY <1>1, <3>2 DEF Indexed, m
      <4>3. q.previewIds[i] = r.previewIds[i]
        BY <1>8, <4>1, <4>2 DEF Puts
      <4> QED BY <1>12, <4>1, <4>2, <4>3
    <3> QED BY <2>2, <3>1, <3>2
  <2>6. DOMAIN q.previewCalls = {i \in 0..m : Told(q, from + done + i + 1)}
    <3>1. DOMAIN r.previewCalls = {i \in 0..(m - 1) : Told(r, from + done + i + 1)}
      BY <1>1 DEF Indexed, m
    <3>2. from + done + m + 1 = u
      BY <1>2, <1>3
    <3>3. ASSUME NEW i \in 0..(m - 1)
          PROVE  Told(q, from + done + i + 1) <=> Told(r, from + done + i + 1)
      <4>1. done + i + 1 \in 1..n /\ from + done + i + 1 = from + (done + i + 1)
        BY <1>2
      <4> HIDE DEF n
      <4> QED BY <1>13, <4>1
    <3>4. DOMAIN q.previewCalls = DOMAIN r.previewCalls \cup (IF told THEN {m} ELSE {})
      BY <1>8 DEF Puts
    <3> QED BY <1>13, <2>3, <3>1, <3>2, <3>3, <3>4
  <2> QED BY <2>1, <2>3, <2>4, <2>5, <2>6 DEF Indexed
<1>21. Queued(s, q, done, from)
  <2> DEFINE K == Untold(r, done, from)
  <2>1. ToSet(r.queue) = IdsOf(t, K) /\ Ordered(r.queue, t) /\ Sequence(r.queue)
    BY <1>1 DEF Queued, RuntimeFields
  <2>2. \A k \in 1..done : k \in 1..n
    BY <1>2
  <2>3. Untold(q, done, from) = K
    BY <1>13, <2>2 DEF Untold
  <2>4. \A k \in K : k \in 1..n
    BY <2>2 DEF Untold
  <2> HIDE DEF K
  <2>5. IdsOf(s, K) = IdsOf(t, K)
    BY <1>12, <2>4 DEF IdsOf
  <2>6. \A x \in ToSet(r.queue) : \E k \in 1..n : x = t[k].id
    BY <2>1, <2>4 DEF IdsOf
  <2>7. Ordered(r.queue, s)
    BY <1>2, <1>12, <1>16, <2>1, <2>6, OrderedMore DEF n
  <2> QED BY <1>8, <2>1, <2>3, <2>5, <2>7 DEF Queued
<1>22. KeepsCards(t, s) /\ Len(s) = Len(t) + 1
  <2>1. Len(t) = n /\ n <= n + 1
    BY <1>2 DEF n
  <2> QED BY <1>12, <2>1 DEF KeepsCards
<1>23. Announced(s, d, done) = done
  BY DEF Announced
<1> QED BY <1>8, <1>15, <1>17, <1>18, <1>19, <1>20, <1>21, <1>22, <1>23 DEF CardsOf

\* The cards after an event of the first call that has not run, of which the runtime knows.
Ranging(t, s, q, from, done) ==
  /\ RuntimeFields(q) /\ Sequence(s) /\ Len(s) = Len(t)
  /\ Named(s, q, from) /\ Fresh(s, q, from) /\ Queued(s, q, Len(t), from)
  /\ \A k \in 1..(done + 1) : Told(q, from + k)
  /\ q.previewIds = NoFunction /\ q.previewCalls = NoFunction
  /\ KeepsCards(t, s)

\* The first call that has not run is told to the runtime, under the name its card has: the
\* runtime's, or the queue's first.
LEMMA RunCards ==
  ASSUME NEW from \in Nat, NEW done \in Nat, NEW t, NEW r, NEW b, CardsOf(t, r, b, from, done),
         b.phase \in {"tools", "running"}, b.calls # <<>>,
         NEW e, e.type \in {"tool_started", "tool_finished"}, e.call = Head(b.calls),
         NEW q, q = ProjectAgentEvent(r, e).runtime,
         NEW s, s = UpsertTool(t, CardOf(r, e))
  PROVE  e.call = from + done + 1 /\ Ranging(t, s, q, from, done)
<1> DEFINE m == Len(b.calls)
           n == Len(t)
           c == from + done + 1
           k == done + 1
           id == ResolveCall(r, e.call).id
           card == CardOf(r, e)
           K == Untold(r, n, from)
<1>1. /\ RuntimeFields(r) /\ Counted(t, b, from, done) /\ Named(t, r, from) /\ Fresh(t, r, from)
      /\ Ran(r, b, from, done) /\ Queued(t, r, n, from)
  BY DEF CardsOf, Announced
<1>2. /\ m \in Nat /\ n \in Nat /\ k \in 1..n /\ Sequence(t) /\ e.call = c /\ c = from + k
  <2>1. /\ b.calls \in Seq(Nat) /\ n = done + m /\ Sequence(t)
        /\ \A i \in 1..m : b.calls[i] = from + done + i
    BY <1>1 DEF Counted
  <2>2. m \in Nat /\ 1 \in 1..m /\ Head(b.calls) = b.calls[1]
    BY <2>1
  <2> QED BY <2>1, <2>2
<1> HIDE DEF m, n, c, k, id, card
<1>3. (\A j \in 1..(k - 1) : Told(r, from + j)) /\ k - 1 = done
  BY <1>1 DEF Ran, k
<1>4. /\ ToSet(r.queue) = IdsOf(t, K) /\ Ordered(r.queue, t) /\ Sequence(r.queue)
      /\ IdsApart(t) /\ DOMAIN r.messageIds \subseteq (from + 1)..(from + n)
      /\ \A j \in 1..n : t[j].call = IF Told(r, from + j) THEN from + j ELSE NoCall
      /\ \A j \in 1..n : Told(r, from + j) => r.messageIds[from + j] = t[j].id
  BY <1>1 DEF Queued, RuntimeFields, Named, n
<1>5. ASSUME ~Told(r, c)
      PROVE  /\ Head(r.queue) = t[k].id /\ Sequence(Tail(r.queue)) /\ Ordered(Tail(r.queue), t)
             /\ ToSet(Tail(r.queue)) = ToSet(r.queue) \ {t[k].id} /\ r.queue # <<>>
  <2>1. t[k].id \in ToSet(r.queue)
    BY <1>2, <1>4, <1>5 DEF IdsOf, Untold
  <2>2. \A x \in ToSet(r.queue) : \E l \in k..n : x = t[l].id
    <3> SUFFICES ASSUME NEW l \in K PROVE l \in k..n
      BY <1>4 DEF IdsOf
    <3>1. l \in 1..n /\ ~Told(r, from + l)
      BY DEF Untold
    <3>2. l \notin 1..(k - 1)
      BY <1>3, <3>1
    <3> QED BY <1>2, <3>1, <3>2
  <2>3. Leads(r.queue, t, k)
    BY <1>2, <1>4, <2>1, <2>2 DEF n, Leads
  <2>4. /\ Head(r.queue) = t[k].id /\ Sequence(Tail(r.queue)) /\ Ordered(Tail(r.queue), t)
        /\ ToSet(Tail(r.queue)) = ToSet(r.queue) \ {t[k].id}
    BY <2>3, OrderedTail, Zenon
  <2>5. r.queue # <<>>
    BY <2>1, SequenceEmpty
  <2> QED BY <2>4, <2>5
<1>6. e.call \notin DOMAIN r.messageIds /\ r.queue # <<>> => Sequence(Tail(r.queue))
  BY <1>2, <1>5 DEF Told
<1>7. /\ RuntimeFields(q) /\ q.trace = r.trace /\ q.nextPreview = r.nextPreview
      /\ Puts(q.messageIds, r.messageIds, c, id)
      /\ q.previewIds = NoFunction /\ q.previewCalls = NoFunction
      /\ q.queue = IF c \notin DOMAIN r.messageIds /\ r.queue # <<>> THEN Tail(r.queue)
                   ELSE r.queue
      /\ id = IF c \in DOMAIN r.messageIds THEN r.messageIds[c]
              ELSE IF r.queue # <<>> THEN Head(r.queue) ELSE CallCard(c)
      /\ card.id = id /\ card.call = c
  BY <1>1, <1>2, <1>6, RunRuntime DEF id, card
<1>8. id = t[k].id
  <2>1. CASE Told(r, c)
    BY <1>2, <1>4, <1>7, <2>1 DEF Told
  <2>2. CASE ~Told(r, c)
    BY <1>5, <1>7, <2>2 DEF Told
  <2> QED BY <2>1, <2>2
<1>9. /\ Sequence(s) /\ Len(s) = n
      /\ \A j \in 1..n : s[j].id = t[j].id /\ s[j].call = IF j = k THEN c ELSE t[j].call
  <2>1. Upserted(t, card, s)
    BY <1>2, <1>4, UpsertAt DEF card
  <2>2. /\ Sequence(s) /\ Len(s) = n /\ s[k] = card
        /\ \A j \in 1..n : j # k => s[j] = t[j]
    BY <1>2, <1>7, <1>8, <2>1 DEF Upserted, n
  <2> QED BY <1>7, <1>8, <2>2
<1>10. \A j \in 1..n : (from + j = c) <=> (j = k)
  BY <1>2
<1>11. \A j \in 1..n : Told(q, from + j) <=> (Told(r, from + j) \/ j = k)
  BY <1>7, <1>10 DEF Told, Puts
<1>12. Named(s, q, from)
  <2>1. IdsApart(s)
    BY <1>4, <1>9 DEF IdsApart, n
  <2>2. DOMAIN q.messageIds \subseteq (from + 1)..(from + n)
    <3>1. DOMAIN q.messageIds = DOMAIN r.messageIds \cup {c}
      BY <1>7 DEF Puts
    <3> QED BY <1>2, <1>4, <3>1
  <2>3. ASSUME NEW j \in 1..n
        PROVE  /\ s[j].call = (IF Told(q, from + j) THEN from + j ELSE NoCall)
               /\ Told(q, from + j) => q.messageIds[from + j] = s[j].id
    <3>1. CASE j = k
      BY <1>2, <1>7, <1>8, <1>9, <1>11, <3>1 DEF Puts
    <3>2. CASE j # k
      <4>1. from + j # c
        BY <1>10, <3>2
      <4>2. Told(r, from + j) => q.messageIds[from + j] = r.messageIds[from + j]
        BY <1>7, <4>1 DEF Puts, Told
      <4> QED BY <1>4, <1>9, <1>11, <3>2, <4>2
    <3> QED BY <3>1, <3>2
  <2> QED BY <1>9, <2>1, <2>2, <2>3 DEF Named
<1>13. Fresh(s, q, from)
  <2> SUFFICES ASSUME NEW j \in 1..n
               PROVE  \/ s[j].id = CallCard(from + j)
                      \/ \E x \in Nat, i \in Nat :
                           x < q.nextPreview /\ s[j].id = <<"preview", q.trace, x, i>>
    BY <1>9 DEF Fresh
  <2>1. \/ t[j].id = CallCard(from + j)
        \/ \E x \in Nat, i \in Nat :
             x < r.nextPreview /\ t[j].id = <<"preview", r.trace, x, i>>
    BY <1>1 DEF Fresh, n
  <2> QED BY <1>7, <1>9, <2>1
<1>14. Queued(s, q, n, from)
  <2>1. Untold(q, n, from) = K \ {k}
    BY <1>11 DEF Untold
  <2>2. K \subseteq 1..n
    BY DEF Untold
  <2>3. k \in K <=> ~Told(r, c)
    BY <1>2 DEF Untold
  <2> HIDE DEF K
  <2>4. IdsOf(s, K \ {k}) = IdsOf(t, K \ {k})
    BY <1>9, <2>2 DEF IdsOf
  <2>5. IdsOf(t, K \ {k}) = IdsOf(t, K) \ {t[k].id}
    <3>1. \A j \in K : t[j].id = t[k].id => j = k
      BY <1>2, <1>4, <2>2 DEF IdsApart, n
    <3> QED BY <3>1 DEF IdsOf
  <2>6. CASE Told(r, c)
    <3>1. K \ {k} = K
      BY <2>3, <2>6
    <3>2. q.queue = r.queue
      BY <1>7, <2>6 DEF Told
    <3>3. Ordered(r.queue, s)
      BY <1>4, <1>9, OrderedSame DEF n
    <3> QED BY <1>4, <2>1, <2>4, <3>1, <3>2, <3>3 DEF Queued
  <2>7. CASE ~Told(r, c)
    <3>1. q.queue = Tail(r.queue)
      BY <1>5, <1>7, <2>7 DEF Told
    <3>2. Ordered(Tail(r.queue), s)
      BY <1>5, <1>9, <2>7, OrderedSame DEF n
    <3> QED BY <1>4, <1>5, <2>1, <2>4, <2>5, <2>7, <3>1, <3>2 DEF Queued
  <2> QED BY <2>6, <2>7
<1>15. \A j \in 1..(done + 1) : Told(q, from + j)
  <2>1. \A j \in 1..(done + 1) : j \in 1..n /\ (j = k \/ j \in 1..(k - 1))
    BY <1>2, <1>3
  <2> QED BY <1>3, <1>11, <2>1
<1>16. KeepsCards(t, s)
  <2>1. t[k].call # NoCall => t[k].call = c
    BY <1>2, <1>4
  <2>2. n <= n
    BY <1>2
  <2> QED BY <1>9, <2>1, <2>2 DEF KeepsCards, n
<1> QED BY <1>2, <1>7, <1>9, <1>12, <1>13, <1>14, <1>15, <1>16 DEF c, n, Ranging

LEMMA StartsCards ==
  ASSUME NEW from \in Nat, NEW done \in Nat, NEW t, NEW r, NEW b, CardsOf(t, r, b, from, done),
         b.phase = "tools", b.calls # <<>>,
         NEW e, e.type = "tool_started", e.call = Head(b.calls),
         NEW q, q = ProjectAgentEvent(r, e).runtime,
         NEW s, s = UpsertTool(t, CardOf(r, e)),
         NEW d, d.phase = "running", d.log = b.log, d.calls = b.calls
  PROVE  CardsOf(s, q, d, from, done) /\ KeepsCards(t, s) /\ Len(s) = Len(t)
<1>0. e.call = from + done + 1 /\ Ranging(t, s, q, from, done)
  <2>1. b.phase \in {"tools", "running"} /\ e.type \in {"tool_started", "tool_finished"}
    OBVIOUS
  <2> QED BY <2>1, RunCards
<1>1. /\ RuntimeFields(q) /\ Sequence(s) /\ Len(s) = Len(t)
      /\ Named(s, q, from) /\ Fresh(s, q, from) /\ Queued(s, q, Len(t), from)
      /\ \A k \in 1..(done + 1) : Told(q, from + k)
      /\ q.previewIds = NoFunction /\ q.previewCalls = NoFunction
      /\ KeepsCards(t, s)
  BY <1>0 DEF Ranging
<1>2. Counted(s, d, from, done)
  BY <1>1 DEF CardsOf, Counted, Done
<1>3. Ran(q, d, from, done)
  <2>1. done + 1 \in 1..(done + 1) /\ from + (done + 1) = from + done + 1
    OBVIOUS
  <2>2. \A k \in 1..done : k \in 1..(done + 1)
    OBVIOUS
  <2> QED BY <1>1, <2>1, <2>2 DEF Ran
<1> QED BY <1>1, <1>2, <1>3 DEF CardsOf, Announced, Indexed

LEMMA FinishesCards ==
  ASSUME NEW from \in Nat, NEW done \in Nat, NEW t, NEW r, NEW b, CardsOf(t, r, b, from, done),
         b.phase = "running", b.calls # <<>>, Sequence(b.log),
         NEW e, e.type = "tool_finished", e.call = Head(b.calls),
         NEW q, q = ProjectAgentEvent(r, e).runtime,
         NEW s, s = UpsertTool(t, CardOf(r, e)),
         NEW m, m.kind = "tool", m.call = Head(b.calls),
         NEW d, d.phase = "tools", d.log = Append(b.log, m), d.calls = Tail(b.calls)
  PROVE  CardsOf(s, q, d, from, done + 1) /\ KeepsCards(t, s) /\ Len(s) = Len(t)
<1>0. e.call = from + done + 1 /\ Ranging(t, s, q, from, done)
  <2>1. b.phase \in {"tools", "running"} /\ e.type \in {"tool_started", "tool_finished"}
    OBVIOUS
  <2> QED BY <2>1, RunCards
<1>1. /\ e.call = from + done + 1 /\ RuntimeFields(q) /\ Sequence(s) /\ Len(s) = Len(t)
      /\ Named(s, q, from) /\ Fresh(s, q, from) /\ Queued(s, q, Len(t), from)
      /\ \A k \in 1..(done + 1) : Told(q, from + k)
      /\ q.previewIds = NoFunction /\ q.previewCalls = NoFunction
      /\ KeepsCards(t, s)
  BY <1>0 DEF Ranging
<1>2. Counted(s, d, from, done + 1)
  <2> DEFINE z == Len(b.calls)
             calls == Tail(b.calls)
  <2>1. /\ b.calls \in Seq(Nat) /\ Len(t) = done + z
        /\ \A i \in 1..z : b.calls[i] = from + done + i
        /\ Done(b) = (from + 1)..(from + done)
    BY DEF CardsOf, Counted
  <2>2. /\ z \in Nat /\ 1 <= z /\ calls \in Seq(Nat) /\ Len(calls) = z - 1
        /\ \A i \in 1..(z - 1) : calls[i] = b.calls[i + 1]
    <3>1. z \in Nat /\ z # 0
      BY <2>1
    <3> QED BY <2>1, <3>1, HeadTailProperties
  <2> HIDE DEF z, calls
  <2>3. Len(s) = (done + 1) + (z - 1)
    BY <1>1, <2>1, <2>2
  <2>4. \A i \in 1..(z - 1) : calls[i] = from + (done + 1) + i
    <3> SUFFICES ASSUME NEW i \in 1..(z - 1) PROVE calls[i] = from + (done + 1) + i
      OBVIOUS
    <3>1. i + 1 \in 1..z /\ from + done + (i + 1) = from + (done + 1) + i
      BY <2>2
    <3> QED BY <2>1, <2>2, <3>1
  <2>5. ToSet(d.log) = ToSet(b.log) \cup {m}
    BY SequenceAppend
  <2>6. Done(d) = Done(b) \cup {m.call}
    BY <2>5 DEF Done
  <2>7. Done(d) = (from + 1)..(from + (done + 1))
    BY <1>1, <2>1, <2>6
  <2> QED BY <1>1, <2>2, <2>3, <2>4, <2>7 DEF Counted, calls
<1>3. Ran(q, d, from, done + 1)
  BY <1>1 DEF Ran
<1> QED BY <1>1, <1>2, <1>3 DEF CardsOf, Announced, Indexed

\* The message is complete: each of its calls has ended.
LEMMA CompleteCards ==
  ASSUME NEW from \in Nat, NEW done \in Nat, NEW t, NEW r, NEW b, CardsOf(t, r, b, from, done),
         b.phase = "llm", b.calls # <<>>, b.ended = Len(b.calls),
         NEW d, d.phase = "tools", d.calls = b.calls, Done(d) = Done(b)
  PROVE  CardsOf(t, r, d, from, done)
<1>1. Counted(t, d, from, done) /\ Announced(t, d, done) = Announced(t, b, done)
  BY DEF CardsOf, Counted, Announced
<1>2. Ran(r, d, from, done)
  BY DEF CardsOf, Ran
<1> QED BY <1>1, <1>2 DEF CardsOf, Indexed

LEMMA IterationCards ==
  ASSUME NEW from \in Nat, NEW done \in Nat, NEW t, NEW r, NEW b, CardsOf(t, r, b, from, done),
         b.phase = "tools", b.calls = <<>>,
         NEW d, d.phase = "llm", d.calls = <<>>, d.ended = 0, d.log = b.log
  PROVE  CardsOf(t, r, d, from, done)
<1>1. Counted(t, d, from, done)
  BY DEF CardsOf, Counted, Done
<1>2. Announced(t, d, done) = Announced(t, b, done)
  BY DEF CardsOf, Counted, Announced
<1>3. Ran(r, d, from, done)
  BY DEF CardsOf, Ran
<1>4. DOMAIN NoFunction = {}
  BY NewRuntimeFields
<1>5. Len(d.calls) = 0 /\ 0..(0 - 1) = {}
  OBVIOUS
<1>6. r.previewIds = NoFunction /\ r.previewCalls = NoFunction
  BY DEF CardsOf, Indexed
<1>7. Indexed(t, r, d, from, done)
  BY <1>4, <1>5, <1>6 DEF Indexed
<1> QED BY <1>1, <1>2, <1>3, <1>7 DEF CardsOf

\* Neither text nor what the bridge does with it is of the cards.
LEMMA SameCards ==
  ASSUME NEW from \in Nat, NEW done \in Nat, NEW t, NEW r, NEW b, CardsOf(t, r, b, from, done),
         NEW q, RuntimeFields(q), q.trace = r.trace, q.nextPreview = r.nextPreview,
         q.messageIds = r.messageIds, q.previewIds = r.previewIds,
         q.previewCalls = r.previewCalls, q.queue = r.queue,
         NEW d, d.phase = b.phase, d.log = b.log, d.calls = b.calls, d.ended = b.ended
  PROVE  CardsOf(t, q, d, from, done)
<1>1. \A call : Told(q, call) = Told(r, call)
  BY DEF Told
<1>2. Counted(t, d, from, done) /\ Announced(t, d, done) = Announced(t, b, done)
  BY DEF CardsOf, Counted, Announced, Done
<1>3. Named(t, q, from) /\ Fresh(t, q, from)
  BY <1>1 DEF CardsOf, Named, Fresh
<1>4. Ran(q, d, from, done)
  BY <1>1 DEF CardsOf, Ran
<1>5. Queued(t, q, Announced(t, d, done), from)
  <2>1. \A n : Untold(q, n, from) = Untold(r, n, from)
    BY <1>1 DEF Untold
  <2> QED BY <1>2, <2>1 DEF CardsOf, Queued
<1>6. Indexed(t, q, d, from, done)
  BY <1>1 DEF CardsOf, Indexed
<1> QED BY <1>2, <1>3, <1>4, <1>5, <1>6 DEF CardsOf

\* A run begins with no call and no card.
LEMMA NoCards ==
  ASSUME NEW from \in Nat, NEW run, NEW r, r = ChatRuntime(run), NEW t, t = <<>>,
         NEW b, b.phase = "llm", b.calls = <<>>, b.ended = 0, Done(b) = {}
  PROVE  CardsOf(t, r, b, from, 0)
<1>1. /\ RuntimeFields(r) /\ r.queue = <<>> /\ r.messageIds = NoFunction
      /\ r.previewIds = NoFunction /\ r.previewCalls = NoFunction /\ DOMAIN NoFunction = {}
  BY NewRuntimeFields
<1>2. /\ Len(t) = 0 /\ Len(b.calls) = 0 /\ b.calls \in Seq(Nat) /\ Len(r.queue) = 0
      /\ 1..0 = {} /\ 0..(0 - 1) = {} /\ (from + 1)..(from + 0) = {}
  BY <1>1
<1>3. Counted(t, b, from, 0)
  BY <1>2, SequenceEmpty DEF Counted
<1>4. Named(t, r, from) /\ Fresh(t, r, from)
  BY <1>1, <1>2 DEF Named, IdsApart, Fresh, Told
<1>5. Ran(r, b, from, 0)
  BY <1>2 DEF Ran
<1>6. Indexed(t, r, b, from, 0)
  BY <1>1, <1>2 DEF Indexed
<1>7. Queued(t, r, 0, from)
  BY <1>1, <1>2, SequenceEmpty DEF Queued, IdsOf, Untold, Ordered
<1> QED BY <1>1, <1>3, <1>4, <1>5, <1>6, <1>7 DEF CardsOf, Announced

-----------------------------------------------------------------------------
(* The cards of the page that reads the stream of the turn it sent.        *)

Carded(p, b, u) ==
  \E from, done \in Nat :
    /\ CardsOf(p.chat.stream.tools, p.runtime, b, from, done)
    /\ u.calls = from + Len(p.chat.stream.tools)

CallsInv(b, u) == CallFields(b) /\ "calls" \in DOMAIN u /\ u.calls \in Nat

\* An undisturbed page that reads the stream of its run has one card for each call of it, under
\* the name by which the page's runtime will find it again.
CardInv ==
  /\ CallsInv(bridge, used)
  /\ page.mode = "direct" /\ ~ghost.disturbed => Carded(page, bridge, used)

\* A step keeps the invariant, and the cards while the page reads on.
CardStep ==
  /\ CardInv'
  /\ page.mode = "direct" /\ page'.mode = "direct" /\ ~ghost'.disturbed =>
       KeepsCards(page.chat.stream.tools, page'.chat.stream.tools)

LEMMA CardInit ==
  ASSUME Init
  PROVE  CardInv
<1>1. CallsInv(bridge, used)
  BY DEF Init, InitBridge, CallsInv, CallFields
<1>2. page.mode = "idle"
  BY DEF Init
<1> QED BY <1>1, <1>2 DEF CardInv

LEMMA SameAreKept ==
  ASSUME NEW t, Sequence(t)
  PROVE  KeepsCards(t, t)
<1>1. Len(t) \in Nat
  <2>1. t \in Seq(ToSet(t))
    BY DEF Sequence
  <2> QED BY <2>1
<1> QED BY <1>1 DEF KeepsCards

\* A page that does not read its run's stream, after the step or before it.
LEMMA CardsElsewhere ==
  ASSUME CallsInv(bridge', used'), page'.mode # "direct"
  PROVE  CardStep
BY DEF CardStep, CardInv

\* What the cards of a runtime are to one state of the bridge, they are to another.
Carries(t, r, b, d) ==
  \A from, done \in Nat : CardsOf(t, r, b, from, done) => CardsOf(t, r, d, from, done)

LEMMA CardsStand ==
  ASSUME CardInv, CallFields(bridge'), "calls" \in DOMAIN used', used'.calls = used.calls,
         page'.mode = page.mode, page'.runtime = page.runtime,
         page'.chat.stream.tools = page.chat.stream.tools, ghost'.disturbed = ghost.disturbed,
         Carries(page.chat.stream.tools, page.runtime, bridge, bridge')
  PROVE  CardStep
<1>1. CallsInv(bridge', used')
  BY DEF CardInv, CallsInv
<1>2. CASE page.mode = "direct" /\ ~ghost.disturbed
  <2> DEFINE t == page.chat.stream.tools
             r == page.runtime
  <2>1. PICK from \in Nat, done \in Nat : CardsOf(t, r, bridge, from, done)
                                          /\ used.calls = from + Len(t)
    BY <1>2 DEF CardInv, Carded
  <2>2. CardsOf(t, r, bridge', from, done)
    BY <2>1 DEF Carries
  <2> HIDE DEF t, r
  <2>3. Carded(page', bridge', used')
    BY <2>1, <2>2 DEF Carded, t, r
  <2>4. Sequence(t)
    BY <2>1 DEF CardsOf, Counted
  <2>5. KeepsCards(t, page'.chat.stream.tools)
    BY <2>4, SameAreKept DEF t
  <2> QED BY <1>1, <2>3, <2>5 DEF CardStep, CardInv, t
<1>3. CASE ~(page.mode = "direct" /\ ~ghost.disturbed)
  BY <1>1, <1>3 DEF CardStep, CardInv
<1> QED BY <1>2, <1>3

\* What an event that the page handles does to the cards that it shows.
LEMMA HandledTools ==
  ASSUME NEW p, Page(p), NEW e, Event(e), e.type \notin {"awaiting_human", "message", "done"},
         NEW h, h = Handled(p, e)
  PROVE  h.chat.stream.tools = IF e.type \in {"text", "thinking"} THEN p.chat.stream.tools
                               ELSE UpsertTool(p.chat.stream.tools, CardOf(p.runtime, e))
<1>1. Page(h) /\ Display(h) = ApplyRuntimeActions(Display(p), ProjectAgentEvent(p.runtime, e).actions)
  BY HandledIs
<1>2. Raw(p.runtime) /\ Chat(Display(p))
  BY DisplayIs DEF Page
<1>3. Display(h).stream.tools = IF e.type \in {"text", "thinking"} THEN Display(p).stream.tools
                                ELSE UpsertTool(Display(p).stream.tools, CardOf(p.runtime, e))
  BY <1>1, <1>2, EventTools
<1>4. /\ Display(h).stream.tools = h.chat.stream.tools
      /\ Display(p).stream.tools = p.chat.stream.tools
  BY <1>1, DisplayTools
<1> QED BY <1>3, <1>4

LEMMA DraftedCalls ==
  ASSUME NEW b, CallFields(b), NEW e, NEW d, d = Drafted(b, e)
  PROVE  /\ CallFields(d) /\ d.log = b.log /\ d.calls = b.calls /\ d.ended = b.ended
         /\ d.phase = b.phase
<1>1. \E x, y : d = [b EXCEPT !.draft = x, !.draftRuntime = y]
  BY DEF Drafted, WithDraft
<1> QED BY <1>1 DEF CallFields

\* The cards after an event with which the bridge goes on to b.
CardsAfter(t, r, e, s, b, calls) ==
  /\ \E from, done \in Nat :
       CardsOf(s, ProjectAgentEvent(r, e).runtime, b, from, done) /\ calls = from + Len(s)
  /\ KeepsCards(t, s)

LEMMA EmitCards ==
  ASSUME TimelineInv, CardInv, NEW e, Event(e), e.type \notin {"awaiting_human", "message", "done"},
         NEW b, Emit(e, b), CallsInv(b, used'),
         NEW s, s = IF e.type \in {"text", "thinking"} THEN page.chat.stream.tools
                    ELSE UpsertTool(page.chat.stream.tools, CardOf(page.runtime, e)),
         page.mode = "direct" /\ ~ghost.disturbed =>
           CardsAfter(page.chat.stream.tools, page.runtime, e, s, b, used'.calls)
  PROVE  CardStep
<1>1. /\ bridge' = Drafted(b, e)
      /\ page' = IF Listening THEN Handled(page, e) ELSE page
      /\ ghost' = [ghost EXCEPT !.display = Unbuffered(e), !.irregular = @ \/ Irregular(e),
                              !.misread = @ \/ Misread(e)]
  BY DEF Emit, Shown
<1>2. Page(page) /\ {"display", "disturbed"} \subseteq DOMAIN ghost
  BY DEF TimelineInv, GhostInv, PageInv
<1>3. ghost'.disturbed = ghost.disturbed
  BY <1>1, <1>2
<1> DEFINE d == Drafted(b, e)
           h == Handled(page, e)
<1>4. /\ CallFields(d) /\ d.log = b.log /\ d.calls = b.calls /\ d.ended = b.ended
      /\ d.phase = b.phase
  BY DraftedCalls DEF CallsInv
<1>5. h.mode = page.mode
  BY <1>2, HandledIs
<1>6. h.runtime = ProjectAgentEvent(page.runtime, e).runtime
  BY <1>2, HandledRuntime
<1>7. h.chat.stream.tools = s
  BY <1>2, HandledTools
<1> HIDE DEF d, h
<1>8. bridge' = d /\ CallsInv(bridge', used')
  BY <1>1, <1>4 DEF CallsInv, d
<1>9. CASE page.mode = "direct" /\ ~ghost.disturbed
  <2> DEFINE t == page.chat.stream.tools
             q == ProjectAgentEvent(page.runtime, e).runtime
  <2>1. CardsAfter(t, page.runtime, e, s, b, used'.calls)
    BY <1>9
  <2>2. page' = h
    BY <1>1, <1>9 DEF Listening, h
  <2>3. PICK from \in Nat, done \in Nat : CardsOf(s, q, b, from, done) /\ used'.calls = from + Len(s)
    BY <2>1 DEF CardsAfter
  <2>4. KeepsCards(t, s)
    BY <2>1 DEF CardsAfter
  <2> HIDE DEF t, q
  <2>5. RuntimeFields(q)
    BY <2>3 DEF CardsOf
  <2>6. CardsOf(s, q, d, from, done)
    BY <1>4, <2>3, <2>5, SameCards
  <2>7. Carded(page', bridge', used')
    BY <1>6, <1>7, <1>8, <2>2, <2>3, <2>6 DEF Carded, q
  <2> QED BY <1>7, <1>8, <2>2, <2>4, <2>7 DEF CardStep, CardInv, t
<1>10. CASE ~(page.mode = "direct" /\ ~ghost.disturbed)
  <2>1. page'.mode = page.mode
    BY <1>1, <1>5 DEF h
  <2> QED BY <1>3, <1>8, <1>10, <2>1 DEF CardStep, CardInv
<1> QED BY <1>9, <1>10

\* An event that is of no call.
LEMMA OtherCards ==
  ASSUME TimelineInv, CardInv, NEW e, Event(e), e.type \in {"text", "thinking"},
         NEW b, Emit(e, b), CallsInv(b, used'), used'.calls = used.calls,
         b.phase = bridge.phase, b.log = bridge.log, b.calls = bridge.calls, b.ended = bridge.ended
  PROVE  CardStep
<1> DEFINE t == page.chat.stream.tools
           r == page.runtime
           q == ProjectAgentEvent(r, e).runtime
<1>1. ASSUME page.mode = "direct" /\ ~ghost.disturbed
      PROVE  CardsAfter(t, r, e, t, b, used'.calls)
  <2>1. PICK from \in Nat, done \in Nat : CardsOf(t, r, bridge, from, done)
                                          /\ used.calls = from + Len(t)
    BY <1>1 DEF CardInv, Carded
  <2>2. RuntimeFields(r) /\ Sequence(t)
    BY <2>1 DEF CardsOf, Counted
  <2> HIDE DEF t, r
  <2>3. /\ RuntimeFields(q) /\ q.trace = r.trace /\ q.nextPreview = r.nextPreview
        /\ q.messageIds = r.messageIds /\ q.previewIds = r.previewIds
        /\ q.previewCalls = r.previewCalls /\ q.queue = r.queue
    BY <2>2, OtherRuntime
  <2> HIDE DEF q
  <2>4. CardsOf(t, q, b, from, done)
    BY <2>1, <2>3, SameCards
  <2>5. KeepsCards(t, t)
    BY <2>2, SameAreKept
  <2> QED BY <2>1, <2>4, <2>5 DEF CardsAfter, q
<1> HIDE DEF t, r
<1>2. e.type \notin {"awaiting_human", "message", "done"}
  OBVIOUS
<1>3. t = IF e.type \in {"text", "thinking"} THEN page.chat.stream.tools
          ELSE UpsertTool(page.chat.stream.tools, CardOf(page.runtime, e))
  BY DEF t
<1>4. page.mode = "direct" /\ ~ghost.disturbed =>
        CardsAfter(page.chat.stream.tools, page.runtime, e, t, b, used'.calls)
  BY <1>1 DEF t, r
<1> QED BY <1>2, <1>3, <1>4, EmitCards

LEMMA StreamTextCards ==
  ASSUME TimelineInv, CardInv, NEW piece, NEW cumulative, StreamText(piece, cumulative)
  PROVE  CardStep
<1> DEFINE text == bridge.text \o <<piece>>
           e == [type |-> "text", text |-> IF cumulative THEN text ELSE <<piece>>]
           b == [bridge EXCEPT !.text = text]
<1>1. Emit(e, b) /\ used' = [used EXCEPT !.text = @ + 1] /\ piece \in Pieces
  BY DEF StreamText, Count
<1>2. BridgeInv(bridge) /\ UsedInv(used) /\ CallsInv(bridge, used)
  BY DEF TimelineInv, CardInv
<1>3. <<piece>> \in Text /\ text \in Text
  BY <1>1, <1>2, PieceIs DEF BridgeInv
<1> HIDE DEF text
<1>4. Event(e) /\ e.type \in {"text", "thinking"}
  BY <1>3 DEF Event
<1>5. /\ b.phase = bridge.phase /\ b.log = bridge.log /\ b.calls = bridge.calls
      /\ b.ended = bridge.ended /\ CallFields(b)
  BY <1>2 DEF CallsInv, CallFields
<1> HIDE DEF e, b
<1>6. used'.calls = used.calls /\ CallsInv(b, used')
  BY <1>1, <1>2, <1>5 DEF CallsInv
<1> QED BY <1>1, <1>4, <1>5, <1>6, OtherCards

LEMMA StreamThinkingCards ==
  ASSUME TimelineInv, CardInv, StreamThinking
  PROVE  CardStep
<1> DEFINE piece == <<used.thinking + 1>>
           e == [type |-> "thinking", text |-> piece]
           b == [bridge EXCEPT !.thinking = @ \o piece]
<1>1. Emit(e, b) /\ used' = [used EXCEPT !.thinking = @ + 1]
  BY DEF StreamThinking, Count
<1>2. UsedInv(used) /\ CallsInv(bridge, used)
  BY DEF TimelineInv, CardInv
<1>3. piece \in Text
  BY <1>2 DEF UsedInv, Text
<1> HIDE DEF piece
<1>4. Event(e) /\ e.type \in {"text", "thinking"}
  BY <1>3 DEF Event
<1>5. /\ b.phase = bridge.phase /\ b.log = bridge.log /\ b.calls = bridge.calls
      /\ b.ended = bridge.ended /\ CallFields(b)
  BY <1>2 DEF CallsInv, CallFields
<1> HIDE DEF e, b
<1>6. used'.calls = used.calls /\ CallsInv(b, used')
  BY <1>1, <1>2, <1>5 DEF CallsInv
<1> QED BY <1>1, <1>4, <1>5, <1>6, OtherCards

\* What the cards of the page that reads are to the bridge.
LEMMA CardsNow ==
  ASSUME CardInv, page.mode = "direct" /\ ~ghost.disturbed
  PROVE  \E from, done \in Nat :
           /\ CardsOf(page.chat.stream.tools, page.runtime, bridge, from, done)
           /\ used.calls = from + Len(page.chat.stream.tools)
           /\ Len(page.chat.stream.tools) \in Nat
<1>1. PICK from \in Nat, done \in Nat :
        /\ CardsOf(page.chat.stream.tools, page.runtime, bridge, from, done)
        /\ used.calls = from + Len(page.chat.stream.tools)
  BY DEF CardInv, Carded
<1>2. Sequence(page.chat.stream.tools)
  BY <1>1 DEF CardsOf, Counted
<1>3. Len(page.chat.stream.tools) \in Nat
  BY <1>2 DEF Sequence
<1> QED BY <1>1, <1>3

LEMMA CallStartCards ==
  ASSUME TimelineInv, CardInv, NEW told, StreamCallStart(told)
  PROVE  CardStep
<1> DEFINE call == used.calls + 1
           e == [type |-> "call_start", index |-> Len(bridge.calls),
                 call |-> IF told THEN call ELSE NoCall]
           b == [bridge EXCEPT !.calls = Append(@, call)]
           t == page.chat.stream.tools
           r == page.runtime
           s == UpsertTool(t, CardOf(r, e))
           q == ProjectAgentEvent(r, e).runtime
<1>1. /\ Emit(e, b) /\ used' = [used EXCEPT !.calls = @ + 1]
      /\ bridge.phase = "llm" /\ bridge.ended = 0
  BY DEF StreamCallStart, Count
<1>2. CallsInv(bridge, used)
  BY DEF CardInv
<1>3. Event(e) /\ e.type \notin {"awaiting_human", "message", "done", "text", "thinking"}
  BY DEF Event
<1>4. /\ b.phase = bridge.phase /\ b.log = bridge.log /\ b.calls = Append(bridge.calls, call)
      /\ b.ended = bridge.ended /\ CallFields(b)
  BY <1>2 DEF CallsInv, CallFields
<1>5. e.type = "call_start" /\ e.index = Len(bridge.calls) /\ e.call \in {call, NoCall}
  OBVIOUS
<1> HIDE DEF e, b
<1>6. used'.calls = call /\ CallsInv(b, used')
  BY <1>1, <1>2, <1>4 DEF CallsInv
<1>7. ASSUME page.mode = "direct" /\ ~ghost.disturbed
      PROVE  CardsAfter(t, r, e, s, b, used'.calls)
  <2>1. PICK from \in Nat, done \in Nat : /\ CardsOf(t, r, bridge, from, done)
                                          /\ used.calls = from + Len(t) /\ Len(t) \in Nat
    BY <1>7, CardsNow
  <2> HIDE DEF t, r
  <2>2. call = from + Len(t) + 1
    BY <2>1
  <2> HIDE DEF call
  <2>3. /\ CardsOf(s, q, b, from, done) /\ KeepsCards(t, s) /\ Len(s) = Len(t) + 1
    <3>1. b.phase = "llm" /\ b.ended = 0
      BY <1>1, <1>4
    <3> HIDE DEF s, q
    <3> QED BY <1>1, <1>4, <1>5, <2>1, <2>2, <3>1, StartedCards DEF s, q
  <2> HIDE DEF s
  <2>4. used'.calls = from + Len(s)
    BY <1>6, <2>1, <2>2, <2>3
  <2> QED BY <2>3, <2>4 DEF CardsAfter
<1> HIDE DEF call, t, r
<1>8. page.mode = "direct" /\ ~ghost.disturbed =>
        CardsAfter(page.chat.stream.tools, page.runtime, e, s, b, used'.calls)
  BY <1>7 DEF t, r
<1>9. s = IF e.type \in {"text", "thinking"} THEN page.chat.stream.tools
          ELSE UpsertTool(page.chat.stream.tools, CardOf(page.runtime, e))
  BY <1>3 DEF t, r
<1> HIDE DEF s
<1> QED BY <1>1, <1>3, <1>6, <1>8, <1>9, EmitCards

LEMMA CallEndCards ==
  ASSUME TimelineInv, CardInv, StreamCallEnd
  PROVE  CardStep
<1> DEFINE e == [type |-> "call_end", index |-> bridge.ended, call |-> NoCall]
           b == [bridge EXCEPT !.ended = @ + 1]
           t == page.chat.stream.tools
           r == page.runtime
           s == UpsertTool(t, CardOf(r, e))
           q == ProjectAgentEvent(r, e).runtime
<1>1. /\ Emit(e, b) /\ used' = used
      /\ bridge.phase = "llm" /\ bridge.ended < Len(bridge.calls)
  BY DEF StreamCallEnd
<1>2. CallsInv(bridge, used)
  BY DEF CardInv
<1>3. Event(e) /\ e.type \notin {"awaiting_human", "message", "done", "text", "thinking"}
  BY DEF Event
<1>4. /\ b.phase = bridge.phase /\ b.log = bridge.log /\ b.calls = bridge.calls
      /\ b.ended = bridge.ended + 1 /\ CallFields(b)
  BY <1>2 DEF CallsInv, CallFields
<1> HIDE DEF b
<1>5. CallsInv(b, used')
  BY <1>1, <1>2, <1>4 DEF CallsInv
<1>6. e = [type |-> "call_end", index |-> bridge.ended, call |-> NoCall]
  OBVIOUS
<1> HIDE DEF e
<1>7. ASSUME page.mode = "direct" /\ ~ghost.disturbed
      PROVE  CardsAfter(t, r, e, s, b, used'.calls)
  <2>1. PICK from \in Nat, done \in Nat : /\ CardsOf(t, r, bridge, from, done)
                                          /\ used.calls = from + Len(t) /\ Len(t) \in Nat
    BY <1>7, CardsNow
  <2> HIDE DEF t, r
  <2>2. CardsOf(s, q, b, from, done) /\ KeepsCards(t, s) /\ Len(s) = Len(t)
    <3>1. b.phase = "llm"
      BY <1>1, <1>4
    <3> HIDE DEF s, q
    <3> QED BY <1>1, <1>4, <1>6, <2>1, <3>1, EndedCards DEF s, q
  <2> HIDE DEF s
  <2>3. used'.calls = from + Len(s)
    BY <1>1, <2>1, <2>2
  <2> QED BY <2>2, <2>3 DEF CardsAfter
<1> HIDE DEF t, r
<1>8. page.mode = "direct" /\ ~ghost.disturbed =>
        CardsAfter(page.chat.stream.tools, page.runtime, e, s, b, used'.calls)
  BY <1>7 DEF t, r
<1>9. s = IF e.type \in {"text", "thinking"} THEN page.chat.stream.tools
          ELSE UpsertTool(page.chat.stream.tools, CardOf(page.runtime, e))
  BY <1>3 DEF t, r
<1> HIDE DEF s
<1> QED BY <1>1, <1>3, <1>5, <1>8, <1>9, EmitCards

LEMMA ToolStartsCards ==
  ASSUME TimelineInv, CardInv, ToolStarts
  PROVE  CardStep
<1> DEFINE e == [type |-> "tool_started", call |-> Head(bridge.calls)]
           b == [bridge EXCEPT !.phase = "running"]
           t == page.chat.stream.tools
           r == page.runtime
           s == UpsertTool(t, CardOf(r, e))
           q == ProjectAgentEvent(r, e).runtime
<1>1. /\ Emit(e, b) /\ used' = used
      /\ bridge.phase = "tools" /\ bridge.calls # <<>>
  BY DEF ToolStarts
<1>2. CallsInv(bridge, used)
  BY DEF CardInv
<1>3. Event(e) /\ e.type \notin {"awaiting_human", "message", "done", "text", "thinking"}
  BY DEF Event
<1>4. b.phase = "running" /\ b.log = bridge.log /\ b.calls = bridge.calls /\ CallFields(b)
  BY <1>2 DEF CallsInv, CallFields
<1> HIDE DEF b
<1>5. CallsInv(b, used')
  BY <1>1, <1>2, <1>4 DEF CallsInv
<1>6. e.type = "tool_started" /\ e.call = Head(bridge.calls)
  OBVIOUS
<1> HIDE DEF e
<1>7. ASSUME page.mode = "direct" /\ ~ghost.disturbed
      PROVE  CardsAfter(t, r, e, s, b, used'.calls)
  <2>1. PICK from \in Nat, done \in Nat : /\ CardsOf(t, r, bridge, from, done)
                                          /\ used.calls = from + Len(t) /\ Len(t) \in Nat
    BY <1>7, CardsNow
  <2> HIDE DEF t, r
  <2>2. CardsOf(s, q, b, from, done) /\ KeepsCards(t, s) /\ Len(s) = Len(t)
    <3> HIDE DEF s, q
    <3> QED BY <1>1, <1>4, <1>6, <2>1, StartsCards DEF s, q
  <2> HIDE DEF s
  <2>3. used'.calls = from + Len(s)
    BY <1>1, <2>1, <2>2
  <2> QED BY <2>2, <2>3 DEF CardsAfter
<1> HIDE DEF t, r
<1>8. page.mode = "direct" /\ ~ghost.disturbed =>
        CardsAfter(page.chat.stream.tools, page.runtime, e, s, b, used'.calls)
  BY <1>7 DEF t, r
<1>9. s = IF e.type \in {"text", "thinking"} THEN page.chat.stream.tools
          ELSE UpsertTool(page.chat.stream.tools, CardOf(page.runtime, e))
  BY <1>3 DEF t, r
<1> HIDE DEF s
<1> QED BY <1>1, <1>3, <1>5, <1>8, <1>9, EmitCards

LEMMA ToolFinishesCards ==
  ASSUME TimelineInv, TextInv, CardInv, ToolFinishes
  PROVE  CardStep
<1> DEFINE call == Head(bridge.calls)
           m == Message("tool", <<>>, <<>>, call)
           e == [type |-> "tool_finished", call |-> call]
           b == [bridge EXCEPT !.phase = "tools", !.calls = Tail(@), !.log = Append(@, m)]
           t == page.chat.stream.tools
           r == page.runtime
           s == UpsertTool(t, CardOf(r, e))
           q == ProjectAgentEvent(r, e).runtime
<1>1. Emit(e, b) /\ used' = used /\ bridge.phase = "running"
  BY DEF ToolFinishes
<1>2. CallsInv(bridge, used) /\ Sequence(bridge.log)
  BY DEF CardInv, TextInv, LogInv
<1>3. Event(e) /\ e.type \notin {"awaiting_human", "message", "done", "text", "thinking"}
  BY DEF Event
<1>3a. m.kind = "tool" /\ m.call = Head(bridge.calls)
  BY DEF Message
<1> HIDE DEF m
<1>4. /\ b.phase = "tools" /\ b.log = Append(bridge.log, m) /\ b.calls = Tail(bridge.calls)
      /\ CallFields(b)
  BY <1>2 DEF CallsInv, CallFields
<1> HIDE DEF b
<1>5. CallsInv(b, used')
  BY <1>1, <1>2, <1>4 DEF CallsInv
<1>6. e.type = "tool_finished" /\ e.call = Head(bridge.calls)
  OBVIOUS
<1> HIDE DEF e
<1>7. ASSUME page.mode = "direct" /\ ~ghost.disturbed
      PROVE  CardsAfter(t, r, e, s, b, used'.calls)
  <2>1. PICK from \in Nat, done \in Nat : /\ CardsOf(t, r, bridge, from, done)
                                          /\ used.calls = from + Len(t) /\ Len(t) \in Nat
    BY <1>7, CardsNow
  <2> HIDE DEF t, r
  <2>2. CardsOf(s, q, b, from, done + 1) /\ KeepsCards(t, s) /\ Len(s) = Len(t)
    <3>1. bridge.calls # <<>>
      BY <1>1, <2>1 DEF CardsOf, Ran
    <3> HIDE DEF s, q
    <3> QED BY <1>1, <1>2, <1>3a, <1>4, <1>6, <2>1, <3>1, FinishesCards DEF s, q
  <2> HIDE DEF s
  <2>3. used'.calls = from + Len(s) /\ done + 1 \in Nat
    BY <1>1, <2>1, <2>2
  <2> QED BY <2>2, <2>3 DEF CardsAfter
<1> HIDE DEF t, r
<1>8. page.mode = "direct" /\ ~ghost.disturbed =>
        CardsAfter(page.chat.stream.tools, page.runtime, e, s, b, used'.calls)
  BY <1>7 DEF t, r
<1>9. s = IF e.type \in {"text", "thinking"} THEN page.chat.stream.tools
          ELSE UpsertTool(page.chat.stream.tools, CardOf(page.runtime, e))
  BY <1>3 DEF t, r
<1> HIDE DEF s
<1> QED BY <1>1, <1>3, <1>5, <1>8, <1>9, EmitCards

\* A message that is of no call ends none.
LEMMA AlsoDone ==
  ASSUME NEW b, Sequence(b.log), NEW m, m.kind # "tool", NEW d, d.log = Append(b.log, m)
  PROVE  Done(d) = Done(b) /\ Sequence(d.log)
<1>1. ToSet(d.log) = ToSet(b.log) \cup {m} /\ Sequence(d.log)
  BY SequenceAppend
<1> QED BY <1>1 DEF Done

LEMMA IterationDone ==
  ASSUME NEW b, Sequence(b.log), NEW d, d.log = b.log \o IterationMessages(b)
  PROVE  Done(d) = Done(b)
<1> DEFINE m == Message("thinking", <<>>, b.thinking, NoCall)
           k == Message("assistant", <<>>, b.text, NoCall)
           c == [log |-> Append(b.log, m)]
<1>1. m.kind # "tool" /\ k.kind # "tool"
  BY DEF Message
<1>2. d.log = IF b.thinking = <<>> THEN IF b.text = <<>> THEN b.log ELSE Append(b.log, k)
              ELSE IF b.text = <<>> THEN Append(b.log, m) ELSE Append(Append(b.log, m), k)
  BY IterationLog
<1> HIDE DEF m, k
<1>3. c.log = Append(b.log, m)
  OBVIOUS
<1> HIDE DEF c
<1>4. Done(c) = Done(b) /\ Sequence(c.log)
  BY <1>1, <1>3, AlsoDone
<1>5. CASE d.log = b.log
  BY <1>5 DEF Done
<1>6. CASE d.log = Append(b.log, k)
  BY <1>1, <1>6, AlsoDone
<1>7. CASE d.log = Append(b.log, m)
  BY <1>1, <1>7, AlsoDone
<1>8. CASE d.log = Append(c.log, k)
  <2>1. Done(d) = Done(c)
    BY <1>1, <1>4, <1>8, AlsoDone
  <2> QED BY <1>4, <2>1
<1> QED BY <1>2, <1>3, <1>5, <1>6, <1>7, <1>8

LEMMA CallsToRunCards ==
  ASSUME TextInv, CardInv, CallsToRun
  PROVE  CardStep
<1> DEFINE log == bridge.log \o IterationMessages(bridge)
<1>1. /\ bridge' = [bridge EXCEPT !.phase = "tools", !.log = log, !.text = <<>>, !.thinking = <<>>]
      /\ page' = page /\ used' = used /\ ghost' = ghost
      /\ bridge.phase = "llm" /\ bridge.calls # <<>> /\ bridge.ended = Len(bridge.calls)
  BY DEF CallsToRun
<1>2. CallsInv(bridge, used) /\ Sequence(bridge.log)
  BY DEF CardInv, TextInv, LogInv
<1> DEFINE d == bridge'
<1>3. /\ d.phase = "tools" /\ d.calls = bridge.calls /\ d.log = log /\ CallFields(d)
  BY <1>1, <1>2 DEF CallsInv, CallFields
<1> HIDE DEF d
<1>4. Done(d) = Done(bridge)
  BY <1>2, <1>3, IterationDone
<1>5. Carries(page.chat.stream.tools, page.runtime, bridge, d)
  BY <1>1, <1>3, <1>4, CompleteCards DEF Carries
<1> QED BY <1>1, <1>2, <1>3, <1>5, CardsStand DEF CallsInv, d

LEMMA NewIterationCalls ==
  ASSUME NEW b, CallFields(b), NEW d, d = NewIteration(b)
  PROVE  /\ d.phase = "llm" /\ d.calls = <<>> /\ d.ended = 0 /\ d.log = b.log /\ CallFields(d)
BY DEF NewIteration, CallFields

LEMMA NextIterationCards ==
  ASSUME CardInv, NextIteration
  PROVE  CardStep
<1> DEFINE d == bridge'
<1>1. /\ d = NewIteration(bridge) /\ bridge.phase = "tools" /\ bridge.calls = <<>>
      /\ page' = page /\ used' = used /\ ghost' = ghost
  BY DEF NextIteration
<1>2. CallsInv(bridge, used)
  BY DEF CardInv
<1> HIDE DEF d
<1>3. /\ d.phase = "llm" /\ d.calls = <<>> /\ d.ended = 0 /\ d.log = bridge.log /\ CallFields(d)
  BY <1>1, <1>2, NewIterationCalls DEF CallsInv
<1>4. Carries(page.chat.stream.tools, page.runtime, bridge, d)
  BY <1>1, <1>3, IterationCards DEF Carries
<1> QED BY <1>1, <1>2, <1>3, <1>4, CardsStand DEF CallsInv, d

\* A page that begins a run shows no card.
LEMMA BeginsBare ==
  ASSUME CardInv, page.mode = "idle", NEW b, CallFields(b), Done(b) = {},
         NEW d, d = NewIteration(b), CallFields(bridge'), bridge'.phase = d.phase,
         bridge'.calls = d.calls, bridge'.ended = d.ended, bridge'.log = d.log,
         NEW run, page'.runtime = ChatRuntime(run), page'.chat.stream.tools = <<>>,
         used' = used
  PROVE  CardStep
<1>1. CallsInv(bridge', used') /\ used.calls \in Nat
  BY DEF CardInv, CallsInv
<1>2. /\ d.phase = "llm" /\ d.calls = <<>> /\ d.ended = 0 /\ d.log = b.log
  BY NewIterationCalls
<1>3. Done(bridge') = {}
  BY <1>2 DEF Done
<1>4. CardsOf(page'.chat.stream.tools, page'.runtime, bridge', used.calls, 0)
  BY <1>1, <1>2, <1>3, NoCards
<1>5. used'.calls = used.calls + Len(page'.chat.stream.tools)
  BY <1>1
<1>6. Carded(page', bridge', used')
  BY <1>1, <1>4, <1>5 DEF Carded
<1> QED BY <1>1, <1>6 DEF CardStep, CardInv

\* The page that begins a run.
LEMMA BegunPage ==
  ASSUME PageInv(page), NEW begun, NEW run,
         page' = [page EXCEPT !.mode = "direct", !.runtime = ChatRuntime(run), !.chat = begun]
  PROVE  page'.runtime = ChatRuntime(run) /\ page'.chat = begun
BY DEF PageInv, Page

LEMMA NoneDone ==
  ASSUME NEW b, NEW m, m.kind # "tool"
  PROVE  /\ b.log = <<m>> => Done(b) = {}
         /\ \A k : k.kind # "tool" /\ b.log = <<m, k>> => Done(b) = {}
<1>1. DOMAIN <<m>> = {1} /\ \A k : DOMAIN <<m, k>> = {1, 2}
  OBVIOUS
<1>2. ToSet(<<m>>) = {m} /\ \A k : ToSet(<<m, k>>) = {m, k}
  BY <1>1 DEF ToSet
<1> QED BY <1>2 DEF Done

LEMMA SendCards ==
  ASSUME TimelineInv, CardInv, Send
  PROVE  CardStep
<1> DEFINE turn == bridge.turn + 1
           user == UserMessage(turn, <<"local", turn>>)
           first == UserMessage(turn, <<>>)
           begun == [page.chat EXCEPT !.committed = Append(@, user),
                                      !.stream = ClearStreamingState(@)]
           b == [bridge EXCEPT !.run = @ + 1, !.log = <<first>>]
           d == NewIteration(b)
           s == ClearStreamingState(page.chat.stream)
           run == bridge.run + 1
<1>1. /\ bridge' = [d EXCEPT !.turn = turn] /\ page.mode = "idle" /\ used' = used
      /\ page' = [page EXCEPT !.mode = "direct", !.runtime = ChatRuntime(run), !.chat = begun]
  BY DEF Send, NewRun
<1>2. PageInv(page) /\ CallsInv(bridge, used)
  BY DEF TimelineInv, CardInv
<1>3. first.kind # "tool"
  BY DEF UserMessage, Message
<1> HIDE DEF first, user, run
<1>4. b.log = <<first>> /\ CallFields(b)
  BY <1>2 DEF CallsInv, CallFields
<1> HIDE DEF b
<1>5. Done(b) = {}
  BY <1>3, <1>4, NoneDone
<1>6. CallFields(d)
  BY <1>4, NewIterationCalls
<1> HIDE DEF d, turn
<1>7. /\ bridge'.phase = d.phase /\ bridge'.calls = d.calls /\ bridge'.ended = d.ended
      /\ bridge'.log = d.log /\ CallFields(bridge')
  BY <1>1, <1>6 DEF CallFields
<1>8. page.chat = [committed |-> page.chat.committed, stream |-> page.chat.stream]
  BY <1>2 DEF PageInv, Page, Chat
<1>9. begun.stream = s /\ s.tools = <<>>
  <2> DEFINE c == Append(page.chat.committed, user)
  <2>1. begun = [page.chat EXCEPT !.committed = c, !.stream = s]
    OBVIOUS
  <2> HIDE DEF begun, c, s
  <2>2. begun = [committed |-> c, stream |-> s]
    BY <1>8, <2>1
  <2> QED BY <2>2, ClearedIs DEF s
<1> HIDE DEF begun, s
<1>10. page'.runtime = ChatRuntime(run) /\ page'.chat = begun
  BY <1>1, <1>2, BegunPage
<1>11. page'.chat.stream.tools = <<>>
  BY <1>9, <1>10
<1> QED BY <1>1, <1>4, <1>5, <1>7, <1>10, <1>11, BeginsBare DEF d

LEMMA AnswerCards ==
  ASSUME TimelineInv, CardInv, Answer
  PROVE  CardStep
<1>1. PICK question \in ToSet(page.chat.stream.questions) :
        LET answer == Message("user", <<"answer", question>>, <<"answer", question>>, NoCall)
            begun == [committed |-> Append(page.chat.committed, answer),
                      stream |-> RemovePendingQuestion(ClearStreamingState(page.chat.stream), question)]
            asked == Message("question", <<>>, <<question>>, NoCall)
        IN  /\ bridge' = NewRun(bridge, <<asked, answer>>)
            /\ page' = [page EXCEPT !.mode = "direct", !.runtime = ChatRuntime(bridge.run + 1),
                                    !.chat = begun]
  BY DEF Answer
<1> DEFINE answer == Message("user", <<"answer", question>>, <<"answer", question>>, NoCall)
           asked == Message("question", <<>>, <<question>>, NoCall)
           s == ClearStreamingState(page.chat.stream)
           r == RemovePendingQuestion(s, question)
           begun == [committed |-> Append(page.chat.committed, answer), stream |-> r]
           b == [bridge EXCEPT !.run = @ + 1, !.log = <<asked, answer>>]
           d == NewIteration(b)
           run == bridge.run + 1
<1>2. /\ bridge' = d /\ page.mode = "idle" /\ used' = used
      /\ page' = [page EXCEPT !.mode = "direct", !.runtime = ChatRuntime(run), !.chat = begun]
  BY <1>1 DEF NewRun, Answer
<1>3. PageInv(page) /\ CallsInv(bridge, used)
  BY DEF TimelineInv, CardInv
<1>4. answer.kind # "tool" /\ asked.kind # "tool"
  BY DEF Message
<1> HIDE DEF answer, asked, run
<1>5. b.log = <<asked, answer>> /\ CallFields(b)
  BY <1>3 DEF CallsInv, CallFields
<1> HIDE DEF b
<1>6. Done(b) = {}
  BY <1>4, <1>5, NoneDone
<1>7. CallFields(d)
  BY <1>5, NewIterationCalls
<1> HIDE DEF d
<1>8. Stream(page.chat.stream)
  BY <1>3 DEF PageInv, Page, Chat
<1>9. Stream(s) /\ s.tools = <<>>
  BY <1>8, ClearStreamingIs, ClearedIs
<1> HIDE DEF s
<1>10. r.tools = <<>>
  BY <1>9, QuestionGone
<1> HIDE DEF r
<1>11. begun.stream = r
  OBVIOUS
<1> HIDE DEF begun
<1>12. page'.runtime = ChatRuntime(run) /\ page'.chat = begun
  BY <1>2, <1>3, BegunPage
<1>13. page'.chat.stream.tools = <<>>
  BY <1>10, <1>11, <1>12
<1> QED BY <1>2, <1>5, <1>6, <1>7, <1>12, <1>13, BeginsBare DEF d

LEMMA TurnEndsCards ==
  ASSUME TimelineInv, CardInv, TurnEnds
  PROVE  CardStep
<1> DEFINE b == NewIteration(bridge)
<1>1. /\ bridge' = [b EXCEPT !.phase = "idle", !.drafting = FALSE, !.log = <<>>,
                             !.history = @ \o bridge.log \o IterationMessages(bridge)]
      /\ \E x : used' = [used EXCEPT !.syncs = x]
  BY DEF TurnEnds, AskHistory
<1>2. CallsInv(bridge, used) /\ Page(page)
  BY DEF TimelineInv, CardInv, PageInv
<1>3. CallFields(b)
  BY <1>2, NewIterationCalls DEF CallsInv
<1> HIDE DEF b
<1>4. CallsInv(bridge', used')
  BY <1>1, <1>2, <1>3 DEF CallsInv, CallFields
<1>5. page'.mode # "direct"
  BY TurnEndsMode
<1> QED BY <1>4, <1>5, CardsElsewhere

LEMMA AskHumanCards ==
  ASSUME TimelineInv, CardInv, AskHuman
  PROVE  CardStep
<1> DEFINE finished == [type |-> "tool_finished", call |-> Head(bridge.calls)]
           asks == [type |-> "awaiting_human", question |-> used.asks + 1]
           b == Drafted(bridge, finished)
           d == Drafted(b, asks)
<1>1. /\ bridge' = [d EXCEPT !.phase = "asked", !.history = @ \o bridge.log, !.log = <<>>]
      /\ \E x, y : used' = [used EXCEPT !.asks = x, !.syncs = y]
  BY DEF AskHuman
<1>2. CallsInv(bridge, used) /\ Page(page)
  BY DEF TimelineInv, CardInv, PageInv
<1>3. Event(finished) /\ Event(asks)
  BY DEF Event
<1> HIDE DEF finished, asks
<1>4. CallFields(b)
  BY <1>2, DraftedCalls DEF CallsInv
<1> HIDE DEF b
<1>5. CallFields(d)
  BY <1>4, DraftedCalls
<1> HIDE DEF d
<1>6. CallsInv(bridge', used')
  BY <1>1, <1>2, <1>5 DEF CallsInv, CallFields
<1>7. page'.mode # "direct"
  BY AskHumanMode
<1> QED BY <1>6, <1>7, CardsElsewhere

LEMMA CarriesSame ==
  ASSUME NEW t, NEW r, NEW b, NEW d, d = b
  PROVE  Carries(t, r, b, d)
BY DEF Carries

LEMMA FlushTimerCards ==
  ASSUME TimelineInv, CardInv, FlushTimer
  PROVE  CardStep
<1>1. /\ page' = [page EXCEPT !.chat = Display(page), !.pending = <<>>]
      /\ bridge' = bridge /\ used' = used /\ ghost' = ghost
  BY DEF FlushTimer
<1>2. Page(page)
  BY DEF TimelineInv, PageInv
<1>3. page'.mode = page.mode /\ page'.runtime = page.runtime /\ page'.chat = Display(page)
  BY <1>1, <1>2 DEF Page
<1>4. page'.chat.stream.tools = page.chat.stream.tools
  BY <1>2, <1>3, DisplayTools
<1>5. Carries(page.chat.stream.tools, page.runtime, bridge, bridge')
  BY <1>1, CarriesSame
<1> QED BY <1>1, <1>3, <1>4, <1>5, CardsStand DEF CardInv, CallsInv

\* A reply that reaches a page while it reads disturbs the run.
LEMMA SyncHistoryCards ==
  ASSUME TimelineInv, CardInv, SyncHistory
  PROVE  CardStep
<1>1. PICK chat, now :
        /\ page' = [page EXCEPT !.chat = chat]
        /\ ghost' = [ghost EXCEPT !.display = Display(page'), !.disturbed = @ \/ page.mode # "idle",
                                  !.current = now]
        /\ bridge' = bridge /\ used' = used
  BY DEF SyncHistory
<1>2. page'.mode = page.mode
  BY <1>1 DEF TimelineInv, PageInv, Page
<1>3. ~ghost'.disturbed => page.mode = "idle"
  BY <1>1 DEF TimelineInv, GhostInv
<1> QED BY <1>1, <1>2, <1>3 DEF CardStep, CardInv, CallsInv

LEMMA ReloadCards ==
  ASSUME CardInv, Reload
  PROVE  CardStep
<1>1. page'.mode # "direct" /\ bridge' = bridge
  BY DEF Reload
<1>2. CallsInv(bridge', used')
  BY <1>1 DEF Reload, Count, CardInv, CallsInv
<1> QED BY <1>1, <1>2, CardsElsewhere

LEMMA SubscribeCards ==
  ASSUME TimelineInv, CardInv, Subscribe
  PROVE  CardStep
<1>1. page'.mode = "recovered" /\ bridge' = bridge /\ used' = used
  BY DEF Subscribe, TimelineInv, PageInv, Page
<1> QED BY <1>1, CardsElsewhere DEF CardInv

LEMMA ElseCards ==
  ASSUME CardInv, UNCHANGED <<bridge, page, used, ghost>>
  PROVE  CardStep
<1>1. Carries(page.chat.stream.tools, page.runtime, bridge, bridge')
  BY CarriesSame
<1> QED BY <1>1, CardsStand DEF CardInv, CallsInv

\* Every step keeps CardInv, and the cards while the page reads on.
LEMMA CardsStep ==
  ASSUME TimelineInv, TextInv, CardInv, [Next]_vars
  PROVE  CardStep
<1>1. CASE UNCHANGED <<bridge, page, used, ghost>>
  BY <1>1, ElseCards
<1>2. CASE Next
  BY <1>1, <1>2, SendCards, AnswerCards, StreamTextCards, StreamThinkingCards, CallStartCards,
     CallEndCards, CallsToRunCards, ToolStartsCards, ToolFinishesCards, NextIterationCards,
     TurnEndsCards, AskHumanCards, FlushTimerCards, SyncHistoryCards, ReloadCards, SubscribeCards
     DEF Next, BridgeStep, ReadHistory, SyncFails
<1>3. CASE UNCHANGED vars
  BY <1>1, <1>3 DEF vars
<1> QED BY <1>2, <1>3

\* The invariant: each call of the run that the page reads has one card, in the calls' order, and
\* the runtime's tables and queue (chatEventRuntime.ts) lead each later event of a call to it.
THEOREM CardInvariant == Spec => [](TimelineInv /\ TextInv /\ CardInv)
<1>1. Init => TextInv /\ CardInv
  BY TextInit, CardInit
<1>2. TimelineInv /\ TextInv /\ CardInv /\ [Next]_vars => TextInv' /\ CardInv'
  BY TextStep, CardsStep DEF CardStep
<1> QED BY <1>1, <1>2, TimelineInvariant, PTL DEF Spec

LEMMA OneCard ==
  ASSUME CardInv
  PROVE  OneCardPerCall
<1> DEFINE t == page.chat.stream.tools
           r == page.runtime
           ends == {m.call : m \in {l \in ToSet(bridge.log) : l.kind = "tool"}}
<1> SUFFICES ASSUME page.mode = "direct", ~ghost.disturbed
             PROVE  /\ Len(t) = Len(bridge.calls) + Cardinality(ends)
                    /\ \A call \in ends : Cardinality({x \in ToSet(t) : x.call = call}) = 1
  BY DEF OneCardPerCall
<1>1. PICK from \in Nat, done \in Nat : CardsOf(t, r, bridge, from, done) /\ Len(t) \in Nat
  BY CardsNow
<1> HIDE DEF t, r
<1>2. /\ Sequence(t) /\ bridge.calls \in Seq(Nat) /\ Len(t) = done + Len(bridge.calls)
      /\ ends = (from + 1)..(from + done)
      /\ \A k \in 1..Len(t) : t[k].call = IF Told(r, from + k) THEN from + k ELSE NoCall
      /\ \A k \in 1..done : Told(r, from + k)
  BY <1>1 DEF CardsOf, Counted, Named, Ran, Done
<1> HIDE DEF ends
<1>3. Cardinality(ends) = done
  <2>1. Cardinality((from + 1)..(from + done))
          = IF from + 1 > from + done THEN 0 ELSE (from + done) - (from + 1) + 1
    BY FS_Interval
  <2>2. (IF from + 1 > from + done THEN 0 ELSE (from + done) - (from + 1) + 1) = done
    OBVIOUS
  <2> QED BY <1>2, <2>1, <2>2
<1>4. Len(bridge.calls) \in Nat
  BY <1>2
<1>5. ASSUME NEW call \in ends PROVE Cardinality({x \in ToSet(t) : x.call = call}) = 1
  <2> DEFINE k == call - from
  <2>1. k \in 1..done /\ k \in 1..Len(t) /\ call = from + k
    BY <1>2, <1>4, <1>5
  <2> HIDE DEF k
  <2>2. t[k].call = call
    BY <1>2, <2>1
  <2>3. \A j \in 1..Len(t) : t[j].call = call => j = k
    <3> SUFFICES ASSUME NEW j \in 1..Len(t), t[j].call = call PROVE j = k
      OBVIOUS
    <3>1. t[j].call = from + j \/ t[j].call = NoCall
      BY <1>2
    <3>2. call # NoCall /\ j \in Nat
      BY <2>1 DEF NoCall
    <3>3. call = from + j
      BY <3>1, <3>2
    <3> QED BY <2>1, <3>2, <3>3
  <2>4. DOMAIN t = 1..Len(t)
    BY <1>2 DEF Sequence
  <2>5. {x \in ToSet(t) : x.call = call} = {t[k]}
    BY <2>1, <2>2, <2>3, <2>4 DEF ToSet
  <2> QED BY <2>5, FS_Singleton
<1> QED BY <1>1, <1>2, <1>3, <1>4, <1>5

LEMMA CardIsKept ==
  ASSUME TimelineInv, CardStep
  PROVE  page.mode = "direct" /\ page'.mode = "direct" /\ ~ghost'.disturbed =>
           \A x \in ToSet(page.chat.stream.tools), y \in ToSet(page'.chat.stream.tools) :
             x.id = y.id /\ x.call # NoCall => y.call = x.call
<1> DEFINE t == page.chat.stream.tools
           s == page'.chat.stream.tools
<1> SUFFICES ASSUME page.mode = "direct", page'.mode = "direct", ~ghost'.disturbed,
                    NEW x \in ToSet(t), NEW y \in ToSet(s), x.id = y.id,
                    x.call # NoCall
             PROVE  y.call = x.call
  OBVIOUS
<1>0. Sequence(t)
  BY DEF TimelineInv, PageInv, Page, Chat, Stream
<1>1. KeepsCards(t, s)
  BY DEF CardStep
<1>2. PICK from \in Nat, done \in Nat : CardsOf(s, page'.runtime, bridge', from, done)
  BY DEF CardStep, CardInv, Carded
<1> HIDE DEF t, s
<1>3. Sequence(s) /\ IdsApart(s)
  BY <1>2 DEF CardsOf, Counted, Named
<1>4. PICK j \in 1..Len(t), k \in 1..Len(s) : x = t[j] /\ y = s[k]
  <2>1. DOMAIN t = 1..Len(t)
    BY <1>0 DEF Sequence
  <2>2. DOMAIN s = 1..Len(s)
    BY <1>3 DEF Sequence
  <2> QED BY <2>1, <2>2 DEF ToSet
<1>5. j \in 1..Len(s) /\ s[j].id = x.id /\ s[j].call = x.call
  BY <1>1, <1>4 DEF KeepsCards
<1> QED BY <1>3, <1>4, <1>5 DEF IdsApart

\* Each call of the run that the page reads has its one card, made at its first event and found
\* again by the later ones, whether the stream told its id at once or not
\* (resolvePreviewToolMessageID, resolveToolMessageID).
THEOREM OneCardForEachCall == Spec => []OneCardPerCall
<1>1. CardInv => OneCardPerCall
  BY OneCard
<1> QED BY <1>1, CardInvariant, PTL

\* While the page reads a run, a card that is of a call stays that call's: it is neither given
\* to another call nor taken away.
THEOREM CardsKeepTheirCalls == Spec => CardKeepsCall
<1>1. TimelineInv /\ TextInv /\ CardInv /\ [Next]_vars =>
        [page.mode = "direct" /\ page'.mode = "direct" /\ ~ghost'.disturbed =>
           \A t \in ToSet(page.chat.stream.tools), u \in ToSet(page'.chat.stream.tools) :
             t.id = u.id /\ t.call # NoCall => u.call = t.call]_vars
  BY CardsStep, CardIsKept
<1> QED BY <1>1, CardInvariant, PTL DEF Spec, CardKeepsCall
=============================================================================
