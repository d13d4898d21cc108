----------------------------- MODULE ChatStream -----------------------------
(***************************************************************************)
(* The web chat's streaming display as operators on values: the tables of  *)
(* streamed segments, tool cards and questions, the runtime actions that   *)
(* change them, the projection of agent events into such actions, the      *)
(* buffer that batches text, what finalizing a turn commits, what a turn   *)
(* draft hydrates and how a page of history is merged into the display.    *)
(*                                                                         *)
(* Text is a sequence of pieces, each piece a number: concatenation,       *)
(* prefixes and overlaps of strings are those of the sequences.  A tool's  *)
(* content, input and name are left out.                                   *)
(***************************************************************************)
EXTENDS Integers, Sequences, FiniteSets, SequencesExt

NoCall == 0

(* A chat message.  The first component of an id says where it comes from: *)
(* the server's history, a local user message, or the stream.              *)
Message(kind, id, body, call) == [kind |-> kind, id |-> id, body |-> body, call |-> call]

UserMessage(turn, id) == Message("user", id, <<turn>>, NoCall)

-----------------------------------------------------------------------------
(* Streamed segments, tool cards and pending questions.                    *)

EmptySegments == [active |-> 0, next |-> 1, segments |-> <<>>]

EmptyStream ==
    [assistant |-> EmptySegments, thinking |-> EmptySegments,
     tools |-> <<>>, questions |-> <<>>, items |-> <<>>]

Break(table) == [table EXCEPT !.active = 0]

SegmentIds(table) == {s.id : s \in ToSet(table.segments)}

ToolIds(tools) == {t.id : t \in ToSet(tools)}

Longer(segment, id, text) ==
    IF segment.id = id THEN [segment EXCEPT !.text = @ \o text] ELSE segment

(* The text that a table's segments hold, in their order.                  *)
TextOf(segments) == FoldLeft(LAMBDA acc, s : acc \o s.text, <<>>, segments)

AppendSegment(table, text) ==
    IF table.active # 0
    THEN [table EXCEPT !.segments = [i \in DOMAIN @ |-> Longer(@[i], table.active, text)]]
    ELSE [active |-> table.next, next |-> table.next + 1,
          segments |-> Append(table.segments, [id |-> table.next, text |-> text])]

UpsertTool(tools, tool) ==
    IF tool.id \in ToolIds(tools)
    THEN [i \in DOMAIN tools |-> IF tools[i].id = tool.id THEN tool ELSE tools[i]]
    ELSE Append(tools, tool)

AddItem_Again(items, key) == Append(items, key)

AddItem(items, key) == IF key \in ToSet(items) THEN items ELSE Append(items, key)

(* What is left of a sequence without the members of T.                    *)
Without(s, T) == FoldLeft(LAMBDA kept, x : IF x \in T THEN kept ELSE Append(kept, x), <<>>, s)

ItemsOf(items, kind) == {key \in ToSet(items) : key[1] = kind}

DropItems(items, kind) == Without(items, ItemsOf(items, kind))

-----------------------------------------------------------------------------
(* Runtime actions and the reducer that applies one to a chat: the stream  *)
(* tables together with the committed messages.                            *)

EmptyChat == [committed |-> <<>>, stream |-> EmptyStream]

AppendAssistantText(stream, text) ==
    LET table == AppendSegment(stream.assistant, text)
    IN  [stream EXCEPT !.assistant = table, !.thinking = Break(@),
                       !.items = AddItem(@, <<"assistant", table.active>>)]

AppendThinkingText(stream, text) ==
    LET table == AppendSegment(stream.thinking, text)
    IN  [stream EXCEPT !.thinking = table,
                       !.items = AddItem(@, <<"thinking", table.active>>)]

UpsertStreamingTool(stream, tool) ==
    [stream EXCEPT !.assistant = Break(@), !.thinking = Break(@),
                   !.tools = UpsertTool(@, tool), !.items = AddItem(@, <<"tool", tool.id>>)]

UpsertPendingQuestion(stream, question) ==
    [stream EXCEPT !.assistant = Break(@), !.thinking = Break(@),
                   !.questions = IF question \in ToSet(@) THEN @ ELSE Append(@, question),
                   !.items = AddItem(@, <<"question", question>>)]

RemovePendingQuestion(stream, question) ==
    [stream EXCEPT !.questions = Without(@, {question}),
                   !.items = Without(@, {<<"question", question>>})]

ClearThinkingText(stream) ==
    [stream EXCEPT !.thinking = EmptySegments, !.items = DropItems(@, "thinking")]

(* clearStreamingState: what was streamed goes, the questions stay.        *)
ClearStreamingState(stream) ==
    [EmptyStream EXCEPT !.questions = stream.questions,
                        !.items = Without(stream.items,
                                          ToSet(stream.items) \ ItemsOf(stream.items, "question"))]

(* Where the final text of a turn differs from the streamed one.           *)
FinalSegmentText(segments, i, text) ==
    LET merged == TextOf(segments)
    IN  IF text # merged /\ text # <<>> /\ Len(segments) = 1 THEN text
        ELSE IF text # merged /\ IsPrefix(merged, text) /\ i = Len(segments)
        THEN segments[i].text \o SubSeq(text, Len(merged) + 1, Len(text))
        ELSE segments[i].text

(* The messages the stream's items become, in the items' order.            *)
StreamMessages(stream, text) ==
    LET Segment(table, kind, id) ==
          LET i == CHOOSE k \in DOMAIN table.segments : table.segments[k].id = id
              body == IF kind = "assistant" THEN FinalSegmentText(table.segments, i, text)
                      ELSE table.segments[i].text
          IN  Message(kind, <<kind, id>>, body, NoCall)
        Card(id) == LET tool == CHOOSE t \in ToSet(stream.tools) : t.id = id
                    IN  Message("tool", id, <<>>, tool.call)
        Of(key) == CASE key[1] = "assistant" -> Segment(stream.assistant, "assistant", key[2])
                     [] key[1] = "thinking" -> Segment(stream.thinking, "thinking", key[2])
                     [] key[1] = "tool" -> Card(key[2])
        shown == SelectSeq(stream.items, LAMBDA key : key[1] # "question")
        rest == SelectSeq([i \in DOMAIN stream.thinking.segments |->
                             <<"thinking", stream.thinking.segments[i].id>>]
                          \o [i \in DOMAIN stream.tools |-> <<"tool", stream.tools[i].id>>]
                          \o [i \in DOMAIN stream.assistant.segments |->
                             <<"assistant", stream.assistant.segments[i].id>>],
                          LAMBDA key : key \notin ToSet(shown))
        keys == shown \o rest
    IN  [i \in DOMAIN keys |-> Of(keys[i])]

FinalizeStreamingTurn(chat, text) ==
    LET messages == StreamMessages(chat.stream, text)
        last == IF text = <<>> \/ chat.stream.assistant.segments # <<>> THEN <<>>
                ELSE <<Message("assistant", <<"assistant-message">>, text, NoCall)>>
    IN  [committed |-> chat.committed \o messages \o last,
         stream |-> [EmptyStream EXCEPT !.questions = chat.stream.questions]]

ApplyRuntimeAction(chat, action) ==
    CASE action.type = "text" -> [chat EXCEPT !.stream = AppendAssistantText(@, action.text)]
      [] action.type = "thinking" -> [chat EXCEPT !.stream = AppendThinkingText(@, action.text)]
      [] action.type = "boundary" -> [chat EXCEPT !.stream.thinking = Break(@)]
      [] action.type = "clear_thinking" -> [chat EXCEPT !.stream = ClearThinkingText(@)]
      [] action.type = "tool" -> [chat EXCEPT !.stream = UpsertStreamingTool(@, action.tool)]
      [] action.type = "question" -> [chat EXCEPT !.stream = UpsertPendingQuestion(@, action.question)]
      [] action.type = "finalize" -> FinalizeStreamingTurn(chat, action.text)

ApplyRuntimeActions(chat, actions) == FoldLeft(ApplyRuntimeAction, chat, actions)

-----------------------------------------------------------------------------
(* The action buffer: at most one text action waits for the flush.         *)

IsBufferedTextAction(action) == action.type \in {"text", "thinking"}

Flushed(out) == [chat |-> ApplyRuntimeActions(out.chat, out.pending), pending |-> <<>>]

EnqueueAction_Late(out, action) ==
    IF ~IsBufferedTextAction(action) THEN [out EXCEPT !.chat = ApplyRuntimeAction(@, action)]
    ELSE IF out.pending # <<>> /\ out.pending[1].type = action.type
    THEN [out EXCEPT !.pending[1].text = @ \o action.text]
    ELSE [Flushed(out) EXCEPT !.pending = <<action>>]

(* The action after a flush.                                               *)
Started(flushed, action) ==
    IF IsBufferedTextAction(action) THEN [flushed EXCEPT !.pending = <<action>>]
    ELSE [flushed EXCEPT !.chat = ApplyRuntimeAction(@, action)]

EnqueueAction(out, action) ==
    IF out.pending # <<>> /\ out.pending[1].type = action.type
    THEN [out EXCEPT !.pending[1].text = @ \o action.text]
    ELSE Started(Flushed(out), action)

Enqueue(out, actions) == FoldLeft(EnqueueAction, out, actions)

-----------------------------------------------------------------------------
(* The runtime of one stream and the projection of its events.             *)

NoFunction == <<>>

Put(f, x, y) == [z \in DOMAIN f \cup {x} |-> IF z = x THEN y ELSE f[z]]

(* trace: the run that streams; buffer: visible text; raw: text received; messageIds: call -> card;     *)
(* previewIds, previewCalls: index -> card, call of the calls that arrive; *)
(* queue: cards of announced calls whose id the stream has not told.       *)
ChatRuntime(trace) ==
    [trace |-> trace, buffer |-> <<>>, raw |-> <<>>, nextPreview |-> 1, queue |-> <<>>,
     messageIds |-> NoFunction, previewIds |-> NoFunction, previewCalls |-> NoFunction]

OverlapLength(left, right) ==
    LET fits == {n \in 0 .. Len(right) : n <= Len(left) /\ IsSuffix(SubSeq(right, 1, n), left)}
    IN  Max(fits)

(* A piece has at least MIN_OVERLAP_DELTA_TRIM_LENGTH characters, or, when *)
(* its number is even, at least half as many.                              *)
IsShort(piece) == piece % 2 = 0

(* The first n pieces of the text are too short an overlap to be trimmed.  *)
BelowMinimum(text, n) == n = 0 \/ (n = 1 /\ IsShort(text[1]))

NormalizeTextDelta_NoMinimum(raw, text) ==
    IF IsPrefix(raw, text) THEN SubSeq(text, Len(raw) + 1, Len(text))
    ELSE SubSeq(text, OverlapLength(raw, text) + 1, Len(text))

(* normalizeAssistantTextDelta: text that begins with all that was received *)
(* is cut whatever its length, an overlap only from the minimum on.        *)
NormalizeTextDelta(raw, text) ==
    LET overlap == OverlapLength(raw, text)
    IN  IF IsPrefix(raw, text) THEN SubSeq(text, Len(raw) + 1, Len(text))
        ELSE IF BelowMinimum(text, overlap) THEN text
        ELSE SubSeq(text, overlap + 1, Len(text))

CallCard(call) == <<"call", call>>
PreviewCard(runtime, index) == <<"preview", runtime.trace, runtime.nextPreview, index>>

Tool(runtime, id, call, status) == [id |-> id, call |-> call, status |-> status]

(* resolvePreviewToolMessageID: the card of the call at an index of the    *)
(* message that streams, made on its first event.                          *)
ResolvePreview(runtime, index, call) ==
    LET known == index \in DOMAIN runtime.previewIds
        id == IF known THEN runtime.previewIds[index]
              ELSE IF call = NoCall THEN PreviewCard(runtime, index)
              ELSE IF call \in DOMAIN runtime.messageIds THEN runtime.messageIds[call]
              ELSE CallCard(call)
        named == [runtime EXCEPT
                    !.previewIds = Put(@, index, id),
                    !.nextPreview = IF ~known /\ call = NoCall THEN @ + 1 ELSE @]
    IN  [id |-> id,
         runtime |-> IF call = NoCall THEN named
                     ELSE [named EXCEPT !.messageIds = Put(@, call, id),
                                        !.previewCalls = Put(@, index, call)]]

ResolveCall_NoQueue(runtime, call) ==
    LET id == IF call \in DOMAIN runtime.messageIds THEN runtime.messageIds[call] ELSE CallCard(call)
    IN  [id |-> id,
         runtime |-> [runtime EXCEPT !.previewIds = NoFunction, !.previewCalls = NoFunction,
                                     !.messageIds = Put(@, call, id)]]

ResolveCall_Kept(runtime, call) ==
    LET queued == call \notin DOMAIN runtime.messageIds /\ runtime.queue # <<>>
        id == IF call \in DOMAIN runtime.messageIds THEN runtime.messageIds[call]
              ELSE IF queued THEN Head(runtime.queue) ELSE CallCard(call)
    IN  [id |-> id,
         runtime |-> [runtime EXCEPT !.messageIds = Put(@, call, id),
                                     !.queue = IF queued THEN Tail(@) ELSE @]]

(* resolveToolMessageID, after clearStructuredPreviewLookups.              *)
ResolveCall(runtime, call) ==
    LET cleared == [runtime EXCEPT !.previewIds = NoFunction, !.previewCalls = NoFunction]
        queued == call \notin DOMAIN runtime.messageIds /\ runtime.queue # <<>>
        id == IF call \in DOMAIN runtime.messageIds THEN runtime.messageIds[call]
              ELSE IF queued THEN Head(runtime.queue) ELSE CallCard(call)
    IN  [id |-> id,
         runtime |-> [cleared EXCEPT !.messageIds = Put(@, call, id),
                                     !.queue = IF queued THEN Tail(@) ELSE @]]

(* resolvePreviewToolCallID                                                *)
CallOfCard(runtime, id) ==
    IF \E c \in DOMAIN runtime.messageIds : runtime.messageIds[c] = id
    THEN CHOOSE c \in DOMAIN runtime.messageIds : runtime.messageIds[c] = id
    ELSE NoCall

Projected(runtime, actions) == [runtime |-> runtime, actions |-> actions]

ProjectTextDelta(runtime, text) ==
    LET delta == NormalizeTextDelta(runtime.raw, text)
    IN  IF delta = <<>> THEN Projected(runtime, <<>>)
        ELSE Projected([runtime EXCEPT !.raw = @ \o delta, !.buffer = @ \o delta],
                       <<[type |-> "text", text |-> delta]>>)

Previewed(runtime, event, found) ==
    LET card == Tool(runtime, found.id, CallOfCard(found.runtime, found.id), "pending")
        ended == event.type = "call_end" /\ event.index \notin DOMAIN found.runtime.previewCalls
                 /\ found.id \notin ToSet(found.runtime.queue)
        upsert == <<[type |-> "tool", tool |-> card]>>
    IN  Projected([found.runtime EXCEPT !.queue = IF ended THEN Append(@, found.id) ELSE @],
                  IF event.type = "call_start" THEN <<[type |-> "boundary"]>> \o upsert ELSE upsert)

ProjectToolPreview(runtime, event) ==
    Previewed(runtime, event, ResolvePreview(runtime, event.index, event.call))

ProjectToolRun(runtime, event) ==
    LET found == ResolveCall(runtime, event.call)
        status == IF event.type = "tool_started" THEN "running" ELSE "success"
    IN  Projected(found.runtime,
                  <<[type |-> "boundary"],
                    [type |-> "tool", tool |-> Tool(runtime, found.id, event.call, status)]>>)

ProjectMessage(runtime, text) ==
    Projected([runtime EXCEPT !.buffer = <<>>, !.raw = <<>>],
              <<[type |-> "finalize", text |-> IF text # <<>> THEN text ELSE runtime.buffer]>>)

ProjectAgentEvent(runtime, event) ==
    CASE event.type = "text" -> ProjectTextDelta(runtime, event.text)
      [] event.type = "thinking" ->
           Projected(runtime, <<[type |-> "thinking", text |-> event.text]>>)
      [] event.type \in {"call_start", "call_end"} -> ProjectToolPreview(runtime, event)
      [] event.type \in {"tool_started", "tool_finished"} -> ProjectToolRun(runtime, event)
      [] event.type = "awaiting_human" ->
           Projected(runtime, <<[type |-> "boundary"],
                                [type |-> "question", question |-> event.question]>>)
      [] event.type = "message" -> ProjectMessage(runtime, event.text)
      [] event.type = "done" -> Projected(runtime, <<[type |-> "clear_thinking"]>>)

-----------------------------------------------------------------------------
(* Which messages stand for the same thing.                                *)

IsQuestion(message) == message.kind \in {"question", "pending_question"}

MessagesEquivalent(left, right) ==
    \/ left.id = right.id
    \/ IsQuestion(left) /\ IsQuestion(right) /\ left.body = right.body
    \/ /\ left.kind = right.kind /\ ~IsQuestion(left)
       /\ IF left.kind = "tool" THEN left.call # NoCall /\ left.call = right.call
          ELSE left.body = right.body

ContainsText(text, part) ==
    \E i \in 0 .. Len(text) - Len(part) : SubSeq(text, i + 1, i + Len(part)) = part

(* committedMessageCoversDraftMessage                                      *)
Covers(committed, draft) ==
    \/ MessagesEquivalent(committed, draft)
    \/ /\ committed.kind = draft.kind /\ committed.kind \in {"assistant", "thinking"}
       /\ draft.body # <<>> /\ ContainsText(committed.body, draft.body)

-----------------------------------------------------------------------------
(* A turn draft hydrates the stream, without the prefix of it that the     *)
(* committed messages show already.                                        *)

CoveredPrefix_None(draft, committed) == 0

(* The number of the draft's items, from the first, that are covered by    *)
(* one of the last messages committed.                                     *)
CoveredPrefix(draft, committed) ==
    LET Of(key) == CASE key[1] \in {"assistant", "thinking"} ->
                          LET s == CHOOSE x \in ToSet(draft[key[1]].segments) : x.id = key[2]
                          IN  Message(key[1], <<key[1], s.id>>, s.text, NoCall)
                     [] key[1] = "tool" ->
                          LET t == CHOOSE x \in ToSet(draft.tools) : x.id = key[2]
                          IN  Message("tool", t.id, <<>>, t.call)
                     [] key[1] = "question" ->
                          Message("pending_question", key, <<key[2]>>, NoCall)
        size == IF 2 * Len(draft.items) > 8 THEN 2 * Len(draft.items) ELSE 8
        recent == SubSeq(committed, IF Len(committed) > size THEN Len(committed) - size + 1 ELSE 1,
                         Len(committed))
        covered == {n \in 0 .. Len(draft.items) : \A i \in 1 .. n :
                      \E c \in ToSet(recent) : Covers(c, Of(draft.items[i]))}
    IN  Max(covered)

HydratedSegments(segments, items, kind) ==
    LET ids == {s.id : s \in ToSet(segments)}
        active == items # <<>> /\ Last(items)[1] = kind /\ Last(items)[2] \in ids
    IN  [active |-> IF active THEN Last(items)[2] ELSE 0,
         next |-> 1 + Max({0} \cup ids),
         segments |-> segments]

HydrateTurnDraft(draft, committed) ==
    LET removed == ToSet(SubSeq(draft.items, 1, CoveredPrefix(draft, committed)))
        items == Without(draft.items, removed)
        Kept(kind) == Without(draft[kind].segments,
                              {s \in ToSet(draft[kind].segments) : <<kind, s.id>> \in removed})
    IN  [assistant |-> HydratedSegments(Kept("assistant"), items, "assistant"),
         thinking |-> HydratedSegments(Kept("thinking"), items, "thinking"),
         tools |-> Without(draft.tools, {t \in ToSet(draft.tools) : <<"tool", t.id>> \in removed}),
         questions |-> Without(draft.questions,
                               {q \in ToSet(draft.questions) : <<"question", q>> \in removed}),
         items |-> items]

(* createChatRuntimeStateFromDraft: a draft's card tells the runtime of    *)
(* its call, and of its index in the message when it has one.              *)
AddTool(runtime, tool) ==
    LET called == IF tool.call = NoCall THEN runtime
                  ELSE [runtime EXCEPT !.messageIds = Put(@, tool.call, tool.id)]
        placed == [called EXCEPT !.previewIds = Put(@, tool.id[4], tool.id)]
    IN  IF tool.id[1] # "preview" THEN called
        ELSE IF tool.call # NoCall
        THEN [placed EXCEPT !.previewCalls = Put(@, tool.id[4], tool.call)]
        ELSE [placed EXCEPT !.queue = Append(@, tool.id)]

RuntimeFromDraft(draft, trace) ==
    LET text == TextOf(draft.assistant.segments)
    IN  FoldLeft(AddTool, [ChatRuntime(trace) EXCEPT !.buffer = text, !.raw = text], draft.tools)

-----------------------------------------------------------------------------
(* A page of history is merged into the messages displayed.                *)

IsEphemeral(message) == message.id[1] # "history"

(* The lengths of the longest common subsequences of the messages'         *)
(* suffixes: one row per previous message, the row below added last.       *)
EquivalentMatrix(previous, latest) ==
    LET width == Len(latest) + 1
        Row(message, below) ==
          FoldRight(LAMBDA j, row :
                      <<IF MessagesEquivalent(message, latest[j]) THEN below[j + 1] + 1
                        ELSE Max({below[j], Head(row)})>> \o row,
                    [j \in 1 .. Len(latest) |-> j], <<0>>)
    IN  FoldRight(LAMBDA message, rows : <<Row(message, Head(rows))>> \o rows,
                  previous, <<[j \in 1 .. width |-> 0]>>)

EquivalentPairs(previous, latest) ==
    LET matrix == EquivalentMatrix(previous, latest)
        pairs[i \in 1 .. Len(previous) + 1, j \in 1 .. Len(latest) + 1] ==
          IF i > Len(previous) \/ j > Len(latest) THEN <<>>
          ELSE IF MessagesEquivalent(previous[i], latest[j]) THEN <<<<i, j>>>> \o pairs[i + 1, j + 1]
          ELSE IF matrix[i + 1][j] >= matrix[i][j + 1] THEN pairs[i + 1, j]
          ELSE pairs[i, j + 1]
    IN  pairs[1, 1]

Preserved_Whole(message, latest) ==
    \/ ~IsEphemeral(message)
    \/ message.kind = "user"
    \/ /\ message.kind \in {"assistant", "tool"}
       /\ ~ \E l \in ToSet(latest) : MessagesEquivalent(l, message)

(* shouldPreserveUnmatchedPreviousMessage                                  *)
Preserved(message, latest) ==
    \/ ~IsEphemeral(message)
    \/ message.kind = "user"
    \/ /\ message.kind \in {"assistant", "tool"}
       /\ ~ \E l \in ToSet(latest) : Covers(l, message)

MergeLatestCommitted(previous, latest) ==
    LET Kept(from, to) == SelectSeq(SubSeq(previous, from, to), LAMBDA m : Preserved(m, latest))
        Step(acc, pair) ==
          [out |-> acc.out \o Kept(acc.i, pair[1] - 1) \o SubSeq(latest, acc.j, pair[2]),
           i |-> pair[1] + 1, j |-> pair[2] + 1]
        merged == FoldLeft(Step, [out |-> <<>>, i |-> 1, j |-> 1], EquivalentPairs(previous, latest))
    IN  IF previous = <<>> THEN latest
        ELSE merged.out \o Kept(merged.i, Len(previous)) \o SubSeq(latest, merged.j, Len(latest))
=============================================================================
