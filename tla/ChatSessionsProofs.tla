------------------------- MODULE ChatSessionsProofs -------------------------
(***************************************************************************)
(* RunsAgree, for every number of sessions, turns and clicks; and what the *)
(* page shows to a user who waits: ChatsApart, RunShown, RunsEnd and       *)
(* SeenIsUnmarked.                                                         *)
(*                                                                         *)
(* RunsAgree alone is not inductive: MigrateSessionState moves the         *)
(* reference of a key even when the reducer has no chat for it, so a       *)
(* reference must imply a chat.  Sound says this of a page; each operator  *)
(* that the actions compose is shown to keep a page sound, and an action   *)
(* follows from the operators it applies.                                  *)
(*                                                                         *)
(* The other four speak of a run from the click that sends it to the       *)
(* answer that ends it, through the key it is filed under, so they need to *)
(* know who else may touch that key: an open stream, a recovery, a call    *)
(* that is on its way.  Calm says it, in parts, of any bridge, page, streams and      *)
(* calls; CInv says Calm of the state until the user is hasty, and is      *)
(* inductive together with IInv.  A lemma per operator shows that it keeps *)
(* a page calm, a lemma per action composes them.                          *)
(***************************************************************************)
EXTENDS ChatSessions, TLAPS, WellFoundedInduction, FiniteSetTheorems

Agrees(p) ==
  \A k \in Keys :
    /\ p.chats[k].loading <=> p.chats[k].activeRun # NoRun
    /\ p.chats[k].activeRun # NoRun => p.runs[k] = p.chats[k].activeRun
    /\ p.runs[k] # NoRun => p.chats[k].there

Sound(p) == p \in Page /\ Agrees(p)

IInv == TypeOK /\ Sound(page)

-----------------------------------------------------------------------------
(* A set of turns has a last one.                                          *)

LEMMA MaxIsMember ==
  ASSUME NEW N \in Nat, NEW T \in SUBSET (1..N), T # {}
  PROVE  Max(T) \in T
<1> DEFINE R == OpToRel(<, Nat)
           S == {n \in Nat : N - n \in T}
<1>1. S \subseteq Nat /\ S # {}
  <2>1. PICK t \in T : TRUE
    OBVIOUS
  <2>2. N - t \in S
    BY <2>1
  <2> QED BY <2>2
<1>2. PICK m \in S : \A n \in S : ~ (<<n, m>> \in R)
  BY <1>1, WFMin, NatLessThanWellFounded
<1>3. \A n \in S : ~ (n < m)
  BY <1>1, <1>2 DEF OpToRel
<1>4. N - m \in T /\ \A t \in T : N - m >= t
  <2>1. ASSUME NEW t \in T PROVE N - m >= t
    <3>1. t \in 1..N /\ m \in Nat
      BY <1>1
    <3>2. N - t \in S
      BY <3>1
    <3>3. ~ (N - t < m)
      BY <3>2, <1>3
    <3> HIDE DEF S
    <3> QED BY <3>1, <3>3
  <2> QED BY <2>1
<1> QED BY <1>4 DEF Max

LEMMA RunsAreTyped ==
  /\ NoRun \in Run
  /\ \A t \in Traces : /\ DirectRun(t) \in Run /\ DirectRun(t) # NoRun
                        /\ RecoveredRun(t) \in Run /\ RecoveredRun(t) # NoRun
BY BoundsAssumption DEF Run, NoRun, DirectRun, RecoveredRun, Traces

LEMMA NoChatIsTyped == NoChat \in Chat /\ NoChat.loading = FALSE /\ NoChat.activeRun = NoRun
BY RunsAreTyped DEF NoChat, InitialChat, Chat

LEMMA LastTurnRuns ==
  ASSUME TypeOK, NEW s, LastState(s) = "running"
  PROVE  LastTurn(s) \in Traces
<1>1. TurnsOf(s) # {} /\ TurnsOf(s) \subseteq 1..MaxTurns
  BY DEF LastState, TurnsOf, Traces
<1>2. Max(TurnsOf(s)) \in TurnsOf(s)
  BY <1>1, MaxIsMember, BoundsAssumption
<1> QED BY <1>1, <1>2 DEF LastTurn, Traces

LEMMA TurnsAreTurns ==
  ASSUME NEW s
  PROVE  TurnsOf(s) \subseteq Traces
BY DEF TurnsOf

-----------------------------------------------------------------------------
(* Most operators replace the chat, the run and the stop of one key.       *)
Put(p, k, c, run, stop) ==
  [p EXCEPT !.chats = [p.chats EXCEPT ![k] = c], !.runs = [p.runs EXCEPT ![k] = run],
            !.stops = [p.stops EXCEPT ![k] = stop]]

(* The page q is p but for what is filed under k.                          *)
Elsewhere(p, q, k) ==
  /\ q.view = p.view /\ q.background \subseteq p.background
  /\ \A j \in Keys : j # k => q.chats[j] = p.chats[j] /\ q.runs[j] = p.runs[j] /\ q.stops[j] = p.stops[j]
  /\ \A s \in Sessions : s # k => q.recovering[s] = p.recovering[s]

(* And under k it has this run, this stop and a chat that shows these turns. *)
Becomes(p, q, k, run, stop, turns) ==
  /\ Elsewhere(p, q, k) /\ q.background = p.background /\ q.recovering = p.recovering
  /\ q.runs[k] = run /\ q.stops[k] = stop /\ q.chats[k].turns = turns
  /\ p.chats[k].activeRun = p.runs[k] => q.chats[k].activeRun = run

LEMMA BecomesTwice ==
  ASSUME NEW p, NEW q, NEW r, NEW k, NEW run, NEW stop, NEW turns, NEW run2, NEW stop2, NEW turns2,
         Becomes(p, q, k, run, stop, turns), Becomes(q, r, k, run2, stop2, turns2)
  PROVE  Becomes(p, r, k, run2, stop2, turns2)
BY DEF Becomes, Elsewhere

LEMMA PutBecomes ==
  ASSUME NEW p, p \in Page, NEW k \in Keys, NEW c, NEW run, NEW stop,
         p.chats[k].activeRun = p.runs[k] => c.activeRun = run
  PROVE  Becomes(p, Put(p, k, c, run, stop), k, run, stop, c.turns)
<1> DEFINE q == Put(p, k, c, run, stop)
<1>1. /\ q.view = p.view /\ q.background = p.background /\ q.recovering = p.recovering
      /\ q.chats = [p.chats EXCEPT ![k] = c] /\ q.runs = [p.runs EXCEPT ![k] = run]
      /\ q.stops = [p.stops EXCEPT ![k] = stop]
  BY DEF Put, Page
<1>2. p.chats \in [Keys -> Chat] /\ p.runs \in [Keys -> Run] /\ p.stops \in [Keys -> BOOLEAN]
  BY DEF Page
<1> HIDE DEF q
<1>3. Becomes(p, q, k, run, stop, c.turns)
  BY <1>1, <1>2 DEF Becomes, Elsewhere
<1> QED BY <1>3 DEF q

LEMMA PutIsSound ==
  ASSUME NEW p, Sound(p), NEW k \in Keys, NEW c \in Chat, NEW run \in Run, NEW stop \in BOOLEAN,
         c.loading <=> c.activeRun # NoRun, c.activeRun # NoRun => run = c.activeRun,
         run # NoRun => c.there
  PROVE  Sound(Put(p, k, c, run, stop))
<1> DEFINE q == Put(p, k, c, run, stop)
<1>1. q \in Page
  BY DEF Sound, Page, Put
<1>2. /\ q.runs = [p.runs EXCEPT ![k] = run] /\ q.chats = [p.chats EXCEPT ![k] = c]
      /\ p.chats \in [Keys -> Chat] /\ p.runs \in [Keys -> Run]
  BY DEF Sound, Page, Put
<1> HIDE DEF q
<1>3. Agrees(q)
  BY <1>2 DEF Sound, Agrees
<1> QED BY <1>1, <1>3 DEF Sound, q

LEMMA ChatOf ==
  ASSUME NEW p, Sound(p), NEW k \in Keys
  PROVE  /\ p.chats[k] \in Chat /\ p.runs[k] \in Run /\ p.stops[k] \in BOOLEAN
         /\ p.chats[k].loading <=> p.chats[k].activeRun # NoRun
         /\ p.chats[k].activeRun # NoRun => p.runs[k] = p.chats[k].activeRun
         /\ p.runs[k] # NoRun => p.chats[k].there
<1>1. p.chats \in [Keys -> Chat] /\ p.runs \in [Keys -> Run] /\ p.stops \in [Keys -> BOOLEAN]
  BY DEF Sound, Page
<1> QED BY <1>1 DEF Sound, Agrees

LEMMA SetHistoryLoadingIsSound ==
  ASSUME NEW p, Sound(p), NEW k \in Keys, NEW value \in BOOLEAN
  PROVE  /\ Sound(SetHistoryLoading(p, k, value))
         /\ Becomes(p, SetHistoryLoading(p, k, value), k, p.runs[k], p.stops[k], p.chats[k].turns)
<1>1. PICK old \in Chat : old = p.chats[k]
  BY ChatOf
<1> DEFINE c == [old EXCEPT !.there = TRUE, !.historyLoading = value]
<1>2. c \in Chat /\ c.turns = old.turns /\ c.there /\ c.loading = old.loading /\ c.activeRun = old.activeRun
  BY DEF Chat
<1>3. SetHistoryLoading(p, k, value) = Put(p, k, c, p.runs[k], p.stops[k])
  BY <1>1 DEF SetHistoryLoading, Put, Sound, Page
<1> HIDE DEF c
<1> QED BY <1>1, <1>2, <1>3, PutIsSound, PutBecomes, ChatOf DEF Sound

LEMMA SetStopPendingIsSound ==
  ASSUME NEW p, Sound(p), NEW k \in Keys, NEW value \in BOOLEAN
  PROVE  /\ Sound(SetStopPending(p, k, value))
         /\ Becomes(p, SetStopPending(p, k, value), k, p.runs[k], value, p.chats[k].turns)
<1>1. PICK old \in Chat : old = p.chats[k]
  BY ChatOf
<1> DEFINE c == [old EXCEPT !.there = TRUE]
<1>2. c \in Chat /\ c.turns = old.turns /\ c.there /\ c.loading = old.loading /\ c.activeRun = old.activeRun
  BY DEF Chat
<1>3. SetStopPending(p, k, value) = Put(p, k, c, p.runs[k], value)
  BY <1>1 DEF SetStopPending, Put, Sound, Page
<1> HIDE DEF c
<1> QED BY <1>1, <1>2, <1>3, PutIsSound, PutBecomes, ChatOf DEF Sound

LEMMA ClearMessagesIsSound ==
  ASSUME NEW p, Sound(p), NEW k \in Keys
  PROVE  /\ Sound(ClearMessages(p, k))
         /\ Becomes(p, ClearMessages(p, k), k, p.runs[k], p.stops[k], {})
<1>1. PICK old \in Chat : old = p.chats[k]
  BY ChatOf
<1> DEFINE c == [old EXCEPT !.there = TRUE, !.turns = {}, !.asked = FALSE, !.streaming = FALSE]
<1>2. c \in Chat /\ c.turns = {} /\ c.there /\ c.loading = old.loading /\ c.activeRun = old.activeRun
  BY DEF Chat
<1>3. ClearMessages(p, k) = Put(p, k, c, p.runs[k], p.stops[k])
  BY <1>1, ZenonT(60) DEF ClearMessages, Put, Sound, Page
<1> HIDE DEF c
<1> QED BY <1>1, <1>2, <1>3, PutIsSound, PutBecomes, ChatOf DEF Sound, Becomes

LEMMA ShowsIsSound ==
  ASSUME NEW p, Sound(p), NEW k \in Keys, NEW t \in Traces
  PROVE  /\ Sound(Shows(p, k, t))
         /\ Becomes(p, Shows(p, k, t), k, p.runs[k], p.stops[k], p.chats[k].turns \cup {t})
<1>1. PICK old \in Chat : old = p.chats[k]
  BY ChatOf
<1> DEFINE c == [old EXCEPT !.there = TRUE, !.streaming = TRUE, !.turns = @ \cup {t}]
<1>2. c \in Chat /\ c.turns = old.turns \cup {t} /\ c.there /\ c.loading = old.loading /\ c.activeRun = old.activeRun
  BY DEF Chat
<1>3. Shows(p, k, t) = Put(p, k, c, p.runs[k], p.stops[k])
  BY <1>1 DEF Shows, Put, Sound, Page
<1> HIDE DEF c
<1> QED BY <1>1, <1>2, <1>3, PutIsSound, PutBecomes, ChatOf DEF Sound, Becomes

LEMMA HasDraftIsBoolean == \A s : HasDraft(s) \in BOOLEAN
BY DEF HasDraft

LEMMA HydrateDraftIsSound ==
  ASSUME NEW p, Sound(p), NEW k \in Keys
  PROVE  /\ Sound(HydrateTurnDraft(p, k))
         /\ Becomes(p, HydrateTurnDraft(p, k), k, p.runs[k], p.stops[k], p.chats[k].turns)
<1>1. PICK old \in Chat : old = p.chats[k]
  BY ChatOf
<1> DEFINE c == [old EXCEPT !.there = TRUE, !.asked = LastState(k) = "asked", !.streaming = HasDraft(k)]
<1>2. c \in Chat /\ c.turns = old.turns /\ c.there /\ c.loading = old.loading /\ c.activeRun = old.activeRun
  BY HasDraftIsBoolean DEF Chat
<1>3. HydrateTurnDraft(p, k) = Put(p, k, c, p.runs[k], p.stops[k])
  BY <1>1, ZenonT(60) DEF HydrateTurnDraft, Put, Sound, Page
<1> HIDE DEF c
<1> QED BY <1>1, <1>2, <1>3, PutIsSound, PutBecomes, ChatOf DEF Sound

(* Other parts of the page do not matter.                                  *)
LEMMA OtherPartsAreSound ==
  ASSUME NEW p, Sound(p), NEW k \in Keys, NEW B \in SUBSET Keys,
         NEW q, \/ q = [p EXCEPT !.view = k]
                \/ q = [p EXCEPT !.background = B]
                \/ q = [p EXCEPT !.view = k, !.background = B]
  PROVE  Sound(q)
BY DEF Sound, Agrees, Page

(* Two changes of one chat in a row.                                       *)
LEMMA PutTwice ==
  ASSUME NEW p, p \in Page, NEW k \in Keys, NEW c \in Chat, NEW d \in Chat,
         NEW run \in Run, NEW next \in Run, NEW stop \in BOOLEAN,
         NEW q, q = Put(p, k, c, run, stop)
  PROVE  /\ q \in Page /\ q.chats[k] = c /\ q.runs[k] = run /\ q.stops[k] = stop
         /\ Put(q, k, d, next, stop) = Put(p, k, d, next, stop)
BY ZenonT(60) DEF Page, Put

(* The chat with its run and its flag replaced: the setters of the two make *)
(* it in either order.                                                     *)
WithRun(chat, run, value) ==
  [chat EXCEPT !.there = TRUE, !.loading = value, !.activeRun = run]

LEMMA WithRunIsChat ==
  ASSUME NEW chat \in Chat, NEW run \in Run, NEW value \in BOOLEAN
  PROVE  /\ WithRun(chat, run, value) \in Chat
         /\ WithRun(chat, run, value).there
         /\ WithRun(chat, run, value).loading = value
         /\ WithRun(chat, run, value).activeRun = run
         /\ WithRun(chat, run, value).turns = chat.turns
BY DEF WithRun, Chat

LEMMA SetBoth ==
  ASSUME NEW p, Sound(p), NEW k \in Keys, NEW run \in Run, NEW value \in BOOLEAN
  PROVE  LET c == WithRun(p.chats[k], run, value)
         IN  /\ SetLoading(SetActiveRun(p, k, run), k, value) = Put(p, k, c, run, p.stops[k])
             /\ SetActiveRun(SetLoading(p, k, value), k, run) = Put(p, k, c, run, p.stops[k])
<1>1. PICK old \in Chat : old = p.chats[k]
  BY ChatOf
<1>2. PICK c \in Chat : c = [old EXCEPT !.there = TRUE, !.loading = value, !.activeRun = run]
  BY DEF Chat
<1>3. p \in Page /\ p.runs[k] \in Run /\ p.stops[k] \in BOOLEAN
  BY ChatOf DEF Sound
<1>4. SetLoading(SetActiveRun(p, k, run), k, value) = Put(p, k, c, run, p.stops[k])
  <2>1. PICK d : d = [old EXCEPT !.there = TRUE, !.activeRun = run]
    OBVIOUS
  <2>2. d \in Chat /\ c = [d EXCEPT !.there = TRUE, !.loading = value]
    BY <1>2, <2>1 DEF Chat
  <2>3. PICK q : q = Put(p, k, d, run, p.stops[k])
    OBVIOUS
  <2>4. SetActiveRun(p, k, run) = q
    BY <1>1, <1>3, <2>1, <2>3 DEF SetActiveRun, Put, Page
  <2>5. q \in Page /\ q.chats[k] = d /\ q.runs[k] = run /\ q.stops[k] = p.stops[k]
        /\ Put(q, k, c, run, p.stops[k]) = Put(p, k, c, run, p.stops[k])
    BY <1>3, <2>2, <2>3, PutTwice
  <2>6. SetLoading(q, k, value) = Put(q, k, c, q.runs[k], q.stops[k])
    <3>1. d \in Chat /\ d = q.chats[k] /\ q \in Page
      BY <2>2, <2>5
    <3> QED BY <2>2, <3>1 DEF SetLoading, Put, Page
  <2> QED BY <2>4, <2>5, <2>6
<1>5. SetActiveRun(SetLoading(p, k, value), k, run) = Put(p, k, c, run, p.stops[k])
  <2>1. PICK d : d = [old EXCEPT !.there = TRUE, !.loading = value]
    OBVIOUS
  <2>2. d \in Chat /\ c = [d EXCEPT !.there = TRUE, !.activeRun = run]
    BY <1>2, <2>1 DEF Chat
  <2>3. PICK q : q = Put(p, k, d, p.runs[k], p.stops[k])
    OBVIOUS
  <2>4. SetLoading(p, k, value) = q
    BY <1>1, <1>3, <2>1, <2>3 DEF SetLoading, Put, Page
  <2>5. q \in Page /\ q.chats[k] = d /\ q.stops[k] = p.stops[k]
        /\ Put(q, k, c, run, p.stops[k]) = Put(p, k, c, run, p.stops[k])
    BY <1>3, <2>2, <2>3, PutTwice
  <2>6. SetActiveRun(q, k, run) = Put(q, k, c, run, q.stops[k])
    <3>1. d \in Chat /\ d = q.chats[k] /\ q \in Page
      BY <2>2, <2>5
    <3> QED BY <2>2, <3>1 DEF SetActiveRun, Put, Page
  <2> QED BY <2>4, <2>5, <2>6
<1>6. c = WithRun(p.chats[k], run, value)
  BY <1>1, <1>2 DEF WithRun
<1> QED BY <1>4, <1>5, <1>6

(* So a chat that shows a run is busy, and one that shows none is not.     *)
LEMMA SetBothIsSound ==
  ASSUME NEW p, Sound(p), NEW k \in Keys, NEW run \in Run, NEW value \in BOOLEAN,
         value <=> run # NoRun,
         NEW q, \/ q = SetLoading(SetActiveRun(p, k, run), k, value)
                \/ q = SetActiveRun(SetLoading(p, k, value), k, run)
  PROVE  Sound(q) /\ Becomes(p, q, k, run, p.stops[k], p.chats[k].turns)
<1>1. PICK c : c = WithRun(p.chats[k], run, value)
  OBVIOUS
<1>2. c \in Chat /\ c.there /\ c.loading = value /\ c.activeRun = run /\ c.turns = p.chats[k].turns
  BY <1>1, ChatOf, WithRunIsChat
<1>3. Sound(Put(p, k, c, run, p.stops[k]))
  BY <1>2, PutIsSound, ChatOf
<1>4. Becomes(p, Put(p, k, c, run, p.stops[k]), k, run, p.stops[k], p.chats[k].turns)
  BY <1>2, PutBecomes DEF Sound
<1>5. q = Put(p, k, c, run, p.stops[k])
  BY <1>1, SetBoth
<1> QED BY <1>3, <1>4, <1>5

LEMMA ClearsRunIsSound ==
  ASSUME NEW p, Sound(p), NEW k \in Keys,
         NEW q, \/ q = SetLoading(SetActiveRun(p, k, NoRun), k, FALSE)
                \/ q = SetActiveRun(SetLoading(p, k, FALSE), k, NoRun)
  PROVE  Sound(q) /\ Becomes(p, q, k, NoRun, p.stops[k], p.chats[k].turns)
BY SetBothIsSound, RunsAreTyped

LEMMA EndRunIsSound ==
  ASSUME NEW p, Sound(p), NEW k \in Keys
  PROVE  Sound(EndRun(p, k)) /\ Becomes(p, EndRun(p, k), k, NoRun, FALSE, p.chats[k].turns)
<1> DEFINE idle == SetActiveRun(SetLoading(p, k, FALSE), k, NoRun)
<1>1. Sound(idle) /\ Becomes(p, idle, k, NoRun, p.stops[k], p.chats[k].turns)
  BY ClearsRunIsSound
<1>2. EndRun(p, k) = SetStopPending(idle, k, FALSE)
  BY DEF EndRun
<1> HIDE DEF idle
<1>3. idle.runs[k] = NoRun /\ idle.chats[k].turns = p.chats[k].turns
  BY <1>1 DEF Becomes
<1>4. /\ Sound(SetStopPending(idle, k, FALSE))
      /\ Becomes(idle, SetStopPending(idle, k, FALSE), k, NoRun, FALSE, p.chats[k].turns)
  BY <1>1, <1>3, SetStopPendingIsSound
<1> QED BY <1>1, <1>2, <1>4 DEF Becomes, Elsewhere

LEMMA ShowsRunIsSound ==
  ASSUME NEW p, Sound(p), NEW k \in Keys, NEW run \in Run, run # NoRun,
         NEW q, \/ q = SetLoading(SetActiveRun(p, k, run), k, TRUE)
                \/ q = SetActiveRun(SetLoading(p, k, TRUE), k, run)
  PROVE  Sound(q) /\ Becomes(p, q, k, run, p.stops[k], p.chats[k].turns)
BY SetBothIsSound

LEMMA TurnIsShown ==
  ASSUME NEW p, Sound(p), NEW k \in Keys, NEW t \in Traces,
         NEW q, q = [p EXCEPT !.chats[k].streaming = FALSE, !.chats[k].turns = @ \cup {t}]
  PROVE  /\ Sound(q)
         /\ Becomes(p, q, k, p.runs[k], p.stops[k], p.chats[k].turns \cup {t})
<1>1. PICK old \in Chat : old = p.chats[k]
  BY ChatOf
<1> DEFINE c == [old EXCEPT !.streaming = FALSE, !.turns = @ \cup {t}]
<1>2. c \in Chat /\ c.turns = old.turns \cup {t} /\ c.there = old.there /\ c.loading = old.loading /\ c.activeRun = old.activeRun
  BY DEF Chat
<1>3. q = Put(p, k, c, p.runs[k], p.stops[k])
  BY <1>1 DEF Put, Sound, Page
<1> HIDE DEF c
<1>4. Sound(Put(p, k, c, p.runs[k], p.stops[k]))
  BY <1>1, <1>2, PutIsSound, ChatOf
<1>5. Becomes(p, Put(p, k, c, p.runs[k], p.stops[k]), k, p.runs[k], p.stops[k], c.turns)
  BY <1>1, <1>2, PutBecomes DEF Sound
<1> QED BY <1>1, <1>2, <1>3, <1>4, <1>5

LEMMA AskedIsApart ==
  ASSUME NEW p, Sound(p), NEW k \in Keys, NEW asked \in BOOLEAN, NEW streaming \in BOOLEAN, NEW q,
         \/ q = [p EXCEPT !.chats[k].asked = asked]
         \/ q = [p EXCEPT !.chats[k].asked = asked, !.chats[k].streaming = streaming]
  PROVE  Sound(q) /\ Becomes(p, q, k, p.runs[k], p.stops[k], p.chats[k].turns)
<1>1. PICK old \in Chat : old = p.chats[k]
  BY ChatOf
<1> DEFINE c == [old EXCEPT !.asked = asked]
           d == [old EXCEPT !.asked = asked, !.streaming = streaming]
<1>2. c \in Chat /\ c.turns = old.turns /\ c.there = old.there /\ c.loading = old.loading /\ c.activeRun = old.activeRun
  BY DEF Chat
<1>3. d \in Chat /\ d.turns = old.turns /\ d.there = old.there /\ d.loading = old.loading /\ d.activeRun = old.activeRun
  BY DEF Chat
<1>4. ASSUME q = [p EXCEPT !.chats[k].asked = asked]
      PROVE  q = Put(p, k, c, p.runs[k], p.stops[k])
  BY <1>1, <1>4, ZenonT(60) DEF Put, Sound, Page
<1>5. ASSUME q = [p EXCEPT !.chats[k].asked = asked, !.chats[k].streaming = streaming]
      PROVE  q = Put(p, k, d, p.runs[k], p.stops[k])
  BY <1>1, <1>5 DEF Put, Sound, Page
<1> HIDE DEF c, d
<1>6. \A e \in {c, d} : /\ Sound(Put(p, k, e, p.runs[k], p.stops[k]))
                       /\ Becomes(p, Put(p, k, e, p.runs[k], p.stops[k]), k, p.runs[k], p.stops[k], old.turns)
  BY <1>1, <1>2, <1>3, PutIsSound, PutBecomes, ChatOf DEF Sound
<1> QED BY <1>1, <1>4, <1>5, <1>6

LEMMA BeginRunIsSound ==
  ASSUME NEW p, Sound(p), NEW k \in Keys, NEW t \in Traces
  PROVE  /\ Sound(BeginRun(p, k, t))
         /\ Becomes(p, BeginRun(p, k, t), k, DirectRun(t), FALSE, p.chats[k].turns \cup {t})
<1> DEFINE clear == SetStopPending(p, k, FALSE)
           begun == SetLoading(SetActiveRun(clear, k, DirectRun(t)), k, TRUE)
           shown == [begun EXCEPT !.chats[k].streaming = FALSE, !.chats[k].turns = @ \cup {t}]
<1>1. Sound(clear) /\ Becomes(p, clear, k, p.runs[k], FALSE, p.chats[k].turns)
  BY SetStopPendingIsSound
<1> HIDE DEF clear
<1>2. clear.stops[k] = FALSE /\ clear.chats[k].turns = p.chats[k].turns
  BY <1>1 DEF Becomes
<1>3. Sound(begun) /\ Becomes(clear, begun, k, DirectRun(t), FALSE, p.chats[k].turns)
  BY <1>1, <1>2, ShowsRunIsSound, RunsAreTyped
<1> HIDE DEF begun
<1>4. begun.runs[k] = DirectRun(t) /\ begun.stops[k] = FALSE /\ begun.chats[k].turns = p.chats[k].turns
  BY <1>3 DEF Becomes
<1>5. Sound(shown) /\ Becomes(begun, shown, k, DirectRun(t), FALSE, p.chats[k].turns \cup {t})
  <2>1. /\ Sound(shown)
        /\ Becomes(begun, shown, k, begun.runs[k], begun.stops[k], begun.chats[k].turns \cup {t})
    BY <1>3, TurnIsShown
  <2> QED BY <1>4, <2>1
<1> HIDE DEF shown
<1>6. Becomes(p, shown, k, DirectRun(t), FALSE, p.chats[k].turns \cup {t})
  BY <1>1, <1>3, <1>5 DEF Becomes, Elsewhere
<1>7. BeginRun(p, k, t) = shown
  BY DEF BeginRun, begun, clear, shown
<1> QED BY <1>5, <1>6, <1>7

LEMMA MigrateIsSound ==
  ASSUME NEW p, Sound(p), NEW from \in Keys, NEW to \in Keys
  PROVE  Sound(MigrateSessionState(p, from, to))
<1>1. CASE to = New \/ from = to
  BY <1>1 DEF MigrateSessionState
<1>2. CASE to # New /\ from # to
  <2> DEFINE m == MigrateSessionState(p, from, to)
  <2>1. /\ p.chats \in [Keys -> Chat] /\ p.runs \in [Keys -> Run]
        /\ p.stops \in [Keys -> BOOLEAN] /\ p \in Page
    BY DEF Sound, Page
  <2>2. m.runs = [k \in Keys |-> IF k = to /\ p.runs[from] # NoRun THEN p.runs[from]
                                  ELSE IF k = from THEN NoRun ELSE p.runs[k]]
    BY <1>2, <2>1 DEF MigrateSessionState, Page
  <2>3. m.chats = IF ~p.chats[from].there THEN p.chats
                  ELSE [k \in Keys |-> IF k = to THEN p.chats[from]
                                        ELSE IF k = from THEN NoChat ELSE p.chats[k]]
    BY <1>2, <2>1 DEF MigrateSessionState, Page
  <2>4. m \in Page
    BY <1>2, <2>1, RunsAreTyped, NoChatIsTyped DEF MigrateSessionState, Page
  <2> HIDE DEF m
  <2>5. Agrees(m)
    <3>1. CASE ~p.chats[from].there
      BY <1>2, <2>1, <2>2, <2>3, <3>1 DEF Sound, Agrees
    <3>2. CASE p.chats[from].there
      BY <1>2, <2>1, <2>2, <2>3, <3>2, NoChatIsTyped DEF Sound, Agrees
    <3> QED BY <3>1, <3>2
  <2> QED BY <2>4, <2>5 DEF Sound, m
<1> QED BY <1>1, <1>2

LEMMA FinishRunIsSound ==
  ASSUME TypeOK, NEW p, Sound(p), NEW t \in Traces
  PROVE  Sound(FinishRun(p, t)) /\ FinishRun(p, t).recovering = p.recovering
<1>1. streams[t].origin \in Keys /\ New \in Keys
  BY DEF TypeOK, Keys
<1>2. ResolveActiveRunSessionId(p, t, streams[t].origin) \in Keys
  BY <1>1 DEF ResolveActiveRunSessionId
<1> QED BY <1>2, EndRunIsSound DEF FinishRun, Becomes

LEMMA RecoveringIsApart ==
  ASSUME NEW p, Sound(p), NEW s,
         NEW value \in [trace: 0..MaxTurns, live: BOOLEAN, before: SUBSET Traces],
         NEW q, q = [p EXCEPT !.recovering[s] = value]
  PROVE  Sound(q)
BY DEF Sound, Agrees, Page

LEMMA StopRecoveredIsSound ==
  ASSUME NEW p, Sound(p), NEW s \in Keys
  PROVE  Sound(StopRecoveredRun(p, s))
<1>1. NotRecovering \in [trace: 0..MaxTurns, live: BOOLEAN, before: SUBSET Traces]
  BY BoundsAssumption DEF NotRecovering
<1> QED BY <1>1, RecoveringIsApart DEF StopRecoveredRun

LEMMA RecoverDraftIsSound ==
  ASSUME TypeOK, NEW p, Sound(p), NEW s \in Keys
  PROVE  Sound(RecoverTurnDraft(p, s))
<1> DEFINE idle == EndRun(HydrateTurnDraft(StopRecoveredRun(p, s), s), s)
           run == RecoveredRun(LastTurn(s))
           shown == SetActiveRun(SetLoading(idle, s, TRUE), s, run)
<1>1. Sound(idle)
  BY StopRecoveredIsSound, HydrateDraftIsSound, EndRunIsSound
<1>2. CASE LastState(s) # "running"
  BY <1>1, <1>2 DEF RecoverTurnDraft
<1>3. CASE LastState(s) = "running"
  <2>1. LastTurn(s) \in Traces
    BY <1>3, LastTurnRuns
  <2>2. run \in Run /\ run # NoRun /\ run.trace = LastTurn(s)
    BY <2>1, RunsAreTyped DEF RecoveredRun
  <2>3. Sound(shown)
    BY <1>1, <2>2, ShowsRunIsSound
  <2>4. RecoverTurnDraft(p, s) =
          [shown EXCEPT !.recovering[s] = [trace |-> LastTurn(s), live |-> FALSE, before |-> {}]]
    BY <1>3, <2>2 DEF RecoverTurnDraft
  <2>5. [trace |-> LastTurn(s), live |-> FALSE, before |-> {}]
          \in [trace: 0..MaxTurns, live: BOOLEAN, before: SUBSET Traces]
    BY <2>1, BoundsAssumption DEF Traces
  <2> HIDE DEF shown, run
  <2> QED BY <2>3, <2>4, <2>5, RecoveringIsApart
<1> QED BY <1>2, <1>3

LEMMA HydrateHistoryIsSound ==
  ASSUME TypeOK, NEW p, Sound(p), NEW s \in Keys
  PROVE  Sound(HydrateSessionHistory(p, s))
<1>1. \A q : q = [p EXCEPT !.chats[s].turns = TurnsOf(s)] => Sound(q)
  <2>1. PICK old \in Chat : old = p.chats[s]
    BY ChatOf
  <2> DEFINE c == [old EXCEPT !.turns = TurnsOf(s)]
  <2>2. c \in Chat /\ c.there = old.there /\ c.loading = old.loading /\ c.activeRun = old.activeRun
    BY TurnsAreTurns DEF Chat
  <2>3. ASSUME NEW q, q = [p EXCEPT !.chats[s].turns = TurnsOf(s)]
        PROVE  q = Put(p, s, c, p.runs[s], p.stops[s])
    BY <2>1, <2>3 DEF Put, Sound, Page
  <2> HIDE DEF c
  <2>4. Sound(Put(p, s, c, p.runs[s], p.stops[s]))
    BY <2>1, <2>2, PutIsSound, ChatOf
  <2> QED BY <2>3, <2>4
<1> QED BY <1>1, RecoverDraftIsSound DEF HydrateSessionHistory

LEMMA SyncedIsSound ==
  ASSUME NEW p, Sound(p), NEW s \in Keys, NEW ok
  PROVE  Sound(Synced(p, s, ok))
<1>1. \A q : q = [p EXCEPT !.chats[s].turns = @ \cup TurnsOf(s)] => Sound(q)
  <2>1. PICK old \in Chat : old = p.chats[s]
    BY ChatOf
  <2> DEFINE c == [old EXCEPT !.turns = @ \cup TurnsOf(s)]
  <2>2. c \in Chat /\ c.there = old.there /\ c.loading = old.loading /\ c.activeRun = old.activeRun
    BY TurnsAreTurns DEF Chat
  <2>3. ASSUME NEW q, q = [p EXCEPT !.chats[s].turns = @ \cup TurnsOf(s)]
        PROVE  q = Put(p, s, c, p.runs[s], p.stops[s])
    BY <2>1, <2>3 DEF Put, Sound, Page
  <2> HIDE DEF c
  <2>4. Sound(Put(p, s, c, p.runs[s], p.stops[s]))
    BY <2>1, <2>2, PutIsSound, ChatOf
  <2> QED BY <2>3, <2>4
<1>2. Sound(SyncRecentHistory(p, s))
  BY <1>1, HydrateDraftIsSound DEF SyncRecentHistory
<1> QED BY <1>2 DEF Synced

LEMMA ResolutionIsSound ==
  ASSUME TypeOK, NEW p, Sound(p), NEW t \in Traces
  PROVE  Sound(ApplySessionResolution(p, t))
<1>1. bridge.session[t] \in Keys /\ streams[t].key \in Keys
  BY DEF TypeOK
<1> DEFINE migrated == MigrateSessionState(p, streams[t].key, bridge.session[t])
<1>2. Sound(migrated)
  BY <1>1, MigrateIsSound
<1> HIDE DEF migrated
<1>3. \A q : q = [migrated EXCEPT !.view = bridge.session[t]] => Sound(q)
  BY <1>1, <1>2, OtherPartsAreSound
<1> QED BY <1>2, <1>3 DEF ApplySessionResolution, migrated

LEMMA MarkCompletedIsSound ==
  ASSUME TypeOK, NEW p, Sound(p), NEW t \in Traces, NEW terminal
  PROVE  Sound(MarkCompleted(p, t, terminal))
<1>1. p.background \cup {bridge.session[t]} \in SUBSET Keys
  BY DEF TypeOK, Sound, Page
<1>2. \A q : q = [p EXCEPT !.background = @ \cup {bridge.session[t]}] => Sound(q)
  BY <1>1 DEF Sound, Agrees, Page
<1> QED BY <1>2 DEF MarkCompleted

LEMMA AbortIsSound ==
  ASSUME TypeOK, NEW p, Sound(p), NEW run \in Run, NEW k \in Keys
  PROVE  Sound(Abort(p, run, k))
<1>1. run.direct => run.trace \in Traces
  BY DEF Run, NoRun
<1> QED BY <1>1, FinishRunIsSound, StopRecoveredIsSound DEF Abort, Aborts

LEMMA AbortedStreamsAreTyped ==
  ASSUME TypeOK, NEW run \in Run, NEW k
  PROVE  AbortedStreams(run, k) \in [Traces -> [state: {"none", "open", "closed", "lost"},
                                                key: Keys, origin: Keys, marks: BOOLEAN]]
<1>1. run.direct => run.trace \in Traces
  BY DEF Run, NoRun
<1>2. \A t : Closed(t) \in {"lost", "closed"}
  BY DEF Closed
<1> QED BY <1>1, <1>2, ZenonT(60) DEF TypeOK, AbortedStreams

LEMMA DropIsSound ==
  ASSUME TypeOK, NEW p, Sound(p), NEW s \in Keys
  PROVE  Sound(DropSessionState(p, s))
<1> DEFINE dropped == [p EXCEPT !.runs[s] = NoRun, !.stops[s] = FALSE, !.chats[s] = NoChat,
                                !.background = @ \ {s}]
           put == Put(p, s, NoChat, NoRun, FALSE)
<1>1. Sound(put)
  BY PutIsSound, NoChatIsTyped, RunsAreTyped
<1>2. dropped = [put EXCEPT !.background = p.background \ {s}]
  BY DEF Put, Sound, Page
<1>3. p.background \ {s} \in SUBSET Keys
  BY DEF Sound, Page
<1> HIDE DEF put, dropped
<1>4. Sound(dropped)
  BY <1>1, <1>2, <1>3, OtherPartsAreSound
<1>5. p.runs[s] \in Run
  BY ChatOf
<1> QED BY <1>4, <1>5, AbortIsSound DEF DropSessionState, dropped

-----------------------------------------------------------------------------
(* The actions.                                                            *)
LEMMA InitIsSound == Init => IInv
<1> SUFFICES ASSUME Init PROVE IInv
  OBVIOUS
<1>1. NotRecovering \in [trace: 0..MaxTurns, live: BOOLEAN, before: SUBSET Traces]
  BY BoundsAssumption DEF NotRecovering
<1>2. page \in Page
  BY <1>1, NoChatIsTyped, RunsAreTyped DEF Init, Page, Keys
<1>3. Agrees(page)
  BY NoChatIsTyped DEF Init, Agrees
<1>4. TypeOK
  BY <1>2, SessionsAssumption DEF Init, TypeOK, Keys, Traces
<1> QED BY <1>2, <1>3, <1>4 DEF IInv, Sound

(* What every action needs.                                                *)
LEMMA Facts ==
  ASSUME IInv
  PROVE  /\ TypeOK /\ Sound(page) /\ page.view \in Keys /\ New \in Keys /\ Sessions \subseteq Keys
         /\ bridge.session \in [Traces -> Keys]
         /\ \A op \in ops : op.key \in Keys /\ op.run \in Run
         /\ \A k \in Keys : page.runs[k] \in Run
BY DEF IInv, TypeOK, Sound, Page, Keys

(* A page that stays sound is all that is left to show when the other      *)
(* variables keep their types.                                             *)
BridgeType == [sessions: [Sessions -> {"free", "live", "gone"}], session: [Traces -> Keys],
               turn: [Traces -> {"none", "running", "asked", "answered", "done", "stopped", "refused"}]]
StreamsType == [Traces -> [state: {"none", "open", "closed", "lost"}, key: Keys, origin: Keys,
                           marks: BOOLEAN]]
OpsType == [kind: {"load", "recovered", "stop", "stopped", "sync"} \cup DeleteKinds, key: Keys, run: Run]

LEMMA Keeps ==
  ASSUME IInv, Sound(page)', bridge' \in BridgeType, streams' \in StreamsType, ops' \subseteq OpsType,
         hasty' \in BOOLEAN
  PROVE  IInv'
BY DEF IInv, TypeOK, Sound, BridgeType, StreamsType, OpsType

LEMMA Unchanged ==
  ASSUME IInv
  PROVE  /\ UNCHANGED bridge => bridge' \in BridgeType
         /\ UNCHANGED streams => streams' \in StreamsType
         /\ UNCHANGED ops => ops' \subseteq OpsType
         /\ UNCHANGED hasty => hasty' \in BOOLEAN
         /\ UNCHANGED page => Sound(page)'
         /\ bridge \in BridgeType /\ streams \in StreamsType /\ ops \subseteq OpsType
BY DEF IInv, TypeOK, Sound, Agrees, BridgeType, StreamsType, OpsType

LEMMA SendKeeps == ASSUME IInv, Send PROVE IInv'
<1> DEFINE t == NextTrace
           k == page.view
           s == IF k = New THEN CHOOSE fresh \in Fresh : TRUE ELSE k
<1>1. t \in Traces /\ k \in Keys /\ s \in Sessions
  BY Facts DEF Send, Fresh, Keys
<1>2. Sound(page)'
  BY <1>1, BeginRunIsSound, Facts DEF Send
<1>3. bridge' \in BridgeType
  <2>1. PICK state \in {"running", "refused"} : BridgeTakes(t, s, state)
    BY DEF Send, Accepted
  <2> QED BY <1>1, <2>1, Unchanged DEF BridgeTakes, BridgeType, Keys
<1>4. streams' \in StreamsType
  BY <1>1, Unchanged DEF Send, OpenStream, StreamsType
<1>5. hasty' \in BOOLEAN /\ UNCHANGED ops
  BY DEF Send
<1> QED BY <1>2, <1>3, <1>4, <1>5, Keeps, Unchanged

LEMMA AnswerKeeps == ASSUME IInv, Answer PROVE IInv'
<1> DEFINE t == NextTrace
           k == page.view
<1>1. t \in Traces /\ k \in Keys
  BY Facts DEF Answer
<1>2. Sound(page)'
  <2> DEFINE begun == BeginRun(page, k, t)
  <2>1. Sound(begun)
    BY <1>1, BeginRunIsSound, Facts
  <2>2. page' = [begun EXCEPT !.chats[k].asked = FALSE]
    BY DEF Answer
  <2> HIDE DEF begun
  <2> QED BY <1>1, <2>1, <2>2, AskedIsApart
<1>3. bridge' \in BridgeType
  BY <1>1, Unchanged DEF Answer, BridgeType
<1>4. streams' \in StreamsType
  BY <1>1, Unchanged DEF Answer, OpenStream, StreamsType
<1>5. hasty' \in BOOLEAN /\ UNCHANGED ops
  BY DEF Answer
<1> QED BY <1>2, <1>3, <1>4, <1>5, Keeps, Unchanged

LEMMA OtherTurnKeeps == ASSUME IInv, OtherTurn PROVE IInv'
<1>1. bridge' \in BridgeType
  <2>1. PICK s \in Sessions : BridgeTakes(NextTrace, s, "running")
    BY DEF OtherTurn
  <2> QED BY <2>1, Unchanged DEF BridgeTakes, BridgeType, Keys
<1>2. UNCHANGED <<page, streams, ops, hasty>>
  BY DEF OtherTurn
<1> QED BY <1>1, <1>2, Keeps, Unchanged

LEMMA TurnEndsKeeps == ASSUME IInv, NEW t, TurnEnds(t) PROVE IInv'
<1>1. bridge' \in BridgeType
  BY Unchanged DEF TurnEnds, BridgeType
<1>2. UNCHANGED <<page, streams, ops, hasty>>
  BY DEF TurnEnds
<1> QED BY <1>1, <1>2, Keeps, Unchanged

LEMMA StreamEventKeeps == ASSUME IInv, NEW t \in Traces, StreamEvent(t) PROVE IInv'
<1>1. bridge.session[t] \in Keys
  BY Facts
<1>2. Sound(page)'
  BY <1>1, Facts, ResolutionIsSound, ShowsIsSound DEF StreamEvent
<1>3. streams' \in StreamsType
  BY <1>1, Unchanged DEF StreamEvent, StreamsType
<1>4. UNCHANGED <<bridge, ops, hasty>>
  BY DEF StreamEvent
<1> QED BY <1>2, <1>3, <1>4, Keeps, Unchanged

LEMMA EndStreamKeeps == ASSUME IInv, NEW t \in Traces, EndStream(t) PROVE IInv'
<1> DEFINE s == bridge.session[t]
           terminal == IF bridge.turn[t] = "done" THEN "done" ELSE "awaiting_human"
           shown == Shows(ApplySessionResolution(page, t), s, t)
           last == [shown EXCEPT !.chats[s].asked = @ \/ terminal = "awaiting_human",
                                 !.chats[s].streaming = terminal = "awaiting_human"]
<1>1. s \in Keys
  BY Facts
<1>2. Sound(shown)
  BY <1>1, Facts, ResolutionIsSound, ShowsIsSound
<1>3. Sound(last)
  <2>1. (shown.chats[s].asked \/ terminal = "awaiting_human") \in BOOLEAN
    OBVIOUS
  <2>2. (terminal = "awaiting_human") \in BOOLEAN
    OBVIOUS
  <2>3. last = [shown EXCEPT !.chats[s].asked = (shown.chats[s].asked \/ terminal = "awaiting_human"),
                             !.chats[s].streaming = (terminal = "awaiting_human")]
    BY <1>1, <1>2 DEF Sound, Page
  <2> HIDE DEF shown, last, terminal
  <2> QED BY <1>1, <1>2, <2>1, <2>2, <2>3, AskedIsApart
<1>4. Sound(page)'
  <2>1. page' = FinishRun(MarkCompleted(last, t, terminal), t)
    BY DEF EndStream
  <2> HIDE DEF last, terminal
  <2> QED BY <1>3, <2>1, Facts, MarkCompletedIsSound, FinishRunIsSound
<1>5. streams' \in StreamsType
  BY <1>1, Unchanged DEF EndStream, StreamsType
<1>6. ops' \subseteq OpsType
  <2>1. Op("sync", s, DirectRun(t)) \in OpsType
    BY <1>1, RunsAreTyped DEF OpsType, Op
  <2>2. ops' = ops \cup {Op("sync", s, DirectRun(t))}
    BY DEF EndStream
  <2> QED BY <2>1, <2>2, Unchanged
<1>7. UNCHANGED <<bridge, hasty>>
  BY DEF EndStream
<1> QED BY <1>4, <1>5, <1>6, <1>7, Keeps, Unchanged

LEMMA FailStreamKeeps == ASSUME IInv, NEW t \in Traces, FailStream(t) PROVE IInv'
<1>1. Sound(page)'
  BY Facts, FinishRunIsSound DEF FailStream
<1>2. streams' \in StreamsType
  BY Unchanged DEF FailStream, Closed, StreamsType
<1>3. ops' \subseteq OpsType
  <2>1. streams[t].key \in Keys
    BY Unchanged DEF StreamsType
  <2> QED BY <2>1, Unchanged, RunsAreTyped DEF FailStream, OpsType, Op
<1>4. UNCHANGED <<bridge, hasty>>
  BY DEF FailStream
<1> QED BY <1>1, <1>2, <1>3, <1>4, Keeps, Unchanged

LEMMA StopKeeps == ASSUME IInv, Stop PROVE IInv'
<1>1. Sound(page)'
  BY Facts, SetStopPendingIsSound DEF Stop
<1>2. ops' \subseteq OpsType
  BY Facts, Unchanged DEF Stop, Op, OpsType
<1>3. UNCHANGED <<bridge, streams, hasty>>
  BY DEF Stop
<1> QED BY <1>1, <1>2, <1>3, Keeps, Unchanged

LEMMA StopReturnsKeeps == ASSUME IInv, NEW op \in ops, StopReturns(op) PROVE IInv'
<1>1. op.key \in Keys /\ op.run \in Run
  BY Facts
<1>2. PICK reply \in StopReplies(op) :
        LET target == reply.target
            migrated == MigrateSessionState(page, op.key, target)
            viewed == IF target = New THEN migrated ELSE [migrated EXCEPT !.view = target]
            aborted == Abort(viewed, op.run, op.key)
        IN  /\ bridge' = [bridge EXCEPT !.turn = [t \in Traces |-> IF t \in reply.stopped THEN "stopped" ELSE @[t]]]
            /\ page' = IF target = New THEN FinishStoppedRun(aborted, Op("stopped", New, op.run))
                       ELSE aborted
            /\ ops' = (ops \ {op}) \cup IF target = New THEN {} ELSE {Op("stopped", target, op.run)}
  BY DEF StopReturns
<1> DEFINE target == reply.target
           migrated == MigrateSessionState(page, op.key, target)
           viewed == IF target = New THEN migrated ELSE [migrated EXCEPT !.view = target]
           aborted == Abort(viewed, op.run, op.key)
<1>3. target \in Keys
  <2>1. CASE op.key # New
    BY <1>1, <1>2, <2>1 DEF StopReplies
  <2>2. CASE op.key = New
    BY <1>2, <2>2, Facts DEF StopReplies
  <2> QED BY <2>1, <2>2
<1>4. Sound(viewed)
  <2>1. Sound(migrated)
    BY <1>1, <1>3, Facts, MigrateIsSound
  <2> HIDE DEF migrated
  <2>2. \A q : q = [migrated EXCEPT !.view = target] => Sound(q)
    BY <1>3, <2>1, OtherPartsAreSound
  <2> QED BY <2>1, <2>2
<1>5. Sound(page)'
  <2>1. page' = IF target = New THEN FinishStoppedRun(aborted, Op("stopped", New, op.run)) ELSE aborted
    BY <1>2
  <2>2. Op("stopped", New, op.run).key = New
    BY DEF Op
  <2> HIDE DEF viewed
  <2>3. Sound(aborted)
    BY <1>1, <1>4, Facts, AbortIsSound
  <2> HIDE DEF aborted
  <2>4. Sound(FinishStoppedRun(aborted, Op("stopped", New, op.run)))
    BY <2>2, <2>3, Facts, EndRunIsSound DEF FinishStoppedRun
  <2> QED BY <2>1, <2>3, <2>4
<1>6. bridge' \in BridgeType
  BY <1>2, Unchanged DEF BridgeType
<1>7. streams' \in StreamsType
  BY <1>1, Facts, AbortedStreamsAreTyped DEF StopReturns, StreamsType
<1>8. ops' \subseteq OpsType
  BY <1>1, <1>2, <1>3, Unchanged DEF Op, OpsType
<1>9. UNCHANGED hasty
  BY DEF StopReturns
<1> QED BY <1>5, <1>6, <1>7, <1>8, <1>9, Keeps, Unchanged

(* The replies that change nothing but the page.                           *)
LEMMA PageRepliesKeep ==
  ASSUME IInv, NEW op \in ops, NEW ok \in BOOLEAN,
         StopFails(op) \/ StopSynced(op, ok) \/ SyncReturns(op, ok) \/ LoadReturns(op)
           \/ LoadFails(op) \/ RecoveredSynced(op, ok)
  PROVE  IInv'
<1>1. op.key \in Keys
  BY Facts
<1>2. ASSUME StopFails(op) PROVE Sound(page)'
  BY <1>1, <1>2, Facts, SetStopPendingIsSound DEF StopFails
<1>3. ASSUME StopSynced(op, ok) PROVE Sound(page)'
  BY <1>1, <1>3, Facts, SyncedIsSound, EndRunIsSound DEF StopSynced, FinishStoppedRun
<1>4. ASSUME SyncReturns(op, ok) PROVE Sound(page)'
  BY <1>1, <1>4, Facts, SyncedIsSound DEF SyncReturns
<1>5. ASSUME LoadReturns(op) PROVE Sound(page)'
  BY <1>1, <1>5, Facts, HydrateHistoryIsSound, SetHistoryLoadingIsSound DEF LoadReturns
<1>6. ASSUME LoadFails(op) PROVE Sound(page)'
  BY <1>1, <1>6, Facts, ClearMessagesIsSound, SetHistoryLoadingIsSound DEF LoadFails
<1>7. ASSUME RecoveredSynced(op, ok) PROVE Sound(page)'
  BY <1>1, <1>7, Facts, SyncedIsSound, EndRunIsSound DEF RecoveredSynced
<1>8. UNCHANGED <<bridge, streams, hasty>> /\ ops' \subseteq OpsType
  BY Unchanged DEF StopFails, StopSynced, SyncReturns, LoadReturns, LoadFails, RecoveredSynced
<1> QED BY <1>2, <1>3, <1>4, <1>5, <1>6, <1>7, <1>8, Keeps, Unchanged

LEMMA SelectKeeps == ASSUME IInv, NEW s \in Sessions, SelectSession(s) PROVE IInv'
<1> DEFINE seen == [page EXCEPT !.view = s, !.background = @ \ {s}]
<1>1. s \in Keys /\ page.background \ {s} \in SUBSET Keys
  BY Facts DEF Sound, Page
<1>2. Sound(seen)
  <2>1. seen = [page EXCEPT !.view = s, !.background = page.background \ {s}]
    OBVIOUS
  <2> HIDE DEF seen
  <2> QED BY <1>1, <2>1, Facts, OtherPartsAreSound
<1>3. Sound(page)'
  <2>1. page' \in {seen, SetHistoryLoading(StopRecoveredRun(seen, s), s, TRUE)}
    BY DEF SelectSession
  <2> HIDE DEF seen
  <2> QED BY <1>1, <1>2, <2>1, StopRecoveredIsSound, SetHistoryLoadingIsSound
<1>4. ops' \subseteq OpsType
  BY <1>1, Unchanged, RunsAreTyped DEF SelectSession, Op, OpsType
<1>5. hasty' \in BOOLEAN /\ UNCHANGED <<bridge, streams>>
  BY DEF SelectSession
<1> QED BY <1>3, <1>4, <1>5, Keeps, Unchanged

LEMMA SubscribeKeeps == ASSUME IInv, NEW s \in Sessions, Subscribe(s) PROVE IInv'
<1>1. Ended(s) \subseteq Traces
  BY TurnsAreTurns DEF Ended
<1>2. Sound(page)'
  <2>1. page.recovering[s] \in [trace: 0..MaxTurns, live: BOOLEAN, before: SUBSET Traces]
    BY Facts DEF Sound, Page
  <2> DEFINE value == [page.recovering[s] EXCEPT !.live = TRUE, !.before = Ended(s)]
  <2>2. value \in [trace: 0..MaxTurns, live: BOOLEAN, before: SUBSET Traces]
    BY <1>1, <2>1
  <2>3. page' = [page EXCEPT !.recovering[s] = value]
    BY Facts DEF Subscribe, Sound, Page
  <2> HIDE DEF value
  <2> QED BY <2>2, <2>3, Facts, RecoveringIsApart
<1>3. UNCHANGED <<bridge, streams, ops, hasty>>
  BY DEF Subscribe
<1> QED BY <1>2, <1>3, Keeps, Unchanged

LEMMA RecoveredEndsKeeps == ASSUME IInv, NEW s \in Sessions, RecoveredEnds(s) PROVE IInv'
<1>1. Sound(page)'
  BY Facts, StopRecoveredIsSound DEF RecoveredEnds
<1>2. ops' \subseteq OpsType
  BY Facts, Unchanged, RunsAreTyped DEF RecoveredEnds, Op, OpsType
<1>3. UNCHANGED <<bridge, streams, hasty>>
  BY DEF RecoveredEnds
<1> QED BY <1>1, <1>2, <1>3, Keeps, Unchanged

LEMMA RecoveredFailsKeeps == ASSUME IInv, NEW s \in Sessions, RecoveredFails(s) PROVE IInv'
<1>1. Sound(page)'
  BY Facts, StopRecoveredIsSound, ClearsRunIsSound DEF RecoveredFails
<1>2. UNCHANGED <<bridge, streams, ops, hasty>>
  BY DEF RecoveredFails
<1> QED BY <1>1, <1>2, Keeps, Unchanged

LEMMA NewChatKeeps == ASSUME IInv, NewChat PROVE IInv'
<1>1. \A q : q = [page EXCEPT !.view = New] => Sound(q)
  BY Facts, OtherPartsAreSound
<1>2. Sound(page)'
  BY <1>1, Facts, ClearMessagesIsSound DEF NewChat
<1>3. hasty' \in BOOLEAN /\ UNCHANGED <<bridge, streams, ops>>
  BY DEF NewChat
<1> QED BY <1>2, <1>3, Keeps, Unchanged

LEMMA DeleteKeeps == ASSUME IInv, NEW s \in Sessions, DeleteSession(s) PROVE IInv'
<1>1. ops' \subseteq OpsType
  BY Facts, Unchanged, RunsAreTyped DEF DeleteSession, Op, OpsType, DeleteKinds
<1>2. UNCHANGED <<bridge, page, streams, hasty>>
  BY DEF DeleteSession
<1> QED BY <1>1, <1>2, Keeps, Unchanged

LEMMA DeleteReturnsKeeps ==
  ASSUME IInv, NEW op \in ops, NEW ok \in BOOLEAN, DeleteReturns(op, ok)
  PROVE  IInv'
<1> DEFINE s == op.key
           left == IF ok /\ page.view = s THEN [page EXCEPT !.view = New] ELSE page
           dropped == DropSessionState(left, s)
<1>1. s \in Keys /\ page.runs[s] \in Run
  BY Facts
<1>2. Sound(left)
  <2>1. \A q : q = [page EXCEPT !.view = New] => Sound(q)
    BY Facts, OtherPartsAreSound
  <2> QED BY <2>1, Facts
<1>3. Sound(page)'
  <2>1. page' \in {ClearMessages(dropped, New), dropped}
    BY DEF DeleteReturns
  <2> HIDE DEF left
  <2>2. Sound(dropped)
    BY <1>1, <1>2, Facts, DropIsSound
  <2> HIDE DEF dropped
  <2> QED BY <2>1, <2>2, Facts, ClearMessagesIsSound
<1>4. bridge' \in BridgeType
  BY Unchanged DEF DeleteReturns, BridgeType
<1>5. streams' \in StreamsType
  BY <1>1, Facts, AbortedStreamsAreTyped DEF DeleteReturns, StreamsType
<1>6. hasty' \in BOOLEAN /\ ops' \subseteq OpsType
  BY Unchanged DEF DeleteReturns
<1> QED BY <1>3, <1>4, <1>5, <1>6, Keeps, Unchanged

LEMMA NextKeeps == ASSUME IInv, [Next]_vars PROVE IInv'
<1>1. CASE UNCHANGED vars
  BY <1>1, Keeps, Unchanged DEF vars
<1>2. CASE Send \/ Answer \/ OtherTurn \/ Stop \/ NewChat
  BY <1>2, SendKeeps, AnswerKeeps, OtherTurnKeeps, StopKeeps, NewChatKeeps
<1>3. ASSUME NEW t \in Traces, TurnEnds(t) \/ StreamStep(t) PROVE IInv'
  BY <1>3, TurnEndsKeeps, StreamEventKeeps, EndStreamKeeps, FailStreamKeeps DEF StreamStep
<1>4. ASSUME NEW op \in ops, Returns(op) PROVE IInv'
  BY <1>4, StopReturnsKeeps, PageRepliesKeep, DeleteReturnsKeeps DEF Returns
<1>5. ASSUME NEW s \in Sessions, Visit(s) PROVE IInv'
  BY <1>5, SelectKeeps, SubscribeKeeps, RecoveredEndsKeeps, RecoveredFailsKeeps, DeleteKeeps DEF Visit
<1> QED BY <1>1, <1>2, <1>3, <1>4, <1>5 DEF Next

(* Whatever is clicked, streamed, stopped, recovered or deleted, the chat  *)
(* that the reducer shows and the run that the references hold agree.      *)
THEOREM RunsAlwaysAgree == Spec => []RunsAgree
<1>1. IInv => RunsAgree
  BY DEF IInv, Sound, Agrees, RunsAgree
<1>2. IInv /\ [Next]_vars => IInv'
  BY NextKeeps
<1> QED BY <1>1, <1>2, InitIsSound, PTL DEF Spec

(* Every variable of the page keeps its type.                              *)
THEOREM ChatTypes == Spec => []TypeOK
<1>1. IInv => TypeOK
  BY DEF IInv
<1>2. IInv /\ [Next]_vars => IInv'
  BY NextKeeps
<1> QED BY <1>1, <1>2, InitIsSound, PTL DEF Spec

-----------------------------------------------------------------------------
(* What a user who waits is shown.                                         *)

\* The stream of a turn whose first event the page has not read.
Opening(st, t) == st[t].state = "open" /\ st[t].key = New

IsStop(op) == op.kind \in {"stop", "stopped"}

\* The key under which the run that a stop call is about is filed by now: the
\* first event of the turn may have moved it since the click.
Place(st, op) == IF op.key = New THEN st[op.run.trace].key ELSE op.key

\* A session that the page does not know yet: free, or with a turn whose stream,
\* or whose stop, is still filed under the new chat.
Awaited(b, st, o, s) ==
  \/ b.sessions[s] = "free"
  \/ \E t \in Traces :
       /\ b.session[t] = s /\ st[t].key = New
       /\ \/ st[t].state = "open"
          \/ \E op \in o : op.kind = "stop" /\ op.key = New /\ op.run.trace = t

Untouched(p, o, s) ==
  /\ p.view # s /\ s \notin p.background
  /\ p.runs[s] = NoRun /\ p.recovering[s].trace = 0
  /\ \A op \in o : op.key = s => op.kind \in {"sync"} \cup DeleteKinds

\* A turn of the session that has not been stopped or refused: when it ends, or
\* asks, an event tells.
Recoverable(b, s, t) ==
  t \in Traces /\ b.session[t] = s /\ b.turn[t] \in {"running", "asked", "answered", "done"}

-----------------------------------------------------------------------------
(* The invariant.                                                          *)

Typed(b, p, st, o) == b \in BridgeType /\ Sound(p) /\ st \in StreamsType /\ o \subseteq OpsType

\* The turns that exist are 1..n, so that NextTrace is no turn's.
Numbered(b) == \E n \in Nat : {t \in Traces : b.turn[t] # "none"} = 1..n

\* A turn is of a session that exists, and its stream is filed under that session
\* or, before its first event, under the new chat; a refused turn never is there.
Filed(b, st) ==
  \A t \in Traces :
    /\ b.turn[t] = "none" => b.session[t] = New /\ st[t].state = "none"
    /\ b.turn[t] # "none" => b.session[t] \in Sessions /\ b.sessions[b.session[t]] # "free"
    /\ st[t].state # "none" => st[t].key \in {New, b.session[t]}
    /\ st[t].state # "none" /\ st[t].key = New => b.turn[t] # "refused"

\* Nothing of a session is on the page before its first event: that event finds
\* room for the run it brings, and the click that made it a view of its own.
NewcomersApart(b, p, st, o) == \A s \in Sessions : Awaited(b, st, o, s) => Untouched(p, o, s)

\* RunShown, by the reference: an open stream's key has that stream's run.
StreamsShown(p, st) == \A t \in Traces : st[t].state = "open" => p.runs[st[t].key] = DirectRun(t)

\* RunsEnd, by the reference, as far as streams and calls go: a run that is filed is
\* fed by its open stream, or is a turn of that session that is being recovered, or
\* that a call clears.
RunsFed(b, p, st, o) ==
  \A k \in Keys :
    /\ p.chats[k].activeRun = p.runs[k]
    /\ p.runs[k].direct => LET t == p.runs[k].trace
                           IN  t \in Traces /\ st[t].state = "open" /\ st[t].key = k
    /\ p.runs[k] # NoRun /\ ~p.runs[k].direct =>
         /\ k \in Sessions /\ p.runs[k].trace \in Traces /\ b.session[p.runs[k].trace] = k
         /\ \/ p.recovering[k].trace # 0
            \/ \E op \in o : op.kind \in {"recovered", "stopped"} /\ op.key = k

\* No recovery works on a session that has another run: its end would clear that run.
RecoveriesApart(p) ==
  \A s \in Sessions :
    /\ p.recovering[s].live => p.recovering[s].trace # 0
    /\ p.recovering[s].trace # 0 => p.runs[s] \in {NoRun, RecoveredRun(p.recovering[s].trace)}

\* What is recovered is a turn of the session, and its end comes with an event.
RecoveriesOpen(b, p) ==
  \A s \in Sessions : p.recovering[s].trace # 0 => Recoverable(b, s, p.recovering[s].trace)

\* Nor does a call that is going to replace or to clear what such a session shows.
CallsApart(p, o) ==
  \A op \in o :
    /\ op.kind # "stop" => op.key \in Sessions
    /\ op.kind = "load" => op.run = NoRun /\ p.runs[op.key] = NoRun
    /\ op.kind \in {"recovered", "stopped"} => ~p.runs[op.key].direct

\* The call that stops a run ends the recovery of that run.
StopsRecovery(p, op, k) ==
  op.kind = "stop" /\ k \in Sessions /\ p.recovering[k].trace # 0 =>
    op.run = RecoveredRun(p.recovering[k].trace)

\* One stop at a time, of the run in view, which stays there with its stop mark or
\* has ended; when the new chat has become a session, the new chat is gone.
StopsApart(p, st, o) ==
  \A op \in o : IsStop(op) =>
    /\ op.run # NoRun
    /\ \A other \in o : IsStop(other) => other = op
    /\ \A other \in o : other.kind = "load" => other.key # Place(st, op)
    /\ p.view = Place(st, op)
    /\ p.runs[Place(st, op)] \in {op.run, NoRun}
    /\ p.runs[Place(st, op)] # NoRun => p.stops[Place(st, op)]
    /\ StopsRecovery(p, op, Place(st, op))
    /\ op.key = New => op.run.direct /\ st[op.run.trace].state # "none"
    /\ op.key = New /\ Place(st, op) # New => ~p.chats[New].there /\ p.runs[New] = NoRun

\* ChatsApart, and that the new chat has turns that failed or wait for their first
\* event only: it is what the next first event moves to a session.
TurnsApart(b, p, st) ==
  /\ \A s \in Sessions : \A t \in p.chats[s].turns : b.session[t] = s \/ st[t].state = "lost"
  /\ \A t \in p.chats[New].turns : st[t].state = "lost" \/ Opening(st, t)

\* SeenIsUnmarked.
ViewUnmarked(p) == p.view \notin p.background /\ p.background \subseteq Sessions

Calm(b, p, st, o) ==
  /\ Typed(b, p, st, o) /\ Numbered(b) /\ Filed(b, st)
  /\ NewcomersApart(b, p, st, o) /\ StreamsShown(p, st) /\ RunsFed(b, p, st, o)
  /\ RecoveriesApart(p) /\ RecoveriesOpen(b, p) /\ CallsApart(p, o) /\ StopsApart(p, st, o)
  /\ TurnsApart(b, p, st) /\ ViewUnmarked(p)

CInv == ~hasty => Calm(bridge, page, streams, ops)

-----------------------------------------------------------------------------
(* What an operator on the page leaves alone.                              *)

NoneOpenAt(st, k) == \A t \in Traces : st[t].state = "open" => st[t].key # k

\* From the page p to the page q, the recovery of s is no new one, and when it is
\* over nothing waits for it.
RecoverySurvives(p, q, o, s) ==
  /\ q.recovering[s].live => q.recovering[s].trace # 0
  /\ q.recovering[s].trace \in {0, p.recovering[s].trace}
  /\ p.recovering[s].trace # 0 /\ q.recovering[s].trace = 0 =>
       q.runs[s] = NoRun \/ \E op \in o : op.kind \in {"recovered", "stopped"} /\ op.key = s

\* What k shows besides what it showed is its own.
TurnsBelong(b, p, q, k) ==
  \A t \in q.chats[k].turns : t \in p.chats[k].turns \/ (k # New /\ b.session[t] = k)

NoStops(o) == \A op \in o : ~IsStop(op)

RunSurvives(p, q, o, k) ==
  q.runs[k] = p.runs[k] /\ (p.stops[k] => q.stops[k] \/ NoStops(o))

-----------------------------------------------------------------------------
(* Lemmas about Calm.                                                      *)

LEMMA RunFacts ==
  /\ NoRun.direct = FALSE /\ NoRun.trace = 0
  /\ \A t : DirectRun(t).direct = TRUE /\ DirectRun(t).trace = t /\ DirectRun(t) # NoRun
  /\ \A t : RecoveredRun(t).direct = FALSE /\ RecoveredRun(t).trace = t
BY DEF NoRun, DirectRun, RecoveredRun

\* What the types give, for the provers.
LEMMA TypedFacts ==
  ASSUME NEW b, NEW p, NEW st, NEW o, Typed(b, p, st, o)
  PROVE  /\ New \in Keys /\ Sessions \subseteq Keys /\ New \notin Sessions
         /\ \A k \in Keys : k = New \/ k \in Sessions
         /\ \A t \in Traces : st[t].key \in Keys /\ b.session[t] \in Keys
         /\ \A op \in o : op.key \in Keys /\ op.run \in Run
         /\ \A op \in o : op.run.direct => op.run.trace \in Traces
         /\ p.view \in Keys
         /\ \A k \in Keys : p.chats[k].turns \subseteq Traces
<1>1. p.view \in Keys /\ p.chats \in [Keys -> Chat]
  BY DEF Typed, Sound, Page
<1>2. \A k \in Keys : p.chats[k] \in Chat
  BY <1>1
<1>3. \A k \in Keys : p.chats[k].turns \subseteq Traces
  BY <1>2 DEF Chat
<1>4. \A op \in o : op.key \in Keys /\ op.run \in Run
  BY DEF Typed, OpsType
<1>5. \A run \in Run : run.direct => run.trace \in Traces
  BY RunFacts DEF Run
<1>6. \A t \in Traces : st[t].key \in Keys /\ b.session[t] \in Keys
  BY DEF Typed, StreamsType, BridgeType
<1> QED BY <1>1, <1>3, <1>4, <1>5, <1>6, SessionsAssumption DEF Keys

LEMMA PlaceIsKey ==
  ASSUME NEW b, NEW p, NEW st, NEW o, Typed(b, p, st, o), StopsApart(p, st, o), NEW op \in o,
         IsStop(op)
  PROVE  Place(st, op) \in Keys /\ (op.key = New => op.run.trace \in Traces)
BY TypedFacts DEF Place, StopsApart

\* A page stays calm when one key changes and its run, recovery and turns are kept
\* or ended as above.  Most operators of the page are such a change.
LEMMA ChangesKeep ==
  ASSUME NEW b, NEW p, NEW st, NEW o, Calm(b, p, st, o), NEW k \in Keys,
         NEW q, Sound(q), Elsewhere(p, q, k), q.chats[k].activeRun = q.runs[k],
         RunSurvives(p, q, o, k) \/ (q.runs[k] = NoRun /\ NoneOpenAt(st, k)),
         k \in Sessions => RecoverySurvives(p, q, o, k),
         TurnsBelong(b, p, q, k), k = New => NoStops(o)
  PROVE  Calm(b, q, st, o)
<1>1. Typed(b, p, st, o) /\ Typed(b, q, st, o) /\ Numbered(b) /\ Filed(b, st)
  BY DEF Calm, Typed
<1>2. NewcomersApart(b, q, st, o)
  BY <1>1, TypedFacts DEF Calm, NewcomersApart, Untouched, Elsewhere, RunSurvives, RecoverySurvives
<1>3. StreamsShown(q, st)
  BY <1>1, TypedFacts DEF Calm, StreamsShown, Elsewhere, RunSurvives, NoneOpenAt
<1>4. RunsFed(b, q, st, o)
  BY <1>1, TypedFacts, RunFacts DEF Calm, RunsFed, Elsewhere, RunSurvives, RecoverySurvives
<1>5. RecoveriesApart(q) /\ RecoveriesOpen(b, q)
  BY <1>1, TypedFacts, RunFacts
     DEF Calm, RecoveriesApart, RecoveriesOpen, Elsewhere, RunSurvives, RecoverySurvives
<1>6. CallsApart(q, o)
  BY <1>1, TypedFacts, RunFacts DEF Calm, CallsApart, Elsewhere, RunSurvives
<1>7. StopsApart(q, st, o)
  <2>1. ASSUME NEW op \in o, IsStop(op) PROVE StopsRecovery(q, op, Place(st, op))
    BY <1>1, <2>1, PlaceIsKey, TypedFacts
       DEF Calm, StopsApart, StopsRecovery, Elsewhere, RecoverySurvives
  <2> QED BY <1>1, <2>1, TypedFacts, PlaceIsKey, RunFacts
             DEF Calm, StopsApart, Elsewhere, RunSurvives, NoStops
<1>8. TurnsApart(b, q, st)
  BY <1>1, TypedFacts DEF Calm, TurnsApart, Elsewhere, TurnsBelong
<1>9. ViewUnmarked(q)
  BY DEF Calm, ViewUnmarked, Elsewhere
<1> QED BY <1>1, <1>2, <1>3, <1>4, <1>5, <1>6, <1>7, <1>8, <1>9 DEF Calm

\* A call is answered, or added; a recovered run must not be waiting for it.
LEMMA RemoveKeeps ==
  ASSUME NEW b, NEW p, NEW st, NEW o, Calm(b, p, st, o), NEW op \in o,
         op.kind \in {"recovered", "stopped"} => p.runs[op.key] = NoRun
  PROVE  Calm(b, p, st, o \ {op})
<1> DEFINE left == o \ {op}
<1>1. Typed(b, p, st, o) /\ Typed(b, p, st, left) /\ left \subseteq o
  BY DEF Calm, Typed
<1>2. \A other \in o : other \in left \/ other = op
  OBVIOUS
<1> HIDE DEF left
<1>3. NewcomersApart(b, p, st, left)
  BY <1>1 DEF Calm, NewcomersApart, Untouched, Awaited
<1>4. RunsFed(b, p, st, left)
  BY <1>1, <1>2, TypedFacts DEF Calm, RunsFed
<1>5. CallsApart(p, left) /\ StopsApart(p, st, left)
  BY <1>1 DEF Calm, CallsApart, StopsApart
<1> QED BY <1>1, <1>3, <1>4, <1>5 DEF Calm, left

LEMMA AddKeeps ==
  ASSUME NEW b, NEW p, NEW st, NEW o, Calm(b, p, st, o), NEW op \in OpsType, op.key \in Sessions,
         \/ op.kind \in {"sync"} \cup DeleteKinds
         \/ op.kind = "recovered" /\ ~p.runs[op.key].direct
         \/ op.kind = "load" /\ op.run = NoRun /\ p.runs[op.key] = NoRun /\ NoStops(o),
         op.kind \notin {"sync"} \cup DeleteKinds => ~Awaited(b, st, o, op.key)
  PROVE  Calm(b, p, st, o \cup {op})
<1> DEFINE more == o \cup {op}
<1>1. Typed(b, p, st, o) /\ Typed(b, p, st, more) /\ o \subseteq more
  BY DEF Calm, Typed
<1>2. \A other \in more : other \in o \/ other = op
  OBVIOUS
<1> HIDE DEF more
<1>3. NewcomersApart(b, p, st, more)
  BY <1>1, <1>2 DEF Calm, NewcomersApart, Untouched, Awaited, DeleteKinds
<1>4. RunsFed(b, p, st, more)
  BY <1>1, TypedFacts DEF Calm, RunsFed
<1>5. CallsApart(p, more)
  BY <1>1, <1>2 DEF Calm, CallsApart, DeleteKinds
<1>6. StopsApart(p, st, more)
  BY <1>1, <1>2 DEF Calm, StopsApart, IsStop, NoStops, DeleteKinds
<1> QED BY <1>1, <1>3, <1>4, <1>5, <1>6 DEF Calm, more

\* A click on stop.
LEMMA AddStopKeeps ==
  ASSUME NEW b, NEW p, NEW st, NEW o, Calm(b, p, st, o), NEW op \in OpsType, NoStops(o),
         op.kind = "stop", op.key = p.view, op.run = p.runs[op.key], op.run # NoRun, p.stops[op.key]
  PROVE  Calm(b, p, st, o \cup {op})
<1> DEFINE more == o \cup {op}
<1>1. Typed(b, p, st, o) /\ Typed(b, p, st, more) /\ o \subseteq more
  BY DEF Calm, Typed
<1>2. \A other \in more : other \in o \/ other = op
  OBVIOUS
<1> HIDE DEF more
<1>3. op.key = New => Opening(st, op.run.trace) /\ op.run.direct /\ op.run.trace \in Traces
  BY <1>1, TypedFacts DEF Calm, RunsFed, Opening
<1>4. Place(st, op) = op.key
  BY <1>3 DEF Place, Opening
<1>5. NewcomersApart(b, p, st, more)
  BY <1>1, <1>2, <1>3, TypedFacts DEF Calm, NewcomersApart, Untouched, Awaited, Opening, DeleteKinds
<1>6. RunsFed(b, p, st, more)
  BY <1>1, TypedFacts DEF Calm, RunsFed
<1>7. CallsApart(p, more)
  BY <1>1, <1>2 DEF Calm, CallsApart
<1>8. StopsApart(p, st, more)
  <2>1. \A other \in more : IsStop(other) => other = op
    BY <1>2 DEF NoStops
  <2>2. \A other \in more : other.kind = "load" => other.key # op.key
    BY <1>2 DEF Calm, CallsApart
  <2>3. StopsRecovery(p, op, op.key)
    BY DEF StopsRecovery, Calm, RecoveriesApart
  <2> QED BY <1>3, <1>4, <2>1, <2>2, <2>3 DEF StopsApart, Opening
<1> QED BY <1>1, <1>5, <1>6, <1>7, <1>8 DEF Calm, more

\* The stop call is answered.
LEMMA AnsweredKeeps ==
  ASSUME NEW b, NEW p, NEW st, NEW o, Calm(b, p, st, o), NEW op \in o, op.kind = "stop",
         NEW s \in Sessions, s = Place(st, op), ~p.runs[s].direct
  PROVE  Calm(b, p, st, (o \ {op}) \cup {Op("stopped", s, op.run)})
<1> DEFINE next == Op("stopped", s, op.run)
           more == (o \ {op}) \cup {next}
<1>1. Typed(b, p, st, o)
  BY DEF Calm
<1>2. next.kind = "stopped" /\ next.key = s /\ next.run = op.run /\ next \in OpsType
  BY <1>1, TypedFacts DEF Op, OpsType
<1>3. \A other \in more : other = next \/ (other \in o /\ other # op)
  OBVIOUS
<1>4. next \in more /\ \A other \in o : other = op \/ other \in more
  OBVIOUS
<1>5. Typed(b, p, st, more)
  BY <1>1, <1>2 DEF Typed
<1> HIDE DEF more, next
<1>6. IsStop(op) /\ p.view = s
  BY DEF IsStop, Calm, StopsApart
<1>7. NewcomersApart(b, p, st, more)
  BY <1>1, <1>2, <1>3, <1>6 DEF Calm, NewcomersApart, Untouched, Awaited
<1>8. RunsFed(b, p, st, more)
  BY <1>1, <1>4, <1>6, TypedFacts DEF Calm, RunsFed
<1>9. CallsApart(p, more)
  BY <1>1, <1>2, <1>3 DEF Calm, CallsApart
<1>10. StopsApart(p, st, more)
  <2>1. \A other \in more : ~IsStop(other) \/ other = next
    BY <1>3, <1>6 DEF Calm, StopsApart
  <2>2. Place(st, next) = s /\ s # New
    BY <1>1, <1>2, TypedFacts DEF Place
  <2>3. StopsRecovery(p, next, s)
    BY <1>2 DEF StopsRecovery
  <2> QED BY <1>2, <1>3, <1>6, <2>1, <2>2, <2>3 DEF Calm, StopsApart
<1> QED BY <1>1, <1>5, <1>7, <1>8, <1>9, <1>10 DEF Calm, more, next

-----------------------------------------------------------------------------
(* Changes of the bridge, the page, the streams and the calls.             *)

\* The bridge goes on with its turns, or deletes a session.
LEMMA BridgeKeeps ==
  ASSUME NEW b, NEW p, NEW st, NEW o, Calm(b, p, st, o), NEW c \in BridgeType,
         c.session = b.session,
         \A s \in Sessions : c.sessions[s] = "free" => b.sessions[s] = "free",
         \A t \in Traces : /\ c.turn[t] = "none" <=> b.turn[t] = "none"
                           /\ c.turn[t] = "refused" => b.turn[t] = "refused",
         RecoveriesOpen(c, p)
  PROVE  Calm(c, p, st, o)
<1>1. Typed(b, p, st, o) /\ Typed(c, p, st, o)
  BY DEF Calm, Typed
<1>2. Numbered(c)
  <2>1. {t \in Traces : c.turn[t] # "none"} = {t \in Traces : b.turn[t] # "none"}
    OBVIOUS
  <2> QED BY <2>1 DEF Calm, Numbered
<1>3. Filed(c, st)
  BY DEF Calm, Filed
<1>4. NewcomersApart(c, p, st, o)
  BY DEF Calm, NewcomersApart, Awaited
<1>5. RunsFed(c, p, st, o) /\ TurnsApart(c, p, st)
  BY DEF Calm, RunsFed, TurnsApart
<1> QED BY <1>1, <1>2, <1>3, <1>4, <1>5 DEF Calm

\* A turn that the bridge takes or refuses has the next trace.
LEMMA NextTraceIsNew ==
  ASSUME Numbered(bridge), NextTrace \in Traces
  PROVE  /\ bridge.turn[NextTrace] = "none"
         /\ {t \in Traces : bridge.turn[t] # "none"} = 1..(NextTrace - 1)
         /\ NextTrace \in Nat /\ NextTrace >= 1
<1>1. PICK n \in Nat : {t \in Traces : bridge.turn[t] # "none"} = 1..n
  BY DEF Numbered
<1>2. Cardinality(1..n) = n
  BY FS_Interval
<1>3. NextTrace = 1 + n
  BY <1>1, <1>2, Zenon DEF NextTrace
<1> QED BY <1>1, <1>3

LEMMA TurnKeeps ==
  ASSUME NEW p, NEW st, NEW o, Calm(bridge, p, st, o), NEW c \in BridgeType, NEW s \in Sessions,
         NextTrace \in Traces, c.session = [bridge.session EXCEPT ![NextTrace] = s],
         c.sessions[s] # "free",
         \A r \in Sessions : r # s => c.sessions[r] = bridge.sessions[r],
         c.turn[NextTrace] # "none",
         \A t \in Traces : t # NextTrace =>
           /\ c.turn[t] = "none" <=> bridge.turn[t] = "none"
           /\ c.turn[t] = "refused" => bridge.turn[t] = "refused"
           /\ \/ c.turn[t] = bridge.turn[t]
              \/ bridge.turn[t] = "asked" /\ c.turn[t] = "answered"
  PROVE  Calm(c, p, st, o)
<1> DEFINE n == NextTrace
<1>1. Typed(bridge, p, st, o) /\ Typed(c, p, st, o)
  BY DEF Calm, Typed
<1>2. /\ bridge.turn[n] = "none" /\ {t \in Traces : bridge.turn[t] # "none"} = 1..(n - 1)
      /\ n \in Nat /\ n >= 1 /\ n \in Traces
  BY NextTraceIsNew DEF Calm
<1>3. st[n].state = "none" /\ bridge.session[n] = New
  BY <1>2 DEF Calm, Filed
<1>4. c.session[n] = s /\ \A t \in Traces : t # n => c.session[t] = bridge.session[t]
  BY <1>1, <1>2 DEF Typed, BridgeType
<1> HIDE DEF n
<1>5. Numbered(c)
  <2>1. {t \in Traces : c.turn[t] # "none"} = {t \in Traces : bridge.turn[t] # "none"} \cup {n}
    BY <1>2 DEF n
  <2>2. {t \in Traces : c.turn[t] # "none"} = 1..n
    BY <1>2, <2>1
  <2> QED BY <1>2, <2>2 DEF Numbered
<1>6. Filed(c, st)
  <2> SUFFICES ASSUME NEW t \in Traces
               PROVE  /\ c.turn[t] = "none" => c.session[t] = New /\ st[t].state = "none"
                      /\ c.turn[t] # "none" => c.session[t] \in Sessions /\ c.sessions[c.session[t]] # "free"
                      /\ st[t].state # "none" => st[t].key \in {New, c.session[t]}
                      /\ st[t].state # "none" /\ st[t].key = New => c.turn[t] # "refused"
    BY DEF Filed
  <2>1. CASE t = n
    BY <1>3, <1>4, <2>1 DEF n
  <2>2. CASE t # n
    BY <1>4, <2>2 DEF Calm, Filed, n
  <2> QED BY <2>1, <2>2
<1>7. NewcomersApart(c, p, st, o)
  <2>1. ASSUME NEW r \in Sessions, Awaited(c, st, o, r) PROVE Awaited(bridge, st, o, r)
    <3>1. \A op \in o : op.kind = "stop" /\ op.key = New => op.run.trace # n
      BY <1>3 DEF Calm, StopsApart, IsStop
    <3> QED BY <1>2, <1>3, <1>4, <2>1, <3>1 DEF Awaited
  <2> QED BY <2>1 DEF Calm, NewcomersApart
<1>8. RunsFed(c, p, st, o)
  BY <1>1, <1>3, <1>4, TypedFacts DEF Calm, RunsFed
<1>9. TurnsApart(c, p, st)
  BY <1>1, <1>3, <1>4, TypedFacts DEF Calm, TurnsApart
<1>10. RecoveriesOpen(c, p)
  <2> SUFFICES ASSUME NEW r \in Sessions, p.recovering[r].trace # 0
               PROVE  Recoverable(c, r, p.recovering[r].trace)
    BY DEF RecoveriesOpen
  <2>1. Recoverable(bridge, r, p.recovering[r].trace)
    BY DEF Calm, RecoveriesOpen
  <2> QED BY <1>2, <1>4, <2>1 DEF Recoverable, n
<1> QED BY <1>1, <1>5, <1>6, <1>7, <1>8, <1>9, <1>10 DEF Calm

\* ChangesKeep for the setters of ChatSessionsProofs.
LEMMA BecomesKeeps ==
  ASSUME NEW b, NEW p, NEW st, NEW o, Calm(b, p, st, o), NEW k \in Keys,
         NEW q, Sound(q), NEW run, NEW stop, NEW turns, Becomes(p, q, k, run, stop, turns),
         (run = p.runs[k] /\ (p.stops[k] => q.stops[k] \/ NoStops(o))) \/ (run = NoRun /\ NoneOpenAt(st, k)),
         TurnsBelong(b, p, q, k), k = New => NoStops(o)
  PROVE  Calm(b, q, st, o)
<1>1. /\ Elsewhere(p, q, k) /\ q.recovering = p.recovering
      /\ q.chats[k].activeRun = q.runs[k] /\ q.runs[k] = run
  BY DEF Becomes, Calm, RunsFed
<1>2. RunSurvives(p, q, o, k) \/ (q.runs[k] = NoRun /\ NoneOpenAt(st, k))
  BY <1>1 DEF RunSurvives
<1>3. k \in Sessions => RecoverySurvives(p, q, o, k)
  BY <1>1 DEF RecoverySurvives, Calm, RecoveriesApart
<1> QED BY <1>1, <1>2, <1>3, ChangesKeep

LEMMA EndKeeps ==
  ASSUME NEW b, NEW p, NEW st, NEW o, Calm(b, p, st, o), NEW k \in Keys,
         NoneOpenAt(st, k), k = New => NoStops(o)
  PROVE  Calm(b, EndRun(p, k), st, o)
<1>1. Sound(p)
  BY DEF Calm, Typed
<1>2. Sound(EndRun(p, k)) /\ Becomes(p, EndRun(p, k), k, NoRun, FALSE, p.chats[k].turns)
  BY <1>1, EndRunIsSound
<1>3. TurnsBelong(b, p, EndRun(p, k), k)
  BY <1>2 DEF TurnsBelong, Becomes
<1> QED BY <1>2, <1>3, BecomesKeeps

\* The run of an open stream is filed under its key and nowhere else.
LEMMA RunIsFiledOnce ==
  ASSUME NEW b, NEW p, NEW st, NEW o, Calm(b, p, st, o), NEW t \in Traces, st[t].state = "open"
  PROVE  /\ st[t].key \in Keys /\ p.runs[st[t].key] = DirectRun(t)
         /\ \A j \in Keys : p.runs[j].trace = t => j = st[t].key
<1> DEFINE k == st[t].key
<1>1. k \in Keys
  BY TypedFacts DEF Calm
<1>2. p.runs[k] = DirectRun(t)
  BY DEF Calm, StreamsShown
<1>3. ASSUME NEW j \in Keys, p.runs[j].trace = t PROVE j = k
  <2>1. CASE p.runs[j].direct
    BY <1>3, <2>1 DEF Calm, RunsFed
  <2>2. CASE ~p.runs[j].direct
    <3>1. p.runs[j] # NoRun
      BY <1>3, RunFacts, BoundsAssumption DEF Traces
    <3>2. j \in Sessions /\ b.session[t] = j
      BY <1>3, <2>2, <3>1 DEF Calm, RunsFed
    <3>3. k # j
      BY <2>2, RunFacts DEF Calm, StreamsShown
    <3>4. k = New
      BY <3>2, <3>3 DEF Calm, Filed
    <3>5. Awaited(b, st, o, j)
      BY <3>2, <3>4 DEF Awaited
    <3> QED BY <3>1, <3>2, <3>5 DEF Calm, NewcomersApart, Untouched
  <2> QED BY <2>1, <2>2
<1> QED BY <1>1, <1>2, <1>3

\* FinishRun looks the key up by the trace: it finds the one of the stream.
LEMMA ResolvesTo ==
  ASSUME NEW p, NEW t, NEW k \in Keys, p.runs[k].trace = t,
         \A j \in Keys : p.runs[j].trace = t => j = k
  PROVE  FinishRun(p, t) = EndRun(p, k)
<1>1. {j \in Keys : p.runs[j].trace = t} = {k}
  OBVIOUS
<1>2. ResolveActiveRunSessionId(p, t, streams[t].origin) = k
  BY <1>1 DEF ResolveActiveRunSessionId
<1> QED BY <1>2 DEF FinishRun

LEMMA FinishRunEnds ==
  ASSUME NEW b, NEW p, NEW st, NEW o, Calm(b, p, st, o), NEW t \in Traces, st[t].state = "open"
  PROVE  FinishRun(p, t) = EndRun(p, st[t].key) /\ st[t].key \in Keys
BY RunIsFiledOnce, ResolvesTo, RunFacts

\* The stream of a run ends, and its run with it.
LEMMA FinishKeeps ==
  ASSUME NEW b, NEW p, NEW st, NEW o, Calm(b, p, st, o), NEW t \in Traces, st[t].state = "open",
         NEW after, after = [st EXCEPT ![t].state = IF st[t].key = New THEN "lost" ELSE "closed"]
  PROVE  Calm(b, FinishRun(p, t), after, o)
<1> DEFINE k == st[t].key
           q == FinishRun(p, t)
<1>1. Typed(b, p, st, o) /\ Sound(p) /\ k \in Keys /\ p.runs[k] = DirectRun(t)
  BY TypedFacts DEF Calm, Typed, StreamsShown
<1>2. Sound(q) /\ Becomes(p, q, k, NoRun, FALSE, p.chats[k].turns)
  BY <1>1, FinishRunEnds, EndRunIsSound, ZenonT(60)
<1>3. /\ after \in StreamsType
      /\ \A u \in Traces : after[u].key = st[u].key /\ (u # t => after[u] = st[u])
      /\ after[t].state = IF k = New THEN "lost" ELSE "closed"
  BY <1>1 DEF Typed, StreamsType
<1>4. /\ Elsewhere(p, q, k) /\ q.runs[k] = NoRun /\ q.recovering = p.recovering /\ q.background = p.background
      /\ q.chats[k].turns = p.chats[k].turns /\ q.chats[k].activeRun = NoRun
  <2>1. p.chats[k].activeRun = p.runs[k]
    BY <1>1 DEF Calm, RunsFed
  <2> HIDE DEF q, k
  <2> QED BY <1>2, <2>1 DEF Becomes
<1>5. \A u \in Traces : st[u].state = "open" /\ st[u].key = k => u = t
  BY <1>1, RunFacts DEF Calm, StreamsShown
<1> HIDE DEF q, k
<1>6. Typed(b, q, after, o) /\ Filed(b, after)
  <2>1. Filed(b, after)
    BY <1>3 DEF Calm, Filed, k
  <2> QED BY <1>1, <1>2, <1>3, <2>1 DEF Typed
<1>7. NewcomersApart(b, q, after, o)
  BY <1>1, <1>3, <1>4, TypedFacts DEF Calm, NewcomersApart, Untouched, Awaited, Elsewhere
<1>8. StreamsShown(q, after)
  BY <1>1, <1>3, <1>4, <1>5, TypedFacts DEF Calm, StreamsShown, Elsewhere
<1>9. RunsFed(b, q, after, o)
  BY <1>1, <1>3, <1>4, TypedFacts, RunFacts DEF Calm, RunsFed, Elsewhere
<1>10. RecoveriesApart(q) /\ RecoveriesOpen(b, q)
  BY <1>1, <1>4, TypedFacts, RunFacts DEF Calm, RecoveriesApart, RecoveriesOpen, Elsewhere
<1>11. CallsApart(q, o)
  BY <1>1, <1>4, TypedFacts, RunFacts DEF Calm, CallsApart, Elsewhere
<1>12. StopsApart(q, after, o)
  <2>1. ASSUME NEW op \in o, IsStop(op) PROVE Place(after, op) = Place(st, op)
    BY <1>1, <1>3, <2>1, PlaceIsKey DEF Place, Calm
  <2>2. ASSUME NEW op \in o, IsStop(op) PROVE op.key = New => after[op.run.trace].state # "none"
    BY <1>1, <1>3, <2>2, PlaceIsKey DEF Calm, StopsApart
  <2>3. ASSUME NEW op \in o, IsStop(op), op.key = New, Place(st, op) # New
        PROVE  k # New /\ ~p.chats[New].there /\ p.runs[New] = NoRun
    BY <1>1, <2>3, RunFacts DEF Calm, StopsApart
  <2>4. ASSUME NEW op \in o, IsStop(op)
        PROVE  LET j == Place(st, op)
               IN  /\ q.view = j /\ q.runs[j] \in {op.run, NoRun} /\ (q.runs[j] # NoRun => q.stops[j])
                   /\ StopsRecovery(q, op, j)
                   /\ op.key = New /\ j # New => ~q.chats[New].there /\ q.runs[New] = NoRun
    <3>1. Place(st, op) \in Keys
      BY <1>1, <2>4, PlaceIsKey DEF Calm
    <3>2. StopsRecovery(q, op, Place(st, op))
      BY <1>4, <2>4 DEF Calm, StopsApart, StopsRecovery
    <3> QED BY <1>1, <1>4, <2>3, <2>4, <3>1, <3>2, TypedFacts DEF Calm, StopsApart, Elsewhere
  <2> QED BY <2>1, <2>2, <2>4, ZenonT(60) DEF Calm, StopsApart
<1>13. TurnsApart(b, q, after)
  <2>1. ASSUME NEW u \in p.chats[New].turns PROVE after[u].state = "lost" \/ Opening(after, u)
    <3>1. u \in Traces
      BY <1>1, TypedFacts
    <3> QED BY <1>1, <1>3, <3>1, TypedFacts DEF Calm, TurnsApart, Opening, k
  <2>2. ASSUME NEW s \in Sessions, NEW u \in p.chats[s].turns
        PROVE  b.session[u] = s \/ after[u].state = "lost"
    <3>1. u \in Traces
      BY <1>1, TypedFacts
    <3> QED BY <1>1, <1>3, <3>1, TypedFacts DEF Calm, TurnsApart
  <2>3. \A j \in Keys : q.chats[j].turns = p.chats[j].turns
    BY <1>4 DEF Elsewhere
  <2> QED BY <1>1, <2>1, <2>2, <2>3, TypedFacts DEF TurnsApart
<1>14. ViewUnmarked(q)
  BY <1>4 DEF Calm, ViewUnmarked, Elsewhere
<1> QED BY <1>6, <1>7, <1>8, <1>9, <1>10, <1>11, <1>12, <1>13, <1>14 DEF Calm, q

\* What was filed under one key is filed under another.
LEMMA MigrateMoves ==
  ASSUME NEW p, Sound(p), NEW from \in Keys, NEW to \in Keys, to # New, from # to,
         NEW m, m = MigrateSessionState(p, from, to)
  PROVE  /\ Sound(m)
         /\ m.view = p.view /\ m.background = p.background /\ m.recovering = p.recovering
         /\ \A k \in Keys : k # from /\ k # to =>
              m.chats[k] = p.chats[k] /\ m.runs[k] = p.runs[k] /\ m.stops[k] = p.stops[k]
         /\ m.runs[from] = NoRun /\ ~m.chats[from].there
         /\ m.runs[to] = IF p.runs[from] # NoRun THEN p.runs[from] ELSE p.runs[to]
         /\ p.stops[from] \/ p.stops[to] => m.stops[to]
         /\ p.chats[from].there => m.chats[to] = p.chats[from] /\ m.chats[from] = NoChat
         /\ ~p.chats[from].there => m.chats[to] = p.chats[to] /\ m.chats[from] = p.chats[from]
<1>1. p \in Page /\ p.runs \in [Keys -> Run] /\ p.stops \in [Keys -> BOOLEAN] /\ p.chats \in [Keys -> Chat]
  BY DEF Sound, Page
<1>2. Sound(m)
  BY MigrateIsSound
<1>3. /\ m.view = p.view /\ m.background = p.background /\ m.recovering = p.recovering
      /\ m.runs = [k \in Keys |-> IF k = to /\ p.runs[from] # NoRun THEN p.runs[from]
                                  ELSE IF k = from THEN NoRun ELSE p.runs[k]]
      /\ m.stops = [k \in Keys |-> k # from /\ (p.stops[k] \/ (k = to /\ p.stops[from]))]
      /\ m.chats = IF ~p.chats[from].there THEN p.chats
                   ELSE [k \in Keys |-> IF k = to THEN p.chats[from]
                                        ELSE IF k = from THEN NoChat ELSE p.chats[k]]
  BY <1>1 DEF MigrateSessionState, Page
<1>4. ~NoChat.there
  BY DEF NoChat, InitialChat
<1>5. m.runs[to] = IF p.runs[from] # NoRun THEN p.runs[from] ELSE p.runs[to]
  BY <1>3
<1>6. m.runs[from] = NoRun /\ (p.stops[from] \/ p.stops[to] => m.stops[to])
  BY <1>3
<1>7. /\ p.chats[from].there => m.chats[to] = p.chats[from] /\ m.chats[from] = NoChat
      /\ ~p.chats[from].there => m.chats[to] = p.chats[to] /\ m.chats[from] = p.chats[from]
  BY <1>3
<1>8. \A k \in Keys : k # from /\ k # to =>
        m.chats[k] = p.chats[k] /\ m.runs[k] = p.runs[k] /\ m.stops[k] = p.stops[k]
  BY <1>1, <1>3
<1> QED BY <1>2, <1>3, <1>4, <1>5, <1>6, <1>7, <1>8

\* The first event of a turn: the new chat becomes that of its session.
LEMMA ResolveKeeps ==
  ASSUME Calm(bridge, page, streams, ops), NEW t \in Traces, streams[t].state = "open",
         NEW after, after = [streams EXCEPT ![t].key = bridge.session[t]]
  PROVE  /\ Calm(bridge, ApplySessionResolution(page, t), after, ops)
         /\ bridge.session[t] \in Sessions
<1> DEFINE b == bridge
           p == page
           st == streams
           o == ops
           s == bridge.session[t]
           q == ApplySessionResolution(page, t)
<1>1. Typed(b, p, st, o) /\ Sound(p)
  BY DEF Calm, Typed
<1>2. s \in Sessions /\ s \in Keys /\ s # New /\ st[t].key \in {New, s} /\ st[t].key \in Keys
  BY <1>1, TypedFacts DEF Calm, Filed
<1>3. /\ after \in StreamsType /\ after[t].key = s
      /\ \A u \in Traces : after[u].state = st[u].state /\ (u # t => after[u] = st[u])
  BY <1>1, <1>2 DEF Typed, StreamsType
<1>4. CASE st[t].key = s
  <2>1. after = st
    BY <1>1, <1>4 DEF Typed, StreamsType
  <2>2. ApplySessionResolution(page, t) = page
    BY <1>4 DEF ApplySessionResolution
  <2> QED BY <1>2, <2>1, <2>2
<1>5. CASE st[t].key = New
  <2> DEFINE m == MigrateSessionState(p, New, s)
  <2>1. /\ p.runs[New] = DirectRun(t) /\ p.runs[New] # NoRun
        /\ p.chats[New].there /\ p.chats[New].activeRun = p.runs[New]
    BY <1>1, <1>5, TypedFacts, ChatOf, RunFacts DEF Calm, StreamsShown, RunsFed
  <2>2. Awaited(b, st, o, s)
    BY <1>2, <1>5 DEF Awaited
  <2>3. Untouched(p, o, s)
    BY <1>2, <2>2 DEF Calm, NewcomersApart
  <2>4. q = IF p.view = New THEN [m EXCEPT !.view = s] ELSE m
    BY <1>2, <1>5 DEF ApplySessionResolution
  <2>5. /\ Sound(m)
        /\ m.view = p.view /\ m.background = p.background /\ m.recovering = p.recovering
        /\ \A k \in Keys : k # New /\ k # s =>
             m.chats[k] = p.chats[k] /\ m.runs[k] = p.runs[k] /\ m.stops[k] = p.stops[k]
        /\ m.runs[New] = NoRun /\ ~m.chats[New].there
        /\ m.runs[s] = DirectRun(t) /\ (p.stops[New] => m.stops[s])
        /\ m.chats[s] = p.chats[New] /\ m.chats[New] = NoChat
    BY <1>1, <1>2, <2>1, MigrateMoves, TypedFacts, SMTT(60)
  <2> HIDE DEF m
  <2>6. Sound(q)
    BY <1>1, <1>2, <2>4, <2>5, OtherPartsAreSound
  <2>7. /\ q.background = p.background /\ q.recovering = p.recovering
        /\ \A k \in Keys : k # New /\ k # s =>
             q.chats[k] = p.chats[k] /\ q.runs[k] = p.runs[k] /\ q.stops[k] = p.stops[k]
        /\ q.runs[New] = NoRun /\ ~q.chats[New].there
        /\ q.runs[s] = DirectRun(t) /\ (p.stops[New] => q.stops[s])
        /\ q.chats[s] = p.chats[New] /\ q.chats[New] = NoChat
        /\ q.view = IF p.view = New THEN s ELSE p.view
    <3>1. m \in Page
      BY <2>5 DEF Sound
    <3> QED BY <2>4, <2>5, <3>1 DEF Page
  <2> HIDE DEF q, s
  <2>8. NoChat.turns = {} /\ NoChat.activeRun = NoRun
    BY DEF NoChat, InitialChat
  <2>9. \A u \in Traces : u # t /\ st[u].key = New => st[u].state # "open"
    BY <2>1, RunFacts DEF Calm, StreamsShown
  <2>10. \A u \in Traces : u # t /\ st[u].key = s => st[u].state # "open"
    BY <2>3, RunFacts DEF Calm, StreamsShown, Untouched
  <2>11. \A op \in o : IsStop(op) /\ op.key = New /\ op.run.trace # t => FALSE
    <3> SUFFICES ASSUME NEW op \in o, IsStop(op), op.key = New, op.run.trace # t PROVE FALSE
      OBVIOUS
    <3>1. st[op.run.trace].key # New => p.runs[New] = NoRun
      BY DEF Calm, StopsApart, Place
    <3>2. Place(st, op) = New
      BY <2>1, <3>1 DEF Place
    <3>3. p.runs[New] \in {op.run, NoRun}
      BY <3>2 DEF Calm, StopsApart
    <3> QED BY <2>1, <3>3, RunFacts
  <2>12. Typed(b, q, after, o)
    BY <1>1, <1>3, <2>6 DEF Typed
  <2>13. Filed(b, after)
    BY <1>2, <1>3 DEF Calm, Filed, s
  <2>14. NewcomersApart(b, q, after, o)
    <3> SUFFICES ASSUME NEW r \in Sessions, Awaited(b, after, o, r) PROVE Untouched(q, o, r)
      BY DEF NewcomersApart
    <3>1. Awaited(b, st, o, r) /\ r # s
      <4>1. b.sessions[s] # "free"
        BY <1>1, <1>2, <1>5 DEF Calm, Filed, s
      <4>2. ASSUME NEW u \in Traces, after[u].key = New PROVE u # t /\ st[u].key = New
        BY <1>2, <1>3, <4>2
      <4>3. ASSUME NEW u \in Traces, after[u].key = New, after[u].state = "open" PROVE FALSE
        BY <1>3, <2>9, <4>2, <4>3
      <4>4. ASSUME NEW u \in Traces, after[u].key = New, NEW op \in o, op.kind = "stop",
                   op.key = New, op.run.trace = u
            PROVE  FALSE
        BY <2>11, <4>2, <4>4 DEF IsStop
      <4> QED BY <4>1, <4>3, <4>4 DEF Awaited
    <3>2. Untouched(p, o, r) /\ r # New /\ r \in Keys
      BY <1>1, <3>1, TypedFacts DEF Calm, NewcomersApart
    <3> QED BY <2>7, <3>1, <3>2 DEF Untouched
  <2>15. StreamsShown(q, after)
    BY <1>1, <1>2, <1>3, <2>7, <2>9, <2>10, TypedFacts DEF Calm, StreamsShown
  <2>16. RunsFed(b, q, after, o)
    <3> SUFFICES ASSUME NEW k \in Keys
                 PROVE  /\ q.chats[k].activeRun = q.runs[k]
                        /\ q.runs[k].direct => LET u == q.runs[k].trace
                                               IN  u \in Traces /\ after[u].state = "open" /\ after[u].key = k
                        /\ q.runs[k] # NoRun /\ ~q.runs[k].direct =>
                             /\ k \in Sessions /\ q.runs[k].trace \in Traces /\ b.session[q.runs[k].trace] = k
                             /\ \/ q.recovering[k].trace # 0
                                \/ \E op \in o : op.kind \in {"recovered", "stopped"} /\ op.key = k
      BY DEF RunsFed
    <3>1. CASE k = s
      BY <1>3, <2>1, <2>7, <3>1, RunFacts
    <3>2. CASE k = New
      BY <1>2, <2>7, <2>8, <3>2, RunFacts
    <3>3. CASE k # s /\ k # New
      BY <1>3, <1>5, <2>7, <3>3 DEF Calm, RunsFed
    <3> QED BY <3>1, <3>2, <3>3
  <2>17. RecoveriesApart(q) /\ RecoveriesOpen(b, q)
    BY <1>1, <1>2, <2>3, <2>7, TypedFacts DEF Calm, RecoveriesApart, RecoveriesOpen, Untouched
  <2>18. CallsApart(q, o)
    BY <1>1, <1>2, <2>3, <2>7, TypedFacts DEF Calm, CallsApart, Untouched, DeleteKinds
  <2>19. StopsApart(q, after, o)
    <3> SUFFICES ASSUME NEW op \in o, IsStop(op)
                 PROVE  LET j == Place(after, op)
                        IN  /\ \A other \in o : other.kind = "load" => other.key # j
                            /\ q.view = j /\ q.runs[j] \in {op.run, NoRun} /\ (q.runs[j] # NoRun => q.stops[j])
                            /\ StopsRecovery(q, op, j)
                            /\ op.key = New => after[op.run.trace].state # "none"
                            /\ op.key = New /\ j # New => ~q.chats[New].there /\ q.runs[New] = NoRun
      BY DEF Calm, StopsApart
    <3>1. CASE op.key = New
      <4>1. op.run.trace = t
        BY <2>11, <3>1
      <4>2. Place(st, op) = New /\ Place(after, op) = s
        BY <1>3, <1>5, <3>1, <4>1 DEF Place
      <4>3. p.view = New /\ p.runs[New] = op.run /\ p.stops[New]
        BY <2>1, <4>2 DEF Calm, StopsApart
      <4>4. \A other \in o : other.kind = "load" => other.key # s
        BY <2>3 DEF Untouched, DeleteKinds
      <4>5. StopsRecovery(q, op, s)
        BY <2>3, <2>7 DEF StopsRecovery, Untouched
      <4> QED BY <1>3, <1>5, <2>1, <2>7, <4>1, <4>2, <4>3, <4>4, <4>5
    <3>2. CASE op.key # New
      <4>1. Place(st, op) = op.key /\ Place(after, op) = op.key /\ op.key \in Keys
        BY <1>1, <3>2, TypedFacts DEF Place
      <4>2. op.key # s
        BY <2>3 DEF Untouched, IsStop, DeleteKinds
      <4>3. StopsRecovery(q, op, op.key)
        BY <2>7, <4>1 DEF Calm, StopsApart, StopsRecovery
      <4> QED BY <1>1, <2>7, <3>2, <4>1, <4>2, <4>3 DEF Calm, StopsApart
    <3> QED BY <3>1, <3>2
  <2>20. TurnsApart(b, q, after)
    <3>1. ASSUME NEW u \in p.chats[New].turns PROVE b.session[u] = s \/ after[u].state = "lost"
      <4>1. u \in Traces
        BY <1>1, TypedFacts
      <4> QED BY <1>3, <2>9, <4>1 DEF Calm, TurnsApart, Opening, s
    <3>2. ASSUME NEW r \in Sessions, r # s, NEW u \in p.chats[r].turns
          PROVE  b.session[u] = r \/ after[u].state = "lost"
      <4>1. u \in Traces
        BY <1>1, TypedFacts
      <4> QED BY <1>3, <4>1 DEF Calm, TurnsApart
    <3> QED BY <1>1, <2>7, <2>8, <3>1, <3>2, TypedFacts DEF TurnsApart
  <2>21. ViewUnmarked(q)
    BY <2>3, <2>7 DEF Calm, ViewUnmarked, Untouched
  <2>22. Calm(b, q, after, o)
    BY <2>12, <2>13, <2>14, <2>15, <2>16, <2>17, <2>18, <2>19, <2>20, <2>21 DEF Calm
  <2> QED BY <1>2, <2>22 DEF q, s
<1> QED BY <1>2, <1>4, <1>5

\* A turn that ended in the background marks its session.
LEMMA MarkKeeps ==
  ASSUME NEW p, NEW st, NEW o, Calm(bridge, p, st, o), NEW t \in Traces, NEW terminal,
         bridge.session[t] \in Sessions, st[t].state = "open", st[t].key = bridge.session[t]
  PROVE  Calm(bridge, MarkCompleted(p, t, terminal), st, o)
<1> DEFINE s == bridge.session[t]
           q == MarkCompleted(p, t, terminal)
<1>1. Typed(bridge, p, st, o) /\ Sound(p) /\ p \in Page
  BY DEF Calm, Typed, Sound
<1>2. Sound(q)
  <2>1. p.background \cup {s} \in SUBSET Keys
    BY <1>1, TypedFacts DEF Page
  <2>2. \A r : r = [p EXCEPT !.background = @ \cup {s}] => Sound(r)
    BY <1>1, <2>1 DEF Sound, Agrees, Page
  <2> QED BY <1>1, <2>2 DEF MarkCompleted
<1>3. /\ q.view = p.view /\ q.chats = p.chats /\ q.runs = p.runs /\ q.stops = p.stops
      /\ q.recovering = p.recovering
      /\ q.background \subseteq p.background \cup {s}
      /\ p.view = s => q.background = p.background
  BY <1>1 DEF MarkCompleted, Page
<1>4. ~Awaited(bridge, st, o, s)
  BY RunFacts DEF Calm, StreamsShown, NewcomersApart, Untouched
<1> HIDE DEF q
<1>5. Typed(bridge, q, st, o)
  BY <1>1, <1>2 DEF Typed
<1>6. NewcomersApart(bridge, q, st, o)
  BY <1>3, <1>4 DEF Calm, NewcomersApart, Untouched
<1>7. /\ StreamsShown(q, st) /\ RunsFed(bridge, q, st, o) /\ RecoveriesApart(q)
      /\ RecoveriesOpen(bridge, q) /\ CallsApart(q, o)
  BY <1>3 DEF Calm, StreamsShown, RunsFed, RecoveriesApart, RecoveriesOpen, CallsApart
<1>8. StopsApart(q, st, o) /\ TurnsApart(bridge, q, st)
  BY <1>3 DEF Calm, StopsApart, StopsRecovery, TurnsApart
<1>9. ViewUnmarked(q)
  BY <1>3 DEF Calm, ViewUnmarked
<1> QED BY <1>5, <1>6, <1>7, <1>8, <1>9 DEF Calm, q

\* Another chat comes into view.
LEMMA ViewKeeps ==
  ASSUME NEW b, NEW p, NEW st, NEW o, Calm(b, p, st, o), NoStops(o),
         NEW q, Sound(q), q.chats = p.chats, q.runs = p.runs, q.stops = p.stops,
           q.recovering = p.recovering,
         q.view \in Sessions => ~Awaited(b, st, o, q.view),
         q.background \subseteq p.background, q.view \notin q.background
  PROVE  Calm(b, q, st, o)
<1>1. Typed(b, q, st, o)
  BY DEF Calm, Typed
<1>2. NewcomersApart(b, q, st, o)
  BY DEF Calm, NewcomersApart, Untouched
<1>3. /\ StreamsShown(q, st) /\ RunsFed(b, q, st, o) /\ RecoveriesApart(q)
      /\ RecoveriesOpen(b, q) /\ CallsApart(q, o)
  BY DEF Calm, StreamsShown, RunsFed, RecoveriesApart, RecoveriesOpen, CallsApart
<1>4. StopsApart(q, st, o) /\ TurnsApart(b, q, st)
  BY DEF Calm, StopsApart, NoStops, TurnsApart
<1>5. ViewUnmarked(q)
  BY DEF Calm, ViewUnmarked
<1> QED BY <1>1, <1>2, <1>3, <1>4, <1>5 DEF Calm

\* A recovered turn is shown in a chat that shows no run.
LEMMA RecoverKeeps ==
  ASSUME NEW b, NEW p, NEW st, NEW o, Calm(b, p, st, o), NEW s \in Sessions, NEW t \in Traces,
         Recoverable(b, s, t), p.runs[s] = NoRun, ~Awaited(b, st, o, s),
         \A op \in o : op.kind = "load" => op.key # s,
         \A op \in o : IsStop(op) => Place(st, op) # s,
         NEW q, Sound(q), Elsewhere(p, q, s), q.runs[s] = RecoveredRun(t),
           q.chats[s].activeRun = q.runs[s],
         q.chats[s].turns = p.chats[s].turns, q.recovering[s].trace = t
  PROVE  Calm(b, q, st, o)
<1>1. Typed(b, p, st, o) /\ Typed(b, q, st, o) /\ s \in Keys /\ s # New /\ t # 0
  <2>1. Typed(b, p, st, o) /\ Typed(b, q, st, o)
    BY DEF Calm, Typed
  <2>2. t # 0
    BY BoundsAssumption DEF Traces
  <2> QED BY <2>1, <2>2, TypedFacts
<1>2. RecoveredRun(t).direct = FALSE /\ RecoveredRun(t).trace = t
  BY RunFacts
<1>3. NewcomersApart(b, q, st, o)
  BY <1>1, TypedFacts DEF Calm, NewcomersApart, Untouched, Elsewhere
<1>4. StreamsShown(q, st)
  BY <1>1, TypedFacts, RunFacts DEF Calm, StreamsShown, Elsewhere
<1>5. RunsFed(b, q, st, o)
  BY <1>1, <1>2, TypedFacts DEF Calm, RunsFed, Elsewhere, Recoverable
<1>6. RecoveriesApart(q) /\ RecoveriesOpen(b, q)
  BY <1>1, <1>2, TypedFacts DEF Calm, RecoveriesApart, RecoveriesOpen, Elsewhere
<1>7. CallsApart(q, o)
  BY <1>1, <1>2, TypedFacts DEF Calm, CallsApart, Elsewhere
<1>8. StopsApart(q, st, o)
  BY <1>1, TypedFacts, PlaceIsKey DEF Calm, StopsApart, StopsRecovery, Elsewhere
<1>9. TurnsApart(b, q, st)
  BY <1>1, TypedFacts DEF Calm, TurnsApart, Elsewhere
<1>10. ViewUnmarked(q)
  BY DEF Calm, ViewUnmarked, Elsewhere
<1> QED BY <1>1, <1>3, <1>4, <1>5, <1>6, <1>7, <1>8, <1>9, <1>10 DEF Calm

\* The page opens a stream for a turn it sent.
LEMMA OpenKeeps ==
  ASSUME NEW b, NEW p, NEW st, NEW o, Calm(b, p, st, o), NEW k \in Keys, NEW t \in Traces,
         st[t].state = "none", b.turn[t] # "none", b.session[t] \in Sessions, p.runs[k] = NoRun,
         \A op \in o : op.key \in {k, New} => op.kind = "sync",
         NoStops(o),
         k = New => b.turn[t] # "refused" /\ Untouched(p, o, b.session[t]),
         k # New => b.session[t] = k /\ p.recovering[k].trace = 0 /\ ~Awaited(b, st, o, k),
         NEW q, Sound(q), Elsewhere(p, q, k), q.background = p.background,
           q.recovering = p.recovering,
         q.runs[k] = DirectRun(t), q.chats[k].activeRun = q.runs[k],
         \A u \in q.chats[k].turns : u = t \/ u \in p.chats[k].turns,
         NEW after, after \in StreamsType, after[t].state = "open", after[t].key = k,
         \A u \in Traces : u # t => after[u] = st[u]
  PROVE  Calm(b, q, after, o)
<1>1. Typed(b, p, st, o) /\ Typed(b, q, after, o)
  BY DEF Calm, Typed
<1>2. DirectRun(t).direct = TRUE /\ DirectRun(t).trace = t /\ DirectRun(t) # NoRun
  BY RunFacts
<1>3. /\ q.view = p.view /\ q.background = p.background /\ q.recovering = p.recovering
      /\ \A j \in Keys : j # k => q.chats[j] = p.chats[j] /\ q.runs[j] = p.runs[j] /\ q.stops[j] = p.stops[j]
      /\ q.runs[k] = DirectRun(t) /\ q.chats[k].activeRun = q.runs[k]
  BY DEF Elsewhere
<1>4. \A u \in Traces : st[u].state = "open" => st[u].key # k
  BY RunFacts DEF Calm, StreamsShown
<1>5. Filed(b, after)
  <2> SUFFICES ASSUME NEW u \in Traces
               PROVE  /\ b.turn[u] = "none" => b.session[u] = New /\ after[u].state = "none"
                      /\ b.turn[u] # "none" => b.session[u] \in Sessions /\ b.sessions[b.session[u]] # "free"
                      /\ after[u].state # "none" => after[u].key \in {New, b.session[u]}
                      /\ after[u].state # "none" /\ after[u].key = New => b.turn[u] # "refused"
    BY DEF Filed
  <2>1. CASE u = t
    BY <2>1 DEF Calm, Filed
  <2>2. CASE u # t
    BY <2>2 DEF Calm, Filed
  <2> QED BY <2>1, <2>2
<1>6. NewcomersApart(b, q, after, o)
  <2> SUFFICES ASSUME NEW r \in Sessions, Awaited(b, after, o, r) PROVE Untouched(q, o, r)
    BY DEF NewcomersApart
  <2>1. Awaited(b, st, o, r) \/ (k = New /\ r = b.session[t])
    BY DEF Awaited, NoStops, IsStop
  <2>2. Untouched(p, o, r) /\ r # k /\ r \in Keys
    BY <1>1, <2>1, TypedFacts DEF Calm, NewcomersApart
  <2> QED BY <1>3, <2>2 DEF Untouched
<1>7. StreamsShown(q, after)
  BY <1>1, <1>3, <1>4, TypedFacts DEF Calm, StreamsShown
<1>8. RunsFed(b, q, after, o)
  <2> SUFFICES ASSUME NEW j \in Keys
               PROVE  /\ q.chats[j].activeRun = q.runs[j]
                      /\ q.runs[j].direct => LET u == q.runs[j].trace
                                             IN  u \in Traces /\ after[u].state = "open" /\ after[u].key = j
                      /\ q.runs[j] # NoRun /\ ~q.runs[j].direct =>
                           /\ j \in Sessions /\ q.runs[j].trace \in Traces /\ b.session[q.runs[j].trace] = j
                           /\ \/ q.recovering[j].trace # 0
                              \/ \E op \in o : op.kind \in {"recovered", "stopped"} /\ op.key = j
    BY DEF RunsFed
  <2>1. CASE j = k
    BY <1>2, <1>3, <2>1
  <2>2. CASE j # k
    BY <1>3, <2>2 DEF Calm, RunsFed
  <2> QED BY <2>1, <2>2
<1>9. RecoveriesApart(q) /\ RecoveriesOpen(b, q)
  BY <1>1, <1>3, TypedFacts DEF Calm, RecoveriesApart, RecoveriesOpen
<1>10. CallsApart(q, o)
  BY <1>1, <1>3, TypedFacts DEF Calm, CallsApart
<1>11. StopsApart(q, after, o)
  BY DEF StopsApart, NoStops
<1>12. TurnsApart(b, q, after)
  <2>1. ASSUME NEW u \in p.chats[New].turns PROVE after[u].state = "lost" \/ Opening(after, u)
    <3>1. u \in Traces
      BY <1>1, TypedFacts
    <3> QED BY <3>1 DEF Calm, TurnsApart, Opening
  <2>2. ASSUME NEW s \in Sessions, NEW u \in p.chats[s].turns
        PROVE  b.session[u] = s \/ after[u].state = "lost"
    <3>1. u \in Traces
      BY <1>1, TypedFacts
    <3> QED BY <3>1 DEF Calm, TurnsApart
  <2> QED BY <1>1, <1>3, <2>1, <2>2, TypedFacts DEF TurnsApart, Opening
<1>13. ViewUnmarked(q)
  BY <1>3 DEF Calm, ViewUnmarked
<1> QED BY <1>1, <1>5, <1>6, <1>7, <1>8, <1>9, <1>10, <1>11, <1>12, <1>13 DEF Calm

\* The operators that visits, recoveries and loads compose.
LEMMA StopRecoveredKeeps ==
  ASSUME NEW b, NEW p, NEW st, NEW o, Calm(b, p, st, o), NEW s \in Sessions,
         p.runs[s] = NoRun \/ \E op \in o : op.kind \in {"recovered", "stopped"} /\ op.key = s,
         NEW q, q = StopRecoveredRun(p, s)
  PROVE  /\ Calm(b, q, st, o)
         /\ q.view = p.view /\ q.chats = p.chats /\ q.runs = p.runs /\ q.stops = p.stops
         /\ q.background = p.background
<1>1. Typed(b, p, st, o) /\ Sound(p) /\ p \in Page /\ s \in Keys /\ s # New
  <2>1. Typed(b, p, st, o) /\ Sound(p) /\ p \in Page
    BY DEF Calm, Typed, Sound
  <2> QED BY <2>1, TypedFacts
<1>2. Sound(q)
  BY <1>1, StopRecoveredIsSound
<1>3. /\ q.view = p.view /\ q.chats = p.chats /\ q.runs = p.runs /\ q.stops = p.stops
      /\ q.background = p.background /\ q.recovering = [p.recovering EXCEPT ![s] = NotRecovering]
  BY <1>1 DEF StopRecoveredRun, Page
<1>4. q.recovering[s] = NotRecovering /\ \A r \in Sessions : r # s => q.recovering[r] = p.recovering[r]
  BY <1>1, <1>3 DEF Page
<1>5. Elsewhere(p, q, s) /\ RunSurvives(p, q, o, s)
  BY <1>3, <1>4 DEF Elsewhere, RunSurvives
<1>6. RecoverySurvives(p, q, o, s)
  BY <1>3, <1>4 DEF RecoverySurvives, NotRecovering
<1>7. q.chats[s].activeRun = q.runs[s] /\ TurnsBelong(b, p, q, s)
  BY <1>1, <1>3 DEF Calm, RunsFed, TurnsBelong
<1> QED BY <1>1, <1>2, <1>3, <1>5, <1>6, <1>7, ChangesKeep

LEMMA TurnsReplaced ==
  ASSUME NEW p, Sound(p), NEW k \in Keys, NEW turns \in SUBSET Traces,
         NEW q, q = [p EXCEPT !.chats[k].turns = turns]
  PROVE  Sound(q) /\ Becomes(p, q, k, p.runs[k], p.stops[k], turns)
<1>1. PICK old \in Chat : old = p.chats[k]
  BY ChatOf
<1> DEFINE c == [old EXCEPT !.turns = turns]
<1>2. /\ c \in Chat /\ c.turns = turns /\ c.there = old.there
      /\ c.loading = old.loading /\ c.activeRun = old.activeRun
  BY DEF Chat
<1>3. q = Put(p, k, c, p.runs[k], p.stops[k])
  BY <1>1 DEF Put, Sound, Page
<1> HIDE DEF c
<1>4. Sound(Put(p, k, c, p.runs[k], p.stops[k]))
  BY <1>1, <1>2, PutIsSound, ChatOf
<1>5. Becomes(p, Put(p, k, c, p.runs[k], p.stops[k]), k, p.runs[k], p.stops[k], c.turns)
  BY <1>1, <1>2, PutBecomes DEF Sound
<1> QED BY <1>2, <1>3, <1>4, <1>5

LEMMA TurnsReplacedKeeps ==
  ASSUME NEW p, NEW st, NEW o, Calm(bridge, p, st, o), NEW s \in Sessions,
         NEW turns, turns = TurnsOf(s) \/ turns = p.chats[s].turns \cup TurnsOf(s),
         NEW q, q = [p EXCEPT !.chats[s].turns = turns]
  PROVE  Calm(bridge, q, st, o) /\ Becomes(p, q, s, p.runs[s], p.stops[s], turns)
<1>1. Typed(bridge, p, st, o) /\ Sound(p)
  BY DEF Calm, Typed
<1>2. s \in Keys /\ s # New /\ turns \in SUBSET Traces
  BY <1>1, TypedFacts, TurnsAreTurns
<1>3. Sound(q) /\ Becomes(p, q, s, p.runs[s], p.stops[s], turns)
  BY <1>1, <1>2, TurnsReplaced
<1>4. q.chats[s].turns = turns /\ q.stops[s] = p.stops[s]
  BY <1>3 DEF Becomes
<1>5. \A t \in TurnsOf(s) : bridge.session[t] = s
  BY DEF TurnsOf
<1>6. TurnsBelong(bridge, p, q, s)
  BY <1>2, <1>4, <1>5 DEF TurnsBelong
<1> QED BY <1>2, <1>3, <1>4, <1>6, BecomesKeeps

LEMMA HydrateDraftKeeps ==
  ASSUME NEW b, NEW p, NEW st, NEW o, Calm(b, p, st, o), NEW s \in Sessions,
         NEW q, q = HydrateTurnDraft(p, s)
  PROVE  Calm(b, q, st, o) /\ Becomes(p, q, s, p.runs[s], p.stops[s], p.chats[s].turns)
<1>1. Typed(b, p, st, o) /\ Sound(p)
  BY DEF Calm, Typed
<1>2. s \in Keys /\ s # New
  BY <1>1, TypedFacts
<1>3. Sound(q) /\ Becomes(p, q, s, p.runs[s], p.stops[s], p.chats[s].turns)
  BY <1>1, <1>2, HydrateDraftIsSound
<1>4. TurnsBelong(b, p, q, s) /\ q.stops[s] = p.stops[s]
  BY <1>3 DEF Becomes, TurnsBelong
<1> QED BY <1>2, <1>3, <1>4, BecomesKeeps

LEMMA SyncedKeeps ==
  ASSUME NEW p, NEW st, NEW o, Calm(bridge, p, st, o), NEW s \in Sessions, NEW ok
  PROVE  Calm(bridge, Synced(p, s, ok), st, o)
<1> DEFINE more == [p EXCEPT !.chats[s].turns = p.chats[s].turns \cup TurnsOf(s)]
<1>1. Calm(bridge, more, st, o)
  BY TurnsReplacedKeeps
<1>2. SyncRecentHistory(p, s) = HydrateTurnDraft(more, s)
  BY DEF SyncRecentHistory
<1> HIDE DEF more
<1>3. Calm(bridge, SyncRecentHistory(p, s), st, o)
  BY <1>1, <1>2, HydrateDraftKeeps
<1> QED BY <1>3 DEF Synced

\* No stream is open where no direct run is filed.
LEMMA IdleMeansNoneOpen ==
  ASSUME NEW b, NEW p, NEW st, NEW o, Calm(b, p, st, o), NEW k, ~p.runs[k].direct
  PROVE  NoneOpenAt(st, k)
BY RunFacts DEF Calm, StreamsShown, NoneOpenAt

\* The history of a session whose chat shows no run, and its draft.
LEMMA HydrateHistoryKeeps ==
  ASSUME IInv, NEW p, NEW st, NEW o, Calm(bridge, p, st, o), NEW s \in Sessions,
         p.runs[s] = NoRun, ~Awaited(bridge, st, o, s),
         \A op \in o : op.kind = "load" => op.key # s,
         \A op \in o : IsStop(op) => Place(st, op) # s
  PROVE  Calm(bridge, HydrateSessionHistory(p, s), st, o)
<1> DEFINE loaded == [p EXCEPT !.chats[s].turns = TurnsOf(s)]
           stopped == StopRecoveredRun(loaded, s)
           drafted == HydrateTurnDraft(stopped, s)
           idle == EndRun(drafted, s)
           run == RecoveredRun(LastTurn(s))
           shown == SetActiveRun(SetLoading(idle, s, TRUE), s, run)
           recovering == [trace |-> LastTurn(s), live |-> FALSE, before |-> {}]
<1>1. s \in Keys /\ s # New
  BY TypedFacts DEF Calm
<1>2. Calm(bridge, loaded, st, o) /\ loaded.runs[s] = NoRun
  <2>1. Calm(bridge, loaded, st, o) /\ Becomes(p, loaded, s, p.runs[s], p.stops[s], TurnsOf(s))
    BY TurnsReplacedKeeps
  <2> HIDE DEF loaded
  <2> QED BY <2>1 DEF Becomes
<1> HIDE DEF loaded
<1>3. Calm(bridge, stopped, st, o) /\ stopped.runs[s] = NoRun
  BY <1>2, StopRecoveredKeeps
<1> HIDE DEF stopped
<1>4. Calm(bridge, drafted, st, o) /\ drafted.runs[s] = NoRun
  BY <1>3, HydrateDraftKeeps DEF Becomes
<1> HIDE DEF drafted
<1>5. Calm(bridge, idle, st, o)
  BY <1>1, <1>4, RunFacts, IdleMeansNoneOpen, EndKeeps
<1>6. idle.runs[s] = NoRun
  BY <1>1, <1>4, EndRunIsSound DEF Becomes, Calm, Typed
<1> HIDE DEF idle
<1>7. HydrateSessionHistory(p, s) =
        IF LastState(s) # "running" THEN idle ELSE [shown EXCEPT !.recovering[s] = recovering]
  BY RunFacts DEF HydrateSessionHistory, RecoverTurnDraft, idle, drafted, stopped, loaded
<1>8. CASE LastState(s) # "running"
  BY <1>5, <1>7, <1>8
<1>9. CASE LastState(s) = "running"
  <2>1. LastTurn(s) \in Traces /\ Recoverable(bridge, s, LastTurn(s))
    <3>1. TurnsOf(s) # {} /\ TurnsOf(s) \subseteq 1..MaxTurns
      BY <1>9 DEF LastState, TurnsOf, Traces
    <3>2. Max(TurnsOf(s)) \in TurnsOf(s)
      BY <3>1, MaxIsMember, BoundsAssumption
    <3> QED BY <1>9, <3>1, <3>2 DEF LastTurn, LastState, TurnsOf, Recoverable
  <2>2. run \in Run /\ run # NoRun
    BY <2>1, RunsAreTyped
  <2>3. Sound(idle) /\ idle.chats[s].activeRun = idle.runs[s]
    BY <1>1, <1>5 DEF Calm, Typed, RunsFed
  <2>4. Sound(shown) /\ Becomes(idle, shown, s, run, idle.stops[s], idle.chats[s].turns)
    BY <1>1, <2>2, <2>3, ShowsRunIsSound
  <2> HIDE DEF shown, run
  <2> DEFINE q == [shown EXCEPT !.recovering[s] = recovering]
  <2>5. recovering \in [trace: 0..MaxTurns, live: BOOLEAN, before: SUBSET Traces]
    BY <2>1, BoundsAssumption DEF Traces
  <2>6. Sound(q)
    BY <2>4, <2>5, RecoveringIsApart
  <2>7. /\ shown.view = idle.view /\ shown.background = idle.background
        /\ shown.recovering = idle.recovering
        /\ \A j \in Keys : j # s => /\ shown.chats[j] = idle.chats[j] /\ shown.runs[j] = idle.runs[j]
                                    /\ shown.stops[j] = idle.stops[j]
        /\ shown.runs[s] = run /\ shown.chats[s].turns = idle.chats[s].turns
        /\ shown.chats[s].activeRun = run /\ shown \in Page
    BY <2>3, <2>4 DEF Becomes, Elsewhere, Sound
  <2>8. /\ q.view = shown.view /\ q.background = shown.background /\ q.chats = shown.chats
        /\ q.runs = shown.runs /\ q.stops = shown.stops
        /\ q.recovering = [shown.recovering EXCEPT ![s] = recovering]
        /\ shown.recovering \in [Sessions -> [trace: 0..MaxTurns, live: BOOLEAN, before: SUBSET Traces]]
    BY <2>7 DEF Page
  <2>9. q.recovering[s].trace = LastTurn(s) /\ \A r \in Sessions : r # s => q.recovering[r] = idle.recovering[r]
    BY <2>7, <2>8
  <2> HIDE DEF q
  <2>10. Elsewhere(idle, q, s)
    BY <2>7, <2>8, <2>9 DEF Elsewhere
  <2>11. Calm(bridge, q, st, o)
    BY <1>5, <1>6, <2>1, <2>6, <2>7, <2>8, <2>9, <2>10, RecoverKeeps DEF run
  <2> QED BY <1>7, <1>9, <2>11 DEF q
<1> QED BY <1>8, <1>9

-----------------------------------------------------------------------------
(* The actions.                                                            *)

\* Calm, of the state.
Now == Calm(bridge, page, streams, ops)

LEMMA CalmFacts ==
  ASSUME IInv, Now
  PROVE  /\ Typed(bridge, page, streams, ops) /\ Sound(page)
         /\ New \in Keys /\ Sessions \subseteq Keys /\ New \notin Sessions /\ page.view \in Keys
         /\ \A k \in Keys : ~page.chats[k].loading => page.runs[k] = NoRun
         /\ \A k \in Keys : k # New => k \in Sessions
         /\ page.view \in Sessions => ~Awaited(bridge, streams, ops, page.view)
<1>1. Typed(bridge, page, streams, ops) /\ Sound(page)
  BY DEF Now, Calm, Typed
<1>2. \A k \in Keys : ~page.chats[k].loading => page.runs[k] = NoRun
  BY <1>1, ChatOf DEF Now, Calm, RunsFed
<1>3. page.view \in Sessions => ~Awaited(bridge, streams, ops, page.view)
  BY DEF Now, Calm, NewcomersApart, Untouched
<1> QED BY <1>1, <1>2, <1>3, TypedFacts

\* A user who waits clicks while no stop is on its way.
LEMMA NoStopBesides ==
  ASSUME IInv, Now, \A op \in ops : op.key \in {page.view, New} => op.kind = "sync"
  PROVE  NoStops(ops)
<1> SUFFICES ASSUME NEW op \in ops, IsStop(op) PROVE FALSE
  BY DEF NoStops
<1>1. op.key # New
  BY DEF IsStop
<1>2. page.view = op.key
  BY <1>1 DEF Now, Calm, StopsApart, Place
<1> QED BY <1>2 DEF IsStop

\* Clicks and the bridge.
LEMMA CalmSend == ASSUME IInv, Now, ~hasty', Send PROVE Now'
<1> DEFINE t == NextTrace
           k == page.view
           s == IF k = New THEN CHOOSE fresh \in Fresh : TRUE ELSE k
<1>1. t \in Traces /\ k \in Keys /\ s \in Sessions
  BY CalmFacts DEF Send, Fresh
<1>2. bridge' \in BridgeType /\ Sound(page') /\ streams' \in StreamsType
  BY SendKeeps DEF IInv, TypeOK, BridgeType, StreamsType, Sound, Agrees
<1>3. PICK state \in {"running", "refused"} : BridgeTakes(t, s, state) /\ (k = New => state = "running")
  BY DEF Send, Accepted
<1>4. /\ ~Unsettled(k) /\ page.runs[k] = NoRun /\ ops' = ops
      /\ OpenStream(t, k, TRUE) /\ page' = BeginRun(page, k, t)
  BY <1>1, CalmFacts DEF Send
<1>5. \A op \in ops : op.key \in {k, New} => op.kind = "sync"
  BY <1>4 DEF Unsettled
<1>6. NoStops(ops)
  BY <1>5, NoStopBesides
<1>7. bridge \in BridgeType /\ bridge.sessions \in [Sessions -> {"free", "live", "gone"}]
      /\ bridge.turn \in [Traces -> {"none", "running", "asked", "answered", "done", "stopped", "refused"}]
      /\ bridge.session \in [Traces -> Keys]
  BY DEF Now, Calm, Typed, BridgeType
<1>8. k = New => bridge.sessions[s] = "free"
  BY <1>1 DEF Send, Fresh
<1>9. k = New => Untouched(page, ops, s)
  BY <1>1, <1>8 DEF Now, Calm, NewcomersApart, Awaited
<1> HIDE DEF s, k
<1>10. /\ bridge'.session = [bridge.session EXCEPT ![t] = s]
       /\ bridge'.sessions = [bridge.sessions EXCEPT
                               ![s] = IF bridge.sessions[s] = "free" THEN "live" ELSE bridge.sessions[s]]
       /\ bridge'.turn = [bridge.turn EXCEPT ![t] = state]
  BY <1>3, <1>7 DEF BridgeTakes
<1> HIDE DEF t
<1>11. /\ bridge'.session[t] = s /\ bridge'.sessions[s] # "free"
       /\ \A r \in Sessions : r # s => bridge'.sessions[r] = bridge.sessions[r]
       /\ bridge'.turn[t] = state /\ state # "none"
       /\ \A u \in Traces : u # t => bridge'.turn[u] = bridge.turn[u]
  BY <1>1, <1>3, <1>7, <1>10
<1>12. Calm(bridge', page, streams, ops)
  <2>1. bridge'.turn[t] # "none" /\ bridge'.sessions[s] # "free"
    BY <1>11
  <2>2. bridge'.session = [bridge.session EXCEPT ![t] = s]
    BY <1>10
  <2>3. \A r \in Sessions : r # s => bridge'.sessions[r] = bridge.sessions[r]
    BY <1>11
  <2>4. \A u \in Traces : u # t => /\ bridge'.turn[u] = "none" <=> bridge.turn[u] = "none"
                                   /\ bridge'.turn[u] = "refused" => bridge.turn[u] = "refused"
                                   /\ bridge'.turn[u] = bridge.turn[u]
    BY <1>11
  <2> QED BY <1>1, <1>2, <2>1, <2>2, <2>3, <2>4, TurnKeeps DEF Now, t
<1>13. streams[t].state = "none"
  BY <1>1, NextTraceIsNew DEF Now, Calm, Filed, t
<1>14. /\ streams'[t].state = "open" /\ streams'[t].key = k
       /\ \A u \in Traces : u # t => streams'[u] = streams[u]
  <2>1. streams \in StreamsType
    BY DEF Now, Calm, Typed
  <2> QED BY <1>1, <1>4, <2>1 DEF OpenStream, StreamsType
<1>15. /\ Elsewhere(page, page', k) /\ page'.background = page.background
       /\ page'.recovering = page.recovering /\ page'.runs[k] = DirectRun(t)
       /\ page'.chats[k].activeRun = page'.runs[k]
       /\ \A u \in page'.chats[k].turns : u = t \/ u \in page.chats[k].turns
  <2>1. page.chats[k].activeRun = page.runs[k]
    BY <1>1 DEF Now, Calm, RunsFed
  <2>2. Becomes(page, page', k, DirectRun(t), FALSE, page.chats[k].turns \cup {t})
    BY <1>1, <1>4, CalmFacts, BeginRunIsSound
  <2> QED BY <2>1, <2>2 DEF Becomes
<1>16. k # New => s = k /\ page.recovering[k].trace = 0 /\ ~Awaited(bridge', streams, ops, k)
  <2>1. k # New => s = k /\ k \in Sessions
    BY <1>1, CalmFacts DEF s
  <2>2. k # New => ~Awaited(bridge', streams, ops, k)
    BY <1>12, <2>1 DEF Calm, NewcomersApart, Untouched, k
  <2> QED BY <1>4, <2>1, <2>2 DEF Unsettled
<1>17. Calm(bridge', page', streams', ops)
  BY <1>1, <1>2, <1>3, <1>4, <1>5, <1>6, <1>9, <1>11, <1>12, <1>13, <1>14, <1>15, <1>16, OpenKeeps
<1> QED BY <1>4, <1>17 DEF Now

LEMMA CalmAnswer == ASSUME IInv, Now, ~hasty', Answer PROVE Now'
<1> DEFINE t == NextTrace
           k == page.view
           begun == BeginRun(page, k, t)
<1>1. t \in Traces /\ k \in Keys /\ k \in Sessions /\ k # New
  BY CalmFacts DEF Answer
<1>2. bridge' \in BridgeType /\ Sound(page') /\ streams' \in StreamsType
  BY AnswerKeeps DEF IInv, TypeOK, BridgeType, StreamsType, Sound, Agrees
<1>3. ~Unsettled(k) /\ page.runs[k] = NoRun /\ ops' = ops /\ OpenStream(t, k, FALSE)
      /\ page' = [begun EXCEPT !.chats[k].asked = FALSE]
  BY <1>1, CalmFacts DEF Answer
<1>4. \A op \in ops : op.key \in {k, New} => op.kind = "sync"
  BY <1>3 DEF Unsettled
<1>5. NoStops(ops)
  BY <1>4, NoStopBesides
<1>6. bridge.turn \in [Traces -> {"none", "running", "asked", "answered", "done", "stopped", "refused"}]
      /\ bridge.session \in [Traces -> Keys] /\ bridge.turn[t] = "none"
  BY NextTraceIsNew, <1>1 DEF Now, Calm, Typed, BridgeType
<1>7. /\ bridge'.session = [bridge.session EXCEPT ![t] = k] /\ bridge'.sessions = bridge.sessions
      /\ bridge'.turn = [u \in Traces |-> IF u = t THEN IF LastState(k) = "asked" THEN "running" ELSE "refused"
                                          ELSE IF u = LastTurn(k) /\ bridge.turn[u] = "asked" THEN "answered"
                                          ELSE bridge.turn[u]]
  <2>1. bridge \in BridgeType
    BY DEF Now, Calm, Typed
  <2> QED BY <2>1 DEF Answer, BridgeType
<1>8. page.chats[k].asked /\ bridge.sessions[k] # "free"
  BY <1>1, CalmFacts DEF Answer, Awaited
<1> HIDE DEF k, t
<1>9. /\ bridge'.session[t] = k /\ bridge'.turn[t] # "none"
      /\ \A u \in Traces : u # t => /\ bridge'.turn[u] = "none" <=> bridge.turn[u] = "none"
                                    /\ bridge'.turn[u] = "refused" => bridge.turn[u] = "refused"
                                    /\ \/ bridge'.turn[u] = bridge.turn[u]
                                       \/ bridge.turn[u] = "asked" /\ bridge'.turn[u] = "answered"
  BY <1>1, <1>6, <1>7
<1>10. Calm(bridge', page, streams, ops)
  BY <1>1, <1>2, <1>7, <1>8, <1>9, TurnKeeps DEF Now, t
<1>11. streams[t].state = "none"
  BY <1>1, NextTraceIsNew DEF Now, Calm, Filed, t
<1>12. /\ streams'[t].state = "open" /\ streams'[t].key = k
       /\ \A u \in Traces : u # t => streams'[u] = streams[u]
  <2>1. streams \in StreamsType
    BY DEF Now, Calm, Typed
  <2> QED BY <1>1, <1>3, <2>1 DEF OpenStream, StreamsType
<1>13. Sound(begun) /\ Becomes(page, begun, k, DirectRun(t), FALSE, page.chats[k].turns \cup {t})
  BY <1>1, CalmFacts, BeginRunIsSound
<1> HIDE DEF begun
<1>14. Becomes(begun, page', k, begun.runs[k], begun.stops[k], begun.chats[k].turns)
  BY <1>1, <1>3, <1>13, AskedIsApart
<1>15. /\ Elsewhere(page, page', k) /\ page'.background = page.background
       /\ page'.recovering = page.recovering /\ page'.runs[k] = DirectRun(t)
       /\ page'.chats[k].activeRun = page'.runs[k]
       /\ \A u \in page'.chats[k].turns : u = t \/ u \in page.chats[k].turns
  <2>1. page.chats[k].activeRun = page.runs[k]
    BY <1>1 DEF Now, Calm, RunsFed
  <2>2. begun.chats[k].activeRun = DirectRun(t) /\ begun.runs[k] = DirectRun(t)
    BY <1>13, <2>1 DEF Becomes
  <2>3. page'.chats[k].activeRun = DirectRun(t) /\ page'.runs[k] = DirectRun(t)
    BY <1>14, <2>2 DEF Becomes
  <2>4. page'.chats[k].turns = page.chats[k].turns \cup {t}
    BY <1>13, <1>14 DEF Becomes
  <2>5. /\ Elsewhere(page, page', k) /\ page'.background = page.background
        /\ page'.recovering = page.recovering
    BY <1>13, <1>14 DEF Becomes, Elsewhere
  <2> QED BY <2>3, <2>4, <2>5
<1>16. page.recovering[k].trace = 0 /\ ~Awaited(bridge', streams, ops, k)
  <2>1. ~Awaited(bridge', streams, ops, k)
    BY <1>1, <1>10 DEF Calm, NewcomersApart, Untouched, k
  <2> QED BY <1>1, <1>3, <2>1 DEF Unsettled
<1>17. Calm(bridge', page', streams', ops)
  <2>1. bridge'.session[t] = k /\ bridge'.session[t] \in Sessions /\ bridge'.turn[t] # "none"
    BY <1>1, <1>9
  <2>2. Sound(page') /\ streams' \in StreamsType /\ page.runs[k] = NoRun
    BY <1>2, <1>3
  <2> QED BY <1>1, <1>4, <1>5, <1>10, <1>11, <1>12, <1>15, <1>16, <2>1, <2>2, OpenKeeps
<1> QED BY <1>3, <1>17 DEF Now

LEMMA CalmOtherTurn == ASSUME IInv, Now, OtherTurn PROVE Now'
<1> DEFINE t == NextTrace
<1>1. t \in Traces /\ UNCHANGED <<page, streams, ops>>
  BY DEF OtherTurn
<1>2. PICK s \in Sessions : bridge.sessions[s] = "live" /\ BridgeTakes(t, s, "running")
  BY DEF OtherTurn
<1>3. bridge' \in BridgeType
  BY OtherTurnKeeps DEF IInv, TypeOK, BridgeType
<1>4. bridge \in BridgeType
  BY DEF Now, Calm, Typed
<1>5. /\ bridge'.session = [bridge.session EXCEPT ![t] = s]
      /\ bridge'.sessions = bridge.sessions
      /\ bridge'.turn = [bridge.turn EXCEPT ![t] = "running"]
  BY <1>2, <1>4 DEF BridgeTakes, BridgeType
<1>6. bridge'.turn[t] # "none" /\ \A u \in Traces : u # t => bridge'.turn[u] = bridge.turn[u]
  BY <1>1, <1>4, <1>5 DEF BridgeType
<1>7. Calm(bridge', page, streams, ops)
  BY <1>1, <1>2, <1>3, <1>5, <1>6, TurnKeeps DEF Now
<1> QED BY <1>1, <1>7 DEF Now

LEMMA CalmTurnEnds == ASSUME IInv, Now, NEW t \in Traces, TurnEnds(t) PROVE Now'
<1>1. bridge' \in BridgeType /\ bridge \in BridgeType
  BY TurnEndsKeeps DEF IInv, TypeOK, BridgeType
<1>2. PICK state \in {"asked", "done"} : bridge' = [bridge EXCEPT !.turn[t] = state]
  BY DEF TurnEnds
<1>3. bridge'.session = bridge.session /\ bridge'.sessions = bridge.sessions
      /\ bridge'.turn = [bridge.turn EXCEPT ![t] = state]
  BY <1>1, <1>2 DEF BridgeType
<1>4. \A u \in Traces : /\ bridge'.turn[u] = "none" <=> bridge.turn[u] = "none"
                        /\ bridge'.turn[u] = "refused" => bridge.turn[u] = "refused"
  BY <1>1, <1>2, <1>3 DEF TurnEnds, BridgeType
<1>5. RecoveriesOpen(bridge', page)
  BY <1>1, <1>2, <1>3 DEF Now, Calm, RecoveriesOpen, Recoverable, BridgeType
<1>6. Calm(bridge', page, streams, ops)
  BY <1>1, <1>3, <1>4, <1>5, BridgeKeeps DEF Now
<1> QED BY <1>6 DEF Now, TurnEnds

\* What a turn shows is of its session.
LEMMA ShowKeeps ==
  ASSUME NEW p, NEW st, Calm(bridge, p, st, ops), NEW t \in Traces, bridge.session[t] \in Sessions
  PROVE  Calm(bridge, Shows(p, bridge.session[t], t), st, ops)
<1> DEFINE s == bridge.session[t]
           q == Shows(p, s, t)
<1>1. Typed(bridge, p, st, ops) /\ Sound(p) /\ s \in Keys /\ s # New
  <2>1. Typed(bridge, p, st, ops) /\ Sound(p)
    BY DEF Calm, Typed
  <2> QED BY <2>1, TypedFacts
<1>2. Sound(q) /\ Becomes(p, q, s, p.runs[s], p.stops[s], p.chats[s].turns \cup {t})
  BY <1>1, ShowsIsSound
<1> HIDE DEF q
<1>3. TurnsBelong(bridge, p, q, s) /\ q.stops[s] = p.stops[s]
  BY <1>1, <1>2 DEF Becomes, TurnsBelong
<1>4. Calm(bridge, q, st, ops)
  BY <1>1, <1>2, <1>3, BecomesKeeps
<1> QED BY <1>4 DEF q

LEMMA CalmStreamEvent == ASSUME IInv, Now, NEW t \in Traces, StreamEvent(t) PROVE Now'
<1> DEFINE resolved == ApplySessionResolution(page, t)
<1>1. Calm(bridge, resolved, streams', ops) /\ bridge.session[t] \in Sessions
  BY ResolveKeeps DEF StreamEvent, Now
<1>2. Calm(bridge, Shows(resolved, bridge.session[t], t), streams', ops)
  BY <1>1, ShowKeeps
<1> QED BY <1>2 DEF StreamEvent, Now

LEMMA CalmEndStream == ASSUME IInv, Now, NEW t \in Traces, EndStream(t) PROVE Now'
<1> DEFINE s == bridge.session[t]
           terminal == IF bridge.turn[t] = "done" THEN "done" ELSE "awaiting_human"
           resolved == ApplySessionResolution(page, t)
           after == [streams EXCEPT ![t].key = s]
           shown == Shows(resolved, s, t)
           last == [shown EXCEPT !.chats[s].asked = @ \/ terminal = "awaiting_human",
                                 !.chats[s].streaming = terminal = "awaiting_human"]
           marked == MarkCompleted(last, t, terminal)
           sync == Op("sync", s, DirectRun(t))
<1>1. Calm(bridge, resolved, after, ops) /\ s \in Sessions
  BY ResolveKeeps DEF EndStream, Now
<1>2. s \in Keys /\ s # New
  BY <1>1, CalmFacts
<1>3. streams \in StreamsType /\ streams[t].state = "open"
  BY DEF Now, Calm, Typed, EndStream
<1>4. after[t].state = "open" /\ after[t].key = s
  BY <1>3 DEF StreamsType
<1>5. streams' = [after EXCEPT ![t].state = IF after[t].key = New THEN "lost" ELSE "closed"]
  <2>1. streams' = [streams EXCEPT ![t].key = s, ![t].state = "closed"]
    BY DEF EndStream
  <2>2. [streams EXCEPT ![t].key = s, ![t].state = "closed"] = [after EXCEPT ![t].state = "closed"]
    BY <1>3 DEF StreamsType
  <2> QED BY <1>2, <1>4, <2>1, <2>2
<1> HIDE DEF resolved, after
<1>6. Calm(bridge, shown, after, ops)
  BY <1>1, ShowKeeps
<1>7. page' = FinishRun(marked, t) /\ ops' = ops \cup {sync} /\ bridge' = bridge
  BY DEF EndStream, resolved
<1> HIDE DEF shown
<1>8. Calm(bridge, last, after, ops)
  <2>1. Sound(shown)
    BY <1>6 DEF Calm, Typed
  <2>2. (shown.chats[s].asked \/ terminal = "awaiting_human") \in BOOLEAN
        /\ (terminal = "awaiting_human") \in BOOLEAN
    OBVIOUS
  <2>3. last = [shown EXCEPT !.chats[s].asked = (shown.chats[s].asked \/ terminal = "awaiting_human"),
                             !.chats[s].streaming = (terminal = "awaiting_human")]
    BY <1>2, <2>1 DEF Sound, Page
  <2> HIDE DEF last, terminal
  <2>4. Sound(last) /\ Becomes(shown, last, s, shown.runs[s], shown.stops[s], shown.chats[s].turns)
    BY <1>2, <2>1, <2>2, <2>3, AskedIsApart
  <2>5. TurnsBelong(bridge, shown, last, s) /\ last.stops[s] = shown.stops[s]
    BY <2>4 DEF Becomes, TurnsBelong
  <2> QED BY <1>2, <1>6, <2>4, <2>5, BecomesKeeps
<1> HIDE DEF last, terminal
<1>9. Calm(bridge, marked, after, ops)
  BY <1>1, <1>4, <1>8, MarkKeeps
<1> HIDE DEF marked
<1>10. Calm(bridge, FinishRun(marked, t), streams', ops)
  BY <1>4, <1>5, <1>9, FinishKeeps
<1>11. sync \in OpsType /\ sync.key \in Sessions /\ sync.kind = "sync"
  BY <1>1, <1>2, RunsAreTyped DEF Op, OpsType
<1> HIDE DEF sync
<1>12. Calm(bridge, FinishRun(marked, t), streams', ops \cup {sync})
  BY <1>10, <1>11, AddKeeps
<1> QED BY <1>7, <1>12 DEF Now

LEMMA CalmFailStream == ASSUME IInv, Now, NEW t \in Traces, FailStream(t) PROVE Now'
<1> DEFINE sync == Op("sync", streams[t].key, DirectRun(t))
<1>1. Calm(bridge, FinishRun(page, t), streams', ops)
  BY FinishKeeps DEF FailStream, Closed, Now
<1>2. page' = FinishRun(page, t) /\ bridge' = bridge
      /\ ops' = IF streams[t].key = New THEN ops ELSE ops \cup {sync}
  BY DEF FailStream
<1>3. ASSUME streams[t].key # New
             PROVE sync \in OpsType /\ sync.key \in Sessions /\ sync.kind = "sync"
  <2>1. streams[t].key \in Keys
    BY CalmFacts, TypedFacts
  <2> QED BY <1>3, <2>1, CalmFacts, RunsAreTyped DEF Op, OpsType
<1> HIDE DEF sync
<1>4. Calm(bridge, FinishRun(page, t), streams', ops')
  BY <1>1, <1>2, <1>3, AddKeeps
<1> QED BY <1>2, <1>4 DEF Now

LEMMA CalmStop == ASSUME IInv, Now, Stop PROVE Now'
<1> DEFINE k == page.view
           q == SetStopPending(page, k, TRUE)
           op == Op("stop", k, page.runs[k])
<1>1. /\ k \in Keys /\ page.runs[k] # NoRun /\ ~page.stops[k] /\ page.runs[k] \in Run
      /\ page' = q /\ ops' = ops \cup {op} /\ UNCHANGED <<bridge, streams>>
  BY CalmFacts, ChatOf DEF Stop
<1>2. NoStops(ops)
  BY <1>1 DEF Now, Calm, StopsApart, NoStops
<1>3. Sound(q) /\ Becomes(page, q, k, page.runs[k], TRUE, page.chats[k].turns)
  BY <1>1, CalmFacts, SetStopPendingIsSound
<1> HIDE DEF q
<1>4. q.runs[k] = page.runs[k] /\ q.stops[k] = TRUE /\ q.view = k /\ q.chats[k].turns = page.chats[k].turns
  BY <1>3 DEF Becomes, Elsewhere
<1>5. Calm(bridge, q, streams, ops)
  BY <1>1, <1>2, <1>3, <1>4, BecomesKeeps DEF Now, TurnsBelong
<1>6. op \in OpsType /\ op.kind = "stop" /\ op.key = k /\ op.run = page.runs[k]
  BY <1>1 DEF Op, OpsType
<1> HIDE DEF op
<1>7. Calm(bridge, q, streams, ops \cup {op})
  BY <1>1, <1>2, <1>4, <1>5, <1>6, AddStopKeeps
<1> QED BY <1>1, <1>7 DEF Now

\* A chat is emptied, or its history is on its way.
LEMMA ClearKeeps ==
  ASSUME NEW b, NEW p, NEW st, NEW o, Calm(b, p, st, o), NEW k \in Keys, k = New => NoStops(o)
  PROVE  Calm(b, ClearMessages(p, k), st, o)
<1> DEFINE q == ClearMessages(p, k)
<1>1. Sound(q) /\ Becomes(p, q, k, p.runs[k], p.stops[k], {})
  BY ClearMessagesIsSound DEF Calm, Typed
<1> HIDE DEF q
<1>2. TurnsBelong(b, p, q, k) /\ q.stops[k] = p.stops[k]
  BY <1>1 DEF Becomes, TurnsBelong
<1>3. Calm(b, q, st, o)
  BY <1>1, <1>2, BecomesKeeps
<1> QED BY <1>3 DEF q

LEMMA HistoryLoadingKeeps ==
  ASSUME NEW b, NEW p, NEW st, NEW o, Calm(b, p, st, o), NEW s \in Sessions, NEW value \in BOOLEAN
  PROVE  /\ Calm(b, SetHistoryLoading(p, s, value), st, o)
         /\ SetHistoryLoading(p, s, value).runs[s] = p.runs[s]
<1> DEFINE q == SetHistoryLoading(p, s, value)
<1>1. s \in Keys /\ s # New
  BY TypedFacts DEF Calm
<1>2. Sound(q) /\ Becomes(p, q, s, p.runs[s], p.stops[s], p.chats[s].turns)
  BY <1>1, SetHistoryLoadingIsSound DEF Calm, Typed
<1> HIDE DEF q
<1>3. TurnsBelong(b, p, q, s) /\ q.stops[s] = p.stops[s] /\ q.runs[s] = p.runs[s]
  BY <1>2 DEF Becomes, TurnsBelong
<1>4. Calm(b, q, st, o)
  BY <1>1, <1>2, <1>3, BecomesKeeps
<1> QED BY <1>3, <1>4 DEF q

LEMMA CalmNewChat == ASSUME IInv, Now, ~hasty', NewChat PROVE Now'
<1> DEFINE q == [page EXCEPT !.view = New]
<1>1. page' = ClearMessages(q, New) /\ UNCHANGED <<bridge, streams, ops>> /\ NoStops(ops)
  BY DEF NewChat, Stopping, NoStops, IsStop
<1>2. page \in Page /\ New \in Keys /\ New \notin Sessions
  BY CalmFacts DEF Sound
<1>3. New \notin page.background
  BY <1>2 DEF Now, Calm, ViewUnmarked
<1>4. /\ q.view = New /\ q.chats = page.chats /\ q.runs = page.runs /\ q.stops = page.stops
      /\ q.recovering = page.recovering /\ q.background = page.background
  BY <1>2 DEF Page
<1>5. Calm(bridge, q, streams, ops)
  <2>1. Sound(q)
    BY <1>2, CalmFacts, OtherPartsAreSound
  <2> HIDE DEF q
  <2> QED BY <1>1, <1>2, <1>3, <1>4, <2>1, ViewKeeps DEF Now
<1> HIDE DEF q
<1>6. Calm(bridge, ClearMessages(q, New), streams, ops)
  BY <1>1, <1>2, <1>5, ClearKeeps
<1> QED BY <1>1, <1>6 DEF Now

LEMMA CalmLoadReturns == ASSUME IInv, Now, NEW op \in ops, LoadReturns(op) PROVE Now'
<1> DEFINE s == op.key
           left == ops \ {op}
           q == HydrateSessionHistory(page, s)
<1>1. /\ op.kind = "load" /\ s \in Sessions /\ op.run = NoRun /\ page.runs[s] = NoRun
      /\ page' = SetHistoryLoading(q, s, FALSE) /\ ops' = left /\ UNCHANGED <<bridge, streams>>
  BY DEF LoadReturns, Now, Calm, CallsApart
<1>2. ~Awaited(bridge, streams, left, s)
  <2>1. ~Awaited(bridge, streams, ops, s)
    BY <1>1 DEF Now, Calm, NewcomersApart, Untouched, DeleteKinds
  <2> QED BY <2>1 DEF Awaited
<1>3. \A other \in left : other.kind = "load" => other.key # s
  <2> SUFFICES ASSUME NEW other \in left, other.kind = "load", other.key = s PROVE FALSE
    OBVIOUS
  <2>1. other.run = NoRun /\ other \in OpsType /\ op \in OpsType /\ other # op
    BY DEF Now, Calm, CallsApart, Typed
  <2> QED BY <1>1, <2>1 DEF OpsType
<1>4. \A other \in left : IsStop(other) => Place(streams, other) # s
  BY <1>1 DEF Now, Calm, StopsApart
<1>5. Calm(bridge, page, streams, left)
  BY <1>1, RemoveKeeps DEF Now
<1> HIDE DEF left
<1>6. Calm(bridge, q, streams, left)
  BY <1>1, <1>2, <1>3, <1>4, <1>5, HydrateHistoryKeeps
<1> HIDE DEF q
<1>7. Calm(bridge, SetHistoryLoading(q, s, FALSE), streams, left)
  BY <1>1, <1>6, HistoryLoadingKeeps
<1> QED BY <1>1, <1>7 DEF Now

LEMMA CalmLoadFails == ASSUME IInv, Now, NEW op \in ops, LoadFails(op) PROVE Now'
<1> DEFINE s == op.key
           q == ClearMessages(page, s)
<1>1. /\ op.kind = "load" /\ s \in Sessions /\ s \in Keys /\ s # New
      /\ page' = SetHistoryLoading(q, s, FALSE) /\ ops' = ops \ {op} /\ UNCHANGED <<bridge, streams>>
  BY CalmFacts DEF LoadFails, Now, Calm, CallsApart
<1>2. Calm(bridge, q, streams, ops)
  BY <1>1, ClearKeeps DEF Now
<1> HIDE DEF q
<1>3. Calm(bridge, SetHistoryLoading(q, s, FALSE), streams, ops)
  BY <1>1, <1>2, HistoryLoadingKeeps
<1>4. Calm(bridge, SetHistoryLoading(q, s, FALSE), streams, ops \ {op})
  BY <1>1, <1>3, RemoveKeeps
<1> QED BY <1>1, <1>4 DEF Now

LEMMA CalmSyncReturns == ASSUME IInv, Now, NEW op \in ops, NEW ok, SyncReturns(op, ok) PROVE Now'
<1>1. /\ op.kind = "sync" /\ op.key \in Sessions /\ page' = Synced(page, op.key, ok)
      /\ ops' = ops \ {op} /\ UNCHANGED <<bridge, streams>>
  BY DEF SyncReturns, Now, Calm, CallsApart
<1>2. Calm(bridge, Synced(page, op.key, ok), streams, ops)
  BY <1>1, SyncedKeeps DEF Now
<1>3. Calm(bridge, Synced(page, op.key, ok), streams, ops \ {op})
  BY <1>1, <1>2, RemoveKeeps
<1> QED BY <1>1, <1>3 DEF Now

\* The history that ends a run which was stopped or recovered.
LEMMA EndsSynced ==
  ASSUME IInv, Now, NEW op \in ops, op.kind \in {"stopped", "recovered"}, NEW ok
  PROVE  Calm(bridge, EndRun(Synced(page, op.key, ok), op.key), streams, ops \ {op})
<1> DEFINE s == op.key
           q == Synced(page, s, ok)
<1>1. s \in Sessions /\ s \in Keys /\ s # New /\ ~page.runs[s].direct
  BY CalmFacts DEF Now, Calm, CallsApart
<1>2. Calm(bridge, q, streams, ops)
  BY <1>1, SyncedKeeps DEF Now
<1> HIDE DEF q
<1>3. NoneOpenAt(streams, s)
  BY <1>1, IdleMeansNoneOpen DEF Now
<1>4. Calm(bridge, EndRun(q, s), streams, ops)
  BY <1>1, <1>2, <1>3, EndKeeps
<1>5. EndRun(q, s).runs[s] = NoRun
  BY <1>1, <1>2, EndRunIsSound DEF Becomes, Calm, Typed
<1>6. Calm(bridge, EndRun(q, s), streams, ops \ {op})
  BY <1>4, <1>5, RemoveKeeps
<1> QED BY <1>6 DEF q

LEMMA CalmStopFails == ASSUME IInv, Now, NEW op \in ops, StopFails(op) PROVE Now'
<1> DEFINE k == op.key
           left == ops \ {op}
           q == SetStopPending(page, k, FALSE)
<1>1. /\ op.kind = "stop" /\ k \in Keys /\ page' = q /\ ops' = left /\ UNCHANGED <<bridge, streams>>
  BY CalmFacts, TypedFacts DEF StopFails
<1>2. NoStops(left)
  BY <1>1 DEF Now, Calm, StopsApart, NoStops, IsStop
<1>3. Calm(bridge, page, streams, left)
  BY <1>1, RemoveKeeps DEF Now
<1>4. Sound(q) /\ Becomes(page, q, k, page.runs[k], FALSE, page.chats[k].turns)
  BY <1>1, CalmFacts, SetStopPendingIsSound
<1> HIDE DEF q, left
<1>5. TurnsBelong(bridge, page, q, k)
  BY <1>4 DEF Becomes, TurnsBelong
<1>6. Calm(bridge, q, streams, left)
  BY <1>1, <1>2, <1>3, <1>4, <1>5, BecomesKeeps
<1> QED BY <1>1, <1>6 DEF Now

\* Visits, recovery and deletion.
LEMMA CalmSelect == ASSUME IInv, Now, ~hasty', NEW s \in Sessions, SelectSession(s) PROVE Now'
<1> DEFINE marked == page.background \ {s}
           seen == [page EXCEPT !.view = s, !.background = marked]
           quiet == StopRecoveredRun(seen, s)
           op == Op("load", s, NoRun)
<1>1. /\ bridge.sessions[s] = "live" /\ UNCHANGED <<bridge, streams>> /\ NoStops(ops)
      /\ \A t \in TurnsOf(s) : ~(streams[t].state = "open" /\ streams[t].key = New)
  BY DEF SelectSession, Stopping, NoStops, IsStop
<1>2. IF ShouldLoadSessionHistory(page, s)
      THEN page' = SetHistoryLoading(quiet, s, TRUE) /\ ops' = ops \cup {op}
      ELSE page' = seen /\ ops' = ops
  BY DEF SelectSession
<1>3. ~Awaited(bridge, streams, ops, s)
  <2>1. ASSUME NEW t \in Traces, bridge.session[t] = s, streams[t].key = New,
               streams[t].state = "open" PROVE FALSE
    BY <1>1, <2>1 DEF Now, Calm, Filed, TurnsOf
  <2> QED BY <1>1, <2>1 DEF Awaited, NoStops, IsStop
<1>4. marked \subseteq page.background /\ s \notin marked /\ s \in Keys
  BY CalmFacts
<1> HIDE DEF marked
<1>5. Calm(bridge, seen, streams, ops) /\ seen.runs = page.runs
  <2>1. page \in Page /\ Sound(page)
    BY CalmFacts DEF Sound
  <2>2. marked \in SUBSET Keys
    BY <1>4, <2>1 DEF Page
  <2>3. Sound(seen)
    BY <1>4, <2>1, <2>2, OtherPartsAreSound
  <2>4. /\ seen.view = s /\ seen.chats = page.chats /\ seen.runs = page.runs /\ seen.stops = page.stops
        /\ seen.recovering = page.recovering /\ seen.background = marked
    BY <2>1 DEF Page
  <2> HIDE DEF seen
  <2> QED BY <1>1, <1>3, <1>4, <2>3, <2>4, ViewKeeps DEF Now
<1> HIDE DEF seen
<1>6. CASE ShouldLoadSessionHistory(page, s)
  <2>1. page.runs[s] = NoRun
    BY <1>4, <1>6 DEF ShouldLoadSessionHistory, Now, Calm, RunsFed
  <2>2. Calm(bridge, quiet, streams, ops) /\ quiet.runs[s] = NoRun
    BY <1>5, <2>1, StopRecoveredKeeps
  <2> HIDE DEF quiet
  <2>3. /\ Calm(bridge, SetHistoryLoading(quiet, s, TRUE), streams, ops)
        /\ SetHistoryLoading(quiet, s, TRUE).runs[s] = NoRun
    BY <2>2, HistoryLoadingKeeps
  <2>4. op \in OpsType /\ op.kind = "load" /\ op.key = s /\ op.run = NoRun
    BY <1>4, RunsAreTyped DEF Op, OpsType
  <2> HIDE DEF op
  <2>5. Calm(bridge, SetHistoryLoading(quiet, s, TRUE), streams, ops \cup {op})
    BY <1>1, <1>3, <2>3, <2>4, AddKeeps
  <2> QED BY <1>1, <1>2, <1>6, <2>5 DEF Now
<1>7. CASE ~ShouldLoadSessionHistory(page, s)
  BY <1>1, <1>2, <1>5, <1>7 DEF Now
<1> QED BY <1>6, <1>7

LEMMA CalmSubscribe == ASSUME IInv, Now, NEW s \in Sessions, Subscribe(s) PROVE Now'
<1>1. Sound(page') /\ UNCHANGED <<bridge, streams, ops>> /\ s \in Keys /\ s # New
  BY SubscribeKeeps, CalmFacts DEF Subscribe, IInv, Sound, Agrees
<1>2. page \in Page /\ page.recovering[s].trace # 0
  BY CalmFacts DEF Sound, Subscribe
<1>3. /\ page'.view = page.view /\ page'.background = page.background /\ page'.chats = page.chats
      /\ page'.runs = page.runs /\ page'.stops = page.stops
      /\ page'.recovering = [page.recovering EXCEPT ![s].live = TRUE, ![s].before = Ended(s)]
  BY <1>2 DEF Subscribe, Page
<1>4. page'.recovering[s].trace = page.recovering[s].trace
      /\ \A r \in Sessions : r # s => page'.recovering[r] = page.recovering[r]
  BY <1>2, <1>3 DEF Page
<1>5. Elsewhere(page, page', s)
  BY <1>3, <1>4 DEF Elsewhere
<1>6. RunSurvives(page, page', ops, s) /\ RecoverySurvives(page, page', ops, s)
      /\ TurnsBelong(bridge, page, page', s)
  BY <1>2, <1>3, <1>4 DEF RunSurvives, RecoverySurvives, TurnsBelong
<1>7. page'.chats[s].activeRun = page'.runs[s]
  BY <1>1, <1>3 DEF Now, Calm, RunsFed
<1>8. Calm(bridge, page', streams, ops)
  BY <1>1, <1>5, <1>6, <1>7, ChangesKeep DEF Now
<1> QED BY <1>1, <1>8 DEF Now

LEMMA CalmRecoveredEnds == ASSUME IInv, Now, NEW s \in Sessions, RecoveredEnds(s) PROVE Now'
<1> DEFINE op == Op("recovered", s, NoRun)
<1>1. /\ page' = StopRecoveredRun(page, s) /\ ops' = ops \cup {op} /\ UNCHANGED <<bridge, streams>>
      /\ page.recovering[s].trace # 0
  BY DEF RecoveredEnds, Now, Calm, RecoveriesApart
<1>2. ~page.runs[s].direct /\ ~Awaited(bridge, streams, ops, s)
  BY <1>1, RunFacts DEF Now, Calm, RecoveriesApart, NewcomersApart, Untouched
<1>3. op \in OpsType /\ op.kind = "recovered" /\ op.key = s
  BY CalmFacts, RunsAreTyped DEF Op, OpsType
<1> DEFINE more == ops \cup {op}
<1>4. op \in more
  OBVIOUS
<1> HIDE DEF op
<1>5. Calm(bridge, page, streams, more)
  BY <1>2, <1>3, AddKeeps DEF Now
<1> HIDE DEF more
<1>6. Calm(bridge, StopRecoveredRun(page, s), streams, more)
  BY <1>3, <1>4, <1>5, StopRecoveredKeeps
<1> QED BY <1>1, <1>6 DEF Now, more

LEMMA CalmRecoveredFails == ASSUME IInv, Now, NEW s \in Sessions, RecoveredFails(s) PROVE Now'
<1> DEFINE quiet == StopRecoveredRun(page, s)
<1>1. /\ page' = SetLoading(SetActiveRun(quiet, s, NoRun), s, FALSE)
      /\ UNCHANGED <<bridge, streams, ops>> /\ s \in Keys /\ s # New
      /\ ~page.runs[s].direct /\ page \in Page
  BY CalmFacts, RunFacts DEF RecoveredFails, Now, Calm, RecoveriesApart, Sound
<1>2. NoneOpenAt(streams, s)
  BY <1>1, IdleMeansNoneOpen DEF Now
<1>3. Sound(quiet)
  BY CalmFacts, StopRecoveredIsSound
<1>4. /\ quiet.view = page.view /\ quiet.chats = page.chats /\ quiet.runs = page.runs
      /\ quiet.stops = page.stops /\ quiet.background = page.background
      /\ quiet.recovering = [page.recovering EXCEPT ![s] = NotRecovering]
      /\ page.recovering \in [Sessions -> [trace: 0..MaxTurns, live: BOOLEAN, before: SUBSET Traces]]
  BY <1>1 DEF StopRecoveredRun, Page
<1> HIDE DEF quiet
<1>5. Sound(page') /\ Becomes(quiet, page', s, NoRun, quiet.stops[s], quiet.chats[s].turns)
  BY <1>1, <1>3, ClearsRunIsSound
<1>6. page.chats[s].activeRun = page.runs[s]
  BY <1>1 DEF Now, Calm, RunsFed
<1>7. Elsewhere(page, page', s) /\ page'.runs[s] = NoRun /\ page'.chats[s].activeRun = NoRun
      /\ page'.chats[s].turns = page.chats[s].turns /\ page'.recovering[s] = NotRecovering
  BY <1>1, <1>4, <1>5, <1>6, ZenonT(60) DEF Becomes, Elsewhere
<1>8. RecoverySurvives(page, page', ops, s) /\ TurnsBelong(bridge, page, page', s)
  BY <1>7 DEF RecoverySurvives, TurnsBelong, NotRecovering
<1>9. Calm(bridge, page', streams, ops)
  BY <1>1, <1>2, <1>5, <1>7, <1>8, ChangesKeep DEF Now
<1> QED BY <1>1, <1>9 DEF Now

LEMMA CalmDelete == ASSUME IInv, Now, NEW s \in Sessions, DeleteSession(s) PROVE Now'
<1> DEFINE op == Op(IF page.view = s THEN "delete_viewed" ELSE "delete", s, NoRun)
<1>1. op \in OpsType /\ op.key = s /\ op.kind \in DeleteKinds
  BY CalmFacts, RunsAreTyped DEF Op, OpsType, DeleteKinds
<1>2. ops' = ops \cup {op} /\ UNCHANGED <<bridge, page, streams>>
  BY DEF DeleteSession
<1> HIDE DEF op
<1>3. Calm(bridge, page, streams, ops \cup {op})
  BY <1>1, AddKeeps DEF Now
<1> QED BY <1>2, <1>3 DEF Now

LEMMA CalmDeleteReturns ==
  ASSUME IInv, Now, ~hasty', NEW op \in ops, NEW ok \in BOOLEAN, DeleteReturns(op, ok)
  PROVE  Now'
<1> DEFINE s == op.key
           left == IF ok /\ page.view = s THEN [page EXCEPT !.view = New] ELSE page
           bare == [left EXCEPT !.runs[s] = NoRun, !.stops[s] = FALSE, !.chats[s] = NoChat,
                                !.background = @ \ {s}]
           dropped == DropSessionState(left, s)
<1>1. /\ s \in Sessions /\ s \in Keys /\ s # New /\ New \in Keys /\ op.kind \in DeleteKinds
      /\ page.runs[s] = NoRun /\ NoStops(ops) /\ ops' = ops \ {op}
  BY CalmFacts DEF DeleteReturns, Stopping, NoStops, IsStop, DeleteKinds, Now, Calm, CallsApart
<1>2. streams' = streams
  BY <1>1, RunFacts DEF DeleteReturns, AbortedStreams, Aborts
<1>3. page' = IF op.kind = "delete_viewed" THEN ClearMessages(dropped, New) ELSE dropped
  BY DEF DeleteReturns
<1>4. Calm(bridge, left, streams, ops) /\ left.runs[s] = NoRun
  <2> DEFINE q == [page EXCEPT !.view = New]
  <2>1. page \in Page /\ New \notin page.background /\ New \notin Sessions
    BY CalmFacts DEF Now, Calm, ViewUnmarked, Sound
  <2>2. Sound(q)
    BY <1>1, CalmFacts, OtherPartsAreSound
  <2>3. /\ q.view = New /\ q.chats = page.chats /\ q.runs = page.runs /\ q.stops = page.stops
        /\ q.recovering = page.recovering /\ q.background = page.background
    BY <2>1 DEF Page
  <2>4. left = q \/ left = page
    OBVIOUS
  <2> HIDE DEF q, left
  <2>5. Calm(bridge, q, streams, ops)
    BY <1>1, <2>1, <2>2, <2>3, ViewKeeps DEF Now
  <2> QED BY <1>1, <2>3, <2>4, <2>5 DEF Now
<1> HIDE DEF left
<1>5. Calm(bridge, bare, streams, ops) /\ bare.runs[s] = NoRun
  <2>1. Sound(left) /\ left \in Page
    BY <1>4 DEF Calm, Typed, Sound
  <2>2. /\ bare.view = left.view /\ bare.recovering = left.recovering
        /\ bare.background = left.background \ {s}
        /\ bare.runs = [left.runs EXCEPT ![s] = NoRun] /\ bare.stops = [left.stops EXCEPT ![s] = FALSE]
        /\ bare.chats = [left.chats EXCEPT ![s] = NoChat]
    BY <2>1 DEF Page
  <2>3. left.chats \in [Keys -> Chat] /\ left.runs \in [Keys -> Run] /\ left.stops \in [Keys -> BOOLEAN]
        /\ left.background \ {s} \in SUBSET Keys
    BY <2>1 DEF Page
  <2>4. Sound(bare)
    <3> DEFINE put == Put(left, s, NoChat, NoRun, FALSE)
    <3>1. Sound(put)
      BY <1>1, <2>1, PutIsSound, NoChatIsTyped, RunsAreTyped
    <3>2. bare = [put EXCEPT !.background = left.background \ {s}]
      BY <2>1 DEF Put, Page
    <3> HIDE DEF put, bare
    <3> QED BY <1>1, <2>3, <3>1, <3>2, OtherPartsAreSound
  <2> HIDE DEF bare
  <2>5. Elsewhere(left, bare, s) /\ bare.runs[s] = NoRun /\ bare.chats[s] = NoChat
        /\ bare.recovering[s] = left.recovering[s]
    BY <1>1, <2>2, <2>3 DEF Elsewhere
  <2>6. bare.chats[s].activeRun = NoRun /\ TurnsBelong(bridge, left, bare, s)
    BY <2>5 DEF TurnsBelong, NoChat, InitialChat
  <2>7. RecoverySurvives(left, bare, ops, s)
    BY <1>1, <1>4, <2>5 DEF RecoverySurvives, Calm, RecoveriesApart
  <2>8. NoneOpenAt(streams, s)
    BY <1>4, RunFacts, IdleMeansNoneOpen
  <2> QED BY <1>1, <1>4, <2>4, <2>5, <2>6, <2>7, <2>8, ChangesKeep
<1>6. dropped = IF bare.recovering[s].trace = 0 THEN StopRecoveredRun(bare, s) ELSE bare
  BY <1>1, <1>4, RunFacts DEF DropSessionState, Abort, Aborts
<1> HIDE DEF bare, dropped
<1>7. Calm(bridge, dropped, streams, ops)
  BY <1>1, <1>5, <1>6, StopRecoveredKeeps
<1>8. Calm(bridge, page', streams, ops)
  BY <1>1, <1>3, <1>7, ClearKeeps
<1>9. Calm(bridge', page', streams, ops)
  <2>1. bridge \in BridgeType /\ bridge' \in BridgeType
    BY DeleteReturnsKeeps DEF Now, Calm, Typed, IInv, TypeOK, BridgeType
  <2>2. CASE ~ok
    BY <1>8, <2>2 DEF DeleteReturns
  <2>3. CASE ok
    <3>1. bridge' = [bridge EXCEPT !.sessions[s] = "gone"]
      BY <2>3 DEF DeleteReturns
    <3>2. /\ bridge'.session = bridge.session /\ bridge'.turn = bridge.turn
          /\ bridge'.sessions = [bridge.sessions EXCEPT ![s] = "gone"]
      BY <2>1, <3>1 DEF BridgeType
    <3>3. \A r \in Sessions : bridge'.sessions[r] = "free" => bridge.sessions[r] = "free"
      BY <2>1, <3>1, <3>2 DEF BridgeType
    <3>4. RecoveriesOpen(bridge', page')
      BY <1>8, <3>2 DEF Calm, RecoveriesOpen, Recoverable
    <3> QED BY <1>8, <2>1, <3>2, <3>3, <3>4, BridgeKeeps
  <2> QED BY <2>2, <2>3
<1>10. Calm(bridge', page', streams, ops \ {op})
  BY <1>1, <1>9, RemoveKeeps DEF DeleteKinds
<1> QED BY <1>1, <1>2, <1>10 DEF Now

-----------------------------------------------------------------------------
(* The answer to a stop call.                                            *)

LEMMA StoppedIsIdle ==
  ASSUME NEW b, NEW p, NEW st, NEW o, Calm(b, p, st, o), NEW op \in o, op.kind = "stop",
         op.run.direct => st[op.run.trace].state # "open"
  PROVE  /\ ~p.runs[Place(st, op)].direct
         /\ op.key = New => ~p.runs[New].direct
<1>1. Place(st, op) \in Keys /\ p.runs[Place(st, op)] \in {op.run, NoRun}
  BY PlaceIsKey DEF Calm, StopsApart, IsStop
<1>2. ~p.runs[Place(st, op)].direct
  BY <1>1, RunFacts DEF Calm, RunsFed
<1>3. op.key = New /\ Place(st, op) # New => p.runs[New] = NoRun
  BY DEF Calm, StopsApart, IsStop
<1> QED BY <1>2, <1>3, RunFacts

\* The run is stopped where it is filed.
LEMMA StopAnswered ==
  ASSUME NEW p, Calm(bridge, p, streams, ops), NEW op \in ops, op.kind = "stop",
         NEW s \in Sessions, s = Place(streams, op)
  PROVE  Calm(bridge, Abort(p, op.run, op.key), AbortedStreams(op.run, op.key),
              (ops \ {op}) \cup {Op("stopped", s, op.run)})
<1> DEFINE t == op.run.trace
           more == (ops \ {op}) \cup {Op("stopped", s, op.run)}
<1>1. /\ Typed(bridge, p, streams, ops) /\ (op.run.direct => t \in Traces)
      /\ op.key \in Keys /\ (op.key = New => op.run.direct)
      /\ p.runs[s] \in {op.run, NoRun}
  BY TypedFacts DEF Calm, StopsApart, IsStop
<1>2. CASE Aborts(op.run, op.key)
  <2> DEFINE after == [streams EXCEPT ![t].state = Closed(t)]
             q == FinishRun(p, t)
  <2>1. t \in Traces /\ streams[t].state = "open"
    BY <1>1, <1>2 DEF Aborts
  <2>2. Calm(bridge, q, after, ops)
    BY <2>1, FinishKeeps DEF Closed
  <2>3. after[t].state # "open" /\ \A u \in Traces : after[u].key = streams[u].key
    BY <1>1, <2>1 DEF Closed, Typed, StreamsType
  <2>4. Place(after, op) = s
    BY <1>1, <2>1, <2>3 DEF Place
  <2>5. Abort(p, op.run, op.key) = q /\ AbortedStreams(op.run, op.key) = after
    BY <1>2 DEF Abort, AbortedStreams
  <2> HIDE DEF q, after
  <2>6. ~q.runs[s].direct
    BY <2>2, <2>3, <2>4, StoppedIsIdle
  <2> QED BY <2>2, <2>4, <2>5, <2>6, AnsweredKeeps
<1>3. CASE ~Aborts(op.run, op.key)
  <2>1. ~p.runs[s].direct
    BY <1>3, StoppedIsIdle DEF Aborts
  <2>2. Calm(bridge, p, streams, more)
    BY <2>1, AnsweredKeeps
  <2>3. AbortedStreams(op.run, op.key) = streams
    BY <1>3 DEF AbortedStreams
  <2>4. Abort(p, op.run, op.key) = p
        \/ (op.key \in Sessions /\ Abort(p, op.run, op.key) = StopRecoveredRun(p, op.key))
    BY <1>3 DEF Abort
  <2>5. op.key \in Sessions => op.key = s
    BY <1>1, TypedFacts DEF Place
  <2>6. \E other \in more : other.kind \in {"recovered", "stopped"} /\ other.key = s
    <3>1. Op("stopped", s, op.run) \in more
      OBVIOUS
    <3>2. Op("stopped", s, op.run).kind = "stopped" /\ Op("stopped", s, op.run).key = s
      BY DEF Op
    <3> QED BY <3>1, <3>2
  <2> HIDE DEF more
  <2>7. Calm(bridge, StopRecoveredRun(p, s), streams, more)
    BY <2>2, <2>6, StopRecoveredKeeps
  <2> QED BY <2>2, <2>3, <2>4, <2>5, <2>7 DEF more
<1> QED BY <1>2, <1>3

\* The bridge found no turn of a new chat: its run is cleared at once.
LEMMA NothingStopped ==
  ASSUME Now, NEW op \in ops, op.kind = "stop", op.key = New
  PROVE  Calm(bridge, EndRun(Abort(page, op.run, New), New), AbortedStreams(op.run, New), ops \ {op})
<1> DEFINE t == op.run.trace
           q == Abort(page, op.run, New)
           after == AbortedStreams(op.run, New)
           left == ops \ {op}
<1>1. Typed(bridge, page, streams, ops) /\ op.run.direct /\ t \in Traces /\ New \in Keys /\ New \notin Sessions
  BY TypedFacts DEF Now, Calm, StopsApart, IsStop
<1>2. Calm(bridge, q, after, ops) /\ after[t].state # "open"
  <2>1. CASE Aborts(op.run, New)
    <3>1. q = FinishRun(page, t) /\ after = [streams EXCEPT ![t].state = Closed(t)]
          /\ streams[t].state = "open"
      BY <1>1, <2>1 DEF Abort, AbortedStreams, Aborts
    <3>2. after[t].state # "open"
      BY <1>1, <3>1 DEF Closed, Typed, StreamsType
    <3> HIDE DEF q, after
    <3> QED BY <1>1, <3>1, <3>2, FinishKeeps DEF Closed, Now
  <2>2. CASE ~Aborts(op.run, New)
    BY <1>1, <2>2 DEF Abort, AbortedStreams, Aborts, Now
  <2> QED BY <2>1, <2>2
<1> HIDE DEF q, after
<1>3. NoneOpenAt(after, New)
  BY <1>2, StoppedIsIdle, IdleMeansNoneOpen
<1>4. Calm(bridge, q, after, left)
  BY <1>2, RemoveKeeps
<1>5. NoStops(left)
  BY DEF Now, Calm, StopsApart, NoStops, IsStop
<1> HIDE DEF left
<1>6. Calm(bridge, EndRun(q, New), after, left)
  BY <1>1, <1>3, <1>4, <1>5, EndKeeps
<1> QED BY <1>6 DEF q, after, left

\* The run of a new chat is stopped before its first event: what the chat
\* shows becomes the session's.
LEMMA MoveKeeps ==
  ASSUME NEW b, NEW p, NEW st, NEW o, Calm(b, p, st, o), NEW op \in o, op.kind = "stop",
         op.key = New,
         NEW t, t = op.run.trace, st[t].key = New, st[t].state # "open",
         NEW s \in Sessions, s = b.session[t], b.turn[t] # "none",
         NEW q, Sound(q), q.view = s, q.background = p.background, q.recovering = p.recovering,
         \A k \in Keys : k # New /\ k # s =>
           q.chats[k] = p.chats[k] /\ q.runs[k] = p.runs[k] /\ q.stops[k] = p.stops[k],
         q.runs[s] = NoRun, q.runs[New] = NoRun,
         q.chats[s].activeRun = NoRun, q.chats[New].activeRun = NoRun,
         \A u \in q.chats[s].turns : u \in p.chats[New].turns \/ u \in p.chats[s].turns,
         q.chats[New].turns \subseteq p.chats[New].turns
  PROVE  Calm(b, q, st, (o \ {op}) \cup {Op("stopped", s, op.run)})
<1> DEFINE next == Op("stopped", s, op.run)
           more == (o \ {op}) \cup {next}
<1>1. Typed(b, p, st, o) /\ New \in Keys /\ s \in Keys /\ s # New /\ t \in Traces
      /\ \A k \in Keys : k = New \/ k \in Sessions
  BY TypedFacts DEF Calm, StopsApart, IsStop
<1>2. next.kind = "stopped" /\ next.key = s /\ next.run = op.run /\ next \in OpsType
  BY <1>1, TypedFacts DEF Op, OpsType
<1>3. \A other \in more : other = next \/ (other \in o /\ other # op)
  OBVIOUS
<1>4. next \in more /\ \A other \in o : other = op \/ other \in more
  OBVIOUS
<1>5. Typed(b, q, st, more)
  BY <1>1, <1>2 DEF Typed
<1> HIDE DEF more, next
<1>6. Awaited(b, st, o, s)
  BY <1>1 DEF Awaited
<1>7. Untouched(p, o, s)
  BY <1>6 DEF Calm, NewcomersApart
<1>8. p.runs[New] = NoRun
  <2>1. Place(st, op) = New
    BY DEF Place
  <2>2. p.runs[New] \in {op.run, NoRun} /\ op.run.direct
    BY <2>1 DEF Calm, StopsApart, IsStop
  <2> QED BY <1>1, <2>2 DEF Calm, RunsFed
<1>9. \A u \in Traces : st[u].state = "open" => st[u].key # New /\ st[u].key # s
  BY <1>7, <1>8, RunFacts DEF Calm, StreamsShown, Untouched
<1>10. \A other \in more : IsStop(other) => other = next
  BY <1>3 DEF Calm, StopsApart, IsStop
<1>11. NewcomersApart(b, q, st, more)
  <2> SUFFICES ASSUME NEW r \in Sessions, Awaited(b, st, more, r) PROVE Untouched(q, more, r)
    BY DEF NewcomersApart
  <2>1. b.sessions[r] = "free"
    BY <1>2, <1>9, <1>10 DEF Awaited, IsStop
  <2>2. r # s /\ r # New /\ r \in Keys
    BY <1>1, <2>1, TypedFacts DEF Calm, Filed
  <2>3. Untouched(p, o, r)
    BY <2>1 DEF Calm, NewcomersApart, Awaited
  <2> QED BY <1>2, <1>3, <2>2, <2>3 DEF Untouched, DeleteKinds
<1>12. StreamsShown(q, st)
  BY <1>1, <1>9, TypedFacts DEF Calm, StreamsShown
<1>13. RunsFed(b, q, st, more)
  <2> SUFFICES ASSUME NEW k \in Keys
               PROVE  /\ q.chats[k].activeRun = q.runs[k]
                      /\ q.runs[k].direct => LET u == q.runs[k].trace
                                             IN  u \in Traces /\ st[u].state = "open" /\ st[u].key = k
                      /\ q.runs[k] # NoRun /\ ~q.runs[k].direct =>
                           /\ k \in Sessions /\ q.runs[k].trace \in Traces /\ b.session[q.runs[k].trace] = k
                           /\ \/ q.recovering[k].trace # 0
                              \/ \E other \in more : other.kind \in {"recovered", "stopped"} /\ other.key = k
    BY DEF RunsFed
  <2>1. CASE k \in {s, New}
    BY <2>1, RunFacts
  <2>2. CASE k # s /\ k # New
    BY <1>4, <2>2, SMTT(60) DEF Calm, RunsFed
  <2> QED BY <2>1, <2>2
<1>14. RecoveriesApart(q) /\ RecoveriesOpen(b, q)
  BY <1>1, RunFacts, TypedFacts DEF Calm, RecoveriesApart, RecoveriesOpen
<1>15. CallsApart(q, more)
  BY <1>1, <1>2, <1>3, <1>7, RunFacts, TypedFacts, SMTT(60) DEF Calm, CallsApart, Untouched, DeleteKinds
<1>16. StopsApart(q, st, more)
  <2>1. Place(st, next) = s
    BY <1>1, <1>2 DEF Place
  <2>2. \A other \in more : other.kind = "load" => other.key # s
    BY <1>2, <1>3, <1>7 DEF Untouched, DeleteKinds
  <2>3. op.run # NoRun
    BY DEF Calm, StopsApart, IsStop
  <2>4. StopsRecovery(q, next, s)
    BY <1>2 DEF StopsRecovery
  <2> QED BY <1>1, <1>2, <1>10, <2>1, <2>2, <2>3, <2>4, ZenonT(60) DEF StopsApart
<1>17. TurnsApart(b, q, st)
  <2>1. ASSUME NEW u \in p.chats[New].turns PROVE st[u].state = "lost"
    <3>1. u \in Traces
      BY <1>1, TypedFacts
    <3> QED BY <1>9, <3>1 DEF Calm, TurnsApart, Opening
  <2>2. \A r \in Sessions : r # s /\ r # New => q.chats[r].turns = p.chats[r].turns
    BY <1>1, TypedFacts
  <2> QED BY <1>1, <2>1, <2>2, TypedFacts DEF Calm, TurnsApart
<1>18. ViewUnmarked(q)
  BY <1>7 DEF Calm, ViewUnmarked, Untouched
<1> QED BY <1>5, <1>11, <1>12, <1>13, <1>14, <1>15, <1>16, <1>17, <1>18 DEF Calm, more, next

\* A stop mark of the new chat that marks nothing is dropped.
LEMMA SameButNewStop ==
  ASSUME NEW b, NEW p, NEW st, NEW o, Calm(b, p, st, o), NEW op \in o, IsStop(op),
         Place(st, op) # New,
         NEW q, Sound(q), q.view = p.view, q.background = p.background, q.recovering = p.recovering,
         \A k \in Keys : q.chats[k] = p.chats[k] /\ q.runs[k] = p.runs[k],
         \A k \in Keys : k # New => (p.stops[k] => q.stops[k])
  PROVE  Calm(b, q, st, o)
<1>1. Typed(b, p, st, o) /\ Typed(b, q, st, o)
  BY DEF Calm, Typed
<1>2. NewcomersApart(b, q, st, o) /\ StreamsShown(q, st)
  BY <1>1, TypedFacts DEF Calm, NewcomersApart, Untouched, StreamsShown
<1>3. RunsFed(b, q, st, o) /\ RecoveriesApart(q) /\ RecoveriesOpen(b, q) /\ CallsApart(q, o)
  BY <1>1, TypedFacts DEF Calm, RunsFed, RecoveriesApart, RecoveriesOpen, CallsApart
<1>4. StopsApart(q, st, o)
  <2>1. \A other \in o : IsStop(other) => other = op
    BY DEF Calm, StopsApart
  <2>2. Place(st, op) \in Keys /\ New \in Keys
    BY <1>1, PlaceIsKey, TypedFacts DEF Calm
  <2> QED BY <2>1, <2>2 DEF Calm, StopsApart, StopsRecovery
<1>5. TurnsApart(b, q, st) /\ ViewUnmarked(q)
  BY <1>1, TypedFacts DEF Calm, TurnsApart, ViewUnmarked
<1> QED BY <1>1, <1>2, <1>3, <1>4, <1>5 DEF Calm

\* The new chat has become that of a session, which comes into view.
Moved(p, q, s) ==
  /\ q.view = s /\ q.background = p.background /\ q.recovering = p.recovering
  /\ \A k \in Keys : k # New /\ k # s =>
       q.chats[k] = p.chats[k] /\ q.runs[k] = p.runs[k] /\ q.stops[k] = p.stops[k]
  /\ q.runs[New] = NoRun /\ ~q.chats[New].there
  /\ q.runs[s] = IF p.runs[New] # NoRun THEN p.runs[New] ELSE p.runs[s]
  /\ p.stops[New] \/ p.stops[s] => q.stops[s]
  /\ p.chats[New].there => q.chats[s] = p.chats[New] /\ q.chats[New] = NoChat
  /\ ~p.chats[New].there => q.chats[s] = p.chats[s] /\ q.chats[New] = p.chats[New]

LEMMA MigrateAndView ==
  ASSUME NEW p, Sound(p), NEW s \in Sessions, NEW q,
         q = [MigrateSessionState(p, New, s) EXCEPT !.view = s]
  PROVE  Sound(q) /\ Moved(p, q, s)
<1>1. New \in Keys /\ s \in Keys /\ s # New
  BY SessionsAssumption DEF Keys
<1>2. PICK m : m = MigrateSessionState(p, New, s)
  OBVIOUS
<1>3. /\ Sound(m)
      /\ m.view = p.view /\ m.background = p.background /\ m.recovering = p.recovering
      /\ \A k \in Keys : k # New /\ k # s =>
           m.chats[k] = p.chats[k] /\ m.runs[k] = p.runs[k] /\ m.stops[k] = p.stops[k]
      /\ m.runs[New] = NoRun /\ ~m.chats[New].there
      /\ m.runs[s] = IF p.runs[New] # NoRun THEN p.runs[New] ELSE p.runs[s]
      /\ p.stops[New] \/ p.stops[s] => m.stops[s]
      /\ p.chats[New].there => m.chats[s] = p.chats[New] /\ m.chats[New] = NoChat
      /\ ~p.chats[New].there => m.chats[s] = p.chats[s] /\ m.chats[New] = p.chats[New]
  BY <1>1, <1>2, MigrateMoves, SMTT(60)
<1>4. q = [m EXCEPT !.view = s]
  BY <1>2
<1>5. Sound(q)
  BY <1>1, <1>3, <1>4, OtherPartsAreSound
<1>6. /\ q.view = s /\ q.background = m.background /\ q.recovering = m.recovering
      /\ q.chats = m.chats /\ q.runs = m.runs /\ q.stops = m.stops
  BY <1>3, <1>4 DEF Sound, Page
<1>7. Moved(p, q, s)
  BY <1>3, <1>6 DEF Moved
<1> QED BY <1>5, <1>7

\* A new chat whose run was resolved, or ended, while the call was made.
LEMMA StopMoved ==
  ASSUME Now, NEW op \in ops, op.kind = "stop", op.key = New,
         NEW s \in Sessions, s = bridge.session[op.run.trace],
           bridge.turn[op.run.trace] = "running",
         NEW q, Sound(q), Moved(page, q, s)
  PROVE  Calm(bridge, Abort(q, op.run, New), AbortedStreams(op.run, New),
              (ops \ {op}) \cup {Op("stopped", s, op.run)})
<1> DEFINE t == op.run.trace
           run == page.runs[New]
<1>1. /\ Typed(bridge, page, streams, ops) /\ Sound(page) /\ t \in Traces /\ op.run.direct
      /\ New \in Keys /\ s \in Keys /\ s # New
      /\ streams[t].state # "none" /\ IsStop(op) /\ page.view = Place(streams, op)
  <2>1. Typed(bridge, page, streams, ops) /\ Sound(page)
    BY DEF Now, Calm, Typed
  <2> QED BY <2>1, TypedFacts DEF Now, Calm, StopsApart, IsStop
<1>2. /\ q.view = s /\ q.background = page.background /\ q.recovering = page.recovering
      /\ q.runs[New] = NoRun /\ ~q.chats[New].there
      /\ q.runs[s] = IF run # NoRun THEN run ELSE page.runs[s]
      /\ page.stops[New] \/ page.stops[s] => q.stops[s]
      /\ page.chats[New].there => q.chats[s] = page.chats[New] /\ q.chats[New] = NoChat
      /\ ~page.chats[New].there => q.chats[s] = page.chats[s] /\ q.chats[New] = page.chats[New]
  BY DEF Moved
<1>4. \A k \in Keys : k # New /\ k # s =>
        q.chats[k] = page.chats[k] /\ q.runs[k] = page.runs[k] /\ q.stops[k] = page.stops[k]
  BY DEF Moved
<1> HIDE DEF run
<1>5. NoChat.turns = {} /\ NoChat.activeRun = NoRun
  BY DEF NoChat, InitialChat
<1>6. /\ page.chats[New].activeRun = run /\ page.chats[s].activeRun = page.runs[s]
  BY <1>1 DEF Now, Calm, RunsFed, run
<1>7. CASE streams[t].key = s
  <2>1. Place(streams, op) = s
    BY <1>7 DEF Place
  <2>2. ~page.chats[New].there /\ run = NoRun
    BY <1>1, <2>1 DEF Now, Calm, StopsApart, run
  <2>3. /\ q.view = page.view /\ q.runs[s] = page.runs[s] /\ q.chats[s] = page.chats[s]
        /\ q.runs[New] = page.runs[New] /\ q.chats[New] = page.chats[New]
        /\ (page.stops[s] => q.stops[s])
    BY <1>1, <1>2, <2>1, <2>2 DEF run
  <2>4. Calm(bridge, q, streams, ops)
    <3>1. \A k \in Keys : q.chats[k] = page.chats[k] /\ q.runs[k] = page.runs[k]
      BY <1>2, <1>4, <2>3
    <3>2. \A k \in Keys : k # New => (page.stops[k] => q.stops[k])
      BY <1>2, <1>4, <2>3
    <3> QED BY <1>1, <1>2, <2>1, <2>3, <3>1, <3>2, SameButNewStop DEF Now
  <2> QED BY <2>1, <2>4, StopAnswered
<1>8. CASE streams[t].key = New
  <2>1. Untouched(page, ops, s)
    <3>1. Awaited(bridge, streams, ops, s)
      BY <1>1, <1>8 DEF Awaited
    <3> QED BY <3>1 DEF Now, Calm, NewcomersApart
  <2>2. page.runs[s] = NoRun
    BY <2>1 DEF Untouched
  <2>3. CASE streams[t].state = "open"
    <3> DEFINE p == FinishRun(page, t)
               after == [streams EXCEPT ![t].state = Closed(t)]
               r == EndRun(q, s)
    <3>1. Calm(bridge, p, after, ops)
      BY <1>1, <2>3, FinishKeeps DEF Now, Closed
    <3>2. run = DirectRun(t) /\ \A j \in Keys : page.runs[j].trace = t => j = New
      BY <1>1, <1>8, <2>3, RunIsFiledOnce DEF Now, run
    <3>3. FinishRun(q, t) = r
      <4>1. q.runs[s].trace = t
        BY <1>2, <3>2, RunFacts
      <4>2. ASSUME NEW j \in Keys, q.runs[j].trace = t PROVE j = s
        <5>1. CASE j = New
          BY <1>1, <1>2, <4>2, <5>1, RunFacts, BoundsAssumption DEF Traces
        <5>2. CASE j # New /\ j # s
          BY <1>4, <3>2, <4>2, <5>2
        <5> QED BY <5>1, <5>2
      <4> QED BY <1>1, <4>1, <4>2, ResolvesTo
    <3>4. /\ p.view = page.view /\ p.background = page.background /\ p.recovering = page.recovering
          /\ \A k \in Keys : k # New =>
               p.chats[k] = page.chats[k] /\ p.runs[k] = page.runs[k] /\ p.stops[k] = page.stops[k]
          /\ p.chats[New].turns = page.chats[New].turns
      <4>1. p = EndRun(page, New)
        BY <1>1, <1>8, <2>3, FinishRunEnds DEF Now
      <4> HIDE DEF p
      <4>2. Becomes(page, p, New, NoRun, FALSE, page.chats[New].turns)
        BY <1>1, <4>1, EndRunIsSound
      <4> QED BY <4>2 DEF Becomes, Elsewhere
    <3>5. Sound(r) /\ Becomes(q, r, s, NoRun, FALSE, q.chats[s].turns)
      BY <1>1, EndRunIsSound
    <3>6. page.chats[New].there
      BY <1>1, <3>2, RunFacts, ChatOf DEF run
    <3> HIDE DEF r, p
    <3>7. q.chats[s].activeRun = q.runs[s]
      BY <1>2, <1>6, <3>2, <3>6, RunFacts
    <3>8. /\ r.view = s /\ r.background = p.background /\ r.recovering = p.recovering
          /\ r.runs[s] = NoRun /\ r.chats[s].activeRun = NoRun
          /\ r.chats[s].turns = page.chats[New].turns
          /\ r.runs[New] = NoRun /\ r.chats[New] = NoChat
      BY <1>1, <1>2, <3>4, <3>5, <3>6, <3>7, SMTT(60) DEF Becomes, Elsewhere
    <3>9. \A k \in Keys : k # New /\ k # s =>
            r.chats[k] = p.chats[k] /\ r.runs[k] = p.runs[k] /\ r.stops[k] = p.stops[k]
      BY <1>4, <3>4, <3>5, SMTT(60) DEF Becomes, Elsewhere
    <3>10. after[t].key = New /\ after[t].state # "open"
      BY <1>1, <1>8 DEF Typed, StreamsType, Closed
    <3>11. /\ \A u \in r.chats[s].turns : u \in p.chats[New].turns \/ u \in p.chats[s].turns
           /\ r.chats[New].turns \subseteq p.chats[New].turns
           /\ r.chats[New].activeRun = NoRun
      BY <1>5, <3>4, <3>8
    <3>12. Abort(q, op.run, New) = r /\ AbortedStreams(op.run, New) = after
      BY <1>1, <2>3, <3>3 DEF Abort, AbortedStreams, Aborts
    <3> HIDE DEF after
    <3>13. Sound(r) /\ bridge.turn[t] # "none"
      BY <3>5
    <3>14. Calm(bridge, r, after, (ops \ {op}) \cup {Op("stopped", s, op.run)})
      BY <3>1, <3>8, <3>9, <3>10, <3>11, <3>13, MoveKeeps, SMTT(60)
    <3> QED BY <3>12, <3>14
  <2>4. CASE streams[t].state # "open"
    <3>1. run = NoRun
      <4>1. run \in {op.run, NoRun}
        BY <1>1, <1>8 DEF Now, Calm, StopsApart, Place, run
      <4> QED BY <1>1, <2>4, <4>1 DEF Now, Calm, RunsFed, run
    <3>2. /\ q.runs[s] = NoRun /\ q.runs[New] = NoRun
          /\ q.chats[s].activeRun = NoRun /\ q.chats[New].activeRun = NoRun
          /\ \A u \in q.chats[s].turns : u \in page.chats[New].turns \/ u \in page.chats[s].turns
          /\ q.chats[New].turns \subseteq page.chats[New].turns
      BY <1>2, <1>5, <1>6, <2>2, <3>1
    <3>3. Abort(q, op.run, New) = q /\ AbortedStreams(op.run, New) = streams
      BY <1>1, <2>4 DEF Abort, AbortedStreams, Aborts
    <3>4. \A k \in Keys : k # New /\ k # s =>
            q.chats[k] = page.chats[k] /\ q.runs[k] = page.runs[k] /\ q.stops[k] = page.stops[k]
      BY <1>4
    <3>5. Calm(bridge, page, streams, ops) /\ bridge.turn[t] # "none"
      BY DEF Now
    <3>6. q.view = s /\ q.background = page.background /\ q.recovering = page.recovering
      BY <1>2
    <3>7. Calm(bridge, q, streams, (ops \ {op}) \cup {Op("stopped", s, op.run)})
      BY <1>8, <2>4, <3>2, <3>4, <3>5, <3>6, MoveKeeps
    <3> QED BY <3>3, <3>7
  <2> QED BY <2>3, <2>4
<1>9. streams[t].key \in {New, s}
  BY <1>1 DEF Now, Calm, Filed
<1> QED BY <1>7, <1>8, <1>9

\* Abort ends the recovery of the run it is given, and starts none.
LEMMA AbortRecovering ==
  ASSUME TypeOK, NEW p, Sound(p), NEW run \in Run, NEW k \in Keys, NEW s \in Sessions,
         \/ p.recovering[s].trace = 0
         \/ k = s /\ run = RecoveredRun(p.recovering[s].trace)
  PROVE  Abort(p, run, k).recovering[s].trace = 0
<1>1. CASE Aborts(run, k)
  <2>1. run.direct /\ run.trace \in Traces
    BY <1>1, RunFacts DEF Aborts, Run
  <2>2. p.recovering[s].trace = 0
    BY <2>1, RunFacts
  <2>3. Abort(p, run, k).recovering = p.recovering
    BY <1>1, <2>1, FinishRunIsSound DEF Abort
  <2> QED BY <2>2, <2>3
<1>2. CASE ~Aborts(run, k)
  <2>1. /\ p.recovering \in [Sessions -> [trace: 0..MaxTurns, live: BOOLEAN, before: SUBSET Traces]]
        /\ p \in Page
    BY DEF Sound, Page
  <2>2. CASE p.recovering[s].trace = 0
    <3>1. \A r \in Sessions : StopRecoveredRun(p, r).recovering = [p.recovering EXCEPT ![r] = NotRecovering]
      BY <2>1 DEF StopRecoveredRun, Page
    <3>2. ASSUME NEW r \in Sessions PROVE StopRecoveredRun(p, r).recovering[s].trace = 0
      <4>1. StopRecoveredRun(p, r).recovering[s] \in {NotRecovering, p.recovering[s]}
        BY <2>1, <3>1
      <4> QED BY <2>2, <4>1 DEF NotRecovering
    <3> QED BY <1>2, <2>2, <3>2 DEF Abort
  <2>3. CASE k = s /\ run = RecoveredRun(p.recovering[s].trace)
    <3>1. Abort(p, run, k) = StopRecoveredRun(p, s)
      BY <1>2, <2>3, RunFacts DEF Abort
    <3>2. StopRecoveredRun(p, s).recovering = [p.recovering EXCEPT ![s] = NotRecovering]
      BY <2>1 DEF StopRecoveredRun, Page
    <3> QED BY <2>1, <3>1, <3>2 DEF NotRecovering
  <2> QED BY <2>2, <2>3
<1> QED BY <1>1, <1>2

LEMMA CalmStopReturns == ASSUME IInv, Now, NEW op \in ops, StopReturns(op) PROVE Now'
<1>1. PICK reply \in StopReplies(op) :
        LET target == reply.target
            migrated == MigrateSessionState(page, op.key, target)
            viewed == IF target = New THEN migrated ELSE [migrated EXCEPT !.view = target]
            aborted == Abort(viewed, op.run, op.key)
        IN  /\ bridge' = [bridge EXCEPT !.turn = [t \in Traces |-> IF t \in reply.stopped THEN "stopped" ELSE @[t]]]
            /\ page' = IF target = New THEN FinishStoppedRun(aborted, Op("stopped", New, op.run))
                       ELSE aborted
            /\ ops' = (ops \ {op}) \cup IF target = New THEN {} ELSE {Op("stopped", target, op.run)}
  BY DEF StopReturns
<1> DEFINE s == reply.target
           m == MigrateSessionState(page, op.key, s)
           q == [m EXCEPT !.view = s]
<1>2. /\ op.kind = "stop" /\ streams' = AbortedStreams(op.run, op.key) /\ op.key \in Keys
      /\ New \notin Sessions /\ page.view = Place(streams, op) /\ page \in Page
  BY CalmFacts, TypedFacts DEF StopReturns, Now, Calm, StopsApart, IsStop, Sound
<1>3. Calm(bridge, page', streams', ops')
  <2>1. CASE op.key # New
    <3>1. s = op.key /\ s \in Sessions /\ s = Place(streams, op)
      BY <1>1, <1>2, <2>1, CalmFacts DEF StopReplies, Place
    <3>2. q = page
      BY <1>2, <3>1 DEF MigrateSessionState, Page
    <3>3. page' = Abort(page, op.run, op.key) /\ ops' = (ops \ {op}) \cup {Op("stopped", s, op.run)}
      BY <1>1, <1>2, <3>1, <3>2
    <3> HIDE DEF s
    <3> QED BY <1>2, <3>1, <3>3, StopAnswered DEF Now
  <2>2. CASE op.key = New /\ s = New
    <3>1. m = page
      BY <2>2 DEF MigrateSessionState
    <3>2. page' = EndRun(Abort(page, op.run, New), New) /\ ops' = ops \ {op}
      BY <1>1, <2>2, <3>1 DEF FinishStoppedRun, Op
    <3> QED BY <1>2, <2>2, <3>2, NothingStopped
  <2>3. CASE op.key = New /\ s # New
    <3>1. op.run.trace \in Traces /\ s = bridge.session[op.run.trace] /\ bridge.turn[op.run.trace] = "running"
      BY <1>1, <2>3 DEF StopReplies
    <3>2. s \in Sessions
      BY <3>1 DEF Now, Calm, Filed
    <3>3. page' = Abort(q, op.run, New) /\ ops' = (ops \ {op}) \cup {Op("stopped", s, op.run)}
      BY <1>1, <2>3
    <3>4. q = [MigrateSessionState(page, New, s) EXCEPT !.view = s]
      BY <2>3
    <3> HIDE DEF q, s
    <3>5. Sound(q) /\ Moved(page, q, s)
      BY <3>2, <3>4, CalmFacts, MigrateAndView
    <3>6. Calm(bridge, Abort(q, op.run, New), AbortedStreams(op.run, New),
               (ops \ {op}) \cup {Op("stopped", s, op.run)})
      BY <1>2, <2>3, <3>1, <3>2, <3>5, StopMoved
    <3> QED BY <1>2, <2>3, <3>3, <3>6
  <2> QED BY <2>1, <2>2, <2>3
<1>4. \A t \in reply.stopped : bridge.turn[t] = "running"
  BY <1>1 DEF StopReplies, Running
<1>5. bridge \in BridgeType /\ bridge' \in BridgeType
  BY StopReturnsKeeps DEF Now, Calm, Typed, IInv, TypeOK, BridgeType
<1>6. /\ bridge'.session = bridge.session /\ bridge'.sessions = bridge.sessions
      /\ \A t \in Traces : bridge'.turn[t] = IF t \in reply.stopped THEN "stopped" ELSE bridge.turn[t]
  BY <1>1, <1>5 DEF BridgeType
<1>7. \A t \in Traces : /\ bridge'.turn[t] = "none" <=> bridge.turn[t] = "none"
                        /\ bridge'.turn[t] = "refused" => bridge.turn[t] = "refused"
  BY <1>4, <1>6
<1>8. ASSUME s \in Sessions PROVE page'.recovering[s].trace = 0
  <2>1. op.run \in Run /\ IsStop(op) /\ Sound(page) /\ TypeOK
    BY <1>2, CalmFacts, TypedFacts DEF IsStop, IInv
  <2>2. CASE op.key # New
    <3>1. s = op.key /\ s = Place(streams, op)
      BY <1>1, <1>2, <2>2 DEF StopReplies, Place
    <3>2. page' = Abort(q, op.run, op.key) /\ q = page
      BY <1>1, <1>2, <1>8, <3>1 DEF MigrateSessionState, Page
    <3>3. page.recovering[s].trace = 0 \/ op.run = RecoveredRun(page.recovering[s].trace)
      BY <1>2, <1>8, <2>1, <3>1 DEF Now, Calm, StopsApart, StopsRecovery
    <3> HIDE DEF s, q
    <3> QED BY <1>2, <1>8, <2>1, <3>1, <3>2, <3>3, AbortRecovering
  <2>3. CASE op.key = New
    <3>1. /\ op.run.trace \in Traces /\ s = bridge.session[op.run.trace]
          /\ bridge.turn[op.run.trace] = "running"
      BY <1>1, <1>2, <1>8, <2>3 DEF StopReplies
    <3>2. page' = Abort(q, op.run, op.key) /\ q = [MigrateSessionState(page, New, s) EXCEPT !.view = s]
      BY <1>1, <1>2, <1>8, <2>3
    <3> HIDE DEF q, s
    <3>3. Sound(q) /\ q.recovering = page.recovering
      <4>1. Sound(q) /\ Moved(page, q, s)
        BY <1>8, <2>1, <3>2, MigrateAndView
      <4> QED BY <4>1 DEF Moved
    <3>4. page.recovering[s].trace = 0
      <4>1. streams[op.run.trace].key \in {New, s} /\ op.run.direct
        BY <2>1, <2>3, <3>1 DEF Now, Calm, Filed, StopsApart
      <4>2. CASE streams[op.run.trace].key = s
        <5>1. StopsRecovery(page, op, s)
          BY <2>1, <2>3, <4>2 DEF Now, Calm, StopsApart, Place
        <5> QED BY <1>2, <1>8, <4>1, <5>1, RunFacts DEF StopsRecovery
      <4>3. CASE streams[op.run.trace].key = New
        <5>1. Awaited(bridge, streams, ops, s)
          BY <1>2, <2>3, <3>1, <4>3 DEF Awaited
        <5> QED BY <1>8, <5>1 DEF Now, Calm, NewcomersApart, Untouched
      <4> QED BY <4>1, <4>2, <4>3
    <3> QED BY <1>2, <1>8, <2>1, <3>2, <3>3, <3>4, AbortRecovering
  <2> QED BY <2>2, <2>3
<1>9. RecoveriesOpen(bridge', page')
  <2> SUFFICES ASSUME NEW r \in Sessions, page'.recovering[r].trace # 0
               PROVE  Recoverable(bridge', r, page'.recovering[r].trace)
    BY DEF RecoveriesOpen
  <2> DEFINE t == page'.recovering[r].trace
  <2>1. Recoverable(bridge, r, t)
    BY <1>3 DEF Calm, RecoveriesOpen
  <2>2. t \notin reply.stopped
    <3> SUFFICES ASSUME t \in reply.stopped PROVE FALSE
      OBVIOUS
    <3>1. s = bridge.session[t]
      BY <1>1 DEF StopReplies, Running, TurnsOf
    <3>2. s = r
      BY <2>1, <3>1 DEF Recoverable
    <3> QED BY <1>8, <3>2
  <2> HIDE DEF t
  <2>3. Recoverable(bridge', r, t)
    BY <1>6, <2>1, <2>2 DEF Recoverable
  <2> QED BY <2>3 DEF t
<1>10. Calm(bridge', page', streams', ops')
  BY <1>3, <1>5, <1>6, <1>7, <1>9, BridgeKeeps
<1> QED BY <1>10 DEF Now

LEMMA CalmInit == Init => Now
<1> SUFFICES ASSUME Init PROVE Now
  OBVIOUS
<1>1. Typed(bridge, page, streams, ops)
  BY InitIsSound DEF Init, IInv, TypeOK, Typed, BridgeType, StreamsType, OpsType
<1>2. Numbered(bridge)
  <2>1. {t \in Traces : bridge.turn[t] # "none"} = {}
    BY DEF Init
  <2>2. {} = 1..0
    OBVIOUS
  <2> QED BY <2>1, <2>2 DEF Numbered
<1>3. /\ \A k \in Keys : page.chats[k] = NoChat /\ page.runs[k] = NoRun
      /\ \A s \in Sessions : page.recovering[s] = NotRecovering
      /\ page.view = New /\ page.background = {} /\ ops = {}
      /\ \A t \in Traces : /\ bridge.turn[t] = "none" /\ bridge.session[t] = New
                           /\ streams[t].state = "none" /\ streams[t].key = New
  BY DEF Init
<1>4. NoChat.activeRun = NoRun /\ NoChat.turns = {} /\ NotRecovering.trace = 0 /\ NotRecovering.live = FALSE
  BY DEF NoChat, InitialChat, NotRecovering
<1>5. \A k \in Keys : k = New \/ k \in Sessions
  BY DEF Keys
<1>6. New \in Keys /\ Sessions \subseteq Keys /\ New \notin Sessions
  BY SessionsAssumption DEF Keys
<1>7. Filed(bridge, streams)
  BY <1>3 DEF Filed
<1>8. NewcomersApart(bridge, page, streams, ops) /\ StreamsShown(page, streams)
  BY <1>3, <1>4, <1>6 DEF NewcomersApart, Untouched, StreamsShown
<1>9. RunsFed(bridge, page, streams, ops) /\ RecoveriesApart(page) /\ RecoveriesOpen(bridge, page)
  BY <1>3, <1>4, <1>6, RunFacts DEF RunsFed, RecoveriesApart, RecoveriesOpen
<1>10. /\ CallsApart(page, ops) /\ StopsApart(page, streams, ops)
       /\ TurnsApart(bridge, page, streams) /\ ViewUnmarked(page)
  BY <1>3, <1>4, <1>6 DEF CallsApart, StopsApart, TurnsApart, ViewUnmarked
<1> QED BY <1>1, <1>2, <1>7, <1>8, <1>9, <1>10 DEF Now, Calm

LEMMA CalmNext == ASSUME IInv, CInv, [Next]_vars PROVE CInv'
<1> SUFFICES ASSUME ~hasty' PROVE Now'
  BY DEF CInv, Now
<1>1. CASE UNCHANGED vars
  BY <1>1 DEF CInv, Now, vars
<1>2. CASE Next
  <2>1. ~hasty
    BY <1>2 DEF Next, Send, Answer, OtherTurn, Stop, NewChat, TurnEnds, StreamStep, StreamEvent,
                EndStream, FailStream, Returns, StopReturns, StopFails, LoadReturns, LoadFails,
                StopSynced, SyncReturns, RecoveredSynced, Visit, SelectSession, Subscribe,
                RecoveredEnds, RecoveredFails, DeleteSession, DeleteReturns
  <2>2. Now
    BY <2>1 DEF CInv, Now
  <2>3. CASE Send \/ Answer \/ OtherTurn \/ Stop \/ NewChat
    BY <2>2, <2>3, CalmSend, CalmAnswer, CalmOtherTurn, CalmStop, CalmNewChat
  <2>4. ASSUME NEW t \in Traces, TurnEnds(t) \/ StreamStep(t) PROVE Now'
    BY <2>2, <2>4, CalmTurnEnds, CalmStreamEvent, CalmEndStream, CalmFailStream DEF StreamStep
  <2>5. ASSUME NEW op \in ops, Returns(op) PROVE Now'
    <3>1. ASSUME NEW ok \in BOOLEAN, StopSynced(op, ok) PROVE Now'
      BY <2>2, <3>1, EndsSynced DEF StopSynced, FinishStoppedRun, Now
    <3>2. ASSUME NEW ok \in BOOLEAN, RecoveredSynced(op, ok) PROVE Now'
      BY <2>2, <3>2, EndsSynced DEF RecoveredSynced, Now
    <3> QED BY <2>2, <2>5, <3>1, <3>2, CalmStopReturns, CalmStopFails, CalmLoadReturns,
               CalmLoadFails, CalmSyncReturns, CalmDeleteReturns DEF Returns
  <2>6. ASSUME NEW s \in Sessions, Visit(s) PROVE Now'
    BY <2>2, <2>6, CalmSelect, CalmSubscribe, CalmRecoveredEnds, CalmRecoveredFails,
       CalmDelete DEF Visit
  <2> QED BY <1>2, <2>3, <2>4, <2>5, <2>6 DEF Next
<1> QED BY <1>1, <1>2

LEMMA Calmly == Spec => [](IInv /\ CInv)
<1>1. Init => IInv /\ CInv
  BY InitIsSound, CalmInit DEF CInv, Now
<1>2. IInv /\ CInv /\ [Next]_vars => IInv' /\ CInv'
  BY NextKeeps, CalmNext
<1> QED BY <1>1, <1>2, PTL DEF Spec

-----------------------------------------------------------------------------
(* The properties.                                                         *)

\* A chat shows the turns of its session only, whichever visits, stops, recoveries
\* and first events are interleaved while the user waits (chatSessionsState.ts:150,
\* useChatHistoryLoaders.ts).  It is TurnsApart.
THEOREM ChatsStayApart == Spec => []ChatsApart
<1>1. CInv => ChatsApart
  BY DEF CInv, Calm, TurnsApart, ChatsApart
<1> QED BY <1>1, Calmly, PTL

\* While a turn that the page sent runs and streams, the chat it is filed under shows
\* its run, through the migration of the new chat and the answers to earlier calls
\* (useChatStreamRunners.ts, useChatRunActions.ts).  The reference has the run by
\* StreamsShown, the chat what the reference has by RunsFed.
THEOREM RunsAreShown == Spec => []RunShown
<1>1. CInv => RunShown
  <2> SUFFICES ASSUME CInv, ~hasty, NEW t \in Traces, streams[t].state = "open"
               PROVE  page.chats[streams[t].key].activeRun.trace = t
    BY DEF RunShown
  <2>1. Now
    BY DEF CInv, Now
  <2>2. streams[t].key \in Keys /\ page.runs[streams[t].key] = DirectRun(t)
    BY <2>1, RunIsFiledOnce DEF Now
  <2> QED BY <2>1, <2>2, RunFacts DEF Now, Calm, RunsFed
<1> QED BY <1>1, Calmly, PTL

\* No chat waits for a turn whose end has passed, but for the run whose end came
\* before the page had subscribed to the session's events (EndMissed): a run that the
\* page sent has its stream open, one that it recovers still runs or its last event or
\* the call that clears it is on its way (useChatRunActions.ts:266,
\* useChatHistoryRecoveryActions.ts).  RunsFed gives the stream, the call or a
\* recovery, RecoveriesApart that it is of this run, RecoveriesOpen that its end is
\* told by an event.
THEOREM RunsComeToAnEnd == Spec => []RunsEnd
<1>1. CInv => RunsEnd
  <2> DEFINE run(k) == page.chats[k].activeRun
  <2> SUFFICES ASSUME Now, NEW k \in Keys, run(k) # NoRun, ~EndMissed(k, run(k))
               PROVE  EndComes(k, run(k))
    BY DEF RunsEnd, CInv, Now
  <2>1. run(k) = page.runs[k]
    BY DEF Now, Calm, RunsFed
  <2> HIDE DEF run
  <2>2. CASE run(k).direct
    BY <2>1, <2>2 DEF Now, Calm, RunsFed, EndComes
  <2>3. CASE ~run(k).direct
    <3>1. k \in Sessions
      BY <2>1, <2>3 DEF Now, Calm, RunsFed
    <3>2. CASE \E op \in ops : op.kind \in {"recovered", "stopped"} /\ op.key = k
      BY <2>3, <3>2 DEF EndComes
    <3>3. CASE page.recovering[k].trace # 0
      <4>1. run(k) = RecoveredRun(page.recovering[k].trace)
        BY <2>1, <3>1, <3>3 DEF Now, Calm, RecoveriesApart
      <4>2. Recovers(k, run(k)) /\ run(k).trace = page.recovering[k].trace
        BY <2>3, <3>1, <4>1, RunFacts DEF Recovers
      <4>3. Recoverable(bridge, k, run(k).trace)
        BY <3>1, <3>3, <4>2 DEF Now, Calm, RecoveriesOpen
      <4>4. bridge.turn[run(k).trace] = "running" \/ run(k).trace \in Ended(k)
        BY <4>3 DEF Recoverable, Ended, TurnsOf
      <4> QED BY <4>2, <4>4 DEF EndComes, EndMissed
    <3> QED BY <2>1, <2>3, <3>2, <3>3 DEF Now, Calm, RunsFed
  <2> QED BY <2>2, <2>3
<1> QED BY <1>1, Calmly, PTL

\* The session in view is not marked as one that ended in the background
\* (useChatRunActions.ts:221, useHomePageController.ts:299).  It is ViewUnmarked.
THEOREM SeenStaysUnmarked == Spec => []SeenIsUnmarked
<1>1. CInv => SeenIsUnmarked
  BY DEF CInv, Calm, ViewUnmarked, SeenIsUnmarked
<1> QED BY <1>1, Calmly, PTL
=============================================================================
