-------------------------- MODULE ChatStreamProofs --------------------------
(***************************************************************************)
(* What the operators of ChatStream return, for every stream, buffer,      *)
(* sequence of actions and text.                                           *)
(*                                                                         *)
(* The reducer and the buffer are folds of the library, defined through a  *)
(* CHOOSE over recursive functions of sets: Folded names such a fold, Step *)
(* one step of it, and FoldedNone, FoldedOneMore and FoldedConcat compute  *)
(* it for every sequence.  Two functions that satisfy the recursion agree, *)
(* by a least set on which they would not; and a set of naturals that      *)
(* holds zero and, with a number, the next holds them all (SetInduction),  *)
(* so no induction theorem with an operator parameter is needed.           *)
(*                                                                         *)
(* Then, from the bottom: sequences without repetition; tables of          *)
(* segments; the rows of a stream (Stream: each table's identifiers differ *)
(* and no row is listed twice; Listed: a row for everything, and nothing   *)
(* else); what an action, the buffer and an event of the agent do to them; *)
(* and the text that a stream shows.                                       *)
(***************************************************************************)
EXTENDS ChatStream, TLAPS, WellFoundedInduction, SequenceTheorems

-----------------------------------------------------------------------------
(* Induction over the natural numbers, and over a sequence, as facts about *)
(* sets.                                                                   *)

\* A set of naturals that is not empty has a least one.
LEMMA LeastNat ==
  ASSUME NEW E \in SUBSET Nat, E # {}
  PROVE  \E m \in E : \A k \in Nat : k < m => k \notin E
<1>1. PICK m \in E : \A k \in E : ~ (<<k, m>> \in OpToRel(<, Nat))
  BY WFMin, NatLessThanWellFounded
<1>2. \A k \in Nat : k \in E => ~ (k < m)
  BY <1>1 DEF OpToRel
<1> QED BY <1>2

\* A set that holds zero and, with a number, the next, holds them all.
LEMMA SetInduction ==
  ASSUME NEW E \in SUBSET Nat, 0 \in E, \A k \in Nat : k \in E => k + 1 \in E
  PROVE  E = Nat
<1> DEFINE U == Nat \ E
<1> SUFFICES ASSUME U # {} PROVE FALSE
  OBVIOUS
<1>1. PICK m \in U : \A k \in Nat : k < m => k \notin U
  BY LeastNat
<1> HIDE DEF U
<1>2. m \in Nat /\ m \notin E /\ \A k \in Nat : k < m => k \in E
  BY <1>1 DEF U
<1>3. m # 0
  BY <1>2
<1>4. m - 1 \in Nat /\ m - 1 < m /\ (m - 1) + 1 = m
  BY <1>2, <1>3
<1>5. m - 1 \in E
  BY <1>2, <1>4
<1>6. (m - 1) + 1 \in E
  BY <1>4, <1>5
<1> QED BY <1>2, <1>4, <1>6

\* A set of naturals below a bound has a greatest member.
LEMMA MaxIsMember ==
  ASSUME NEW n \in Nat, NEW T \in SUBSET (0..n), T # {}
  PROVE  Max(T) \in T /\ Max(T) \in 0..n /\ \A t \in T : Max(T) >= t
<1> DEFINE S == {k \in Nat : n - k \in T}
<1>1. S \subseteq Nat /\ S # {}
  <2>1. PICK t \in T : TRUE
    OBVIOUS
  <2>2. t \in 0..n /\ n - t \in Nat /\ n - (n - t) = t
    OBVIOUS
  <2>3. n - t \in S
    BY <2>2
  <2> QED BY <2>3
<1>2. PICK m \in S : \A k \in Nat : k < m => k \notin S
  BY <1>1, LeastNat
<1>3. m \in Nat /\ n - m \in T /\ n - m \in Int
  BY <1>2
<1>4. ASSUME NEW t \in T PROVE n - m >= t
  <2>1. t \in 0..n
    OBVIOUS
  <2>2. n - t \in Nat /\ n - (n - t) = t
    BY <2>1
  <2>3. n - t \in S
    BY <2>2
  <2>4. ~ (n - t < m)
    BY <1>2, <2>2, <2>3
  <2> HIDE DEF S
  <2> QED BY <1>3, <2>1, <2>2, <2>4
<1>5. \E x \in T : \A t \in T : x >= t
  BY <1>3, <1>4
<1>6. Max(T) \in T /\ \A t \in T : Max(T) >= t
  BY <1>5 DEF Max
<1> QED BY <1>6

\* A set of indices has a greatest one, the last index if it holds that.
LEMMA MaxTop ==
  ASSUME NEW n \in Nat, NEW u \in SUBSET (1..n), u # {}
  PROVE  Max(u) \in u /\ Max(u) \in 1..n /\ (n \in u => Max(u) = n)
<1> DEFINE k == Max(u)
<1>1. u \in SUBSET (0..n)
  OBVIOUS
<1>2. k \in u /\ \A t \in u : k >= t
  BY <1>1, MaxIsMember
<1> HIDE DEF k
<1>3. k \in 1..n /\ \A t \in u : t \in 1..n
  BY <1>2
<1>4. n \in u => k >= n
  BY <1>2
<1>5. k \in u /\ k \in 1..n /\ (n \in u => k = n)
  BY <1>2, <1>3, <1>4
<1> QED BY <1>5 DEF k

-----------------------------------------------------------------------------
(* The folds of ChatStream.  A lemma cannot be cited for an operator that  *)
(* it takes, so the steps of the folds have names.                         *)

Step(fold, x, y) ==
  CASE fold[1] = "actions" -> ApplyRuntimeAction(x, y)
    [] fold[1] = "enqueue" -> EnqueueAction(x, y)
    [] fold[1] = "without" -> IF y \in fold[2] THEN x ELSE Append(x, y)
    [] fold[1] = "texts" -> x \o y.text
    [] fold[1] = "tools" -> AddTool(x, y)
    [] fold[1] = "said" -> IF y.kind = "assistant" THEN x \o y.body ELSE x

Iterates(fold, c, t, n, f) ==
  f = [u \in SUBSET (1..n) |-> IF u = {} THEN c ELSE Step(fold, f[u \ {Max(u)}], t[Max(u)])]

Folded(fold, c, t) == (CHOOSE f : Iterates(fold, c, t, Len(t), f))[1..Len(t)]

\* There is a function that satisfies the recursion of a fold.
LEMMA IterationExists ==
  ASSUME NEW fold, NEW c, NEW t, NEW n \in Nat
  PROVE  \E f : Iterates(fold, c, t, n, f)
<1> DEFINE E == {m \in Nat : \E f : Iterates(fold, c, t, m, f)}
<1>1. 0 \in E
  <2> DEFINE f == [u \in SUBSET (1..0) |-> c]
  <2>1. \A u \in SUBSET (1..0) : u = {}
    OBVIOUS
  <2>2. Iterates(fold, c, t, 0, f)
    BY <2>1 DEF Iterates
  <2> QED BY <2>2
<1>2. ASSUME NEW k \in Nat, k \in E PROVE k + 1 \in E
  <2> DEFINE m == k + 1
  <2>1. PICK f : Iterates(fold, c, t, k, f)
    BY <1>2
  <2> DEFINE g == [u \in SUBSET (1..m) |->
                     IF m \in u THEN Step(fold, f[u \ {m}], t[m]) ELSE f[u]]
  <2>2. m \in Nat /\ 1..k \subseteq 1..m /\ m \notin 1..k /\ \A i \in 1..m : i = m \/ i \in 1..k
    OBVIOUS
  <2> HIDE DEF m
  <2>3. ASSUME NEW u \in SUBSET (1..m)
        PROVE  g[u] = IF u = {} THEN c ELSE Step(fold, g[u \ {Max(u)}], t[Max(u)])
    <3>1. u = {} \/ (Max(u) \in u /\ Max(u) \in 1..m /\ (m \in u => Max(u) = m))
      BY <2>2, MaxTop
    <3> DEFINE j == Max(u)
    <3> HIDE DEF j
    <3>2. \A v \in SUBSET (1..k) : f[v] = IF v = {} THEN c
                                          ELSE Step(fold, f[v \ {Max(v)}], t[Max(v)])
      BY <2>1 DEF Iterates
    <3>3. CASE m \in u
      <4>1. j = m /\ u # {} /\ u \ {m} \in SUBSET (1..m) /\ m \notin u \ {m}
        BY <3>1, <3>3 DEF j
      <4>2. g[u \ {m}] = f[u \ {m}] /\ g[u] = Step(fold, f[u \ {m}], t[m])
        BY <4>1, <3>3
      <4> QED BY <4>1, <4>2 DEF j
    <3>4. CASE m \notin u
      <4>1. u \in SUBSET (1..k)
        BY <2>2, <3>4
      <4>2. g[u] = f[u]
        BY <3>4
      <4>3. CASE u = {}
        BY <4>1, <4>2, <4>3, <3>2
      <4>4. CASE u # {}
        <5>1. u \ {j} \in SUBSET (1..m) /\ m \notin u \ {j}
          BY <3>4
        <5>2. g[u \ {j}] = f[u \ {j}]
          BY <5>1
        <5>3. f[u] = Step(fold, f[u \ {j}], t[j])
          BY <3>2, <4>1, <4>4 DEF j
        <5> QED BY <4>2, <4>4, <5>2, <5>3 DEF j
      <4> QED BY <4>3, <4>4
    <3> QED BY <3>3, <3>4
  <2>4. Iterates(fold, c, t, m, g)
    <3>1. g = [u \in SUBSET (1..m) |-> g[u]]
      OBVIOUS
    <3> HIDE DEF g
    <3> QED BY <2>3, <3>1 DEF Iterates
  <2> QED BY <2>2, <2>4 DEF m
<1> HIDE DEF E
<1>3. E \in SUBSET Nat
  BY DEF E
<1>4. E = Nat
  BY <1>1, <1>2, <1>3, SetInduction
<1> QED BY <1>4 DEF E

LEMMA IterationIs ==
  ASSUME NEW fold, NEW c, NEW t, NEW n \in Nat
  PROVE  Iterates(fold, c, t, n, CHOOSE f : Iterates(fold, c, t, n, f))
BY IterationExists

\* The iterations of a sequence, and of one that it begins, agree.
LEMMA IterationsAgree ==
  ASSUME NEW fold, NEW c, NEW s, NEW t, NEW n \in Nat, NEW m \in Nat, n <= m,
         \A i \in 1..n : s[i] = t[i],
         NEW f, Iterates(fold, c, s, n, f), NEW g, Iterates(fold, c, t, m, g)
  PROVE  f[1..n] = g[1..n]
<1> DEFINE E == {k \in Nat : k <= n => f[1..k] = g[1..k]}
<1>1. /\ \A u \in SUBSET (1..n) :
           f[u] = IF u = {} THEN c ELSE Step(fold, f[u \ {Max(u)}], s[Max(u)])
      /\ \A u \in SUBSET (1..m) :
           g[u] = IF u = {} THEN c ELSE Step(fold, g[u \ {Max(u)}], t[Max(u)])
  BY DEF Iterates
<1>2. 0 \in E
  <2>1. 1..0 = {}
    OBVIOUS
  <2> QED BY <1>1, <2>1
<1>3. ASSUME NEW k \in Nat, k \in E PROVE k + 1 \in E
  <2> DEFINE j == k + 1
  <2> SUFFICES ASSUME j <= n PROVE f[1..j] = g[1..j]
    OBVIOUS
  <2>1. j \in 1..n /\ j \in 1..j /\ 1..j # {} /\ (1..j) \ {j} = 1..k
    BY ONLY n \in Nat, k \in Nat, j <= n
  <2>2. 1..j \in SUBSET (1..n) /\ 1..j \in SUBSET (1..m) /\ 1..j \in SUBSET (1..j) /\ j \in Nat
    BY <2>1
  <2>3. f[1..k] = g[1..k]
    BY <1>3, <2>1
  <2> HIDE DEF j
  <2>4. Max(1..j) = j
    BY <2>1, <2>2, MaxTop
  <2>5. f[1..j] = Step(fold, f[1..k], s[j]) /\ g[1..j] = Step(fold, g[1..k], t[j])
    BY <1>1, <2>1, <2>2, <2>4
  <2> QED BY <2>1, <2>3, <2>5
<1> HIDE DEF E
<1>4. E \in SUBSET Nat
  BY DEF E
<1>5. E = Nat
  BY <1>2, <1>3, <1>4, SetInduction
<1> QED BY <1>5 DEF E

\* A fold of nothing is its start.
LEMMA FoldedNone ==
  ASSUME NEW fold, NEW c
  PROVE  Folded(fold, c, <<>>) = c
<1> DEFINE f == CHOOSE x : Iterates(fold, c, <<>>, 0, x)
<1>1. Folded(fold, c, <<>>) = f[1..0]
  BY DEF Folded
<1>2. Iterates(fold, c, <<>>, 0, f)
  BY IterationIs
<1> HIDE DEF f
<1>3. {} \in SUBSET (1..0) /\ 1..0 = {}
  OBVIOUS
<1> QED BY <1>1, <1>2, <1>3 DEF Iterates

\* A fold takes the last element last.
LEMMA FoldedOneMore ==
  ASSUME NEW fold, NEW c, NEW S, NEW s \in Seq(S), NEW a \in S
  PROVE  Folded(fold, c, Append(s, a)) = Step(fold, Folded(fold, c, s), a)
<1> DEFINE t == Append(s, a)
           n == Len(s)
           m == n + 1
           f == CHOOSE x : Iterates(fold, c, s, n, x)
           g == CHOOSE x : Iterates(fold, c, t, m, x)
<1>1. /\ n \in Nat /\ m \in Nat /\ n <= m /\ Len(t) = m /\ t[m] = a
      /\ \A i \in 1..n : s[i] = t[i]
  OBVIOUS
<1>2. Folded(fold, c, s) = f[1..n] /\ Folded(fold, c, t) = g[1..m]
  BY <1>1 DEF Folded
<1>3. Iterates(fold, c, s, n, f) /\ Iterates(fold, c, t, m, g)
  BY <1>1, IterationIs
<1> HIDE DEF f, g, t
<1>4. 1..m \in SUBSET (1..m) /\ 1..m # {} /\ m \in 1..m /\ (1..m) \ {m} = 1..n
  BY <1>1
<1> HIDE DEF n, m
<1>5. f[1..n] = g[1..n]
  BY <1>1, <1>3, IterationsAgree
<1>6. Max(1..m) = m
  BY <1>1, <1>4, MaxTop
<1>7. \A u \in SUBSET (1..m) : g[u] = IF u = {} THEN c ELSE Step(fold, g[u \ {Max(u)}], t[Max(u)])
  BY <1>3 DEF Iterates
<1>8. g[1..m] = Step(fold, g[1..n], a)
  BY <1>1, <1>4, <1>6, <1>7
<1> QED BY <1>2, <1>5, <1>8 DEF t

\* A fold goes on where the fold of what comes before has come to.
LEMMA FoldedConcat ==
  ASSUME NEW fold, NEW c, NEW S, NEW s \in Seq(S), NEW t \in Seq(S)
  PROVE  Folded(fold, c, s \o t) = Folded(fold, Folded(fold, c, s), t)
<1> DEFINE d == Folded(fold, c, s)
           E == {n \in Nat : \A u \in Seq(S) : Len(u) = n =>
                   Folded(fold, c, s \o u) = Folded(fold, d, u)}
<1> HIDE DEF d
<1>1. 0 \in E
  <2> SUFFICES ASSUME NEW u \in Seq(S), Len(u) = 0
               PROVE  Folded(fold, c, s \o u) = Folded(fold, d, u)
    OBVIOUS
  <2>1. u = <<>> /\ s \o u = s
    OBVIOUS
  <2> QED BY <2>1, FoldedNone DEF d
<1>2. ASSUME NEW k \in Nat, k \in E PROVE k + 1 \in E
  <2> SUFFICES ASSUME NEW u \in Seq(S), Len(u) = k + 1
               PROVE  Folded(fold, c, s \o u) = Folded(fold, d, u)
    OBVIOUS
  <2>1. PICK v \in Seq(S), e \in S : u = Append(v, e)
    <3>1. u # <<>>
      OBVIOUS
    <3> QED BY <3>1, SequenceEmptyOrAppend
  <2>2. Len(v) = k /\ s \o v \in Seq(S) /\ s \o u = Append(s \o v, e)
    BY <2>1
  <2>3. Folded(fold, c, s \o v) = Folded(fold, d, v)
    BY <1>2, <2>2
  <2>4. Folded(fold, c, s \o u) = Step(fold, Folded(fold, c, s \o v), e)
    <3> DEFINE w == s \o v
    <3>1. w \in Seq(S) /\ s \o u = Append(w, e)
      BY <2>2
    <3> HIDE DEF w
    <3>2. Folded(fold, c, Append(w, e)) = Step(fold, Folded(fold, c, w), e)
      BY <3>1, FoldedOneMore
    <3> QED BY <3>1, <3>2 DEF w
  <2>5. Folded(fold, d, u) = Step(fold, Folded(fold, d, v), e)
    BY <2>1, FoldedOneMore
  <2> QED BY <2>3, <2>4, <2>5
<1> HIDE DEF E
<1>3. E \in SUBSET Nat
  BY DEF E
<1>4. E = Nat
  BY <1>1, <1>2, <1>3, SetInduction
<1>5. Len(t) \in Nat
  OBVIOUS
<1> QED BY <1>4, <1>5 DEF E, d

\* The folds of ChatStream are such folds: the reducer over a list of actions,
LEMMA ActionsFold ==
  ASSUME NEW c, NEW t, NEW n \in Nat, DOMAIN t = 1..n, Len(t) = n
  PROVE  ApplyRuntimeActions(c, t) = Folded(<<"actions">>, c, t)
<1> DEFINE Raw(f) == f = [u \in SUBSET (1..n) |->
                            IF u = {} THEN c
                            ELSE ApplyRuntimeAction(f[u \ {Max(u)}], t[Max(u)])]
           h == CHOOSE f : Raw(f)
           g == CHOOSE f : Iterates(<<"actions">>, c, t, n, f)
<1>1. ASSUME NEW f PROVE Raw(f) <=> Iterates(<<"actions">>, c, t, n, f)
  BY DEF Iterates, Step
<1>2. ApplyRuntimeActions(c, t) = h[1..n]
  BY DEF ApplyRuntimeActions, FoldLeft, MapThenFoldSet
<1>3. Folded(<<"actions">>, c, t) = g[1..n]
  BY DEF Folded
<1>4. Iterates(<<"actions">>, c, t, n, g)
  BY IterationIs
<1> HIDE DEF g, Raw
<1>5. Raw(h)
  BY <1>1, <1>4
<1> HIDE DEF h
<1>6. Iterates(<<"actions">>, c, t, n, h)
  BY <1>1, <1>5
<1>7. h[1..n] = g[1..n]
  BY <1>4, <1>6, IterationsAgree
<1> QED BY <1>2, <1>3, <1>7

\* the buffer over a list of actions,
LEMMA EnqueueFold ==
  ASSUME NEW c, NEW t, NEW n \in Nat, DOMAIN t = 1..n, Len(t) = n
  PROVE  Enqueue(c, t) = Folded(<<"enqueue">>, c, t)
<1> DEFINE Raw(f) == f = [u \in SUBSET (1..n) |->
                            IF u = {} THEN c
                            ELSE EnqueueAction(f[u \ {Max(u)}], t[Max(u)])]
           h == CHOOSE f : Raw(f)
           g == CHOOSE f : Iterates(<<"enqueue">>, c, t, n, f)
<1>1. ASSUME NEW f PROVE Raw(f) <=> Iterates(<<"enqueue">>, c, t, n, f)
  BY DEF Iterates, Step
<1>2. Enqueue(c, t) = h[1..n]
  BY DEF Enqueue, FoldLeft, MapThenFoldSet
<1>3. Folded(<<"enqueue">>, c, t) = g[1..n]
  BY DEF Folded
<1>4. Iterates(<<"enqueue">>, c, t, n, g)
  BY IterationIs
<1> HIDE DEF g, Raw
<1>5. Raw(h)
  BY <1>1, <1>4
<1> HIDE DEF h
<1>6. Iterates(<<"enqueue">>, c, t, n, h)
  BY <1>1, <1>5
<1>7. h[1..n] = g[1..n]
  BY <1>4, <1>6, IterationsAgree
<1> QED BY <1>2, <1>3, <1>7

\* the text of a list of segments,
LEMMA TextFold ==
  ASSUME NEW t, NEW n \in Nat, DOMAIN t = 1..n, Len(t) = n
  PROVE  TextOf(t) = Folded(<<"texts">>, <<>>, t)
<1> DEFINE Raw(f) == f = [u \in SUBSET (1..n) |->
                            IF u = {} THEN <<>>
                            ELSE f[u \ {Max(u)}] \o t[Max(u)].text]
           h == CHOOSE f : Raw(f)
           g == CHOOSE f : Iterates(<<"texts">>, <<>>, t, n, f)
<1>1. ASSUME NEW f PROVE Raw(f) <=> Iterates(<<"texts">>, <<>>, t, n, f)
  BY DEF Iterates, Step
<1>2. TextOf(t) = h[1..n]
  BY DEF TextOf, FoldLeft, MapThenFoldSet
<1>3. Folded(<<"texts">>, <<>>, t) = g[1..n]
  BY DEF Folded
<1>4. Iterates(<<"texts">>, <<>>, t, n, g)
  BY IterationIs
<1> HIDE DEF g, Raw
<1>5. Raw(h)
  BY <1>1, <1>4
<1> HIDE DEF h
<1>6. Iterates(<<"texts">>, <<>>, t, n, h)
  BY <1>1, <1>5
<1>7. h[1..n] = g[1..n]
  BY <1>4, <1>6, IterationsAgree
<1> QED BY <1>2, <1>3, <1>7

\* the runtime that is hydrated from the cards of a draft,
LEMMA AddToolFold ==
  ASSUME NEW c, NEW t, NEW n \in Nat, DOMAIN t = 1..n, Len(t) = n
  PROVE  FoldLeft(AddTool, c, t) = Folded(<<"tools">>, c, t)
<1> DEFINE Raw(f) == f = [u \in SUBSET (1..n) |->
                            IF u = {} THEN c
                            ELSE AddTool(f[u \ {Max(u)}], t[Max(u)])]
           h == CHOOSE f : Raw(f)
           g == CHOOSE f : Iterates(<<"tools">>, c, t, n, f)
<1>1. ASSUME NEW f PROVE Raw(f) <=> Iterates(<<"tools">>, c, t, n, f)
  BY DEF Iterates, Step
<1>2. FoldLeft(AddTool, c, t) = h[1..n]
  BY DEF FoldLeft, MapThenFoldSet
<1>3. Folded(<<"tools">>, c, t) = g[1..n]
  BY DEF Folded
<1>4. Iterates(<<"tools">>, c, t, n, g)
  BY IterationIs
<1> HIDE DEF g, Raw
<1>5. Raw(h)
  BY <1>1, <1>4
<1> HIDE DEF h
<1>6. Iterates(<<"tools">>, c, t, n, h)
  BY <1>1, <1>5
<1>7. h[1..n] = g[1..n]
  BY <1>4, <1>6, IterationsAgree
<1> QED BY <1>2, <1>3, <1>7

\* and what is left of a list without some of its members.
LEMMA WithoutFold ==
  ASSUME NEW T, NEW t, NEW n \in Nat, DOMAIN t = 1..n, Len(t) = n
  PROVE  Without(t, T) = Folded(<<"without", T>>, <<>>, t)
<1> DEFINE fold == <<"without", T>>
           Raw(f) == f = [u \in SUBSET (1..n) |->
                            IF u = {} THEN <<>>
                            ELSE IF t[Max(u)] \in T THEN f[u \ {Max(u)}]
                            ELSE Append(f[u \ {Max(u)}], t[Max(u)])]
           h == CHOOSE f : Raw(f)
           g == CHOOSE f : Iterates(fold, <<>>, t, n, f)
<1>1. ASSUME NEW f PROVE Raw(f) <=> Iterates(fold, <<>>, t, n, f)
  BY DEF Iterates, Step
<1>2. Without(t, T) = h[1..n]
  BY DEF Without, FoldLeft, MapThenFoldSet
<1>3. Folded(fold, <<>>, t) = g[1..n]
  BY DEF Folded
<1>4. Iterates(fold, <<>>, t, n, g)
  BY IterationIs
<1> HIDE DEF g, Raw
<1>5. Raw(h)
  BY <1>1, <1>4
<1> HIDE DEF h
<1>6. Iterates(fold, <<>>, t, n, h)
  BY <1>1, <1>5
<1>7. h[1..n] = g[1..n]
  BY <1>4, <1>6, IterationsAgree
<1> QED BY <1>2, <1>3, <1>7

-----------------------------------------------------------------------------
(* Sequences.                                                              *)

Sequence(x) == x \in Seq(ToSet(x))

LEMMA SequenceOf ==
  ASSUME NEW S, NEW x \in Seq(S)
  PROVE  Sequence(x) /\ ToSet(x) \subseteq S /\ ToSet(x) = {x[i] : i \in 1..Len(x)}
<1>1. ToSet(x) = {x[i] : i \in 1..Len(x)} /\ ToSet(x) \subseteq S
  BY DEF ToSet
<1>2. \A i \in 1..Len(x) : x[i] \in ToSet(x)
  BY <1>1
<1> DEFINE R == ToSet(x)
<1> HIDE DEF R
<1>3. /\ Len(x) \in Nat /\ x = [i \in 1..Len(x) |-> x[i]]
      /\ \A i \in 1..Len(x) : x[i] \in R
  BY <1>2 DEF R
<1>4. x \in Seq(R)
  BY <1>3
<1> QED BY <1>1, <1>4 DEF Sequence, R

LEMMA SequenceEmpty == Sequence(<<>>) /\ ToSet(<<>>) = {} /\ IsInjective(<<>>)
BY DEF Sequence, ToSet, IsInjective

LEMMA SequenceAppend ==
  ASSUME NEW x, Sequence(x), NEW a
  PROVE  /\ Sequence(Append(x, a)) /\ ToSet(Append(x, a)) = ToSet(x) \cup {a}
         /\ IsInjective(x) /\ a \notin ToSet(x) => IsInjective(Append(x, a))
<1> DEFINE S == ToSet(x) \cup {a}
           y == Append(x, a)
           n == Len(x)
<1>1. x \in Seq(S) /\ a \in S
  BY DEF Sequence
<1>2. y \in Seq(S) /\ Len(y) = n + 1 /\ y[n + 1] = a /\ \A i \in 1..n : y[i] = x[i]
  BY <1>1, AppendProperties
<1>3. n \in Nat /\ DOMAIN x = 1..n /\ DOMAIN y = 1..(n + 1)
  BY <1>1, <1>2, LenProperties
<1>4. ToSet(x) = {x[i] : i \in 1..n} /\ ToSet(y) = {y[i] : i \in 1..(n + 1)}
  BY <1>3 DEF ToSet
<1> HIDE DEF y, n
<1>5. ToSet(y) = ToSet(x) \cup {a}
  <2>1. \A i \in 1..(n + 1) : i = n + 1 \/ i \in 1..n
    BY <1>3
  <2>2. \A i \in 1..n : i \in 1..(n + 1)
    BY <1>3
  <2>3. n + 1 \in 1..(n + 1)
    BY <1>3
  <2> QED BY <1>2, <1>4, <2>1, <2>2, <2>3
<1>6. Sequence(y)
  BY <1>2, SequenceOf
<1>7. ASSUME IsInjective(x), a \notin ToSet(x) PROVE IsInjective(y)
  <2> SUFFICES ASSUME NEW i \in 1..(n + 1), NEW j \in 1..(n + 1), y[i] = y[j] PROVE i = j
    BY <1>3 DEF IsInjective
  <2>1. (i = n + 1 \/ i \in 1..n) /\ (j = n + 1 \/ j \in 1..n)
    BY <1>3
  <2>2. \A k \in 1..n : x[k] # a
    BY <1>4, <1>7
  <2> QED BY <1>2, <1>3, <1>7, <2>1, <2>2 DEF IsInjective
<1> QED BY <1>5, <1>6, <1>7 DEF y

\* An item is added once.
LEMMA AddItemIs ==
  ASSUME NEW items, Sequence(items), NEW key, NEW r, r = AddItem(items, key)
  PROVE  /\ Sequence(r) /\ ToSet(r) = ToSet(items) \cup {key}
         /\ AddItem(r, key) = r
         /\ IsInjective(items) => IsInjective(r)
BY SequenceAppend DEF AddItem

\* Without leaves the members that are not of T, each in its place among them.
LEMMA WithoutIs ==
  ASSUME NEW S, NEW s \in Seq(S), NEW T
  PROVE  /\ Without(s, T) \in Seq(S) /\ ToSet(Without(s, T)) = ToSet(s) \ T
         /\ IsInjective(s) => IsInjective(Without(s, T))
<1> DEFINE fold == <<"without", T>>
           E == {n \in Nat : \A x \in Seq(S) : Len(x) = n =>
                   LET r == Folded(fold, <<>>, x)
                   IN  /\ r \in Seq(S) /\ ToSet(r) = ToSet(x) \ T
                       /\ IsInjective(x) => IsInjective(r)}
<1>1. 0 \in E
  <2> SUFFICES ASSUME NEW x \in Seq(S), Len(x) = 0
               PROVE  LET r == Folded(fold, <<>>, x)
                      IN  /\ r \in Seq(S) /\ ToSet(r) = ToSet(x) \ T
                          /\ IsInjective(x) => IsInjective(r)
    OBVIOUS
  <2>1. x = <<>>
    OBVIOUS
  <2>2. Folded(fold, <<>>, x) = <<>>
    BY <2>1, FoldedNone
  <2> QED BY <2>1, <2>2, SequenceEmpty
<1>2. ASSUME NEW k \in Nat, k \in E PROVE k + 1 \in E
  <2> SUFFICES ASSUME NEW x \in Seq(S), Len(x) = k + 1
               PROVE  LET r == Folded(fold, <<>>, x)
                      IN  /\ r \in Seq(S) /\ ToSet(r) = ToSet(x) \ T
                          /\ IsInjective(x) => IsInjective(r)
    OBVIOUS
  <2>1. PICK v \in Seq(S), e \in S : x = Append(v, e)
    <3>1. x # <<>>
      OBVIOUS
    <3> QED BY <3>1, SequenceEmptyOrAppend
  <2>2. Len(v) = k
    BY <2>1
  <2> DEFINE q == Folded(fold, <<>>, v)
             r == Folded(fold, <<>>, x)
  <2>3. q \in Seq(S) /\ ToSet(q) = ToSet(v) \ T /\ (IsInjective(v) => IsInjective(q))
    BY <1>2, <2>2
  <2>4. r = Step(fold, q, e)
    BY <2>1, FoldedOneMore
  <2>5. r = IF e \in T THEN q ELSE Append(q, e)
    BY <2>4 DEF Step
  <2>6. Sequence(v) /\ Sequence(q)
    BY <2>3, SequenceOf
  <2> HIDE DEF q, r
  <2>7. ToSet(x) = ToSet(v) \cup {e}
    BY <2>1, <2>6, SequenceAppend
  <2>8. /\ Append(q, e) \in Seq(S) /\ ToSet(Append(q, e)) = ToSet(q) \cup {e}
        /\ IsInjective(q) /\ e \notin ToSet(q) => IsInjective(Append(q, e))
    BY <2>3, <2>6, SequenceAppend
  <2>9. IsInjective(x) => IsInjective(v) /\ e \notin ToSet(v)
    <3>1. /\ DOMAIN v = 1..k /\ DOMAIN x = 1..(k + 1) /\ x[k + 1] = e
          /\ \A i \in 1..k : x[i] = v[i] /\ i \in 1..(k + 1) /\ i # k + 1
          /\ k + 1 \in 1..(k + 1)
      BY <2>1, <2>2
    <3>2. ToSet(v) = {v[i] : i \in 1..k}
      BY <3>1 DEF ToSet
    <3> QED BY <3>1, <3>2 DEF IsInjective
  <2>10. r \in Seq(S) /\ ToSet(r) = ToSet(x) \ T
    BY <2>3, <2>5, <2>7, <2>8
  <2>11. IsInjective(x) => IsInjective(r)
    BY <2>3, <2>5, <2>8, <2>9
  <2> QED BY <2>10, <2>11 DEF r
<1> HIDE DEF E
<1>3. E \in SUBSET Nat
  BY DEF E
<1>4. E = Nat
  BY <1>1, <1>2, <1>3, SetInduction
<1>5. Len(s) \in Nat /\ DOMAIN s = 1..Len(s)
  OBVIOUS
<1>6. Without(s, T) = Folded(fold, <<>>, s)
  BY <1>5, WithoutFold
<1> QED BY <1>4, <1>5, <1>6 DEF E

LEMMA WithoutSequence ==
  ASSUME NEW s, Sequence(s), NEW T
  PROVE  /\ Sequence(Without(s, T)) /\ ToSet(Without(s, T)) = ToSet(s) \ T
         /\ IsInjective(s) => IsInjective(Without(s, T))
<1>1. s \in Seq(ToSet(s))
  BY DEF Sequence
<1>2. /\ Without(s, T) \in Seq(ToSet(s)) /\ ToSet(Without(s, T)) = ToSet(s) \ T
      /\ IsInjective(s) => IsInjective(Without(s, T))
  BY <1>1, WithoutIs
<1> QED BY <1>2, SequenceOf

-----------------------------------------------------------------------------
(* Segments.                                                               *)

Text == Seq(Nat)
Segment == [id : Nat \ {0}, text : Text]

Table(table) ==
  /\ table \in [active : Nat, next : Nat \ {0}, segments : Seq(Segment)]
  /\ \A id \in SegmentIds(table) : id < table.next
  /\ table.active \in {0} \cup SegmentIds(table)

LEMMA NoSegments == Table(EmptySegments) /\ SegmentIds(EmptySegments) = {}
<1>1. /\ EmptySegments.segments = <<>> /\ EmptySegments.active = 0
      /\ EmptySegments \in [active : Nat, next : Nat \ {0}, segments : Seq(Segment)]
  BY DEF EmptySegments
<1>2. SegmentIds(EmptySegments) = {}
  BY <1>1, SequenceEmpty DEF SegmentIds
<1> QED BY <1>1, <1>2 DEF Table

\* A table without an active segment is a table.
LEMMA BreakIs ==
  ASSUME NEW table, Table(table)
  PROVE  /\ Table(Break(table)) /\ SegmentIds(Break(table)) = SegmentIds(table)
         /\ Break(Break(table)) = Break(table) /\ Break(table).active = 0
         /\ Break(table).segments = table.segments
<1>1. /\ Break(table) \in [active : Nat, next : Nat \ {0}, segments : Seq(Segment)]
      /\ Break(table).segments = table.segments /\ Break(table).next = table.next
      /\ Break(table).active = 0
      /\ Break(Break(table)) = Break(table)
  BY DEF Table, Break
<1>2. SegmentIds(Break(table)) = SegmentIds(table)
  BY <1>1 DEF SegmentIds
<1> QED BY <1>1, <1>2 DEF Table

LEMMA LongerIs ==
  ASSUME NEW segment \in Segment, NEW id, NEW x \in Text
  PROVE  /\ Longer(segment, id, x) \in Segment /\ Longer(segment, id, x).id = segment.id
         /\ \A y \in Text : Longer(Longer(segment, id, x), id, y) = Longer(segment, id, x \o y)
<1>1. /\ segment.id \in Nat \ {0} /\ segment.text \in Text
      /\ segment = [id |-> segment.id, text |-> segment.text]
  BY DEF Segment
<1>2. segment.text \o x \in Text
  BY <1>1 DEF Text
<1>3. ASSUME NEW y \in Text PROVE (segment.text \o x) \o y = segment.text \o (x \o y)
  BY <1>1 DEF Text
<1>4. Longer(segment, id, x) = [id |-> segment.id,
                                text |-> IF segment.id = id THEN segment.text \o x ELSE segment.text]
  BY <1>1 DEF Longer
<1>5. Longer(segment, id, x) \in Segment
  BY <1>1, <1>2, <1>4 DEF Segment
<1>6. ASSUME NEW y \in Text
      PROVE  Longer(Longer(segment, id, x), id, y) = Longer(segment, id, x \o y)
  <2> DEFINE one == [id |-> segment.id,
                     text |-> IF segment.id = id THEN segment.text \o x ELSE segment.text]
             t == IF segment.id = id THEN segment.text \o (x \o y) ELSE segment.text
  <2>1. one.id = segment.id /\ one.text = IF segment.id = id THEN segment.text \o x ELSE segment.text
    OBVIOUS
  <2>2. \A v : [one EXCEPT !.text = v] = [id |-> segment.id, text |-> v]
    OBVIOUS
  <2>3. Longer(one, id, y) = [id |-> segment.id, text |-> t]
    <3> HIDE DEF one
    <3>1. CASE segment.id = id
      BY <1>3, <2>1, <2>2, <3>1 DEF Longer
    <3>2. CASE segment.id # id
      BY <2>1, <3>2 DEF Longer, one
    <3> QED BY <3>1, <3>2
  <2>4. Longer(segment, id, x \o y) = [id |-> segment.id, text |-> t]
    BY <1>1 DEF Longer
  <2> QED BY <1>4, <2>3, <2>4
<1>7. Longer(segment, id, x).id = segment.id
  BY <1>4
<1> QED BY <1>5, <1>6, <1>7

\* Text appended to a table goes to its active segment, or to a new one.
LEMMA AppendSegmentIs ==
  ASSUME NEW table, Table(table), NEW x \in Text, NEW r, r = AppendSegment(table, x)
  PROVE  /\ Table(r) /\ r.active # 0
         /\ table.active # 0 => r.active = table.active
         /\ SegmentIds(r) = SegmentIds(table) \cup {r.active}
<1> DEFINE n == Len(table.segments)
<1>1. /\ table.active \in Nat /\ table.next \in Nat \ {0} /\ table.segments \in Seq(Segment)
      /\ table = [active |-> table.active, next |-> table.next, segments |-> table.segments]
      /\ n \in Nat /\ DOMAIN table.segments = 1..n
      /\ \A i \in 1..n : table.segments[i] \in Segment
  BY DEF Table
<1>2. SegmentIds(table) = {table.segments[i].id : i \in 1..n}
  BY <1>1 DEF SegmentIds, ToSet
<1>3. CASE table.active # 0
  <2> DEFINE longer == [i \in 1..n |-> Longer(table.segments[i], table.active, x)]
  <2>1. r = [active |-> table.active, next |-> table.next, segments |-> longer]
    BY <1>1, <1>3 DEF AppendSegment
  <2>2. \A i \in 1..n : longer[i] \in Segment /\ longer[i].id = table.segments[i].id
    BY <1>1, LongerIs
  <2>3. longer \in Seq(Segment) /\ Len(longer) = n /\ DOMAIN longer = 1..n
    BY <1>1, <2>2
  <2> HIDE DEF longer
  <2>4. r.segments = longer /\ r.active = table.active /\ r.next = table.next
    BY <2>1
  <2>5. SegmentIds(r) = {longer[i].id : i \in 1..n}
    BY <2>3, <2>4 DEF SegmentIds, ToSet
  <2>6. SegmentIds(r) = SegmentIds(table)
    BY <1>2, <2>2, <2>5
  <2>7. r \in [active : Nat, next : Nat \ {0}, segments : Seq(Segment)]
    BY <1>1, <2>1, <2>3
  <2> QED BY <1>3, <2>4, <2>6, <2>7 DEF Table
<1>4. CASE table.active = 0
  <2> DEFINE new == [id |-> table.next, text |-> x]
             more == Append(table.segments, new)
  <2>1. r = [active |-> table.next, next |-> table.next + 1, segments |-> more]
    BY <1>4 DEF AppendSegment
  <2>2. new \in Segment /\ new.id = table.next
    BY <1>1 DEF Segment
  <2> HIDE DEF new
  <2>3. more \in Seq(Segment) /\ Sequence(table.segments)
    BY <1>1, <2>2, SequenceOf
  <2>4. ToSet(more) = ToSet(table.segments) \cup {new}
    BY <2>3, SequenceAppend
  <2> HIDE DEF more
  <2>5. r.segments = more /\ r.active = table.next /\ r.next = table.next + 1
    BY <2>1
  <2>6. SegmentIds(r) = SegmentIds(table) \cup {table.next}
    BY <2>2, <2>4, <2>5 DEF SegmentIds
  <2>7. \A id \in SegmentIds(table) : id \in Nat /\ id < table.next
    BY <1>1, <1>2 DEF Table, Segment
  <2>8. \A id \in SegmentIds(r) : id < r.next
    BY <1>1, <2>5, <2>6, <2>7
  <2>9. r \in [active : Nat, next : Nat \ {0}, segments : Seq(Segment)]
    BY <1>1, <2>1, <2>3
  <2> QED BY <1>1, <1>4, <2>5, <2>6, <2>8, <2>9 DEF Table
<1> QED BY <1>3, <1>4

\* Two texts appended one after the other are appended at once.
LEMMA AppendSegmentTwice ==
  ASSUME NEW table, Table(table), NEW x \in Text, NEW y \in Text
  PROVE  AppendSegment(AppendSegment(table, x), y) = AppendSegment(table, x \o y)
<1> DEFINE n == Len(table.segments)
           s == table.segments
<1>1. /\ table.active \in Nat /\ table.next \in Nat \ {0} /\ s \in Seq(Segment)
      /\ table = [active |-> table.active, next |-> table.next, segments |-> s]
      /\ n \in Nat /\ DOMAIN s = 1..n
      /\ \A i \in 1..n : s[i] \in Segment
  BY DEF Table
<1>2. ASSUME NEW t, NEW m \in Nat, DOMAIN t.segments = 1..m, t.active # 0, NEW z,
             t = [active |-> t.active, next |-> t.next, segments |-> t.segments]
      PROVE  AppendSegment(t, z) =
               [active |-> t.active, next |-> t.next,
                segments |-> [i \in 1..m |-> Longer(t.segments[i], t.active, z)]]
  BY <1>2 DEF AppendSegment
<1>3. CASE table.active # 0
  <2> DEFINE a == table.active
             sx == [i \in 1..n |-> Longer(s[i], a, x)]
             once == [active |-> a, next |-> table.next, segments |-> sx]
  <2>1. AppendSegment(table, x) = once
    BY <1>1, <1>2, <1>3
  <2>2. AppendSegment(table, x \o y) =
          [active |-> a, next |-> table.next, segments |-> [i \in 1..n |-> Longer(s[i], a, x \o y)]]
    BY <1>1, <1>2, <1>3
  <2>3. /\ once.active = a /\ once.next = table.next /\ once.segments = sx /\ DOMAIN sx = 1..n
        /\ once = [active |-> once.active, next |-> once.next, segments |-> once.segments]
    OBVIOUS
  <2>4. \A i \in 1..n : sx[i] = Longer(s[i], a, x)
    OBVIOUS
  <2> HIDE DEF once, sx
  <2>5. AppendSegment(once, y) =
          [active |-> a, next |-> table.next, segments |-> [i \in 1..n |-> Longer(sx[i], a, y)]]
    <3>1. DOMAIN once.segments = 1..n /\ once.active # 0
      BY <1>3, <2>3
    <3>2. AppendSegment(once, y) =
            [active |-> once.active, next |-> once.next,
             segments |-> [i \in 1..n |-> Longer(once.segments[i], once.active, y)]]
      BY <1>1, <1>2, <2>3, <3>1
    <3> QED BY <2>3, <3>2
  <2>6. \A i \in 1..n : Longer(sx[i], a, y) = Longer(s[i], a, x \o y)
    BY <1>1, <2>4, LongerIs
  <2> QED BY <2>1, <2>2, <2>5, <2>6
<1>4. CASE table.active = 0
  <2> DEFINE k == table.next
             one == [id |-> k, text |-> x]
             both == [id |-> k, text |-> x \o y]
             sx == Append(s, one)
             sxy == Append(s, both)
             m == n + 1
             once == [active |-> k, next |-> k + 1, segments |-> sx]
  <2>1. /\ AppendSegment(table, x) = once
        /\ AppendSegment(table, x \o y) = [active |-> k, next |-> k + 1, segments |-> sxy]
    BY <1>4 DEF AppendSegment
  <2>2. x \o y \in Text
    BY DEF Text
  <2>3. one \in Segment /\ both \in Segment /\ Longer(one, k, y) = both
    BY <1>1, <2>2 DEF Segment, Longer
  <2> HIDE DEF one, both
  <2>4. /\ sx \in Seq(Segment) /\ Len(sx) = m /\ DOMAIN sx = 1..m /\ sx[m] = one /\ m \in Nat
        /\ \A i \in 1..n : sx[i] = s[i]
        /\ sxy \in Seq(Segment) /\ Len(sxy) = m /\ DOMAIN sxy = 1..m /\ sxy[m] = both
        /\ \A i \in 1..n : sxy[i] = s[i]
    BY <1>1, <2>3, AppendProperties
  <2>5. /\ once.active = k /\ once.next = k + 1 /\ once.segments = sx
        /\ once = [active |-> once.active, next |-> once.next, segments |-> once.segments]
    OBVIOUS
  <2>6. \A i \in 1..m : i = m \/ i \in 1..n
    BY <1>1
  <2> HIDE DEF once, sx, sxy, m
  <2>7. AppendSegment(once, y) =
          [active |-> k, next |-> k + 1, segments |-> [i \in 1..m |-> Longer(sx[i], k, y)]]
    BY <1>1, <1>2, <2>4, <2>5
  <2>8. \A i \in 1..n : s[i].id # k
    <3>1. \A i \in 1..n : s[i].id \in SegmentIds(table) /\ s[i].id \in Nat
      BY <1>1 DEF SegmentIds, ToSet, Segment
    <3>2. \A i \in 1..n : s[i].id < k
      BY <3>1 DEF Table
    <3> QED BY <1>1, <3>1, <3>2
  <2>9. ASSUME NEW i \in 1..m PROVE Longer(sx[i], k, y) = sxy[i]
    <3>1. CASE i = m
      BY <2>3, <2>4, <3>1
    <3>2. CASE i \in 1..n
      BY <2>4, <2>8, <3>2 DEF Longer
    <3> QED BY <2>6, <3>1, <3>2
  <2>10. sxy = [i \in 1..m |-> sxy[i]]
    BY <2>4
  <2>11. [i \in 1..m |-> Longer(sx[i], k, y)] = sxy
    BY <2>9, <2>10
  <2> QED BY <2>1, <2>7, <2>11
<1> QED BY <1>1, <1>3, <1>4

LEMMA TextConcat ==
  ASSUME NEW x \in Text, NEW y \in Text, NEW z \in Text
  PROVE  /\ x \o y \in Text /\ <<>> \in Text
         /\ (x \o y) \o z = x \o (y \o z)
         /\ x \o <<>> = x /\ <<>> \o x = x
<1>1. (x \o y) \o z = x \o (y \o z)
  BY DEF Text
<1>2. x \o y \in Text /\ <<>> \in Text /\ x \o <<>> = x /\ <<>> \o x = x
  BY DEF Text
<1> QED BY <1>1, <1>2

\* The text of a table grows with its last segment.
LEMMA TextOfIs ==
  /\ TextOf(<<>>) = <<>>
  /\ \A s \in Seq(Segment), e \in Segment : TextOf(Append(s, e)) = TextOf(s) \o e.text
<1> DEFINE fold == <<"texts">>
<1>1. TextOf(<<>>) = <<>>
  <2>1. DOMAIN <<>> = 1..0 /\ Len(<<>>) = 0
    OBVIOUS
  <2> QED BY <2>1, TextFold, FoldedNone
<1>2. ASSUME NEW s \in Seq(Segment), NEW e \in Segment
      PROVE  TextOf(Append(s, e)) = TextOf(s) \o e.text
  <2>1. /\ Len(s) \in Nat /\ DOMAIN s = 1..Len(s)
        /\ Len(Append(s, e)) \in Nat /\ DOMAIN Append(s, e) = 1..Len(Append(s, e))
    OBVIOUS
  <2>2. TextOf(s) = Folded(fold, <<>>, s) /\ TextOf(Append(s, e)) = Folded(fold, <<>>, Append(s, e))
    BY <2>1, TextFold
  <2>3. Folded(fold, <<>>, Append(s, e)) = Step(fold, Folded(fold, <<>>, s), e)
    BY FoldedOneMore
  <2> QED BY <2>2, <2>3 DEF Step
<1> QED BY <1>1, <1>2

LEMMA TextOfText ==
  ASSUME NEW s \in Seq(Segment)
  PROVE  TextOf(s) \in Text
<1> DEFINE E == {n \in Nat : \A x \in Seq(Segment) : Len(x) = n => TextOf(x) \in Text}
<1>1. 0 \in E
  <2> SUFFICES ASSUME NEW x \in Seq(Segment), Len(x) = 0 PROVE TextOf(x) \in Text
    OBVIOUS
  <2>1. x = <<>>
    OBVIOUS
  <2>2. <<>> \in Text
    BY DEF Text
  <2> QED BY <2>1, <2>2, TextOfIs
<1>2. ASSUME NEW k \in Nat, k \in E PROVE k + 1 \in E
  <2> SUFFICES ASSUME NEW x \in Seq(Segment), Len(x) = k + 1 PROVE TextOf(x) \in Text
    OBVIOUS
  <2>1. PICK v \in Seq(Segment), e \in Segment : x = Append(v, e)
    <3>1. x # <<>>
      OBVIOUS
    <3> QED BY <3>1, SequenceEmptyOrAppend
  <2>2. Len(v) = k
    BY <2>1
  <2>3. TextOf(v) \in Text /\ e.text \in Text
    BY <1>2, <2>2 DEF Segment
  <2> QED BY <2>1, <2>3, TextOfIs, TextConcat
<1> HIDE DEF E
<1>3. E \in SUBSET Nat
  BY DEF E
<1>4. E = Nat
  BY <1>1, <1>2, <1>3, SetInduction
<1>5. Len(s) \in Nat
  OBVIOUS
<1> QED BY <1>4, <1>5 DEF E

-----------------------------------------------------------------------------
(* The stream.                                                             *)

Rows(stream) ==
  {<<"assistant", id>> : id \in SegmentIds(stream.assistant)}
  \cup {<<"thinking", id>> : id \in SegmentIds(stream.thinking)}
  \cup {<<"tool", id>> : id \in ToolIds(stream.tools)}
  \cup {<<"question", q>> : q \in ToSet(stream.questions)}

Listed(stream) == ToSet(stream.items) = Rows(stream)

Fields(s) ==
  s = [assistant |-> s.assistant, thinking |-> s.thinking, tools |-> s.tools,
       questions |-> s.questions, items |-> s.items]

Stream(s) ==
  /\ Fields(s)
  /\ Table(s.assistant) /\ Table(s.thinking)
  /\ Sequence(s.tools) /\ Sequence(s.questions)
  /\ Sequence(s.items) /\ IsInjective(s.items)

LEMMA NothingStreamed ==
  Stream(EmptyStream) /\ Listed(EmptyStream) /\ EmptyStream.questions = <<>>
<1>1. /\ EmptyStream.assistant = EmptySegments /\ EmptyStream.thinking = EmptySegments
      /\ EmptyStream.tools = <<>> /\ EmptyStream.questions = <<>> /\ EmptyStream.items = <<>>
      /\ Fields(EmptyStream)
  BY DEF EmptyStream, Fields
<1>2. Rows(EmptyStream) = {}
  BY <1>1, NoSegments, SequenceEmpty DEF Rows, ToolIds
<1> QED BY <1>1, <1>2, NoSegments, SequenceEmpty DEF Stream, Listed

LEMMA AssistantForm ==
  ASSUME NEW s, Fields(s), NEW x, NEW a, a = AppendSegment(s.assistant, x)
  PROVE  AppendAssistantText(s, x) =
           [assistant |-> a, thinking |-> Break(s.thinking), tools |-> s.tools,
            questions |-> s.questions, items |-> AddItem(s.items, <<"assistant", a.active>>)]
<1>1. AppendAssistantText(s, x) =
        [s EXCEPT !.assistant = a, !.thinking = Break(s.thinking),
                  !.items = AddItem(s.items, <<"assistant", a.active>>)]
  BY Zenon DEF AppendAssistantText
<1>2. s = [assistant |-> s.assistant, thinking |-> s.thinking, tools |-> s.tools,
           questions |-> s.questions, items |-> s.items]
  BY DEF Fields
<1> QED BY <1>1, <1>2

LEMMA ThinkingForm ==
  ASSUME NEW s, Fields(s), NEW x, NEW a, a = AppendSegment(s.thinking, x)
  PROVE  AppendThinkingText(s, x) =
           [assistant |-> s.assistant, thinking |-> a, tools |-> s.tools,
            questions |-> s.questions, items |-> AddItem(s.items, <<"thinking", a.active>>)]
<1>1. AppendThinkingText(s, x) =
        [s EXCEPT !.thinking = a, !.items = AddItem(s.items, <<"thinking", a.active>>)]
  BY Zenon DEF AppendThinkingText
<1>2. s = [assistant |-> s.assistant, thinking |-> s.thinking, tools |-> s.tools,
           questions |-> s.questions, items |-> s.items]
  BY DEF Fields
<1> QED BY <1>1, <1>2

\* Text that streams keeps the rows of a stream, and two texts stream as one does.
LEMMA AssistantIs ==
  ASSUME NEW s, Stream(s), NEW x \in Text, NEW r, r = AppendAssistantText(s, x)
  PROVE  /\ Stream(r) /\ (Listed(s) => Listed(r)) /\ r.questions = s.questions
         /\ \A y \in Text : AppendAssistantText(r, y) = AppendAssistantText(s, x \o y)
<1> DEFINE a == AppendSegment(s.assistant, x)
           key == <<"assistant", a.active>>
           items == AddItem(s.items, key)
<1>1. /\ Table(a) /\ SegmentIds(a) = SegmentIds(s.assistant) \cup {a.active} /\ a.active # 0
  BY AppendSegmentIs DEF Stream
<1>2. /\ Table(Break(s.thinking)) /\ SegmentIds(Break(s.thinking)) = SegmentIds(s.thinking)
      /\ Break(Break(s.thinking)) = Break(s.thinking)
  BY BreakIs DEF Stream
<1> HIDE DEF a
<1>3. r = [assistant |-> a, thinking |-> Break(s.thinking), tools |-> s.tools,
           questions |-> s.questions, items |-> items]
  BY AssistantForm DEF Stream, a
<1>4. /\ Sequence(items) /\ ToSet(items) = ToSet(s.items) \cup {key}
      /\ AddItem(items, key) = items /\ IsInjective(items)
  BY AddItemIs DEF Stream
<1> HIDE DEF key, items
<1>5. /\ r.assistant = a /\ r.thinking = Break(s.thinking) /\ r.tools = s.tools
      /\ r.questions = s.questions /\ r.items = items /\ Fields(r)
  BY <1>3 DEF Fields
<1>6. Stream(r)
  BY <1>1, <1>2, <1>4, <1>5 DEF Stream
<1>7. ASSUME Listed(s) PROVE Listed(r)
  <2>1. Rows(r) = Rows(s) \cup {key}
    BY <1>1, <1>2, <1>5 DEF Rows, key
  <2> QED BY <1>4, <1>5, <1>7, <2>1 DEF Listed
<1>8. ASSUME NEW y \in Text PROVE AppendAssistantText(r, y) = AppendAssistantText(s, x \o y)
  <2> DEFINE b == AppendSegment(a, y)
  <2>1. b = AppendSegment(s.assistant, x \o y)
    BY AppendSegmentTwice DEF Stream, a
  <2>2. b.active = a.active
    BY <1>1, AppendSegmentIs
  <2> HIDE DEF b
  <2>3. AppendAssistantText(r, y) =
          [assistant |-> b, thinking |-> Break(s.thinking), tools |-> s.tools,
           questions |-> s.questions, items |-> items]
    BY <1>2, <1>4, <1>5, <2>2, AssistantForm DEF b, key
  <2>4. AppendAssistantText(s, x \o y) =
          [assistant |-> b, thinking |-> Break(s.thinking), tools |-> s.tools,
           questions |-> s.questions, items |-> items]
    BY <2>1, <2>2, AssistantForm DEF Stream, items, key
  <2> QED BY <2>3, <2>4
<1> QED BY <1>5, <1>6, <1>7, <1>8

\* So does thinking,
LEMMA ThinkingIs ==
  ASSUME NEW s, Stream(s), NEW x \in Text, NEW r, r = AppendThinkingText(s, x)
  PROVE  /\ Stream(r) /\ (Listed(s) => Listed(r)) /\ r.questions = s.questions
         /\ \A y \in Text : AppendThinkingText(r, y) = AppendThinkingText(s, x \o y)
<1> DEFINE a == AppendSegment(s.thinking, x)
           key == <<"thinking", a.active>>
           items == AddItem(s.items, key)
<1>1. /\ Table(a) /\ SegmentIds(a) = SegmentIds(s.thinking) \cup {a.active} /\ a.active # 0
  BY AppendSegmentIs DEF Stream
<1> HIDE DEF a
<1>3. r = [assistant |-> s.assistant, thinking |-> a, tools |-> s.tools,
           questions |-> s.questions, items |-> items]
  BY ThinkingForm DEF Stream, a
<1>4. /\ Sequence(items) /\ ToSet(items) = ToSet(s.items) \cup {key}
      /\ AddItem(items, key) = items /\ IsInjective(items)
  BY AddItemIs DEF Stream
<1> HIDE DEF key, items
<1>5. /\ r.assistant = s.assistant /\ r.thinking = a /\ r.tools = s.tools
      /\ r.questions = s.questions /\ r.items = items /\ Fields(r)
  BY <1>3 DEF Fields
<1>6. Stream(r)
  BY <1>1, <1>4, <1>5 DEF Stream
<1>7. ASSUME Listed(s) PROVE Listed(r)
  <2>1. Rows(r) = Rows(s) \cup {key}
    BY <1>1, <1>5 DEF Rows, key
  <2> QED BY <1>4, <1>5, <1>7, <2>1 DEF Listed
<1>8. ASSUME NEW y \in Text PROVE AppendThinkingText(r, y) = AppendThinkingText(s, x \o y)
  <2> DEFINE b == AppendSegment(a, y)
  <2>1. b = AppendSegment(s.thinking, x \o y)
    BY AppendSegmentTwice DEF Stream, a
  <2>2. b.active = a.active
    BY <1>1, AppendSegmentIs
  <2> HIDE DEF b
  <2>3. AppendThinkingText(r, y) =
          [assistant |-> s.assistant, thinking |-> b, tools |-> s.tools,
           questions |-> s.questions, items |-> items]
    BY <1>4, <1>5, <2>2, ThinkingForm DEF b, key
  <2>4. AppendThinkingText(s, x \o y) =
          [assistant |-> s.assistant, thinking |-> b, tools |-> s.tools,
           questions |-> s.questions, items |-> items]
    BY <2>1, <2>2, ThinkingForm DEF Stream, items, key
  <2> QED BY <2>3, <2>4
<1> QED BY <1>5, <1>6, <1>7, <1>8

LEMMA UpsertToolIs ==
  ASSUME NEW tools, Sequence(tools), NEW tool, NEW r, r = UpsertTool(tools, tool)
  PROVE  Sequence(r) /\ ToolIds(r) = ToolIds(tools) \cup {tool.id}
<1> DEFINE n == Len(tools)
           S == ToSet(tools) \cup {tool}
<1>1. /\ tools \in Seq(S) /\ n \in Nat /\ DOMAIN tools = 1..n
      /\ \A i \in 1..n : tools[i] \in S
  BY DEF Sequence
<1>2. ToolIds(tools) = {tools[i].id : i \in 1..n}
  BY <1>1 DEF ToolIds, ToSet
<1>3. CASE tool.id \in ToolIds(tools)
  <2>1. r = [i \in 1..n |-> IF tools[i].id = tool.id THEN tool ELSE tools[i]]
    BY <1>1, <1>3 DEF UpsertTool
  <2>2. \A i \in 1..n : r[i] \in S /\ r[i].id = tools[i].id
    BY <1>1, <2>1
  <2>3. r \in Seq(S) /\ DOMAIN r = 1..n
    BY <1>1, <2>1, <2>2
  <2>4. ToolIds(r) = {r[i].id : i \in 1..n}
    BY <2>3 DEF ToolIds, ToSet
  <2>5. ToolIds(r) = ToolIds(tools)
    BY <1>2, <2>2, <2>4
  <2> QED BY <1>3, <2>3, <2>5, SequenceOf
<1>4. CASE tool.id \notin ToolIds(tools)
  <2>1. r = Append(tools, tool)
    BY <1>4 DEF UpsertTool
  <2>2. Sequence(r) /\ ToSet(r) = ToSet(tools) \cup {tool}
    BY <2>1, SequenceAppend
  <2> QED BY <2>2 DEF ToolIds
<1> QED BY <1>3, <1>4

\* so does a card,
LEMMA ToolIs ==
  ASSUME NEW s, Stream(s), NEW tool, NEW r, r = UpsertStreamingTool(s, tool)
  PROVE  Stream(r) /\ (Listed(s) => Listed(r)) /\ r.questions = s.questions
<1> DEFINE key == <<"tool", tool.id>>
           items == AddItem(s.items, key)
           tools == UpsertTool(s.tools, tool)
<1>1. s = [assistant |-> s.assistant, thinking |-> s.thinking, tools |-> s.tools,
           questions |-> s.questions, items |-> s.items]
  BY DEF Stream, Fields
<1>2. r = [s EXCEPT !.assistant = Break(s.assistant), !.thinking = Break(s.thinking),
                    !.tools = tools, !.items = items]
  BY Zenon DEF UpsertStreamingTool
<1>3. Sequence(tools) /\ ToolIds(tools) = ToolIds(s.tools) \cup {tool.id}
  BY UpsertToolIs DEF Stream
<1>4. Sequence(items) /\ ToSet(items) = ToSet(s.items) \cup {key} /\ IsInjective(items)
  BY AddItemIs DEF Stream
<1> HIDE DEF tools, items
<1>5. r = [assistant |-> Break(s.assistant), thinking |-> Break(s.thinking), tools |-> tools,
           questions |-> s.questions, items |-> items]
  BY <1>1, <1>2
<1>6. /\ Fields(r) /\ r.assistant = Break(s.assistant) /\ r.thinking = Break(s.thinking)
      /\ r.tools = tools /\ r.questions = s.questions /\ r.items = items
  BY <1>5 DEF Fields
<1>7. /\ Table(Break(s.assistant)) /\ SegmentIds(Break(s.assistant)) = SegmentIds(s.assistant)
      /\ Table(Break(s.thinking)) /\ SegmentIds(Break(s.thinking)) = SegmentIds(s.thinking)
  BY BreakIs DEF Stream
<1>8. Stream(r)
  BY <1>3, <1>4, <1>6, <1>7 DEF Stream
<1>9. ASSUME Listed(s) PROVE Listed(r)
  <2>1. Rows(r) = Rows(s) \cup {key}
    BY <1>3, <1>6, <1>7 DEF Rows
  <2> QED BY <1>4, <1>6, <1>9, <2>1 DEF Listed
<1> QED BY <1>6, <1>8, <1>9

\* a question that opens,
LEMMA QuestionIs ==
  ASSUME NEW s, Stream(s), NEW q, NEW r, r = UpsertPendingQuestion(s, q)
  PROVE  /\ Stream(r) /\ (Listed(s) => Listed(r))
         /\ ToSet(r.questions) = ToSet(s.questions) \cup {q}
<1> DEFINE key == <<"question", q>>
           items == AddItem(s.items, key)
           questions == AddItem(s.questions, q)
<1>1. s = [assistant |-> s.assistant, thinking |-> s.thinking, tools |-> s.tools,
           questions |-> s.questions, items |-> s.items]
  BY DEF Stream, Fields
<1>2. r = [s EXCEPT !.assistant = Break(s.assistant), !.thinking = Break(s.thinking),
                    !.questions = questions, !.items = items]
  BY Zenon DEF UpsertPendingQuestion, AddItem
<1>3. Sequence(questions) /\ ToSet(questions) = ToSet(s.questions) \cup {q}
  BY AddItemIs DEF Stream
<1>4. Sequence(items) /\ ToSet(items) = ToSet(s.items) \cup {key} /\ IsInjective(items)
  BY AddItemIs DEF Stream
<1> HIDE DEF questions, items
<1>5. r = [assistant |-> Break(s.assistant), thinking |-> Break(s.thinking), tools |-> s.tools,
           questions |-> questions, items |-> items]
  BY <1>1, <1>2
<1>6. /\ Fields(r) /\ r.assistant = Break(s.assistant) /\ r.thinking = Break(s.thinking)
      /\ r.tools = s.tools /\ r.questions = questions /\ r.items = items
  BY <1>5 DEF Fields
<1>7. /\ Table(Break(s.assistant)) /\ SegmentIds(Break(s.assistant)) = SegmentIds(s.assistant)
      /\ Table(Break(s.thinking)) /\ SegmentIds(Break(s.thinking)) = SegmentIds(s.thinking)
  BY BreakIs DEF Stream
<1>8. Stream(r)
  BY <1>3, <1>4, <1>6, <1>7 DEF Stream
<1>9. ASSUME Listed(s) PROVE Listed(r)
  <2>1. Rows(r) = Rows(s) \cup {key}
    BY <1>3, <1>6, <1>7 DEF Rows
  <2> QED BY <1>4, <1>6, <1>9, <2>1 DEF Listed
<1> QED BY <1>3, <1>6, <1>8, <1>9

\* a question that closes,
LEMMA RemoveQuestionIs ==
  ASSUME NEW s, Stream(s), NEW q, NEW r, r = RemovePendingQuestion(s, q)
  PROVE  /\ Stream(r) /\ (Listed(s) => Listed(r))
         /\ ToSet(r.questions) = ToSet(s.questions) \ {q}
<1> DEFINE key == <<"question", q>>
           items == Without(s.items, {key})
           questions == Without(s.questions, {q})
<1>1. s = [assistant |-> s.assistant, thinking |-> s.thinking, tools |-> s.tools,
           questions |-> s.questions, items |-> s.items]
  BY DEF Stream, Fields
<1>2. r = [s EXCEPT !.questions = questions, !.items = items]
  BY Zenon DEF RemovePendingQuestion
<1>3. Sequence(questions) /\ ToSet(questions) = ToSet(s.questions) \ {q}
  BY WithoutSequence DEF Stream
<1>4. Sequence(items) /\ ToSet(items) = ToSet(s.items) \ {key} /\ IsInjective(items)
  BY WithoutSequence DEF Stream
<1> HIDE DEF questions, items
<1>5. r = [assistant |-> s.assistant, thinking |-> s.thinking, tools |-> s.tools,
           questions |-> questions, items |-> items]
  BY <1>1, <1>2
<1>6. /\ Fields(r) /\ r.assistant = s.assistant /\ r.thinking = s.thinking
      /\ r.tools = s.tools /\ r.questions = questions /\ r.items = items
  BY <1>5 DEF Fields
<1>8. Stream(r)
  BY <1>3, <1>4, <1>6 DEF Stream
<1>9. ASSUME Listed(s) PROVE Listed(r)
  <2>1. \A x : <<"question", x>> = key <=> x = q
    OBVIOUS
  <2>2. /\ \A x : <<"assistant", x>> # key /\ <<"thinking", x>> # key /\ <<"tool", x>> # key
    OBVIOUS
  <2> HIDE DEF key
  <2>3. Rows(r) = Rows(s) \ {key}
    BY <1>3, <1>6, <2>1, <2>2 DEF Rows
  <2> QED BY <1>4, <1>6, <1>9, <2>3 DEF Listed
<1> QED BY <1>3, <1>6, <1>8, <1>9

\* the end of a segment of thinking,
LEMMA BoundaryIs ==
  ASSUME NEW s, Stream(s), NEW r, r = [s EXCEPT !.thinking = Break(@)]
  PROVE  Stream(r) /\ (Listed(s) => Listed(r)) /\ r.questions = s.questions
<1>1. s = [assistant |-> s.assistant, thinking |-> s.thinking, tools |-> s.tools,
           questions |-> s.questions, items |-> s.items]
  BY DEF Stream, Fields
<1>2. r = [assistant |-> s.assistant, thinking |-> Break(s.thinking), tools |-> s.tools,
           questions |-> s.questions, items |-> s.items]
  BY <1>1
<1>3. /\ Fields(r) /\ r.assistant = s.assistant /\ r.thinking = Break(s.thinking)
      /\ r.tools = s.tools /\ r.questions = s.questions /\ r.items = s.items
  BY <1>2 DEF Fields
<1>4. Table(Break(s.thinking)) /\ SegmentIds(Break(s.thinking)) = SegmentIds(s.thinking)
  BY BreakIs DEF Stream
<1>5. Stream(r)
  BY <1>3, <1>4 DEF Stream
<1>6. ASSUME Listed(s) PROVE Listed(r)
  <2>1. Rows(r) = Rows(s)
    BY <1>3, <1>4 DEF Rows
  <2> QED BY <1>3, <1>6, <2>1 DEF Listed
<1> QED BY <1>3, <1>5, <1>6

\* its removal,
LEMMA ClearThinkingIs ==
  ASSUME NEW s, Stream(s), NEW r, r = ClearThinkingText(s)
  PROVE  Stream(r) /\ (Listed(s) => Listed(r)) /\ r.questions = s.questions
<1> DEFINE T == ItemsOf(s.items, "thinking")
           items == Without(s.items, T)
<1>1. s = [assistant |-> s.assistant, thinking |-> s.thinking, tools |-> s.tools,
           questions |-> s.questions, items |-> s.items]
  BY DEF Stream, Fields
<1>2. r = [s EXCEPT !.thinking = EmptySegments, !.items = items]
  BY Zenon DEF ClearThinkingText, DropItems
<1>3. Sequence(items) /\ ToSet(items) = ToSet(s.items) \ T /\ IsInjective(items)
  BY WithoutSequence DEF Stream
<1> HIDE DEF items
<1>4. r = [assistant |-> s.assistant, thinking |-> EmptySegments, tools |-> s.tools,
           questions |-> s.questions, items |-> items]
  BY <1>1, <1>2
<1>5. /\ Fields(r) /\ r.assistant = s.assistant /\ r.thinking = EmptySegments
      /\ r.tools = s.tools /\ r.questions = s.questions /\ r.items = items
  BY <1>4 DEF Fields
<1>6. Stream(r)
  BY <1>3, <1>5, NoSegments DEF Stream
<1>7. ASSUME Listed(s) PROVE Listed(r)
  <2>1. ToSet(r.items) = {key \in Rows(s) : key[1] # "thinking"}
    BY <1>3, <1>5, <1>7 DEF Listed, ItemsOf
  <2>2. /\ \A x : <<"assistant", x>>[1] # "thinking" /\ <<"tool", x>>[1] # "thinking"
                  /\ <<"question", x>>[1] # "thinking" /\ <<"thinking", x>>[1] = "thinking"
    OBVIOUS
  <2>3. Rows(r) = {key \in Rows(s) : key[1] # "thinking"}
    BY <1>5, <2>2, NoSegments DEF Rows
  <2> QED BY <2>1, <2>3 DEF Listed
<1> QED BY <1>5, <1>6, <1>7

\* the start of a turn,
LEMMA ClearStreamingIs ==
  ASSUME NEW s, Stream(s), NEW r, r = ClearStreamingState(s)
  PROVE  Stream(r) /\ (Listed(s) => Listed(r)) /\ r.questions = s.questions
<1> DEFINE T == ToSet(s.items) \ ItemsOf(s.items, "question")
           items == Without(s.items, T)
<1>1. Sequence(items) /\ ToSet(items) = ToSet(s.items) \ T /\ IsInjective(items)
  BY WithoutSequence DEF Stream
<1>2. r = [EmptyStream EXCEPT !.questions = s.questions, !.items = items]
  BY Zenon DEF ClearStreamingState
<1> HIDE DEF items
<1>3. r = [assistant |-> EmptySegments, thinking |-> EmptySegments, tools |-> <<>>,
           questions |-> s.questions, items |-> items]
  BY <1>2 DEF EmptyStream
<1>4. /\ Fields(r) /\ r.assistant = EmptySegments /\ r.thinking = EmptySegments
      /\ r.tools = <<>> /\ r.questions = s.questions /\ r.items = items
  BY <1>3 DEF Fields
<1>5. Stream(r)
  BY <1>1, <1>4, NoSegments, SequenceEmpty DEF Stream
<1>6. ASSUME Listed(s) PROVE Listed(r)
  <2>1. ToSet(r.items) = {key \in Rows(s) : key[1] = "question"}
    BY <1>1, <1>4, <1>6 DEF Listed, ItemsOf
  <2>2. /\ \A x : <<"assistant", x>>[1] # "question" /\ <<"tool", x>>[1] # "question"
                  /\ <<"question", x>>[1] = "question" /\ <<"thinking", x>>[1] # "question"
    OBVIOUS
  <2>3. Rows(r) = {<<"question", q>> : q \in ToSet(s.questions)}
    BY <1>4, NoSegments, SequenceEmpty DEF Rows, ToolIds
  <2>4. {key \in Rows(s) : key[1] = "question"} = {<<"question", q>> : q \in ToSet(s.questions)}
    BY <2>2 DEF Rows
  <2> QED BY <2>1, <2>3, <2>4 DEF Listed
<1> QED BY <1>4, <1>5, <1>6

\* and the end of one.
LEMMA FinalizeIs ==
  ASSUME NEW chat, Stream(chat.stream), NEW text, NEW r,
         r = FinalizeStreamingTurn(chat, text).stream
  PROVE  /\ Stream(r) /\ r.questions = chat.stream.questions
         /\ chat.stream.questions = <<>> => Listed(r)
<1> DEFINE q == chat.stream.questions
<1>1. r = [EmptyStream EXCEPT !.questions = q]
  BY DEF FinalizeStreamingTurn
<1>2. Sequence(q)
  BY DEF Stream
<1> HIDE DEF q
<1>3. r = [assistant |-> EmptySegments, thinking |-> EmptySegments, tools |-> <<>>,
           questions |-> q, items |-> <<>>]
  BY <1>1 DEF EmptyStream
<1>4. /\ Fields(r) /\ r.assistant = EmptySegments /\ r.thinking = EmptySegments
      /\ r.tools = <<>> /\ r.questions = q /\ r.items = <<>>
  BY <1>3 DEF Fields
<1>5. Stream(r)
  BY <1>2, <1>4, NoSegments, SequenceEmpty DEF Stream
<1>6. ASSUME q = <<>> PROVE Listed(r)
  <2>1. Rows(r) = {}
    BY <1>4, <1>6, NoSegments, SequenceEmpty DEF Rows, ToolIds
  <2> QED BY <1>4, <2>1, SequenceEmpty DEF Listed
<1> QED BY <1>4, <1>5, <1>6 DEF q

LEMMA HydratedIs ==
  ASSUME NEW table, Table(table), NEW segments \in Seq(Segment),
         ToSet(segments) \subseteq ToSet(table.segments),
         NEW items, NEW kind, NEW r, r = HydratedSegments(segments, items, kind)
  PROVE  Table(r) /\ r.segments = segments
<1> DEFINE ids == {s.id : s \in ToSet(segments)}
           active == IF items # <<>> /\ Last(items)[1] = kind /\ Last(items)[2] \in ids
                     THEN Last(items)[2] ELSE 0
           next == 1 + Max({0} \cup ids)
<1>1. r = [active |-> active, next |-> next, segments |-> segments]
  BY DEF HydratedSegments
<1>2. ids \subseteq SegmentIds(table) /\ ids \subseteq Nat \ {0}
  <2>1. \A s \in ToSet(segments) : s \in ToSet(table.segments) /\ s \in Segment
    BY SequenceOf
  <2> QED BY <2>1 DEF SegmentIds, Segment
<1>3. active \in {0} \cup ids
  OBVIOUS
<1>4. next \in Nat \ {0} /\ \A id \in ids : id < next
  <2> DEFINE T == {0} \cup ids
             top == table.next
  <2>1. top \in Nat /\ \A id \in ids : id \in Nat /\ id < top
    BY <1>2 DEF Table
  <2> HIDE DEF ids, top
  <2>2. T \in SUBSET (0..top) /\ T # {}
    BY <2>1
  <2> HIDE DEF T
  <2>3. Max(T) \in 0..top /\ \A id \in T : Max(T) >= id
    BY <2>1, <2>2, MaxIsMember
  <2>4. \A id \in ids : id \in T /\ id \in Nat
    BY <2>1 DEF T
  <2>5. next = 1 + Max(T)
    BY DEF T
  <2> HIDE DEF next
  <2> QED BY <2>1, <2>3, <2>4, <2>5
<1> HIDE DEF active, next, ids
<1>5. r.active = active /\ r.next = next /\ r.segments = segments
  BY <1>1
<1>6. SegmentIds(r) = ids
  BY <1>5 DEF SegmentIds, ids
<1>7. active \in Nat
  BY <1>2, <1>3
<1>8. r \in [active : Nat, next : Nat \ {0}, segments : Seq(Segment)]
  BY <1>1, <1>4, <1>7
<1> QED BY <1>3, <1>4, <1>5, <1>6, <1>8 DEF Table

\* What is left of a table without the segments that an order removes.
KeptOf(table, kind, removed) ==
  Without(table.segments, {s \in ToSet(table.segments) : <<kind, s.id>> \in removed})

LEMMA KeptIs ==
  ASSUME NEW table, Table(table), NEW removed, NEW kind, NEW kept,
         kept = KeptOf(table, kind, removed)
  PROVE  /\ kept \in Seq(Segment) /\ ToSet(kept) \subseteq ToSet(table.segments)
         /\ {s.id : s \in ToSet(kept)} = {id \in SegmentIds(table) : <<kind, id>> \notin removed}
<1> DEFINE T == {s \in ToSet(table.segments) : <<kind, s.id>> \in removed}
<1>1. table.segments \in Seq(Segment)
  BY DEF Table
<1>2. kept \in Seq(Segment) /\ ToSet(kept) = ToSet(table.segments) \ T
  BY <1>1, WithoutIs DEF KeptOf
<1> QED BY <1>2 DEF SegmentIds

\* The rows of one kind.
RowsOf(kind, ids) == {<<kind, id>> : id \in ids}

LEMMA RowsWithout ==
  ASSUME NEW kind, NEW ids, NEW removed, NEW kept, kept = {id \in ids : <<kind, id>> \notin removed}
  PROVE  RowsOf(kind, kept) = RowsOf(kind, ids) \ removed
BY DEF RowsOf

LEMMA RowsApart ==
  ASSUME NEW s, NEW r, NEW removed,
         RowsOf("assistant", SegmentIds(r.assistant))
           = RowsOf("assistant", SegmentIds(s.assistant)) \ removed,
         RowsOf("thinking", SegmentIds(r.thinking))
           = RowsOf("thinking", SegmentIds(s.thinking)) \ removed,
         RowsOf("tool", ToolIds(r.tools)) = RowsOf("tool", ToolIds(s.tools)) \ removed,
         RowsOf("question", ToSet(r.questions)) = RowsOf("question", ToSet(s.questions)) \ removed
  PROVE  Rows(r) = Rows(s) \ removed
<1>1. \A x : Rows(x) = RowsOf("assistant", SegmentIds(x.assistant))
                       \cup RowsOf("thinking", SegmentIds(x.thinking))
                       \cup RowsOf("tool", ToolIds(x.tools))
                       \cup RowsOf("question", ToSet(x.questions))
  BY Zenon DEF Rows, RowsOf
<1> QED BY <1>1

\* A draft hydrates a stream with the rows and the questions that are not covered.
LEMMA HydrateIs ==
  ASSUME NEW draft, Stream(draft), NEW committed, NEW r, r = HydrateTurnDraft(draft, committed)
  PROVE  /\ Stream(r) /\ (Listed(draft) => Listed(r))
         /\ ToSet(r.questions) \subseteq ToSet(draft.questions)
<1> DEFINE removed == ToSet(SubSeq(draft.items, 1, CoveredPrefix(draft, committed)))
           items == Without(draft.items, removed)
           assistant == KeptOf(draft.assistant, "assistant", removed)
           thinking == KeptOf(draft.thinking, "thinking", removed)
           tools == Without(draft.tools, {t \in ToSet(draft.tools) : <<"tool", t.id>> \in removed})
           questions == Without(draft.questions,
                          {q \in ToSet(draft.questions) : <<"question", q>> \in removed})
           a == HydratedSegments(assistant, items, "assistant")
           t == HydratedSegments(thinking, items, "thinking")
<1>1. r = [assistant |-> a, thinking |-> t, tools |-> tools, questions |-> questions,
           items |-> items]
  BY Zenon DEF HydrateTurnDraft, KeptOf
<1> HIDE DEF removed
<1>2. Sequence(items) /\ ToSet(items) = ToSet(draft.items) \ removed /\ IsInjective(items)
  BY WithoutSequence DEF Stream
<1>3. /\ Table(a) /\ a.segments = assistant
      /\ {s.id : s \in ToSet(assistant)}
           = {id \in SegmentIds(draft.assistant) : <<"assistant", id>> \notin removed}
  <2> HIDE DEF items
  <2>1. Table(draft.assistant)
    BY DEF Stream
  <2>2. /\ assistant \in Seq(Segment) /\ ToSet(assistant) \subseteq ToSet(draft.assistant.segments)
        /\ {s.id : s \in ToSet(assistant)}
             = {id \in SegmentIds(draft.assistant) : <<"assistant", id>> \notin removed}
    BY <2>1, KeptIs
  <2> HIDE DEF assistant
  <2>3. Table(a) /\ a.segments = assistant
    BY <2>1, <2>2, HydratedIs
  <2> QED BY <2>2, <2>3
<1>4. /\ Table(t) /\ t.segments = thinking
      /\ {s.id : s \in ToSet(thinking)}
           = {id \in SegmentIds(draft.thinking) : <<"thinking", id>> \notin removed}
  <2> HIDE DEF items
  <2>1. Table(draft.thinking)
    BY DEF Stream
  <2>2. /\ thinking \in Seq(Segment) /\ ToSet(thinking) \subseteq ToSet(draft.thinking.segments)
        /\ {s.id : s \in ToSet(thinking)}
             = {id \in SegmentIds(draft.thinking) : <<"thinking", id>> \notin removed}
    BY <2>1, KeptIs
  <2> HIDE DEF thinking
  <2>3. Table(t) /\ t.segments = thinking
    BY <2>1, <2>2, HydratedIs
  <2> QED BY <2>2, <2>3
<1>5. /\ Sequence(tools)
      /\ ToolIds(tools) = {id \in ToolIds(draft.tools) : <<"tool", id>> \notin removed}
  <2> DEFINE T == {x \in ToSet(draft.tools) : <<"tool", x.id>> \in removed}
  <2>1. Sequence(tools) /\ ToSet(tools) = ToSet(draft.tools) \ T
    BY WithoutSequence DEF Stream
  <2> HIDE DEF tools
  <2> QED BY <2>1 DEF ToolIds
<1>6. /\ Sequence(questions)
      /\ ToSet(questions) = {q \in ToSet(draft.questions) : <<"question", q>> \notin removed}
  <2> DEFINE T == {q \in ToSet(draft.questions) : <<"question", q>> \in removed}
  <2>1. Sequence(questions) /\ ToSet(questions) = ToSet(draft.questions) \ T
    BY WithoutSequence DEF Stream
  <2> HIDE DEF questions
  <2> QED BY <2>1
<1> HIDE DEF a, t, assistant, thinking, tools, questions, items
<1>7. /\ Fields(r) /\ r.assistant = a /\ r.thinking = t
      /\ r.tools = tools /\ r.questions = questions /\ r.items = items
  BY <1>1 DEF Fields
<1>8. Stream(r)
  BY <1>2, <1>3, <1>4, <1>5, <1>6, <1>7 DEF Stream
<1>9. ASSUME Listed(draft) PROVE Listed(r)
  <2>1. ToSet(r.items) = Rows(draft) \ removed
    BY <1>2, <1>7, <1>9 DEF Listed
  <2>2. /\ SegmentIds(r.assistant)
             = {id \in SegmentIds(draft.assistant) : <<"assistant", id>> \notin removed}
        /\ SegmentIds(r.thinking)
             = {id \in SegmentIds(draft.thinking) : <<"thinking", id>> \notin removed}
    BY <1>3, <1>4, <1>7 DEF SegmentIds
  <2>3. RowsOf("assistant", SegmentIds(r.assistant))
          = RowsOf("assistant", SegmentIds(draft.assistant)) \ removed
    BY <2>2, RowsWithout
  <2>4. RowsOf("thinking", SegmentIds(r.thinking))
          = RowsOf("thinking", SegmentIds(draft.thinking)) \ removed
    BY <2>2, RowsWithout
  <2>5. RowsOf("tool", ToolIds(r.tools)) = RowsOf("tool", ToolIds(draft.tools)) \ removed
    BY <1>5, <1>7, RowsWithout
  <2>6. RowsOf("question", ToSet(r.questions)) = RowsOf("question", ToSet(draft.questions)) \ removed
    BY <1>6, <1>7, RowsWithout
  <2>7. Rows(r) = Rows(draft) \ removed
    BY <2>3, <2>4, <2>5, <2>6, RowsApart
  <2> QED BY <2>1, <2>7 DEF Listed
<1> QED BY <1>6, <1>7, <1>8, <1>9

-----------------------------------------------------------------------------
(* Actions and the buffer.                                                 *)

Chat(c) == c = [committed |-> c.committed, stream |-> c.stream] /\ Stream(c.stream)

Buffered(a) == a \in [type : {"text", "thinking"}, text : Text]

RuntimeAction(a) ==
  Buffered(a) \/ a.type \in {"boundary", "clear_thinking", "tool", "question", "finalize"}

\* What an action leaves of a stream's rows and questions.
Passes(s, r, a) ==
  /\ Listed(s) /\ (a.type = "finalize" => s.questions = <<>>) => Listed(r)
  /\ a.type # "question" => r.questions = s.questions
  /\ a.type = "question" => ToSet(r.questions) = ToSet(s.questions) \cup {a.question}

\* Each action keeps the rows of a stream.
LEMMA ActionIs ==
  ASSUME NEW c, Chat(c), NEW a, RuntimeAction(a), NEW r, r = ApplyRuntimeAction(c, a)
  PROVE  Chat(r) /\ Passes(c.stream, r.stream, a)
<1>1. c = [committed |-> c.committed, stream |-> c.stream] /\ Stream(c.stream)
  BY DEF Chat
<1>2. \A s : /\ [c EXCEPT !.stream = s] = [committed |-> c.committed, stream |-> s]
             /\ [c EXCEPT !.stream = s].stream = s /\ [c EXCEPT !.stream = s].committed = c.committed
  BY <1>1
<1>3. CASE a.type = "text"
  <2>1. a.text \in Text
    BY <1>3 DEF RuntimeAction, Buffered
  <2> DEFINE s == AppendAssistantText(c.stream, a.text)
  <2>2. r = [c EXCEPT !.stream = s]
    BY <1>3 DEF ApplyRuntimeAction
  <2>3. Stream(s) /\ (Listed(c.stream) => Listed(s)) /\ s.questions = c.stream.questions
    BY <1>1, <2>1, AssistantIs
  <2> HIDE DEF s
  <2> QED BY <1>2, <1>3, <2>2, <2>3 DEF Chat, Passes
<1>4. CASE a.type = "thinking"
  <2>1. a.text \in Text
    BY <1>4 DEF RuntimeAction, Buffered
  <2> DEFINE s == AppendThinkingText(c.stream, a.text)
  <2>2. r = [c EXCEPT !.stream = s]
    BY <1>4 DEF ApplyRuntimeAction
  <2>3. Stream(s) /\ (Listed(c.stream) => Listed(s)) /\ s.questions = c.stream.questions
    BY <1>1, <2>1, ThinkingIs
  <2> HIDE DEF s
  <2> QED BY <1>2, <1>4, <2>2, <2>3 DEF Chat, Passes
<1>5. CASE a.type = "boundary"
  <2> DEFINE s == [c.stream EXCEPT !.thinking = Break(@)]
  <2>1. r = [c EXCEPT !.stream.thinking = Break(@)]
    BY <1>5 DEF ApplyRuntimeAction
  <2>2. r = [c EXCEPT !.stream = s]
    BY <1>1, <2>1
  <2>3. Stream(s) /\ (Listed(c.stream) => Listed(s)) /\ s.questions = c.stream.questions
    BY <1>1, BoundaryIs
  <2> HIDE DEF s
  <2> QED BY <1>2, <1>5, <2>2, <2>3 DEF Chat, Passes
<1>6. CASE a.type = "clear_thinking"
  <2> DEFINE s == ClearThinkingText(c.stream)
  <2>2. r = [c EXCEPT !.stream = s]
    BY <1>6 DEF ApplyRuntimeAction
  <2>3. Stream(s) /\ (Listed(c.stream) => Listed(s)) /\ s.questions = c.stream.questions
    BY <1>1, ClearThinkingIs
  <2> HIDE DEF s
  <2> QED BY <1>2, <1>6, <2>2, <2>3 DEF Chat, Passes
<1>7. CASE a.type = "tool"
  <2> DEFINE s == UpsertStreamingTool(c.stream, a.tool)
  <2>2. r = [c EXCEPT !.stream = s]
    BY <1>7 DEF ApplyRuntimeAction
  <2>3. Stream(s) /\ (Listed(c.stream) => Listed(s)) /\ s.questions = c.stream.questions
    BY <1>1, ToolIs
  <2> HIDE DEF s
  <2> QED BY <1>2, <1>7, <2>2, <2>3 DEF Chat, Passes
<1>8. CASE a.type = "question"
  <2> DEFINE s == UpsertPendingQuestion(c.stream, a.question)
  <2>2. r = [c EXCEPT !.stream = s]
    BY <1>8 DEF ApplyRuntimeAction
  <2>3. /\ Stream(s) /\ (Listed(c.stream) => Listed(s))
        /\ ToSet(s.questions) = ToSet(c.stream.questions) \cup {a.question}
    BY <1>1, QuestionIs
  <2> HIDE DEF s
  <2> QED BY <1>2, <1>8, <2>2, <2>3 DEF Chat, Passes
<1>9. CASE a.type = "finalize"
  <2> DEFINE f == FinalizeStreamingTurn(c, a.text)
  <2>1. r = f
    BY <1>9 DEF ApplyRuntimeAction
  <2>2. f = [committed |-> f.committed, stream |-> f.stream]
    BY DEF FinalizeStreamingTurn
  <2>3. /\ Stream(f.stream) /\ f.stream.questions = c.stream.questions
        /\ c.stream.questions = <<>> => Listed(f.stream)
    BY <1>1, FinalizeIs
  <2> HIDE DEF f
  <2> QED BY <1>9, <2>1, <2>2, <2>3 DEF Chat, Passes
<1> QED BY <1>3, <1>4, <1>5, <1>6, <1>7, <1>8, <1>9 DEF RuntimeAction, Buffered

\* Two buffered actions of one type are one.
Joined(a, b) == [type |-> a.type, text |-> a.text \o b.text]

\* Two text actions of one type are one action with both texts.
LEMMA ActionTwice ==
  ASSUME NEW c, Chat(c), NEW a, Buffered(a), NEW b, Buffered(b), a.type = b.type
  PROVE  /\ Buffered(Joined(a, b)) /\ Joined(a, b).type = a.type
         /\ ApplyRuntimeAction(ApplyRuntimeAction(c, a), b) = ApplyRuntimeAction(c, Joined(a, b))
<1> DEFINE ab == Joined(a, b)
<1>1. /\ a.text \in Text /\ b.text \in Text /\ a.type \in {"text", "thinking"}
      /\ ab.type = a.type /\ ab.text = a.text \o b.text
      /\ ab = [type |-> a.type, text |-> a.text \o b.text]
  BY DEF Buffered, Joined
<1> HIDE DEF ab
<1>2. a.text \o b.text \in Text
  BY <1>1 DEF Text
<1>3. Buffered(ab)
  BY <1>1, <1>2 DEF Buffered
<1>4. c = [committed |-> c.committed, stream |-> c.stream] /\ Stream(c.stream)
  BY DEF Chat
<1>5. \A s : /\ [c EXCEPT !.stream = s] = [committed |-> c.committed, stream |-> s]
             /\ [c EXCEPT !.stream = s].stream = s
  BY <1>4
<1>6. CASE a.type = "text"
  <2> DEFINE s == AppendAssistantText(c.stream, a.text)
             z == AppendAssistantText(s, b.text)
  <2>1. ApplyRuntimeAction(c, a) = [c EXCEPT !.stream = s]
    BY <1>6 DEF ApplyRuntimeAction
  <2>2. z = AppendAssistantText(c.stream, a.text \o b.text)
    BY <1>1, <1>4, AssistantIs
  <2>3. ApplyRuntimeAction(c, ab) = [c EXCEPT !.stream = z]
    BY <1>1, <1>6, <2>2 DEF ApplyRuntimeAction
  <2> HIDE DEF s
  <2> DEFINE d == [c EXCEPT !.stream = s]
  <2>4. d.stream = s /\ [d EXCEPT !.stream = z] = [c EXCEPT !.stream = z]
    <3>1. d = [committed |-> c.committed, stream |-> s]
      BY <1>4
    <3> HIDE DEF d, z
    <3>2. [d EXCEPT !.stream = z] = [committed |-> c.committed, stream |-> z]
      BY <3>1
    <3>3. [c EXCEPT !.stream = z] = [committed |-> c.committed, stream |-> z]
      BY <1>4
    <3> QED BY <3>1, <3>2, <3>3
  <2> HIDE DEF d
  <2>5. ApplyRuntimeAction(d, b) = [d EXCEPT !.stream = z]
    BY <1>6, <2>4 DEF ApplyRuntimeAction
  <2> QED BY <1>1, <1>3, <2>1, <2>3, <2>4, <2>5 DEF d, ab
<1>7. CASE a.type = "thinking"
  <2> DEFINE s == AppendThinkingText(c.stream, a.text)
             z == AppendThinkingText(s, b.text)
  <2>1. ApplyRuntimeAction(c, a) = [c EXCEPT !.stream = s]
    BY <1>7 DEF ApplyRuntimeAction
  <2>2. z = AppendThinkingText(c.stream, a.text \o b.text)
    BY <1>1, <1>4, ThinkingIs
  <2>3. ApplyRuntimeAction(c, ab) = [c EXCEPT !.stream = z]
    BY <1>1, <1>7, <2>2 DEF ApplyRuntimeAction
  <2> HIDE DEF s
  <2> DEFINE d == [c EXCEPT !.stream = s]
  <2>4. d.stream = s /\ [d EXCEPT !.stream = z] = [c EXCEPT !.stream = z]
    <3>1. d = [committed |-> c.committed, stream |-> s]
      BY <1>4
    <3> HIDE DEF d, z
    <3>2. [d EXCEPT !.stream = z] = [committed |-> c.committed, stream |-> z]
      BY <3>1
    <3>3. [c EXCEPT !.stream = z] = [committed |-> c.committed, stream |-> z]
      BY <1>4
    <3> QED BY <3>1, <3>2, <3>3
  <2> HIDE DEF d
  <2>5. ApplyRuntimeAction(d, b) = [d EXCEPT !.stream = z]
    BY <1>7, <2>4 DEF ApplyRuntimeAction
  <2> QED BY <1>1, <1>3, <2>1, <2>3, <2>4, <2>5 DEF d, ab
<1> QED BY <1>1, <1>3, <1>6, <1>7 DEF ab

LEMMA NoActions ==
  ASSUME NEW c
  PROVE  ApplyRuntimeActions(c, <<>>) = c
<1>1. DOMAIN <<>> = 1..0 /\ Len(<<>>) = 0
  OBVIOUS
<1> QED BY <1>1, ActionsFold, FoldedNone

LEMMA OneMoreAction ==
  ASSUME NEW c, NEW S, NEW s \in Seq(S), NEW a \in S
  PROVE  ApplyRuntimeActions(c, Append(s, a)) = ApplyRuntimeAction(ApplyRuntimeActions(c, s), a)
<1> DEFINE t == Append(s, a)
<1>1. /\ Len(s) \in Nat /\ DOMAIN s = 1..Len(s) /\ Len(t) \in Nat /\ DOMAIN t = 1..Len(t)
  OBVIOUS
<1>2. Folded(<<"actions">>, c, t) = Step(<<"actions">>, Folded(<<"actions">>, c, s), a)
  BY FoldedOneMore
<1> HIDE DEF t
<1> QED BY <1>1, <1>2, ActionsFold DEF Step, t

LEMMA OneAction ==
  ASSUME NEW c, NEW a
  PROVE  ApplyRuntimeActions(c, <<a>>) = ApplyRuntimeAction(c, a)
<1> DEFINE s == <<>>
<1>1. s \in Seq({a}) /\ a \in {a} /\ <<a>> = Append(s, a)
  OBVIOUS
<1>2. ApplyRuntimeActions(c, s) = c
  BY NoActions
<1> HIDE DEF s
<1>3. ApplyRuntimeActions(c, Append(s, a)) = ApplyRuntimeAction(ApplyRuntimeActions(c, s), a)
  BY <1>1, OneMoreAction
<1> QED BY <1>1, <1>2, <1>3

LEMMA MoreActions ==
  ASSUME NEW c, NEW S, NEW s \in Seq(S), NEW t \in Seq(S)
  PROVE  ApplyRuntimeActions(c, s \o t) = ApplyRuntimeActions(ApplyRuntimeActions(c, s), t)
<1> DEFINE st == s \o t
           d == ApplyRuntimeActions(c, s)
<1>1. /\ Len(s) \in Nat /\ DOMAIN s = 1..Len(s) /\ Len(t) \in Nat /\ DOMAIN t = 1..Len(t)
      /\ Len(st) \in Nat /\ DOMAIN st = 1..Len(st)
  OBVIOUS
<1>2. Folded(<<"actions">>, c, st) = Folded(<<"actions">>, Folded(<<"actions">>, c, s), t)
  BY FoldedConcat
<1>3. d = Folded(<<"actions">>, c, s)
  BY <1>1, ActionsFold
<1> HIDE DEF st, d
<1>4. /\ ApplyRuntimeActions(c, st) = Folded(<<"actions">>, c, st)
      /\ ApplyRuntimeActions(d, t) = Folded(<<"actions">>, d, t)
  BY <1>1, ActionsFold
<1> QED BY <1>2, <1>3, <1>4 DEF st, d

Waits(pending) == pending = <<>> \/ \E a : pending = <<a>> /\ Buffered(a)

Out(o) == o = [chat |-> o.chat, pending |-> o.pending] /\ Chat(o.chat) /\ Waits(o.pending)

Shows(o) == ApplyRuntimeActions(o.chat, o.pending)

\* What is shown of a chat whose buffer waits has the rows of the chat and its questions.
LEMMA ShowsIs ==
  ASSUME NEW o, Out(o)
  PROVE  /\ Chat(Shows(o)) /\ (Listed(o.chat.stream) => Listed(Shows(o).stream))
         /\ Shows(o).stream.questions = o.chat.stream.questions
         /\ o.pending = <<>> => Shows(o) = o.chat
         /\ \A a : o.pending = <<a>> => Shows(o) = ApplyRuntimeAction(o.chat, a)
<1>1. Chat(o.chat) /\ Waits(o.pending)
  BY DEF Out
<1>2. o.pending = <<>> => Shows(o) = o.chat
  BY NoActions DEF Shows
<1>3. \A a : o.pending = <<a>> => Shows(o) = ApplyRuntimeAction(o.chat, a)
  BY OneAction DEF Shows
<1>4. CASE o.pending = <<>>
  BY <1>1, <1>2, <1>3, <1>4
<1>5. ASSUME NEW a, o.pending = <<a>>, Buffered(a)
      PROVE  /\ Chat(Shows(o)) /\ (Listed(o.chat.stream) => Listed(Shows(o).stream))
             /\ Shows(o).stream.questions = o.chat.stream.questions
  <2>1. RuntimeAction(a) /\ a.type \notin {"finalize", "question"}
    BY <1>5 DEF RuntimeAction, Buffered
  <2>2. Shows(o) = ApplyRuntimeAction(o.chat, a)
    BY <1>3, <1>5
  <2> QED BY <1>1, <2>1, <2>2, ActionIs DEF Passes
<1> QED BY <1>1, <1>2, <1>3, <1>4, <1>5 DEF Waits

\* After a flush nothing waits, and the display is the same.
LEMMA FlushedIs ==
  ASSUME NEW o, Out(o)
  PROVE  /\ Flushed(o) = [chat |-> Shows(o), pending |-> <<>>]
         /\ Out(Flushed(o)) /\ Shows(Flushed(o)) = Shows(o)
<1> DEFINE f == Flushed(o)
<1>1. f = [chat |-> Shows(o), pending |-> <<>>]
  BY DEF Flushed, Shows
<1>2. Chat(Shows(o))
  BY ShowsIs
<1> HIDE DEF f
<1>3. f.chat = Shows(o) /\ f.pending = <<>> /\ f = [chat |-> f.chat, pending |-> f.pending]
  BY <1>1
<1>4. Out(f)
  BY <1>2, <1>3 DEF Out, Waits
<1>5. Shows(f) = f.chat
  BY <1>3, <1>4, ShowsIs
<1> QED BY <1>1, <1>3, <1>4, <1>5 DEF f

\* An action that passes the buffer changes what is shown as if it had not waited.
LEMMA EnqueueActionIs ==
  ASSUME NEW o, Out(o), NEW a, RuntimeAction(a), NEW r, r = EnqueueAction(o, a)
  PROVE  /\ Out(r) /\ Shows(r) = ApplyRuntimeAction(Shows(o), a)
         /\ Passes(o.chat.stream, r.chat.stream, a)
<1>1. o = [chat |-> o.chat, pending |-> o.pending] /\ Chat(o.chat) /\ Waits(o.pending)
  BY DEF Out
<1>2. CASE o.pending # <<>> /\ o.pending[1].type = a.type
  <2>1. PICK p : o.pending = <<p>> /\ Buffered(p)
    BY <1>1, <1>2 DEF Waits
  <2>2. p.type = a.type /\ p.type \in {"text", "thinking"}
    BY <1>2, <2>1 DEF Buffered
  <2>3. Buffered(a)
    BY <2>2 DEF RuntimeAction
  <2> DEFINE pa == Joined(p, a)
  <2>5. r = [o EXCEPT !.pending[1].text = @ \o a.text]
    BY <1>2 DEF EnqueueAction
  <2>6. r = [chat |-> o.chat, pending |-> <<pa>>]
    <3>1. r = [chat |-> o.chat, pending |-> [o.pending EXCEPT ![1].text = @ \o a.text]]
      BY <1>1, <2>5
    <3>2. [<<p>> EXCEPT ![1].text = @ \o a.text] = [<<p>> EXCEPT ![1] = pa]
      <4>1. p \in [type : {"text", "thinking"}, text : Text]
        BY <2>1 DEF Buffered
      <4>2. \A v : [p EXCEPT !.text = v] = [type |-> p.type, text |-> v]
        BY <4>1
      <4> QED BY <4>2 DEF Joined
    <3> HIDE DEF pa
    <3>3. [<<p>> EXCEPT ![1] = pa] = <<pa>>
      OBVIOUS
    <3> QED BY <2>1, <3>1, <3>2, <3>3
  <2>4. /\ Buffered(pa) /\ pa.type = p.type
        /\ ApplyRuntimeAction(ApplyRuntimeAction(o.chat, p), a) = ApplyRuntimeAction(o.chat, pa)
    BY <1>1, <2>1, <2>2, <2>3, ActionTwice
  <2> HIDE DEF pa
  <2>7. r.chat = o.chat /\ r.pending = <<pa>> /\ r = [chat |-> r.chat, pending |-> r.pending]
    BY <2>6
  <2>8. Out(r)
    BY <1>1, <2>4, <2>7 DEF Out, Waits
  <2>9. Shows(r) = ApplyRuntimeAction(o.chat, pa)
    BY <2>7, <2>8, ShowsIs
  <2>10. Shows(o) = ApplyRuntimeAction(o.chat, p)
    BY <2>1, ShowsIs
  <2>11. Passes(o.chat.stream, r.chat.stream, a)
    BY <2>2, <2>7 DEF Passes
  <2> QED BY <2>4, <2>8, <2>9, <2>10, <2>11
<1>3. CASE ~ (o.pending # <<>> /\ o.pending[1].type = a.type)
  <2> DEFINE c == Shows(o)
  <2>1. Flushed(o) = [chat |-> c, pending |-> <<>>]
    BY FlushedIs
  <2>2. r = Started(Flushed(o), a)
    BY <1>3 DEF EnqueueAction
  <2>3. /\ Chat(c) /\ (Listed(o.chat.stream) => Listed(c.stream))
        /\ c.stream.questions = o.chat.stream.questions
    BY ShowsIs
  <2>4. Chat(ApplyRuntimeAction(c, a)) /\ Passes(c.stream, ApplyRuntimeAction(c, a).stream, a)
    BY <2>3, ActionIs
  <2> HIDE DEF c
  <2>5. CASE IsBufferedTextAction(a)
    <3>1. Buffered(a)
      BY <2>5 DEF IsBufferedTextAction, RuntimeAction
    <3>2. r = [chat |-> c, pending |-> <<a>>]
      BY <2>1, <2>2, <2>5 DEF Started
    <3>3. r.chat = c /\ r.pending = <<a>> /\ r = [chat |-> r.chat, pending |-> r.pending]
      BY <3>2
    <3>4. Out(r)
      BY <2>3, <3>1, <3>3 DEF Out, Waits
    <3>5. Passes(o.chat.stream, r.chat.stream, a)
      BY <2>3, <2>5, <3>3 DEF Passes, IsBufferedTextAction
    <3> QED BY <3>3, <3>4, <3>5, ShowsIs DEF c
  <2>6. CASE ~IsBufferedTextAction(a)
    <3>1. r = [chat |-> ApplyRuntimeAction(c, a), pending |-> <<>>]
      BY <2>1, <2>2, <2>6 DEF Started
    <3>2. /\ r.chat = ApplyRuntimeAction(c, a) /\ r.pending = <<>>
          /\ r = [chat |-> r.chat, pending |-> r.pending]
      BY <3>1
    <3>3. Out(r)
      BY <2>4, <3>2 DEF Out, Waits
    <3>4. Passes(o.chat.stream, r.chat.stream, a)
      BY <2>3, <2>4, <3>2 DEF Passes
    <3> QED BY <3>2, <3>3, <3>4, ShowsIs DEF c
  <2> QED BY <2>5, <2>6
<1> QED BY <1>2, <1>3

\* What a sequence of actions of S leaves of them.
Keeps(s, r, S) ==
  /\ (\A a \in S : a.type # "question") => r.questions = s.questions
  /\ Listed(s) /\ (\A a \in S : a.type # "finalize") => Listed(r)
  /\ Listed(s) /\ s.questions = <<>> /\ (\A a \in S : a.type # "question") => Listed(r)
  /\ \A x \in ToSet(r.questions) :
       x \in ToSet(s.questions) \/ \E a \in S : a.type = "question" /\ a.question = x

LEMMA KeepsNothing ==
  ASSUME NEW s, NEW S
  PROVE  Keeps(s, s, S)
BY DEF Keeps

LEMMA KeepsMore ==
  ASSUME NEW s, NEW S, NEW q, Keeps(s, q, S), NEW a \in S, NEW r, Passes(q, r, a)
  PROVE  Keeps(s, r, S)
<1>1. (\A x \in S : x.type # "question") => r.questions = s.questions
  BY DEF Keeps, Passes
<1>2. Listed(s) /\ (\A x \in S : x.type # "finalize") => Listed(r)
  BY DEF Keeps, Passes
<1>3. Listed(s) /\ s.questions = <<>> /\ (\A x \in S : x.type # "question") => Listed(r)
  BY DEF Keeps, Passes
<1>4. ASSUME NEW x \in ToSet(r.questions)
      PROVE  x \in ToSet(s.questions) \/ \E b \in S : b.type = "question" /\ b.question = x
  BY DEF Keeps, Passes
<1> QED BY <1>1, <1>2, <1>3, <1>4 DEF Keeps

\* So does a list of actions.
LEMMA EnqueueIs ==
  ASSUME NEW o, Out(o), NEW S, \A a \in S : RuntimeAction(a), NEW t \in Seq(S)
  PROVE  /\ Out(Enqueue(o, t))
         /\ Shows(Enqueue(o, t)) = ApplyRuntimeActions(Shows(o), t)
         /\ Keeps(o.chat.stream, Enqueue(o, t).chat.stream, S)
<1> DEFINE fold == <<"enqueue">>
           E == {n \in Nat : \A x \in Seq(S) : Len(x) = n =>
                   LET r == Folded(fold, o, x)
                   IN  /\ Out(r) /\ Shows(r) = ApplyRuntimeActions(Shows(o), x)
                       /\ Keeps(o.chat.stream, r.chat.stream, S)}
<1>1. 0 \in E
  <2> SUFFICES ASSUME NEW x \in Seq(S), Len(x) = 0
               PROVE  LET r == Folded(fold, o, x)
                      IN  /\ Out(r) /\ Shows(r) = ApplyRuntimeActions(Shows(o), x)
                          /\ Keeps(o.chat.stream, r.chat.stream, S)
    OBVIOUS
  <2>1. x = <<>>
    OBVIOUS
  <2>2. Keeps(o.chat.stream, o.chat.stream, S)
    BY KeepsNothing
  <2> QED BY <2>1, <2>2, FoldedNone, NoActions
<1>2. ASSUME NEW k \in Nat, k \in E PROVE k + 1 \in E
  <2> SUFFICES ASSUME NEW x \in Seq(S), Len(x) = k + 1
               PROVE  LET r == Folded(fold, o, x)
                      IN  /\ Out(r) /\ Shows(r) = ApplyRuntimeActions(Shows(o), x)
                          /\ Keeps(o.chat.stream, r.chat.stream, S)
    OBVIOUS
  <2>1. PICK v \in Seq(S), e \in S : x = Append(v, e)
    <3>1. x # <<>>
      OBVIOUS
    <3> QED BY <3>1, SequenceEmptyOrAppend
  <2>2. Len(v) = k
    BY <2>1
  <2> DEFINE q == Folded(fold, o, v)
             r == Folded(fold, o, x)
             c == Shows(o)
  <2>3. /\ Out(q) /\ Shows(q) = ApplyRuntimeActions(c, v)
        /\ Keeps(o.chat.stream, q.chat.stream, S)
    BY <1>2, <2>2
  <2>4. r = EnqueueAction(q, e)
    <3>1. r = Step(fold, q, e)
      BY <2>1, FoldedOneMore
    <3> QED BY <3>1 DEF Step
  <2> HIDE DEF q, r, c
  <2>5. RuntimeAction(e)
    OBVIOUS
  <2>6. /\ Out(r) /\ Shows(r) = ApplyRuntimeAction(Shows(q), e)
        /\ Passes(q.chat.stream, r.chat.stream, e)
    BY <2>3, <2>4, <2>5, EnqueueActionIs
  <2>8. Keeps(o.chat.stream, r.chat.stream, S)
    BY <2>3, <2>6, KeepsMore
  <2>7. ApplyRuntimeActions(c, x) = ApplyRuntimeAction(ApplyRuntimeActions(c, v), e)
    BY <2>1, OneMoreAction
  <2> QED BY <2>3, <2>6, <2>7, <2>8 DEF r, c
<1> HIDE DEF E
<1>3. E \in SUBSET Nat
  BY DEF E
<1>4. E = Nat
  BY <1>1, <1>2, <1>3, SetInduction
<1>5. Len(t) \in Nat /\ DOMAIN t = 1..Len(t)
  OBVIOUS
<1>6. Enqueue(o, t) = Folded(fold, o, t)
  BY <1>5, EnqueueFold
<1> QED BY <1>4, <1>5, <1>6 DEF E

\* What a sequence of actions leaves of a chat.
LEMMA ActionsAre ==
  ASSUME NEW c, Chat(c), NEW S, \A a \in S : RuntimeAction(a), NEW t \in Seq(S)
  PROVE  /\ Chat(ApplyRuntimeActions(c, t))
         /\ Keeps(c.stream, ApplyRuntimeActions(c, t).stream, S)
<1> DEFINE Good(r) == Chat(r) /\ Keeps(c.stream, r.stream, S)
           E == {n \in Nat : \A x \in Seq(S) : Len(x) = n => Good(ApplyRuntimeActions(c, x))}
<1>1. 0 \in E
  <2> SUFFICES ASSUME NEW x \in Seq(S), Len(x) = 0
               PROVE  Good(ApplyRuntimeActions(c, x))
    OBVIOUS
  <2>1. x = <<>>
    OBVIOUS
  <2>2. Good(c)
    BY KeepsNothing
  <2> HIDE DEF Good
  <2> QED BY <2>1, <2>2, NoActions
<1>2. ASSUME NEW k \in Nat, k \in E PROVE k + 1 \in E
  <2> SUFFICES ASSUME NEW x \in Seq(S), Len(x) = k + 1
               PROVE  Good(ApplyRuntimeActions(c, x))
    OBVIOUS
  <2>1. PICK v \in Seq(S), e \in S : x = Append(v, e)
    <3>1. x # <<>>
      OBVIOUS
    <3> QED BY <3>1, SequenceEmptyOrAppend
  <2>2. Len(v) = k
    BY <2>1
  <2> DEFINE q == ApplyRuntimeActions(c, v)
             r == ApplyRuntimeActions(c, x)
  <2>3. Good(q)
    BY <1>2, <2>2
  <2>4. r = ApplyRuntimeAction(q, e)
    BY <2>1, OneMoreAction
  <2> HIDE DEF q, r
  <2>5. RuntimeAction(e) /\ e \in S
    OBVIOUS
  <2>6. Chat(r) /\ Passes(q.stream, r.stream, e)
    BY <2>3, <2>4, <2>5, ActionIs
  <2>7. Good(r)
    BY <2>3, <2>5, <2>6, KeepsMore
  <2> QED BY <2>7 DEF r
<1> HIDE DEF E
<1>3. E \in SUBSET Nat
  BY DEF E
<1>4. E = Nat
  BY <1>1, <1>2, <1>3, SetInduction
<1>5. Len(t) \in Nat
  OBVIOUS
<1> QED BY <1>4, <1>5 DEF E

-----------------------------------------------------------------------------
(* The projection of events.                                               *)

LEMMA NothingIsSuffix ==
  ASSUME NEW raw \in Text
  PROVE  IsSuffix(<<>>, raw)
<1>1. /\ Reverse(<<>>) = <<>> /\ Len(Reverse(raw)) \in Nat /\ Reverse(raw) \in Seq(Nat)
  BY DEF Reverse, Text
<1>2. SubSeq(Reverse(raw), 1, 0) = <<>> /\ SubSeq(<<>>, 1, 0) = <<>> /\ Len(<<>>) = 0
  BY <1>1
<1> QED BY <1>1, <1>2 DEF IsSuffix, IsPrefix

LEMMA OverlapIs ==
  ASSUME NEW raw \in Text, NEW text \in Text
  PROVE  OverlapLength(raw, text) \in 0..Len(text)
<1> DEFINE fits == {n \in 0 .. Len(text) : n <= Len(raw) /\ IsSuffix(SubSeq(text, 1, n), raw)}
<1>1. Len(text) \in Nat /\ Len(raw) \in Nat /\ SubSeq(text, 1, 0) = <<>>
  BY DEF Text
<1>2. IsSuffix(<<>>, raw)
  BY NothingIsSuffix
<1>3. 0 \in fits
  <2>1. 0 \in 0..Len(text) /\ 0 <= Len(raw)
    BY <1>1
  <2>2. IsSuffix(SubSeq(text, 1, 0), raw)
    BY <1>1, <1>2, Zenon
  <2> QED BY <2>1, <2>2
<1>4. fits \in SUBSET (0..Len(text))
  OBVIOUS
<1> HIDE DEF fits
<1>5. Max(fits) \in 0..Len(text)
  BY <1>1, <1>3, <1>4, MaxIsMember
<1> QED BY <1>5 DEF OverlapLength, fits

\* What is left of a text after trimming is text.
LEMMA DeltaIs ==
  ASSUME NEW raw \in Text, NEW text \in Text
  PROVE  NormalizeTextDelta(raw, text) \in Text
<1> DEFINE n == OverlapLength(raw, text)
<1>1. n \in 0..Len(text)
  BY OverlapIs
<1> HIDE DEF n
<1>2. Len(text) \in Nat /\ Len(raw) \in Nat
  BY DEF Text
<1>3. SubSeq(text, n + 1, Len(text)) \in Text
  BY <1>1, <1>2, SubSeqProperties DEF Text
<1>4. SubSeq(text, Len(raw) + 1, Len(text)) \in Text
  BY <1>2, SubSeqProperties DEF Text
<1> QED BY <1>3, <1>4 DEF NormalizeTextDelta, n

Raw(runtime) == "raw" \in DOMAIN runtime /\ runtime.raw \in Text

Event(e) ==
  /\ e.type \in {"text", "thinking", "call_start", "call_end", "tool_started", "tool_finished",
                 "awaiting_human", "message", "done"}
  /\ e.type \in {"text", "thinking"} => e.text \in Text

\* What becomes of an event: actions that the reducer knows.
Action(a, e) ==
  /\ RuntimeAction(a)
  /\ a.type = "question" => e.type = "awaiting_human" /\ a.question = e.question
  /\ a.type = "finalize" => e.type = "message"
  /\ a.type = "clear_thinking" => e.type = "done"
  /\ a.type = "text" => e.type = "text"

Actions(t, e) == Sequence(t) /\ \A a \in ToSet(t) : Action(a, e)

LEMMA FewActions ==
  ASSUME NEW e, NEW a, Action(a, e)
  PROVE  /\ Actions(<<>>, e) /\ Actions(<<a>>, e)
         /\ \A b : Action(b, e) => Actions(<<a, b>>, e) /\ Actions(<<a>> \o <<b>>, e)
<1>1. Actions(<<>>, e)
  BY SequenceEmpty DEF Actions
<1>2. Actions(<<a>>, e)
  <2>1. <<a>> \in Seq({a}) /\ ToSet(<<a>>) \subseteq {a}
    BY DEF ToSet
  <2> QED BY <2>1, SequenceOf DEF Actions
<1>3. ASSUME NEW b, Action(b, e) PROVE Actions(<<a, b>>, e) /\ Actions(<<a>> \o <<b>>, e)
  <2> DEFINE S == {a, b}
  <2>1. a \in S /\ b \in S /\ \A x \in S : Action(x, e)
    BY <1>3
  <2> HIDE DEF S
  <2>2. <<a, b>> \in Seq(S) /\ <<a>> \in Seq(S) /\ <<b>> \in Seq(S)
    BY <2>1
  <2>3. <<a>> \o <<b>> \in Seq(S)
    BY <2>2
  <2> QED BY <2>1, <2>2, <2>3, SequenceOf DEF Actions
<1> QED BY <1>1, <1>2, <1>3

\* The projector makes of an event actions that the reducer knows.
LEMMA ActionsOf ==
  ASSUME NEW runtime, NEW e, Event(e), e.type = "text" => Raw(runtime)
  PROVE  Actions(ProjectAgentEvent(runtime, e).actions, e)
<1> DEFINE t == ProjectAgentEvent(runtime, e).actions
<1>1. CASE e.type = "text"
  <2> DEFINE d == NormalizeTextDelta(runtime.raw, e.text)
             a == [type |-> "text", text |-> d]
  <2>1. d \in Text
    BY <1>1, DeltaIs DEF Event, Raw
  <2>2. t = IF d = <<>> THEN <<>> ELSE <<a>>
    BY <1>1 DEF ProjectAgentEvent, ProjectTextDelta, Projected
  <2> HIDE DEF d
  <2>3. Action(a, e)
    BY <1>1, <2>1 DEF Action, RuntimeAction, Buffered
  <2> QED BY <2>2, <2>3, FewActions
<1>2. CASE e.type = "thinking"
  <2> DEFINE a == [type |-> "thinking", text |-> e.text]
  <2>1. t = <<a>>
    BY <1>2 DEF ProjectAgentEvent, Projected
  <2>2. Action(a, e)
    BY <1>2 DEF Action, RuntimeAction, Buffered, Event
  <2> QED BY <2>1, <2>2, FewActions
<1> DEFINE boundary == [type |-> "boundary"]
<1>3. Action(boundary, e)
  BY DEF Action, RuntimeAction
<1> HIDE DEF boundary
<1>4. CASE e.type \in {"call_start", "call_end"}
  <2>1. PICK card : t = IF e.type = "call_start"
                        THEN <<boundary>> \o <<[type |-> "tool", tool |-> card]>>
                        ELSE <<[type |-> "tool", tool |-> card]>>
    BY <1>4 DEF ProjectAgentEvent, ProjectToolPreview, Previewed, Projected, boundary
  <2> DEFINE a == [type |-> "tool", tool |-> card]
  <2>2. Action(a, e)
    BY DEF Action, RuntimeAction
  <2> HIDE DEF a
  <2>3. t = <<boundary>> \o <<a>> \/ t = <<a>>
    BY <2>1 DEF a
  <2> QED BY <1>3, <2>2, <2>3, FewActions
<1>5. CASE e.type \in {"tool_started", "tool_finished"}
  <2>1. PICK card : t = <<boundary, [type |-> "tool", tool |-> card]>>
    BY <1>5 DEF ProjectAgentEvent, ProjectToolRun, Projected, boundary
  <2> DEFINE a == [type |-> "tool", tool |-> card]
  <2>2. Action(a, e)
    BY DEF Action, RuntimeAction
  <2> HIDE DEF a
  <2>3. t = <<boundary, a>>
    BY <2>1 DEF a
  <2> QED BY <1>3, <2>2, <2>3, FewActions
<1>6. CASE e.type = "awaiting_human"
  <2> DEFINE a == [type |-> "question", question |-> e.question]
  <2>1. t = <<boundary, a>>
    BY <1>6 DEF ProjectAgentEvent, Projected, boundary
  <2>2. Action(a, e)
    BY <1>6 DEF Action, RuntimeAction
  <2> HIDE DEF a
  <2> QED BY <1>3, <2>1, <2>2, FewActions
<1>7. CASE e.type = "message"
  <2> DEFINE a == [type |-> "finalize", text |-> IF e.text # <<>> THEN e.text ELSE runtime.buffer]
  <2>1. t = <<a>>
    BY <1>7 DEF ProjectAgentEvent, ProjectMessage, Projected
  <2>2. Action(a, e)
    BY <1>7 DEF Action, RuntimeAction
  <2> HIDE DEF a
  <2> QED BY <2>1, <2>2, FewActions
<1>8. CASE e.type = "done"
  <2> DEFINE a == [type |-> "clear_thinking"]
  <2>1. t = <<a>>
    BY <1>8 DEF ProjectAgentEvent, Projected
  <2>2. Action(a, e)
    BY <1>8 DEF Action, RuntimeAction
  <2> HIDE DEF a
  <2> QED BY <2>1, <2>2, FewActions
<1> HIDE DEF t
<1> QED BY <1>1, <1>2, <1>4, <1>5, <1>6, <1>7, <1>8 DEF Event, t

\* What an event adds to the text that the runtime has received.
Added(runtime, e) == IF e.type = "text" THEN NormalizeTextDelta(runtime.raw, e.text) ELSE <<>>

\* The runtime has received what it had and what the event adds.
LEMMA RawOf ==
  ASSUME NEW runtime, Raw(runtime), NEW e, Event(e)
  PROVE  /\ Raw(ProjectAgentEvent(runtime, e).runtime)
         /\ Added(runtime, e) \in Text
         /\ e.type # "message" =>
              ProjectAgentEvent(runtime, e).runtime.raw = runtime.raw \o Added(runtime, e)
<1> DEFINE r == ProjectAgentEvent(runtime, e).runtime
           d == Added(runtime, e)
<1>0. runtime.raw \o <<>> = runtime.raw /\ <<>> \in Text
  BY DEF Raw, Text
<1>1. CASE e.type = "text"
  <2>1. d \in Text /\ runtime.raw \o d \in Text
    BY <1>1, DeltaIs, TextConcat DEF Event, Raw, Added
  <2>2. r = IF d = <<>> THEN runtime ELSE [runtime EXCEPT !.raw = @ \o d, !.buffer = @ \o d]
    BY <1>1 DEF ProjectAgentEvent, ProjectTextDelta, Projected, Added
  <2> HIDE DEF d
  <2>3. Raw(r) /\ r.raw = runtime.raw \o d
    BY <1>0, <2>1, <2>2 DEF Raw
  <2> QED BY <2>1, <2>3 DEF d
<1>2. CASE e.type \in {"thinking", "awaiting_human", "done"}
  <2>1. r = runtime /\ d = <<>>
    BY <1>2 DEF ProjectAgentEvent, Projected, Added
  <2> QED BY <1>0, <2>1
<1>4. CASE e.type \in {"call_start", "call_end"}
  <2> DEFINE found == ResolvePreview(runtime, e.index, e.call)
  <2>1. Raw(found.runtime) /\ found.runtime.raw = runtime.raw
    BY DEF ResolvePreview, Raw
  <2>2. r.raw = found.runtime.raw /\ DOMAIN r = DOMAIN found.runtime
    <3> HIDE DEF found
    <3>1. \E q : r = [found.runtime EXCEPT !.queue = q]
      BY <1>4 DEF ProjectAgentEvent, ProjectToolPreview, Previewed, Projected, found
    <3> QED BY <2>1, <3>1 DEF Raw
  <2> QED BY <1>0, <1>4, <2>1, <2>2 DEF Raw, Added
<1>5. CASE e.type \in {"tool_started", "tool_finished"}
  <2>1. r = ResolveCall(runtime, e.call).runtime
    BY <1>5 DEF ProjectAgentEvent, ProjectToolRun, Projected
  <2>2. /\ Raw(ResolveCall(runtime, e.call).runtime)
        /\ ResolveCall(runtime, e.call).runtime.raw = runtime.raw
    BY DEF ResolveCall, Raw
  <2> QED BY <1>0, <1>5, <2>1, <2>2 DEF Added
<1>7. CASE e.type = "message"
  <2>1. r = [runtime EXCEPT !.buffer = <<>>, !.raw = <<>>]
    BY <1>7 DEF ProjectAgentEvent, ProjectMessage, Projected
  <2> QED BY <1>0, <1>7, <2>1 DEF Raw, Added
<1> HIDE DEF r, d
<1> QED BY <1>1, <1>2, <1>4, <1>5, <1>7 DEF Event, r, d

LEMMA NewRuntimeIs ==
  ASSUME NEW run
  PROVE  Raw(ChatRuntime(run))
<1>1. <<>> \in Text
  BY DEF Text
<1> QED BY <1>1 DEF ChatRuntime, Raw

LEMMA AddToolRaw ==
  ASSUME NEW runtime, Raw(runtime), NEW tool
  PROVE  Raw(AddTool(runtime, tool))
BY DEF AddTool, Raw

\* A draft hydrates a runtime that has received text.
LEMMA DraftRuntimeIs ==
  ASSUME NEW draft, Stream(draft), NEW run
  PROVE  Raw(RuntimeFromDraft(draft, run))
<1> DEFINE text == TextOf(draft.assistant.segments)
           c == [ChatRuntime(run) EXCEPT !.buffer = text, !.raw = text]
           S == ToSet(draft.tools)
           fold == <<"tools">>
           E == {n \in Nat : \A x \in Seq(S) : Len(x) = n => Raw(Folded(fold, c, x))}
<1>1. text \in Text /\ draft.tools \in Seq(S)
  BY TextOfText DEF Stream, Table, Sequence
<1> HIDE DEF text
<1>2. Raw(c)
  BY <1>1 DEF ChatRuntime, Raw
<1> HIDE DEF c, S
<1>3. 0 \in E
  <2> SUFFICES ASSUME NEW x \in Seq(S), Len(x) = 0 PROVE Raw(Folded(fold, c, x))
    OBVIOUS
  <2>1. x = <<>>
    OBVIOUS
  <2> QED BY <1>2, <2>1, FoldedNone
<1>4. ASSUME NEW k \in Nat, k \in E PROVE k + 1 \in E
  <2> SUFFICES ASSUME NEW x \in Seq(S), Len(x) = k + 1 PROVE Raw(Folded(fold, c, x))
    OBVIOUS
  <2>1. PICK v \in Seq(S), y \in S : x = Append(v, y)
    <3>1. x # <<>>
      OBVIOUS
    <3> QED BY <3>1, SequenceEmptyOrAppend
  <2>2. Len(v) = k
    BY <2>1
  <2>3. Raw(Folded(fold, c, v))
    BY <1>4, <2>2
  <2>4. Folded(fold, c, x) = AddTool(Folded(fold, c, v), y)
    <3>1. Folded(fold, c, x) = Step(fold, Folded(fold, c, v), y)
      BY <2>1, FoldedOneMore
    <3> QED BY <3>1 DEF Step
  <2> QED BY <2>3, <2>4, AddToolRaw
<1> HIDE DEF E
<1>5. E \in SUBSET Nat
  BY DEF E
<1>6. E = Nat
  BY <1>3, <1>4, <1>5, SetInduction
<1>7. Len(draft.tools) \in Nat /\ DOMAIN draft.tools = 1..Len(draft.tools)
  BY <1>1
<1>8. RuntimeFromDraft(draft, run) = Folded(fold, c, draft.tools)
  BY <1>7, AddToolFold DEF RuntimeFromDraft, c, text
<1> QED BY <1>1, <1>6, <1>7, <1>8 DEF E

-----------------------------------------------------------------------------
(* What text becomes of.                                                   *)

\* Reverse, of which the library defines a suffix.
LEMMA ReverseIs ==
  ASSUME NEW x \in Text
  PROVE  /\ Reverse(x) \in Text /\ Len(Reverse(x)) = Len(x)
         /\ \A i \in 1..Len(x) : Reverse(x)[i] = x[(Len(x) - i) + 1]
<1> DEFINE m == Len(x)
           r == Reverse(x)
<1>1. m \in Nat /\ DOMAIN x = 1..m /\ \A i \in 1..m : x[i] \in Nat
  BY DEF Text
<1>2. r = [i \in 1..m |-> x[(m - i) + 1]]
  BY DEF Reverse
<1> HIDE DEF m, r
<1>3. \A i \in 1..m : (m - i) + 1 \in 1..m
  BY <1>1
<1>4. \A i \in 1..m : r[i] \in Nat /\ r[i] = x[(m - i) + 1]
  BY <1>1, <1>2, <1>3
<1>5. r \in [1..m -> Nat]
  BY <1>2, <1>4
<1>6. r \in Seq(Nat) /\ Len(r) = m
  BY <1>1, <1>5
<1> QED BY <1>4, <1>6 DEF Text, m, r

\* A suffix ends as the sequence does.
LEMMA SuffixIs ==
  ASSUME NEW x \in Text, NEW y \in Text
  PROVE  /\ IsSuffix(x, y) /\ x # <<>> => y # <<>> /\ y[Len(y)] = x[Len(x)]
         /\ IsSuffix(y, x \o y)
<1>1. /\ Reverse(x) \in Text /\ Len(Reverse(x)) = Len(x) /\ Len(x) \in Nat
      /\ \A i \in 1..Len(x) : Reverse(x)[i] = x[(Len(x) - i) + 1]
      /\ Reverse(y) \in Text /\ Len(Reverse(y)) = Len(y) /\ Len(y) \in Nat
      /\ \A i \in 1..Len(y) : Reverse(y)[i] = y[(Len(y) - i) + 1]
  BY ReverseIs DEF Text
<1>2. ASSUME IsSuffix(x, y), x # <<>> PROVE y # <<>> /\ y[Len(y)] = x[Len(x)]
  <2>1. Len(x) <= Len(y) /\ SubSeq(Reverse(x), 1, Len(x)) = SubSeq(Reverse(y), 1, Len(x))
    BY <1>1, <1>2 DEF IsSuffix, IsPrefix
  <2>2. Len(x) >= 1 /\ Len(y) >= 1
    BY <1>1, <1>2, <2>1 DEF Text
  <2>3. /\ SubSeq(Reverse(x), 1, Len(x))[1] = Reverse(x)[1]
        /\ SubSeq(Reverse(y), 1, Len(x))[1] = Reverse(y)[1]
    BY <1>1, <2>1, <2>2 DEF Text
  <2>4. Reverse(x)[1] = x[Len(x)] /\ Reverse(y)[1] = y[Len(y)]
    BY <1>1, <2>2
  <2>5. y # <<>>
    BY <2>2
  <2> QED BY <2>1, <2>3, <2>4, <2>5
<1>3. IsSuffix(y, x \o y)
  <2> DEFINE z == x \o y
             a == Len(x)
             b == Len(y)
  <2>1. /\ z \in Text /\ Len(z) = a + b /\ a \in Nat /\ b \in Nat
        /\ \A i \in 1..b : z[a + i] = y[i]
    BY DEF Text
  <2> HIDE DEF z
  <2>2. /\ Reverse(z) \in Text /\ Len(Reverse(z)) = a + b
        /\ \A i \in 1..(a + b) : Reverse(z)[i] = z[((a + b) - i) + 1]
    BY <2>1, ReverseIs
  <2>3. Reverse(y) \in Text /\ Len(Reverse(y)) = b /\ \A i \in 1..b : Reverse(y)[i] = y[(b - i) + 1]
    BY <1>1
  <2> HIDE DEF a, b
  <2>4. ASSUME NEW i \in 1..b PROVE Reverse(y)[i] = Reverse(z)[i]
    <3>1. (b - i) + 1 \in 1..b /\ i \in 1..(a + b) /\ ((a + b) - i) + 1 = a + ((b - i) + 1)
      BY <2>1
    <3>2. z[a + ((b - i) + 1)] = y[(b - i) + 1]
      BY <2>1, <3>1
    <3> QED BY <2>2, <2>3, <3>1, <3>2
  <2>5. SubSeq(Reverse(y), 1, b) = SubSeq(Reverse(z), 1, b)
    <3> DEFINE u == SubSeq(Reverse(y), 1, b)
               v == SubSeq(Reverse(z), 1, b)
    <3>a. Reverse(y) \in Seq(Nat) /\ Reverse(z) \in Seq(Nat) /\ b <= Len(Reverse(z))
          /\ b \in Nat /\ b <= Len(Reverse(y))
      BY <2>1, <2>2, <2>3 DEF Text
    <3>b. ASSUME NEW w \in Seq(Nat), b <= Len(w)
          PROVE  /\ SubSeq(w, 1, b) \in Seq(Nat) /\ Len(SubSeq(w, 1, b)) = b
                 /\ \A i \in 1..b : SubSeq(w, 1, b)[i] = w[i]
      BY <2>1, <3>b
    <3>1. /\ u \in Seq(Nat) /\ Len(u) = b /\ \A i \in 1..b : u[i] = Reverse(y)[i]
          /\ v \in Seq(Nat) /\ Len(v) = b /\ \A i \in 1..b : v[i] = Reverse(z)[i]
      <4> DEFINE ry == Reverse(y)
                 rz == Reverse(z)
      <4> HIDE DEF ry, rz
      <4>1. ry \in Seq(Nat) /\ b <= Len(ry) /\ rz \in Seq(Nat) /\ b <= Len(rz)
        BY <3>a DEF ry, rz
      <4>2. u = SubSeq(ry, 1, b) /\ v = SubSeq(rz, 1, b)
        BY DEF ry, rz
      <4> HIDE DEF u, v
      <4>3. /\ u \in Seq(Nat) /\ Len(u) = b /\ \A i \in 1..b : u[i] = ry[i]
        BY <3>b, <4>1, <4>2
      <4>4. /\ v \in Seq(Nat) /\ Len(v) = b /\ \A i \in 1..b : v[i] = rz[i]
        BY <3>b, <4>1, <4>2
      <4> QED BY <4>3, <4>4 DEF ry, rz
    <3> HIDE DEF u, v
    <3>2. /\ \A i \in 1..b : u[i] = v[i]
          /\ u = [i \in 1..b |-> u[i]] /\ v = [i \in 1..b |-> v[i]]
      BY <2>4, <3>1
    <3>3. u = v
      BY <3>2
    <3> QED BY <3>3 DEF u, v
  <2>6. b <= a + b
    BY <2>1
  <2> QED BY <2>2, <2>3, <2>5, <2>6 DEF IsSuffix, IsPrefix, z
<1> QED BY <1>2, <1>3

\* A piece that the runtime does not have yet is all that is new, when it comes behind
\* the end of what the runtime has, and that is no short piece after others.
LEMMA NewPieceIs ==
  ASSUME NEW before \in Text, NEW last \in Text, NEW n \in Nat,
         before = <<>> \/ ~(Len(last) = 1 /\ IsShort(last[1])),
         \A i \in DOMAIN (before \o last) : (before \o last)[i] # n
  PROVE  NormalizeTextDelta(before \o last, last \o <<n>>) = <<n>>
<1> DEFINE raw == before \o last
           sent == last \o <<n>>
           m == Len(last)
           b == Len(before)
           fits == {k \in 0 .. Len(sent) : k <= Len(raw) /\ IsSuffix(SubSeq(sent, 1, k), raw)}
<1>1. /\ m \in Nat /\ b \in Nat /\ DOMAIN last = 1..m /\ \A i \in 1..m : last[i] \in Nat
  BY DEF Text
<1>2. /\ raw \in Text /\ Len(raw) = b + m /\ DOMAIN raw = 1..(b + m)
      /\ \A i \in 1..(b + m) : raw[i] # n
      /\ b = 0 => raw = last
  <2>1. raw \in Text /\ Len(raw) = b + m /\ DOMAIN raw = 1..(b + m)
    BY <1>1 DEF Text
  <2>2. b = 0 => before = <<>>
    BY DEF Text
  <2>3. <<>> \o last = last
    BY TextConcat
  <2> QED BY <2>1, <2>2, <2>3
<1>3. sent = Append(last, n)
  BY DEF Text
<1>4. /\ sent \in Seq(Nat) /\ Len(sent) = m + 1 /\ sent[m + 1] = n
      /\ \A i \in 1..m : sent[i] = last[i]
  BY <1>3, AppendProperties DEF Text
<1>5. IsSuffix(last, raw)
  BY SuffixIs
<1> HIDE DEF sent, m, b, raw
<1>6. SubSeq(sent, m + 1, m + 1) = <<n>>
  <2> DEFINE u == SubSeq(sent, m + 1, m + 1)
             v == <<n>>
  <2>1. u \in Seq(Nat) /\ Len(u) = 1 /\ u[1] = sent[m + 1]
    BY <1>1, <1>4
  <2>2. v \in Seq(Nat) /\ Len(v) = 1 /\ v[1] = n
    OBVIOUS
  <2> HIDE DEF u, v
  <2>3. u = [i \in 1..1 |-> u[i]] /\ v = [i \in 1..1 |-> v[i]]
    BY <2>1, <2>2
  <2>4. \A i \in 1..1 : u[i] = v[i]
    BY <1>4, <2>1, <2>2
  <2>5. u = v
    BY <2>3, <2>4
  <2> QED BY <2>5 DEF u, v
<1>7. SubSeq(sent, 1, m + 1) = sent
  BY <1>1, <1>4
<1>8. SubSeq(sent, 1, m) = last
  <2> DEFINE u == SubSeq(sent, 1, m)
  <2>1. u \in Seq(Nat) /\ Len(u) = m /\ \A i \in 1..m : u[i] = last[i]
    BY <1>1, <1>4
  <2> HIDE DEF u
  <2>2. u = [i \in 1..m |-> u[i]] /\ last = [i \in 1..m |-> last[i]]
    BY <1>1, <2>1 DEF Text
  <2>3. u = last
    BY <2>1, <2>2
  <2> QED BY <2>3 DEF u
<1>9. CASE IsPrefix(raw, sent)
  <2>1. b + m <= m + 1 /\ SubSeq(raw, 1, b + m) = SubSeq(sent, 1, b + m)
    BY <1>1, <1>2, <1>4, <1>9 DEF IsPrefix
  <2>2. b = 0
    <3> SUFFICES ASSUME b # 0 PROVE FALSE
      OBVIOUS
    <3>1. b + m = m + 1
      BY <1>1, <2>1
    <3>2. SubSeq(raw, 1, b + m)[m + 1] = raw[m + 1] /\ SubSeq(sent, 1, b + m)[m + 1] = sent[m + 1]
      BY <1>1, <1>2, <1>4, <3>1 DEF Text
    <3>3. m + 1 \in 1..(b + m)
      BY <1>1, <3>1
    <3> QED BY <1>2, <1>4, <2>1, <3>2, <3>3
  <2>3. Len(raw) + 1 = m + 1
    BY <1>1, <1>2, <2>2
  <2> QED BY <1>4, <1>6, <1>9, <2>3 DEF NormalizeTextDelta, raw, sent
<1>10. CASE ~IsPrefix(raw, sent)
  <2>1. ~ IsSuffix(sent, raw)
    <3>1. raw # <<>> => Len(raw) \in DOMAIN raw
      BY <1>2 DEF Text
    <3>2. sent # <<>> /\ sent \in Text /\ sent[Len(sent)] = n
      BY <1>1, <1>4 DEF Text
    <3> QED BY <1>2, <3>1, <3>2, SuffixIs
  <2>2. m + 1 \notin fits
    BY <1>7, <2>1
  <2>3. m \in fits
    <3>1. m \in 0..Len(sent) /\ m <= Len(raw)
      BY <1>1, <1>2, <1>4
    <3>2. IsSuffix(SubSeq(sent, 1, m), raw)
      BY <1>5, <1>8, Zenon
    <3> QED BY <3>1, <3>2, Zenon
  <2>4. fits \in SUBSET (0..(m + 1))
    BY <1>4
  <2> HIDE DEF fits
  <2>5. Max(fits) \in fits /\ Max(fits) >= m /\ Max(fits) \in 0..(m + 1)
    BY <1>1, <2>3, <2>4, MaxIsMember
  <2>6. Max(fits) = m
    BY <1>1, <2>2, <2>5
  <2>7. OverlapLength(raw, sent) = m
    BY <2>6 DEF OverlapLength, fits
  <2>8. b = 0 => IsPrefix(raw, sent)
    <3>1. b = 0 => Len(raw) = m /\ SubSeq(last, 1, m) = last
      BY <1>1, <1>2 DEF Text
    <3> QED BY <1>1, <1>2, <1>4, <1>8, <3>1 DEF IsPrefix
  <2>9. CASE BelowMinimum(sent, m)
    <3>1. b # 0 /\ before # <<>>
      BY <1>10, <2>8 DEF b
    <3>2. m = 0
      BY <1>1, <1>4, <2>9, <3>1 DEF BelowMinimum, m
    <3>3. NormalizeTextDelta(raw, sent) = sent
      BY <1>10, <2>7, <2>9 DEF NormalizeTextDelta
    <3>4. sent = <<n>>
      BY <1>4, <1>6, <1>7, <3>2
    <3> QED BY <3>3, <3>4 DEF raw, sent
  <2>10. CASE ~BelowMinimum(sent, m)
    <3>1. NormalizeTextDelta(raw, sent) = SubSeq(sent, m + 1, Len(sent))
      BY <1>10, <2>7, <2>10 DEF NormalizeTextDelta
    <3>2. NormalizeTextDelta(raw, sent) = <<n>>
      BY <1>4, <1>6, <3>1
    <3> QED BY <3>2 DEF raw, sent
  <2> QED BY <2>9, <2>10
<1> QED BY <1>9, <1>10

\* A piece that comes behind all that the runtime has is all that is new.
LEMMA AllAgainIs ==
  ASSUME NEW raw \in Text, NEW n \in Nat
  PROVE  NormalizeTextDelta(raw, raw \o <<n>>) = <<n>>
<1> DEFINE sent == raw \o <<n>>
           m == Len(raw)
<1>1. m \in Nat /\ sent = Append(raw, n)
  BY DEF Text
<1>2. /\ sent \in Seq(Nat) /\ Len(sent) = m + 1 /\ sent[m + 1] = n
      /\ \A i \in 1..m : sent[i] = raw[i]
  BY <1>1, AppendProperties DEF Text
<1> HIDE DEF sent
<1>3. SubSeq(raw, 1, m) = SubSeq(sent, 1, m)
  <2>1. /\ SubSeq(raw, 1, m) \in Seq(Nat) /\ Len(SubSeq(raw, 1, m)) = m
        /\ SubSeq(sent, 1, m) \in Seq(Nat) /\ Len(SubSeq(sent, 1, m)) = m
        /\ \A i \in 1..m : SubSeq(raw, 1, m)[i] = raw[i] /\ SubSeq(sent, 1, m)[i] = sent[i]
    BY <1>1, <1>2 DEF Text
  <2> QED BY <1>1, <1>2, <2>1, SeqEqual
<1>4. IsPrefix(raw, sent)
  BY <1>1, <1>2, <1>3 DEF IsPrefix
<1>5. SubSeq(sent, m + 1, m + 1) = <<n>>
  <2> DEFINE u == SubSeq(sent, m + 1, m + 1)
             v == <<n>>
  <2>1. u \in Seq(Nat) /\ Len(u) = 1 /\ u[1] = n /\ v \in Seq(Nat) /\ Len(v) = 1 /\ v[1] = n
    BY <1>1, <1>2
  <2> HIDE DEF u, v
  <2>2. u = v
    BY <2>1, SeqEqual
  <2> QED BY <2>2 DEF u, v
<1> QED BY <1>2, <1>4, <1>5 DEF NormalizeTextDelta, sent

\* A piece that comes alone is new, but for the run's only piece and for a long one when
\* the runtime's text ends with it.
LEMMA LonePieceIs ==
  ASSUME NEW raw \in Text, raw # <<>>, NEW n \in Nat,
         raw[Len(raw)] = n => Len(raw) # 1 /\ IsShort(n)
  PROVE  NormalizeTextDelta(raw, <<n>>) = <<n>>
<1> DEFINE sent == <<n>>
<1>1. sent \in Text /\ sent # <<>> /\ Len(sent) = 1 /\ sent[1] = n
  BY DEF Text
<1>2. Len(raw) \in Nat \ {0} /\ DOMAIN raw = 1..Len(raw)
  BY DEF Text
<1>3. OverlapLength(raw, sent) \in 0..1
  BY <1>1, OverlapIs
<1>4. OverlapLength(raw, sent) = 1 => IsSuffix(sent, raw)
  <2> DEFINE fits == {k \in 0 .. Len(sent) : k <= Len(raw) /\ IsSuffix(SubSeq(sent, 1, k), raw)}
  <2>1. SubSeq(sent, 1, 1) = sent
    <3> DEFINE u == SubSeq(sent, 1, 1)
    <3>1. u \in Seq(Nat) /\ Len(u) = 1 /\ u[1] = sent[1]
      BY <1>1
    <3>2. sent \in Seq(Nat)
      BY <1>1 DEF Text
    <3> HIDE DEF u, sent
    <3>3. u = sent
      BY <1>1, <3>1, <3>2, SeqEqual
    <3> QED BY <3>3 DEF u
  <2>2. fits \in SUBSET (0..1)
    BY <1>1
  <2>3. 0 \in fits
    <3>1. SubSeq(sent, 1, 0) = <<>> /\ IsSuffix(<<>>, raw)
      BY <1>1, NothingIsSuffix DEF Text
    <3>2. IsSuffix(SubSeq(sent, 1, 0), raw)
      BY <3>1, Zenon
    <3>3. 0 \in 0..Len(sent) /\ 0 <= Len(raw)
      BY <1>1, <1>2
    <3> QED BY <3>2, <3>3
  <2> HIDE DEF fits
  <2>4. Max(fits) \in fits
    BY <2>2, <2>3, MaxIsMember
  <2> QED BY <2>1, <2>4 DEF OverlapLength, fits
<1> HIDE DEF sent
<1>5. IsSuffix(sent, raw) => raw[Len(raw)] = n
  BY <1>1, SuffixIs
<1>6. ~IsPrefix(raw, sent)
  <2> SUFFICES ASSUME IsPrefix(raw, sent) PROVE FALSE
    OBVIOUS
  <2>1. Len(raw) = 1 /\ SubSeq(raw, 1, 1) = SubSeq(sent, 1, 1)
    BY <1>1, <1>2 DEF IsPrefix
  <2>2. SubSeq(raw, 1, 1)[1] = raw[1] /\ SubSeq(sent, 1, 1)[1] = sent[1]
    BY <1>1, <1>2, <2>1 DEF Text
  <2> QED BY <1>1, <2>1, <2>2
<1>7. BelowMinimum(sent, OverlapLength(raw, sent))
  BY <1>1, <1>3, <1>4, <1>5 DEF BelowMinimum
<1> QED BY <1>6, <1>7 DEF NormalizeTextDelta, sent

LEMMA TextAssociative ==
  ASSUME NEW x \in Text, NEW y \in Text, NEW z \in Text
  PROVE  (x \o y) \o z = x \o (y \o z)
BY DEF Text

\* The segment that grows is the last.
Grows(table) ==
  table.active # 0 =>
    \E s \in Seq(Segment), e \in Segment :
      /\ table.segments = Append(s, e) /\ e.id = table.active
      /\ \A i \in 1..Len(s) : s[i].id # table.active

LEMMA GrowsIs ==
  ASSUME NEW table, Table(table), Grows(table), NEW x \in Text, NEW r, r = AppendSegment(table, x)
  PROVE  Grows(r) /\ TextOf(r.segments) = TextOf(table.segments) \o x
<1>1. /\ table.active \in Nat /\ table.next \in Nat \ {0} /\ table.segments \in Seq(Segment)
      /\ table = [active |-> table.active, next |-> table.next, segments |-> table.segments]
  BY DEF Table
<1>2. CASE table.active = 0
  <2> DEFINE new == [id |-> table.next, text |-> x]
  <2>1. r = [active |-> table.next, next |-> table.next + 1,
             segments |-> Append(table.segments, new)]
    BY <1>2 DEF AppendSegment
  <2>2. new \in Segment /\ new.id = table.next /\ new.text = x
    BY <1>1 DEF Segment
  <2> HIDE DEF new
  <2>3. TextOf(r.segments) = TextOf(table.segments) \o x
    <3>1. r.segments = Append(table.segments, new)
      BY <2>1
    <3>2. TextOf(Append(table.segments, new)) = TextOf(table.segments) \o new.text
      BY <1>1, <2>2, TextOfIs
    <3> QED BY <2>2, <3>1, <3>2
  <2>4. \A i \in 1..Len(table.segments) : table.segments[i].id # table.next
    <3>1. \A i \in 1..Len(table.segments) :
            table.segments[i].id \in SegmentIds(table) /\ table.segments[i].id \in Nat
      <4>1. /\ DOMAIN table.segments = 1..Len(table.segments)
            /\ \A i \in 1..Len(table.segments) : table.segments[i] \in Segment
        BY <1>1
      <4> QED BY <4>1 DEF SegmentIds, ToSet, Segment
    <3>2. \A i \in 1..Len(table.segments) : table.segments[i].id < table.next
      BY <3>1 DEF Table
    <3> QED BY <1>1, <3>1, <3>2
  <2>5. r.segments = Append(table.segments, new) /\ r.active = table.next
    BY <2>1
  <2>6. Grows(r)
    BY <1>1, <2>2, <2>4, <2>5 DEF Grows
  <2> QED BY <2>3, <2>6
<1>3. CASE table.active # 0
  <2>1. PICK s \in Seq(Segment), e \in Segment :
          /\ table.segments = Append(s, e) /\ e.id = table.active
          /\ \A i \in 1..Len(s) : s[i].id # table.active
    BY <1>3 DEF Grows
  <2> DEFINE n == Len(s)
             m == n + 1
             f == Longer(e, table.active, x)
             longer == [i \in 1..m |-> Longer(table.segments[i], table.active, x)]
             t == Append(s, f)
  <2>2. /\ n \in Nat /\ DOMAIN table.segments = 1..m /\ table.segments[m] = e
        /\ \A i \in 1..n : table.segments[i] = s[i] /\ s[i] \in Segment
        /\ \A i \in 1..m : i = m \/ i \in 1..n
    BY <2>1
  <2>3. r = [active |-> table.active, next |-> table.next, segments |-> longer]
    BY <1>1, <1>3, <2>2 DEF AppendSegment
  <2>4. f \in Segment /\ f.id = table.active /\ f.text = e.text \o x
    <3>1. f \in Segment /\ f.id = e.id
      BY <2>1, LongerIs
    <3>2. e = [id |-> e.id, text |-> e.text]
      BY DEF Segment
    <3>3. f.text = e.text \o x
      BY <2>1, <3>2 DEF Longer
    <3> QED BY <2>1, <3>1, <3>3
  <2> HIDE DEF f
  <2>5. /\ t \in Seq(Segment) /\ Len(t) = m /\ t[m] = f
        /\ \A i \in 1..n : t[i] = s[i]
    BY <2>4, AppendProperties
  <2> HIDE DEF t
  <2>5b. DOMAIN t = 1..m /\ t = [i \in 1..m |-> t[i]]
    BY <2>5
  <2> HIDE DEF n, m, t
  <2>6. longer = t
    <3>1. \A i \in 1..m : longer[i] = t[i]
      <4>1. longer[m] = f
        BY <2>2, <2>5 DEF f, m, n
      <4>2. ASSUME NEW i \in 1..n PROVE Longer(table.segments[i], table.active, x) = s[i]
        BY <2>1, <2>2, <4>2 DEF Longer, n
      <4> QED BY <2>2, <2>5, <4>1, <4>2
    <3> QED BY <2>5b, <3>1
  <2> HIDE DEF longer
  <2>7. r.segments = Append(s, f) /\ r.active = table.active
    BY <2>3, <2>6 DEF t
  <2>8. Grows(r)
    BY <2>1, <2>4, <2>7 DEF Grows
  <2>9. TextOf(r.segments) = TextOf(s) \o (e.text \o x)
    BY <2>4, <2>7, TextOfIs
  <2>10. TextOf(table.segments) = TextOf(s) \o e.text
    BY <2>1, TextOfIs
  <2>11. TextOf(s) \in Text /\ e.text \in Text
    BY TextOfText DEF Segment
  <2> DEFINE before == TextOf(s)
             mid == e.text
  <2>12. before \in Text /\ mid \in Text
    BY <2>11
  <2> HIDE DEF before, mid
  <2>13. (before \o mid) \o x = before \o (mid \o x)
    BY <2>12, TextAssociative
  <2> QED BY <2>8, <2>9, <2>10, <2>13 DEF before, mid
<1> QED BY <1>1, <1>2, <1>3

\* The text that a chat streams.
Streams(c, text) ==
  Chat(c) /\ Grows(c.stream.assistant) /\ TextOf(c.stream.assistant.segments) = text

\* Actions of these types end no stream.
Streaming(a) == RuntimeAction(a) /\ a.type \in {"text", "thinking", "boundary", "tool"}

\* What an action does to the text that a chat streams.
LEMMA StreamingIs ==
  ASSUME NEW c, NEW text, Streams(c, text), NEW a, Streaming(a), NEW r, r = ApplyRuntimeAction(c, a)
  PROVE  Streams(r, IF a.type = "text" THEN text \o a.text ELSE text)
<1>1. c = [committed |-> c.committed, stream |-> c.stream] /\ Stream(c.stream)
      /\ Fields(c.stream) /\ Table(c.stream.assistant)
  BY DEF Streams, Chat, Stream
<1>2. Chat(r)
  BY ActionIs DEF Streams, Streaming
<1>3. \A s : [c EXCEPT !.stream = s].stream = s
  BY <1>1
<1> DEFINE table == c.stream.assistant
<1>4. Grows(table) /\ TextOf(table.segments) = text
  BY DEF Streams
<1>5. CASE a.type = "text"
  <2>1. a.text \in Text
    BY <1>5 DEF Streaming, RuntimeAction, Buffered
  <2> DEFINE t == AppendSegment(table, a.text)
             s == AppendAssistantText(c.stream, a.text)
  <2>2. s.assistant = t
    <3> HIDE DEF s, t, table
    <3>1. s = [assistant |-> t, thinking |-> Break(c.stream.thinking), tools |-> c.stream.tools,
               questions |-> c.stream.questions,
               items |-> AddItem(c.stream.items, <<"assistant", t.active>>)]
      BY <1>1, AssistantForm DEF s, t, table
    <3> QED BY <3>1
  <2>3. Grows(t) /\ TextOf(t.segments) = text \o a.text
    BY <1>1, <1>4, <2>1, GrowsIs
  <2>4. r = [c EXCEPT !.stream = s]
    BY <1>5 DEF ApplyRuntimeAction
  <2> HIDE DEF s, t
  <2> QED BY <1>2, <1>3, <1>5, <2>2, <2>3, <2>4 DEF Streams
<1>6. CASE a.type = "thinking"
  <2> DEFINE s == AppendThinkingText(c.stream, a.text)
  <2>1. s.assistant = table
    <3> DEFINE t == AppendSegment(c.stream.thinking, a.text)
    <3> HIDE DEF s, t
    <3>1. s = [assistant |-> c.stream.assistant, thinking |-> t, tools |-> c.stream.tools,
               questions |-> c.stream.questions,
               items |-> AddItem(c.stream.items, <<"thinking", t.active>>)]
      BY <1>1, ThinkingForm DEF s, t
    <3> QED BY <3>1
  <2>2. r = [c EXCEPT !.stream = s]
    BY <1>6 DEF ApplyRuntimeAction
  <2> HIDE DEF s, table
  <2> QED BY <1>2, <1>3, <1>4, <1>6, <2>1, <2>2 DEF Streams
<1>7. CASE a.type = "boundary"
  <2>1. r = [c EXCEPT !.stream.thinking = Break(@)]
    BY <1>7 DEF ApplyRuntimeAction
  <2>2. r.stream.assistant = table
    BY <1>1, <2>1 DEF Fields
  <2> HIDE DEF table
  <2> QED BY <1>2, <1>4, <1>7, <2>2 DEF Streams
<1>8. CASE a.type = "tool"
  <2> DEFINE s == UpsertStreamingTool(c.stream, a.tool)
  <2>1. s.assistant = Break(table)
    <3>1. \E u, v : s = [c.stream EXCEPT !.assistant = Break(table), !.thinking = Break(@),
                                         !.tools = u, !.items = v]
      BY Zenon DEF UpsertStreamingTool
    <3> HIDE DEF s
    <3> QED BY <1>1, <3>1 DEF Fields
  <2>2. r = [c EXCEPT !.stream = s]
    BY <1>8 DEF ApplyRuntimeAction
  <2>3. Break(table).active = 0 /\ Break(table).segments = table.segments
    BY <1>1, BreakIs
  <2> HIDE DEF s, table
  <2>4. r.stream.assistant = Break(table)
    BY <1>3, <2>1, <2>2
  <2> QED BY <1>2, <1>4, <1>8, <2>3, <2>4 DEF Streams, Grows
<1> QED BY <1>5, <1>6, <1>7, <1>8 DEF Streaming

\* Actions without text leave it alone.
LEMMA QuietActionsAre ==
  ASSUME NEW c, NEW text, Streams(c, text), NEW S,
         \A a \in S : Streaming(a) /\ a.type # "text", NEW t \in Seq(S)
  PROVE  Streams(ApplyRuntimeActions(c, t), text)
<1> DEFINE E == {n \in Nat : \A x \in Seq(S) : Len(x) = n =>
                    Streams(ApplyRuntimeActions(c, x), text)}
<1>1. 0 \in E
  <2> SUFFICES ASSUME NEW x \in Seq(S), Len(x) = 0
               PROVE  Streams(ApplyRuntimeActions(c, x), text)
    OBVIOUS
  <2>1. x = <<>>
    OBVIOUS
  <2> QED BY <2>1, NoActions
<1>2. ASSUME NEW k \in Nat, k \in E PROVE k + 1 \in E
  <2> SUFFICES ASSUME NEW x \in Seq(S), Len(x) = k + 1
               PROVE  Streams(ApplyRuntimeActions(c, x), text)
    OBVIOUS
  <2>1. PICK v \in Seq(S), e \in S : x = Append(v, e)
    <3>1. x # <<>>
      OBVIOUS
    <3> QED BY <3>1, SequenceEmptyOrAppend
  <2>2. Len(v) = k
    BY <2>1
  <2> DEFINE q == ApplyRuntimeActions(c, v)
             r == ApplyRuntimeActions(c, x)
  <2>3. Streams(q, text)
    BY <1>2, <2>2
  <2>4. r = ApplyRuntimeAction(q, e)
    BY <2>1, OneMoreAction
  <2> HIDE DEF q, r
  <2>5. Streaming(e) /\ e.type # "text"
    OBVIOUS
  <2>6. Streams(r, text)
    BY <2>3, <2>4, <2>5, StreamingIs
  <2> QED BY <2>6 DEF r
<1> HIDE DEF E
<1>3. E \in SUBSET Nat
  BY DEF E
<1>4. E = Nat
  BY <1>1, <1>2, <1>3, SetInduction
<1>5. Len(t) \in Nat
  OBVIOUS
<1> QED BY <1>4, <1>5 DEF E

\* An event that ends no stream adds to the text shown what it adds to the text received.
LEMMA EventText ==
  ASSUME NEW c, NEW text, Streams(c, text), NEW runtime, Raw(runtime), NEW e, Event(e),
         e.type \notin {"awaiting_human", "message", "done"}
  PROVE  Streams(ApplyRuntimeActions(c, ProjectAgentEvent(runtime, e).actions),
                 text \o Added(runtime, e))
<1> DEFINE t == ProjectAgentEvent(runtime, e).actions
           d == Added(runtime, e)
<1>0. text \o <<>> = text
  <2>1. text \in Text
    BY TextOfText DEF Streams, Chat, Stream, Table
  <2> QED BY <2>1, TextConcat
<1>1. CASE e.type = "text"
  <2> DEFINE a == [type |-> "text", text |-> d]
  <2>1. t = IF d = <<>> THEN <<>> ELSE <<a>>
    BY <1>1 DEF ProjectAgentEvent, ProjectTextDelta, Projected, Added
  <2>2. d \in Text
    BY RawOf
  <2> HIDE DEF t, d
  <2>3. Streaming(a) /\ a.type = "text" /\ a.text = d
    BY <2>2 DEF Streaming, RuntimeAction, Buffered
  <2> HIDE DEF a
  <2>4. Streams(ApplyRuntimeAction(c, a), text \o d)
    BY <2>3, StreamingIs
  <2>5. ApplyRuntimeActions(c, <<a>>) = ApplyRuntimeAction(c, a) /\ ApplyRuntimeActions(c, <<>>) = c
    BY OneAction, NoActions
  <2> QED BY <1>0, <2>1, <2>4, <2>5 DEF t, d
<1>2. CASE e.type # "text"
  <2>1. Actions(t, e)
    BY <1>2, ActionsOf
  <2>2. d = <<>>
    BY <1>2 DEF Added
  <2> HIDE DEF t, d
  <2> DEFINE S == ToSet(t)
  <2>3. t \in Seq(S) /\ \A a \in S : Streaming(a) /\ a.type # "text"
    BY <1>2, <2>1 DEF Actions, Action, Sequence, Streaming, RuntimeAction, Buffered
  <2> HIDE DEF S
  <2>4. Streams(ApplyRuntimeActions(c, t), text)
    BY <2>3, QuietActionsAre
  <2> QED BY <1>0, <2>2, <2>4 DEF t, d
<1> QED BY <1>1, <1>2
=============================================================================
