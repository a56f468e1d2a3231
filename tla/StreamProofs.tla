---------------------------- MODULE StreamProofs ----------------------------
(***************************************************************************)
(* Proofs about StreamRelay and the translators it composes.               *)
(***************************************************************************)
EXTENDS StreamRelay, WellFoundedInduction, FiniteSetTheorems, TLAPS

------------------------------------------------------------------------------
(* Induction over the natural numbers, for sets. *)

Below == {p \in Nat \X Nat : p[1] < p[2]}

LEMMA BelowWellFounded == IsWellFoundedOn(Below, Nat)
<1>1. OpToRel(<, Nat) = Below
  BY Zenon DEF OpToRel, Below
<1> QED
  BY NatLessThanWellFounded, <1>1, Zenon

LEMMA SmallestNat ==
  ASSUME NEW T \in SUBSET Nat, T # {}
  PROVE  \E x \in T : \A y \in T : x <= y
<1>1. \E x \in T : \A y \in T : ~(<<y, x>> \in Below)
  BY BelowWellFounded, WFMin, Zenon
<1>2. PICK x \in T : \A y \in T : ~(<<y, x>> \in Below)
  BY <1>1
<1>3. ASSUME NEW y \in T PROVE x <= y
  <2>1. x \in Nat /\ y \in Nat
    OBVIOUS
  <2>2. <<y, x>> \in Nat \X Nat
    BY <2>1
  <2>3. ~(<<y, x>>[1] < <<y, x>>[2])
    BY <1>2, <2>2, Zenon DEF Below
  <2> QED
    BY <2>1, <2>3
<1> QED
  BY <1>3

\* A set that holds 0 and with every number its successor holds all.
LEMMA Induction ==
  ASSUME NEW T \in SUBSET Nat, 0 \in T, \A n \in T : n + 1 \in T
  PROVE  Nat \subseteq T
<1> DEFINE U == Nat \ T
<1>1. SUFFICES ASSUME U # {} PROVE FALSE
  OBVIOUS
<1>2. PICK x \in U : \A y \in U : x <= y
  <2> HIDE DEF U
  <2>1. U \in SUBSET Nat
    BY DEF U
  <2> QED
    BY <2>1, <1>1, SmallestNat
<1>3. x # 0 /\ x \in Nat
  OBVIOUS
<1>4. x - 1 \in Nat /\ x - 1 \in T
  BY <1>2, <1>3
<1> QED
  BY <1>4, <1>3

------------------------------------------------------------------------------
(* What the client has made of the events that were written. *)

\* A sequence, whatever is in it.
Written(events) == \E S : events \in Seq(S)

LEMMA WrittenAppend ==
  ASSUME NEW events, NEW e, Written(events)
  PROVE  /\ Written(Append(events, e)) /\ Len(events) \in Nat /\ Len(Append(events, e)) = Len(events) + 1
         /\ Append(events, e)[Len(events) + 1] = e
         /\ \A n \in 1..Len(events) : Append(events, e)[n] = events[n]
<1>1. PICK S : events \in Seq(S)
  BY DEF Written
<1>2. events \in Seq(S \cup {e})
  BY <1>1
<1>3. Append(events, e) \in Seq(S \cup {e})
  BY <1>2
<1> QED
  BY <1>2, <1>3 DEF Written

DeliveredUpTo(g, c, events, m) == g = [n \in 0..m |-> IF n = 0 THEN c ELSE Receives(g[n - 1], events[n])]

LEMMA DeliveredExists ==
  ASSUME NEW c, NEW events, NEW m \in Nat
  PROVE  \E g : DeliveredUpTo(g, c, events, m)
<1> USE DEF DeliveredUpTo
<1> DEFINE Fn(g, k) == DeliveredUpTo(g, c, events, k)
           T == {k \in Nat : \E g : Fn(g, k)}
<1>1. 0 \in T
  <2> DEFINE g == [n \in 0..0 |-> c]
  <2>1. Fn(g, 0)
    OBVIOUS
  <2> HIDE DEF g, Fn
  <2> QED
    BY <2>1
<1>2. ASSUME NEW k \in T PROVE k + 1 \in T
  <2>1. PICK g : Fn(g, k)
    OBVIOUS
  <2> DEFINE h == [n \in 0..k + 1 |-> IF n = k + 1 THEN Receives(g[k], events[k + 1]) ELSE g[n]]
  <2>2. ASSUME NEW n \in 0..k + 1
        PROVE  h[n] = IF n = 0 THEN c ELSE Receives(h[n - 1], events[n])
    <3>1. CASE n = k + 1
      BY <3>1
    <3>2. CASE n # k + 1
      <4>1. n \in 0..k /\ h[n] = g[n] /\ (n # 0 => n - 1 \in 0..k + 1 /\ h[n - 1] = g[n - 1])
        BY <3>2
      <4>2. g[n] = IF n = 0 THEN c ELSE Receives(g[n - 1], events[n])
        BY <2>1, <4>1
      <4> QED
        BY <4>1, <4>2
    <3> QED
      BY <3>1, <3>2
  <2>3. Fn(h, k + 1)
    BY <2>2
  <2> HIDE DEF h, Fn
  <2> QED
    BY <2>3
<1> HIDE DEF T
<1>3. Nat \subseteq T
  <2>1. T \in SUBSET Nat
    BY DEF T
  <2> QED
    BY <2>1, <1>1, <1>2, Induction
<1> QED
  BY <1>3 DEF T

LEMMA DeliveredDef ==
  ASSUME NEW c, NEW events, Len(events) \in Nat
  PROVE  /\ Delivered(c, events)[0] = c
         /\ \A n \in 1..Len(events) : Delivered(c, events)[n] = Receives(Delivered(c, events)[n - 1], events[n])
<1> DEFINE D == Delivered(c, events)
<1>1. Len(events) \in Nat
  OBVIOUS
<1>2. D = [n \in 0..Len(events) |-> IF n = 0 THEN c ELSE Receives(D[n - 1], events[n])]
  <2>1. \E g : DeliveredUpTo(g, c, events, Len(events))
    BY <1>1, DeliveredExists
  <2>2. D = CHOOSE g : DeliveredUpTo(g, c, events, Len(events))
    BY DEF Delivered, DeliveredUpTo
  <2> HIDE DEF D
  <2>3. DeliveredUpTo(D, c, events, Len(events))
    BY <2>1, <2>2
  <2> QED
    BY <2>3 DEF DeliveredUpTo
<1> HIDE DEF D
<1>3. D[0] = c
  BY <1>1, <1>2
<1>4. ASSUME NEW n \in 1..Len(events)
      PROVE  D[n] = Receives(D[n - 1], events[n])
  BY <1>1, <1>2
<1> QED
  BY <1>3, <1>4 DEF D

\* One more event leaves what was made of the others, and is received last.
LEMMA DeliveredAppend ==
  ASSUME NEW c, NEW events, NEW e, Written(events)
  PROVE  /\ \A n \in 0..Len(events) : Delivered(c, Append(events, e))[n] = Delivered(c, events)[n]
         /\ Delivered(c, Append(events, e))[Len(events) + 1] = Receives(Delivered(c, events)[Len(events)], e)
<1> DEFINE D == Delivered(c, events)
           E == Delivered(c, Append(events, e))
           N == Len(events)
           T == {n \in Nat : n <= N => E[n] = D[n]}
<1>1. /\ N \in Nat /\ Len(Append(events, e)) = N + 1
      /\ Append(events, e)[N + 1] = e
      /\ \A n \in 1..N : Append(events, e)[n] = events[n]
  BY WrittenAppend
<1>2. D[0] = c /\ \A n \in 1..N : D[n] = Receives(D[n - 1], events[n])
  BY <1>1, DeliveredDef
<1>3. E[0] = c /\ \A n \in 1..N + 1 : E[n] = Receives(E[n - 1], Append(events, e)[n])
  <2> DEFINE more == Append(events, e)
  <2>1. Len(more) = N + 1 /\ Len(more) \in Nat
    BY <1>1
  <2> HIDE DEF more
  <2>2. /\ Delivered(c, more)[0] = c
        /\ \A n \in 1..Len(more) : Delivered(c, more)[n] = Receives(Delivered(c, more)[n - 1], more[n])
    BY <2>1, DeliveredDef
  <2> QED
    BY <2>1, <2>2 DEF more
<1> HIDE DEF D, E
<1>4. 0 \in T
  BY <1>2, <1>3
<1>5. ASSUME NEW n \in T PROVE n + 1 \in T
  BY <1>1, <1>2, <1>3
<1>6. \A n \in Nat : n <= N => E[n] = D[n]
  <2> HIDE DEF T
  <2>1. T \in SUBSET Nat
    BY DEF T
  <2>2. Nat \subseteq T
    BY <2>1, <1>4, <1>5, Induction
  <2> QED
    BY <2>2 DEF T
<1>7. E[N + 1] = Receives(E[N], e)
  BY <1>1, <1>3
<1>8. E[N] = D[N]
  BY <1>1, <1>6
<1> QED
  BY <1>1, <1>6, <1>7, <1>8 DEF D, E

------------------------------------------------------------------------------
(* A client of a translated stream.  How many texts it has read, and whether *)
(* it has seen the end, only depends on the types and kinds of the events.   *)

Translating == path \in Paths /\ path.from # path.to

Shape(c) ==
  /\ DOMAIN c = {"phase", "open", "closed", "texts", "tools", "broken"}
  /\ c.texts \in Nat

Vocabulary ==
  CASE path.to = "anthropic" ->
         {"message_start", "content_block_start", "content_block_delta", "content_block_stop",
          "message_delta", "message_stop", "ping"}
    [] path.to = "openai" -> {"chunk", "tool_start", "tool_delta", "finish", "[DONE]"}
    [] path.to = "responses" ->
         {"response.created", "response.output_item.added", "response.reasoning_summary_part",
          "response.output_item.done", "response.content_part.added", "response.output_text.delta",
          "response.output_text.done", "response.content_part.done", "response.completed", "[DONE]"}

\* The text deltas an event carries.
Carries(e) ==
  IF \/ e.type = "content_block_delta" /\ e.kind = "text"
     \/ e.type = "chunk" /\ e.kind = "text"
     \/ e.type = "response.output_text.delta"
  THEN 1 ELSE 0

Reads(c, d, e) ==
  /\ Shape(d)
  /\ d.texts = c.texts + Carries(e)
  /\ d.phase = "end" => c.phase = "end" \/ e.type \in Terminal

LEMMA ExpectShape ==
  ASSUME NEW c, Shape(c), NEW ok
  PROVE  /\ Shape(Expect(c, ok)) /\ Expect(c, ok).phase = c.phase /\ Expect(c, ok).texts = c.texts
         /\ Expect(c, ok).open = c.open /\ Expect(c, ok).closed = c.closed /\ Expect(c, ok).tools = c.tools
BY DEF Shape, Expect

LEMMA AnthropicClientReads ==
  ASSUME Translating, path.to = "anthropic", NEW c, NEW e, Shape(c), e.type \in Vocabulary
  PROVE  Reads(c, AnthropicClient(c, e), e)
<1> USE ExpectShape DEF Vocabulary, AnthropicClient, Reads, Shape, Carries, Terminal
<1>1. CASE e.type = "message_start"
  BY <1>1
<1>2. CASE e.type = "content_block_start"
  BY <1>2
<1>3. CASE e.type = "content_block_delta"
  BY <1>3
<1>4. CASE e.type = "content_block_stop"
  <2> DEFINE ok == e.index \in Indices(c.open)
             c1 == Expect(c, ok)
             stopped == {b \in c.open : b[1] = e.index}
             d == [c1 EXCEPT !.open = @ \ stopped, !.closed = @ \union stopped]
  <2>1. AnthropicClient(c, e) = d
    BY <1>4
  <2>2. Shape(c1) /\ c1.texts = c.texts /\ c1.phase = c.phase
    <3> HIDE DEF ok
    <3> QED
      BY ExpectShape
  <2> HIDE DEF c1, stopped
  <2>3. Reads(c, d, e)
    BY <1>4, <2>2
  <2> QED
    BY <2>1, <2>3
<1>5. CASE e.type = "message_delta"
  BY <1>5
<1>6. CASE e.type = "message_stop"
  BY <1>6
<1>7. CASE e.type = "ping"
  BY <1>7
<1> QED
  BY <1>1, <1>2, <1>3, <1>4, <1>5, <1>6, <1>7

LEMMA OpenAIClientReads ==
  ASSUME Translating, path.to = "openai", NEW c, NEW e, Shape(c), e.type \in Vocabulary
  PROVE  Reads(c, OpenAIClient(c, e), e)
<1> USE ExpectShape DEF Vocabulary, OpenAIClient, Reads, Shape, Carries, Terminal
<1>1. CASE e.type = "chunk"
  <2> DEFINE ok == CASE e.kind = "role" -> c.phase = "new"
                     [] e.kind = "text" -> c.phase = "open"
                     [] e.kind = "reasoning" -> c.phase = "open" /\ c.texts = 0
             c1 == Expect(c, ok)
             d == [c1 EXCEPT !.phase = "open", !.texts = IF e.kind = "text" THEN @ + 1 ELSE @]
  <2>1. OpenAIClient(c, e) = d
    BY <1>1
  <2>2. Shape(c1) /\ c1.texts = c.texts
    <3> HIDE DEF ok
    <3> QED
      BY ExpectShape
  <2> HIDE DEF c1
  <2>3. Reads(c, d, e)
    BY <1>1, <2>2
  <2> QED
    BY <2>1, <2>3
<1>2. CASE e.type = "tool_start"
  BY <1>2
<1>3. CASE e.type = "tool_delta"
  BY <1>3
<1>4. CASE e.type = "finish"
  BY <1>4
<1>5. CASE e.type = "[DONE]"
  BY <1>5
<1> QED
  BY <1>1, <1>2, <1>3, <1>4, <1>5

LEMMA ResponsesClientReads ==
  ASSUME Translating, path.to = "responses", NEW c, NEW e, Shape(c), e.type \in Vocabulary
  PROVE  Reads(c, ResponsesClient(c, e), e)
<1> USE ExpectShape DEF Vocabulary, ResponsesClient, Reads, Shape, Carries, Terminal
<1>1. CASE e.type = "response.created"
  BY <1>1
<1>2. CASE e.type = "response.output_item.added"
  <2> DEFINE ok == /\ c.phase = "open"
                   /\ e.index \notin Indices(c.open \union c.closed)
                   /\ "reasoning" \notin Kinds(c)
             c1 == Expect(c, ok)
             d == [c1 EXCEPT !.open = @ \union {<<e.index, e.kind>>}]
  <2>1. ResponsesClient(c, e) = d
    BY <1>2
  <2>2. Shape(c1) /\ c1.texts = c.texts /\ c1.phase = c.phase
    <3> HIDE DEF ok
    <3> QED
      BY ExpectShape
  <2> HIDE DEF c1
  <2>3. Reads(c, d, e)
    BY <1>2, <2>2
  <2> QED
    BY <2>1, <2>3
<1>3. CASE e.type = "response.reasoning_summary_part"
  BY <1>3
<1>4. CASE e.type = "response.output_item.done"
  <2> DEFINE item == <<e.index, e.kind>>
             unannounced == e.kind = "message" /\ e.index \notin Indices(c.open \union c.closed)
             ok == item \in c.open \/ unannounced
             c1 == Expect(c, ok)
             d == [c1 EXCEPT !.open = @ \ {item}, !.closed = @ \union {item}]
  <2>1. ResponsesClient(c, e) = d
    BY <1>4
  <2>2. Shape(c1) /\ c1.texts = c.texts /\ c1.phase = c.phase
    <3> HIDE DEF ok
    <3> QED
      BY ExpectShape
  <2> HIDE DEF c1, item
  <2>3. Reads(c, d, e)
    BY <1>4, <2>2
  <2> QED
    BY <2>1, <2>3
<1>5. CASE e.type = "response.completed"
  BY <1>5
<1>6. CASE e.type = "[DONE]"
  BY <1>6
<1>7. CASE e.type \in {"response.content_part.added", "response.output_text.delta",
                       "response.output_text.done", "response.content_part.done"}
  <2> DEFINE ok == <<e.index, "message">> \in c.open
             c1 == Expect(c, ok)
             d == [c1 EXCEPT !.texts = IF e.type = "response.output_text.delta" THEN @ + 1 ELSE @]
  <2>1. ResponsesClient(c, e) = d
    BY <1>7
  <2>2. Shape(c1) /\ c1.texts = c.texts /\ c1.phase = c.phase
    <3> HIDE DEF ok
    <3> QED
      BY ExpectShape
  <2> HIDE DEF c1
  <2>3. Reads(c, d, e)
    BY <1>7, <2>2
  <2> QED
    BY <2>1, <2>3
<1> QED
  BY <1>1, <1>2, <1>3, <1>4, <1>5, <1>6, <1>7

LEMMA ClientReads ==
  ASSUME Translating, NEW c, NEW e, Shape(c), e.type \in Vocabulary
  PROVE  Reads(c, Receives(c, e), e)
<1>1. CASE path.to = "anthropic"
  BY <1>1, AnthropicClientReads DEF Receives, Translating
<1>2. CASE path.to = "openai"
  BY <1>2, OpenAIClientReads DEF Receives, Translating
<1>3. CASE path.to = "responses"
  BY <1>3, ResponsesClientReads DEF Receives, Translating
<1> QED
  BY <1>1, <1>2, <1>3 DEF Translating, Paths

------------------------------------------------------------------------------
(* What a translator has written: k texts so far, the end of the answer at   *)
(* no point unless `over', and the tokens t counted.                         *)

KeepsNext == path.from \in {"openai", "gemini"} /\ path.to = "anthropic"

Now(events) == Delivered(client, events)[Len(events)]

Output(s, k, over, t) ==
  /\ k \in Nat
  /\ {"emit", "tokens"} \subseteq DOMAIN s
  /\ s.tokens = t
  /\ KeepsNext => "next" \in DOMAIN s /\ s.next \in Nat
  /\ Written(s.emit)
  /\ Shape(Now(s.emit)) /\ Now(s.emit).texts = client.texts + k
  /\ \A n \in 0..Len(s.emit) : Delivered(client, s.emit)[n].phase = "end" => over

LEMMA NothingWritten ==
  ASSUME NEW s, {"emit", "tokens"} \subseteq DOMAIN s, KeepsNext => "next" \in DOMAIN s /\ s.next \in Nat,
         s.emit = <<>>, Shape(client), NEW over, client.phase = "end" => over
  PROVE  Output(s, 0, over, s.tokens)
<1>1. Len(<<>>) = 0 /\ Written(<<>>)
  <2>1. <<>> \in Seq({})
    OBVIOUS
  <2> QED
    BY <2>1 DEF Written
<1>2. Delivered(client, <<>>)[0] = client
  BY <1>1, DeliveredDef
<1> QED
  BY <1>1, <1>2 DEF Output, Now, Shape

\* What is written does not depend on the translator's other fields.
LEMMA SameOutput ==
  ASSUME NEW s, NEW k, NEW over, NEW t, Output(s, k, over, t), NEW o,
         DOMAIN o = DOMAIN s, o.emit = s.emit, o.tokens = t, KeepsNext => o.next \in Nat
  PROVE  Output(o, k, over, t)
BY DEF Output

LEMMA FieldOutput ==
  ASSUME NEW s, NEW k, NEW over, NEW t, Output(s, k, over, t), NEW f, f \notin {"emit", "tokens", "next"}, NEW v
  PROVE  Output([s EXCEPT ![f] = v], k, over, t)
<1> DEFINE o == [s EXCEPT ![f] = v]
<1>1. DOMAIN o = DOMAIN s /\ o.emit = s.emit /\ o.tokens = t /\ (KeepsNext => o.next = s.next)
  BY DEF Output
<1> HIDE DEF o
<1> QED
  BY <1>1, SameOutput DEF Output, o

LEMMA WriteOutput ==
  ASSUME Translating, NEW s, NEW k, NEW over, NEW t, Output(s, k, over, t), Shape(client),
         NEW e, e.type \in Vocabulary, e.type \in Terminal => over
  PROVE  Output(WriteEvent(s, e), k + Carries(e), over, t)
<1> DEFINE more == Append(s.emit, e)
           N == Len(s.emit)
           o == WriteEvent(s, e)
<1>1. o.emit = more /\ DOMAIN o = DOMAIN s /\ o.tokens = t /\ (KeepsNext => o.next = s.next)
  BY DEF WriteEvent, Output
<1>2. N \in Nat /\ Written(more) /\ Len(more) = N + 1
  BY WrittenAppend DEF Output
<1>3. \A n \in 0..N : Delivered(client, more)[n] = Delivered(client, s.emit)[n]
  BY DeliveredAppend DEF Output
<1>4. Delivered(client, more)[N + 1] = Receives(Now(s.emit), e)
  BY DeliveredAppend DEF Output, Now
<1>5. Reads(Now(s.emit), Receives(Now(s.emit), e), e)
  BY ClientReads DEF Output
<1> HIDE DEF more, N, o
<1>6. Now(more) = Receives(Now(s.emit), e)
  BY <1>2, <1>4 DEF Now
<1>7. ASSUME NEW n \in 0..N + 1, Delivered(client, more)[n].phase = "end" PROVE over
  <2>1. CASE n = N + 1
    <3>1. Now(s.emit).phase = "end" => over
      BY <1>2 DEF Output, Now, N
    <3> QED
      BY <2>1, <3>1, <1>4, <1>5, <1>7 DEF Reads
  <2>2. CASE n # N + 1
    <3>1. n \in 0..N
      BY <2>2, <1>2
    <3> QED
      BY <3>1, <1>3, <1>7 DEF Output, N
  <2> QED
    BY <2>1, <2>2
<1>8. Carries(e) \in Nat /\ k \in Nat /\ k + Carries(e) \in Nat
  BY DEF Carries, Output
<1>9. Now(more).texts = client.texts + (k + Carries(e))
  BY <1>5, <1>6, <1>8 DEF Output, Reads, Shape
<1> QED
  BY <1>1, <1>2, <1>5, <1>6, <1>7, <1>8, <1>9 DEF Output, Reads, o

Ready == Translating /\ Shape(client)

TextEvent(type, kind) ==
  \/ type \in {"content_block_delta", "chunk"} /\ kind = "text"
  \/ type = "response.output_text.delta"

LEMMA WriteText ==
  ASSUME Ready, NEW s, NEW k, NEW over, NEW t, Output(s, k, over, t),
         NEW type, NEW i, NEW kind, type \in Vocabulary, TextEvent(type, kind)
  PROVE  Output(WriteEvent(s, Ev(type, i, kind)), k + 1, over, t)
<1> DEFINE e == Ev(type, i, kind)
<1>1. e.type = type /\ e.kind = kind
  BY DEF Ev
<1> HIDE DEF e
<1>2. Carries(e) = 1 /\ e.type \notin Terminal
  BY <1>1 DEF Carries, TextEvent, Terminal
<1>3. Output(WriteEvent(s, e), k + Carries(e), over, t)
  BY <1>1, <1>2, WriteOutput DEF Ready
<1> QED
  BY <1>2, <1>3 DEF e

LEMMA WriteOther ==
  ASSUME Ready, NEW s, NEW k, NEW over, NEW t, Output(s, k, over, t),
         NEW type, NEW i, NEW kind, type \in Vocabulary, ~TextEvent(type, kind), type \in Terminal => over
  PROVE  Output(WriteEvent(s, Ev(type, i, kind)), k, over, t)
<1> DEFINE e == Ev(type, i, kind)
<1>1. e.type = type /\ e.kind = kind
  BY DEF Ev
<1> HIDE DEF e
<1>2. Carries(e) = 0
  BY <1>1 DEF Carries, TextEvent
<1>3. Output(WriteEvent(s, e), k + Carries(e), over, t)
  BY <1>1, <1>2, WriteOutput DEF Ready
<1>4. k + 0 = k
  BY DEF Output
<1> QED
  BY <1>2, <1>3, <1>4 DEF e

------------------------------------------------------------------------------
(* Translators to Anthropic. *)

ToAnthropic == Ready /\ path.to = "anthropic"

LEMMA AnthropicWrites ==
  ASSUME ToAnthropic, NEW s, NEW k, NEW over, NEW t, Output(s, k, over, t), NEW i, NEW kind
  PROVE  /\ \A type \in {"message_start", "content_block_start", "content_block_stop", "message_delta", "ping"} :
              Output(WriteEvent(s, Ev(type, i, kind)), k, over, t)
         /\ kind # "text" => Output(WriteEvent(s, Ev("content_block_delta", i, kind)), k, over, t)
         /\ Output(WriteEvent(s, Ev("content_block_delta", i, "text")), k + 1, over, t)
         /\ over => Output(WriteEvent(s, Ev("message_stop", i, kind)), k, over, t)
<1> USE DEF ToAnthropic, Vocabulary, Terminal, TextEvent
<1>1. ASSUME NEW type \in {"message_start", "content_block_start", "content_block_stop", "message_delta", "ping"}
      PROVE  Output(WriteEvent(s, Ev(type, i, kind)), k, over, t)
  BY WriteOther
<1>2. kind # "text" => Output(WriteEvent(s, Ev("content_block_delta", i, kind)), k, over, t)
  BY WriteOther
<1>3. Output(WriteEvent(s, Ev("content_block_delta", i, "text")), k + 1, over, t)
  BY WriteText
<1>4. over => Output(WriteEvent(s, Ev("message_stop", i, kind)), k, over, t)
  BY WriteOther
<1> QED
  BY <1>1, <1>2, <1>3, <1>4

LEMMA OpenBlockOutput ==
  ASSUME ToAnthropic, NEW s, NEW k, NEW over, NEW t, Output(s, k, over, t), NEW kind
  PROVE  Output(OpenBlock(s, kind), k, over, t)
<1> DEFINE o == [s EXCEPT !.next = @ + 1]
<1>1. DOMAIN o = DOMAIN s /\ o.emit = s.emit /\ o.tokens = t /\ (KeepsNext => o.next \in Nat)
  BY DEF Output
<1> HIDE DEF o
<1>2. Output(o, k, over, t)
  BY <1>1, SameOutput
<1> QED
  BY <1>2, AnthropicWrites DEF OpenBlock, o

LEMMA StartMessageOutput ==
  ASSUME ToAnthropic, NEW s, NEW k, NEW over, NEW t, Output(s, k, over, t)
  PROVE  Output(StartMessage(s), k, over, t)
<1>1. Output([s EXCEPT !.started = TRUE], k, over, t)
  BY FieldOutput
<1> QED
  BY <1>1, AnthropicWrites DEF StartMessage

LEMMA ThinkingDeltaOutput ==
  ASSUME ToAnthropic, NEW s, NEW k, NEW over, NEW t, Output(s, k, over, t), NEW c
  PROVE  Output(ThinkingDelta(s, c), k, over, t)
<1> DEFINE o == IF s.think = None THEN OpenBlock([s EXCEPT !.think = s.next], "thinking") ELSE s
<1>1. Output([s EXCEPT !.think = s.next], k, over, t)
  BY FieldOutput
<1>2. Output(o, k, over, t)
  BY <1>1, OpenBlockOutput
<1> HIDE DEF o
<1>3. Output([o EXCEPT !.thought = @ + 1], k, over, t)
  BY <1>2, FieldOutput
<1>4. Output(BlockDelta([o EXCEPT !.thought = @ + 1], o.think, "thinking"), k, over, t)
  BY <1>3, AnthropicWrites DEF BlockDelta
<1> QED
  BY <1>4 DEF ThinkingDelta, o

LEMMA TextBlockOutput ==
  ASSUME ToAnthropic, NEW s, NEW k, NEW over, NEW t, Output(s, k, over, t)
  PROVE  Output(TextBlock(s), k + 1, over, t)
<1> DEFINE o == IF s.text = None THEN OpenBlock([s EXCEPT !.text = s.next], "text") ELSE s
<1>1. Output([s EXCEPT !.text = s.next], k, over, t)
  BY FieldOutput
<1>2. Output(o, k, over, t)
  BY <1>1, OpenBlockOutput
<1> HIDE DEF o
<1>3. Output(BlockDelta(o, o.text, "text"), k + 1, over, t)
  BY <1>2, AnthropicWrites DEF BlockDelta
<1> QED
  BY <1>3 DEF TextBlock, o

LEMMA TextDeltaOutput ==
  ASSUME ToAnthropic, NEW s, NEW k, NEW over, NEW t, Output(s, k, over, t), NEW c
  PROVE  Output(TextDelta(s, c), k + (IF c.text THEN 1 ELSE 0), over, t)
<1> DEFINE o == IF s.think # None /\ ~s.thinkClosed THEN StopBlock([s EXCEPT !.thinkClosed = TRUE], s.think) ELSE s
<1>1. Output([s EXCEPT !.thinkClosed = TRUE], k, over, t)
  BY FieldOutput
<1>2. Output(o, k, over, t)
  BY <1>1, AnthropicWrites DEF StopBlock
<1> HIDE DEF o
<1>3. Output(TextBlock(o), k + 1, over, t)
  BY <1>2, TextBlockOutput
<1>4. k + 0 = k
  BY DEF Output
<1>5. CASE c.text
  BY <1>5, <1>3 DEF TextDelta, o
<1>6. CASE ~c.text
  BY <1>6, <1>4 DEF TextDelta
<1> QED
  BY <1>5, <1>6

LEMMA RefusalDeltaOutput ==
  ASSUME ToAnthropic, NEW s, NEW k, NEW over, NEW t, Output(s, k, over, t), NEW c
  PROVE  Output(RefusalDelta(s, c), k + (IF c.refusal THEN 1 ELSE 0), over, t)
<1>1. k + 0 = k
  BY DEF Output
<1>2. CASE c.refusal
  BY <1>2, TextBlockOutput DEF RefusalDelta
<1>3. CASE ~c.refusal
  BY <1>1, <1>3 DEF RefusalDelta
<1> QED
  BY <1>2, <1>3

LEMMA ToolDeltaOutput ==
  ASSUME ToAnthropic, NEW s, NEW k, NEW over, NEW t, Output(s, k, over, t), NEW c
  PROVE  Output(ToolDelta(s, c), k, over, t)
<1> DEFINE o == IF s.tools[c.tool] = None
                THEN OpenBlock([s EXCEPT !.tools[c.tool] = s.next], "tool_use") ELSE s
<1>1. Output([s EXCEPT !.tools[c.tool] = s.next], k, over, t)
  <2> DEFINE v == [s.tools EXCEPT ![c.tool] = s.next]
  <2>1. [s EXCEPT !.tools[c.tool] = s.next] = [s EXCEPT !["tools"] = v]
    BY Zenon
  <2> QED
    BY <2>1, FieldOutput
<1>2. Output(o, k, over, t)
  BY <1>1, OpenBlockOutput
<1> HIDE DEF o
<1>3. Output(BlockDelta(o, o.tools[c.tool], "tool_use"), k, over, t)
  BY <1>2, AnthropicWrites DEF BlockDelta
<1> QED
  BY <1>2, <1>3 DEF ToolDelta, o

------------------------------------------------------------------------------
(* The loops of the translators: turn n makes the n-th state of the one before. *)

Turn(loop, x, prev, n) ==
  CASE loop = "stop" -> IF n - 1 \in x THEN StopBlock(prev, n - 1) ELSE prev
    [] loop = "anthropic" -> AnthropicBlock(prev, n - 1, x[n])
    [] loop = "openai" -> IF x[n] = "tool_use" THEN writeToolCallStartChunk(prev, None) ELSE prev
    [] loop = "responses" -> IF x[n] = "text" THEN MessageItem(prev, n - 1) ELSE CallItem(prev, n - 1)

LoopUpTo(g, s, loop, x, m) == g = [n \in 0..m |-> IF n = 0 THEN s ELSE Turn(loop, x, g[n - 1], n)]

LEMMA LoopExists ==
  ASSUME NEW s, NEW loop, NEW x, NEW m \in Nat
  PROVE  \E g : LoopUpTo(g, s, loop, x, m)
<1> USE DEF LoopUpTo
<1> DEFINE Fn(g, k) == LoopUpTo(g, s, loop, x, k)
           T == {k \in Nat : \E g : Fn(g, k)}
<1>1. 0 \in T
  <2> DEFINE g == [n \in 0..0 |-> s]
  <2>1. Fn(g, 0)
    OBVIOUS
  <2> HIDE DEF g, Fn
  <2> QED
    BY <2>1
<1>2. ASSUME NEW k \in T PROVE k + 1 \in T
  <2>1. PICK g : Fn(g, k)
    OBVIOUS
  <2> DEFINE h == [n \in 0..k + 1 |-> IF n = k + 1 THEN Turn(loop, x, g[k], k + 1) ELSE g[n]]
  <2>2. ASSUME NEW n \in 0..k + 1
        PROVE  h[n] = IF n = 0 THEN s ELSE Turn(loop, x, h[n - 1], n)
    <3>1. CASE n = k + 1
      BY <3>1
    <3>2. CASE n # k + 1
      <4>1. n \in 0..k /\ h[n] = g[n] /\ (n # 0 => n - 1 \in 0..k + 1 /\ h[n - 1] = g[n - 1])
        BY <3>2
      <4>2. g[n] = IF n = 0 THEN s ELSE Turn(loop, x, g[n - 1], n)
        BY <2>1, <4>1
      <4> QED
        BY <4>1, <4>2
    <3> QED
      BY <3>1, <3>2
  <2>3. Fn(h, k + 1)
    BY <2>2
  <2> HIDE DEF h, Fn
  <2> QED
    BY <2>3
<1> HIDE DEF T
<1>3. Nat \subseteq T
  <2>1. T \in SUBSET Nat
    BY DEF T
  <2> QED
    BY <2>1, <1>1, <1>2, Induction
<1> QED
  BY <1>3 DEF T

LEMMA LoopTurns ==
  ASSUME NEW g, NEW s, NEW loop, NEW x, NEW m \in Nat, LoopUpTo(g, s, loop, x, m)
  PROVE  g[0] = s /\ \A n \in 1..m : g[n] = Turn(loop, x, g[n - 1], n)
BY DEF LoopUpTo

\* StopBlocks is such a loop, and writes no text.
LEMMA StopBlocksOutput ==
  ASSUME ToAnthropic, NEW s, NEW k, NEW over, NEW t, Output(s, k, over, t), NEW open, NEW next \in Nat
  PROVE  Output(StopBlocks(s, open, next), k, over, t)
<1> DEFINE Eqn(g) == g = [n \in 0..next |-> IF n = 0 THEN s
                                             ELSE IF n - 1 \in open THEN StopBlock(g[n - 1], n - 1)
                                             ELSE g[n - 1]]
           D == CHOOSE g : Eqn(g)
           T == {n \in Nat : n <= next => Output(D[n], k, over, t)}
<1>1. PICK g : LoopUpTo(g, s, "stop", open, next)
  BY LoopExists
<1>2. Eqn(g)
  BY <1>1 DEF LoopUpTo, Turn
<1>3. Eqn(D)
  <2> HIDE DEF Eqn
  <2> QED
    BY <1>2
<1>4. StopBlocks(s, open, next) = D[next]
  BY DEF StopBlocks
<1> HIDE DEF D
<1>5. /\ D[0] = s
      /\ \A n \in 1..next : D[n] = IF n - 1 \in open THEN StopBlock(D[n - 1], n - 1) ELSE D[n - 1]
  BY <1>3
<1> HIDE DEF Eqn
<1>6. 0 \in T
  BY <1>5
<1>7. ASSUME NEW n \in T PROVE n + 1 \in T
  <2> SUFFICES ASSUME n + 1 <= next PROVE Output(D[n + 1], k, over, t)
    OBVIOUS
  <2>1. Output(D[n], k, over, t)
    OBVIOUS
  <2>2. Output(StopBlock(D[n], n), k, over, t)
    BY <2>1, AnthropicWrites DEF StopBlock
  <2>3. D[n + 1] = IF n \in open THEN StopBlock(D[n], n) ELSE D[n]
    <3>1. n + 1 \in 1..next /\ (n + 1) - 1 = n
      OBVIOUS
    <3> QED
      BY <1>5, <3>1
  <2> QED
    BY <2>1, <2>2, <2>3
<1>8. Nat \subseteq T
  <2> HIDE DEF T
  <2>1. T \in SUBSET Nat
    BY DEF T
  <2> QED
    BY <2>1, <1>6, <1>7, Induction
<1> QED
  BY <1>4, <1>8

\* Closing the message, once it is over.
LEMMA CloseAnthropic ==
  ASSUME ToAnthropic, NEW s, NEW k, NEW t, Output(s, k, TRUE, t), NEW reason
  PROVE  Output(WriteEvent(WriteEvent(s, Ev("message_delta", 0, reason)), Ev("message_stop", 0, "")), k, TRUE, t)
<1> DEFINE o == WriteEvent(s, Ev("message_delta", 0, reason))
<1>1. Output(o, k, TRUE, t)
  BY AnthropicWrites
<1> HIDE DEF o
<1>2. Output(WriteEvent(o, Ev("message_stop", 0, "")), k, TRUE, t)
  BY <1>1, AnthropicWrites
<1> QED
  BY <1>2 DEF o

LEMMA ReverseDoneOutput ==
  ASSUME ToAnthropic, path.from = "openai", NEW s, NEW k, NEW t, Output(s, k, TRUE, t)
  PROVE  Output(ReverseDone(s), k, TRUE, t)
<1> DEFINE thinking == IF s.think # None /\ ~s.thinkClosed THEN StopBlock(s, s.think) ELSE s
           text == IF s.text # None THEN StopBlock(thinking, s.text) ELSE thinking
           tools == {text.tools[i] : i \in ToolSlots} \ {None}
           closed == StopBlocks(text, tools, text.next)
           reason == IF s.finish = "tool_calls" THEN "tool_use" ELSE "end_turn"
<1>1. Output(thinking, k, TRUE, t)
  BY AnthropicWrites DEF StopBlock
<1> HIDE DEF thinking
<1>2. Output(text, k, TRUE, t)
  BY <1>1, AnthropicWrites DEF StopBlock
<1> HIDE DEF text
<1>3. text.next \in Nat
  BY <1>2 DEF Output, KeepsNext, ToAnthropic
<1> HIDE DEF tools
<1>4. Output(closed, k, TRUE, t)
  BY <1>2, <1>3, StopBlocksOutput
<1> HIDE DEF closed, reason
<1>5. Output(WriteEvent(WriteEvent(closed, Ev("message_delta", 0, reason)), Ev("message_stop", 0, "")), k, TRUE, t)
  BY <1>4, CloseAnthropic
<1> QED
  BY <1>5 DEF ReverseDone, closed, reason, tools, text, thinking

LEMMA GeminiAnthropicEndOutput ==
  ASSUME ToAnthropic, path.from = "gemini", NEW s, NEW k, NEW t, Output(s, k, TRUE, t)
  PROVE  Output(GeminiAnthropicEnd(s), k, TRUE, t)
<1> DEFINE text == IF s.text # None THEN StopBlock(s, s.text) ELSE s
           tools == {s.tools[i] : i \in ToolSlots} \ {None}
           closed == StopBlocks(text, tools, text.next)
           reason == IF tools # {} /\ s.finish = "end_turn" THEN "tool_use" ELSE s.finish
<1>1. Output(text, k, TRUE, t)
  BY AnthropicWrites DEF StopBlock
<1> HIDE DEF text
<1>2. text.next \in Nat
  BY <1>1 DEF Output, KeepsNext, ToAnthropic
<1> HIDE DEF tools
<1>3. Output(closed, k, TRUE, t)
  BY <1>1, <1>2, StopBlocksOutput
<1> HIDE DEF closed, reason
<1>4. Output(WriteEvent(WriteEvent(closed, Ev("message_delta", 0, reason)), Ev("message_stop", 0, "")), k, TRUE, t)
  BY <1>3, CloseAnthropic
<1> QED
  BY <1>4 DEF GeminiAnthropicEnd, closed, reason, tools, text

------------------------------------------------------------------------------
(* The usage. *)

Counted(t) == {"input", "output", "created", "cached", "reasoning"} \subseteq DOMAIN t

\* The counts after an event with this usage, or none.
Counts(t, t2, usage) ==
  /\ Counted(t2)
  /\ usage = <<>> => t2.output = t.output /\ t2.cached = t.cached
  /\ usage # <<>> => t2.output = usage[1].completion /\ t2.cached = usage[1].cached

LEMMA TokensOutput ==
  ASSUME NEW s, NEW k, NEW over, NEW t, Output(s, k, over, t), NEW t2
  PROVE  Output([s EXCEPT !.tokens = t2], k, over, t2)
<1> DEFINE o == [s EXCEPT !.tokens = t2]
<1>1. DOMAIN o = DOMAIN s /\ o.emit = s.emit /\ o.tokens = t2 /\ (KeepsNext => o.next = s.next)
  BY DEF Output
<1> HIDE DEF o
<1> QED
  BY <1>1 DEF Output, o

LEMMA TakeUsageOutput ==
  ASSUME NEW s, NEW k, NEW over, NEW t, Output(s, k, over, t), Counted(t), NEW usage
  PROVE  \E t2 : Output(TakeUsage(s, usage), k, over, t2) /\ Counts(t, t2, usage)
<1>1. CASE usage = <<>>
  BY <1>1 DEF TakeUsage, Counts
<1>2. CASE usage # <<>>
  <2> DEFINE t2 == [t EXCEPT !.input = usage[1].prompt, !.output = usage[1].completion, !.cached = usage[1].cached]
  <2>1. TakeUsage(s, usage) = [s EXCEPT !.tokens = t2]
    BY <1>2 DEF TakeUsage, Output
  <2>2. Counts(t, t2, usage)
    BY <1>2 DEF Counts, Counted
  <2> HIDE DEF t2
  <2>3. Output([s EXCEPT !.tokens = t2], k, over, t2)
    BY TokensOutput
  <2> QED
    BY <2>1, <2>2, <2>3
<1> QED
  BY <1>1, <1>2

LEMMA ReasoningOutput ==
  ASSUME NEW s, NEW k, NEW over, NEW t, Output(s, k, over, t), Counted(t), NEW r
  PROVE  \E t2 : Output([s EXCEPT !.tokens.reasoning = r], k, over, t2) /\ Counts(t, t2, <<>>)
<1> DEFINE t2 == [t EXCEPT !.reasoning = r]
<1>1. [s EXCEPT !.tokens.reasoning = r] = [s EXCEPT !.tokens = t2]
  BY DEF Output
<1>2. Counts(t, t2, <<>>)
  BY DEF Counts, Counted
<1> HIDE DEF t2
<1>3. Output([s EXCEPT !.tokens = t2], k, over, t2)
  BY TokensOutput
<1> QED
  BY <1>1, <1>2, <1>3

\* The usage of a chunk of Chat Completions.
LEMMA ReverseUsageOutput ==
  ASSUME NEW s, NEW k, NEW over, NEW t, Output(s, k, over, t), Counted(t), NEW c
  PROVE  \E t2 : Output(ReverseUsage(s, c), k, over, t2) /\ Counts(t, t2, c.usage)
<1>1. CASE c.usage = <<>>
  BY <1>1 DEF ReverseUsage, Counts
<1>2. CASE c.usage # <<>>
  <2> DEFINE u == TakeUsage(s, c.usage)
             o == [u EXCEPT !.tokens.reasoning = c.usage[1].reasoning]
  <2>1. PICK t1 : Output(u, k, over, t1) /\ Counts(t, t1, c.usage)
    BY TakeUsageOutput
  <2>2. ReverseUsage(s, c) = o
    BY <1>2 DEF ReverseUsage
  <2> HIDE DEF u
  <2> Counted(t1)
    BY <2>1 DEF Counts
  <2>3. PICK t2 : Output(o, k, over, t2) /\ Counts(t1, t2, <<>>)
    BY <2>1, ReasoningOutput
  <2> HIDE DEF o
  <2>4. Counts(t, t2, c.usage)
    BY <1>2, <2>1, <2>3 DEF Counts
  <2> QED
    BY <2>2, <2>3, <2>4
<1> QED
  BY <1>1, <1>2

LEMMA EstimateReasoningOutput ==
  ASSUME NEW s, NEW k, NEW over, NEW t, Output(s, k, over, t), Counted(t)
  PROVE  \E t2 : Output(EstimateReasoning(s), k, over, t2) /\ Counts(t, t2, <<>>)
<1>1. Counts(t, t, <<>>)
  BY DEF Counts
<1>2. PICK t2 : Output([s EXCEPT !.tokens.reasoning = (s.thought + 3) \div 4], k, over, t2) /\ Counts(t, t2, <<>>)
  BY ReasoningOutput
<1> QED
  BY <1>1, <1>2 DEF EstimateReasoning

------------------------------------------------------------------------------
(* The handlers of the translators to Anthropic. *)

LEMMA ReverseChunkOutput ==
  ASSUME ToAnthropic, NEW s, NEW k, NEW over, NEW t, Output(s, k, over, t), Counted(t), NEW c
  PROVE  \E t2 : /\ Output(ReverseChunk(s, c), k + (IF c.text THEN 1 ELSE 0) + (IF c.refusal THEN 1 ELSE 0), over, t2)
                 /\ Counts(t, t2, c.usage)
<1> DEFINE u == ReverseUsage(s, c)
           m == StartMessage(u)
           f == IF c.finish = "" THEN m ELSE [m EXCEPT !.finish = c.finish]
           th == ThinkingDelta(f, c)
           tx == TextDelta(th, c)
           re == RefusalDelta(tx, c)
           kt == k + (IF c.text THEN 1 ELSE 0)
           kr == kt + (IF c.refusal THEN 1 ELSE 0)
<1>1. ReverseChunk(s, c) = ToolDelta(re, c)
  BY DEF ReverseChunk
<1>2. PICK t2 : Output(u, k, over, t2) /\ Counts(t, t2, c.usage)
  BY ReverseUsageOutput
<1> HIDE DEF u
<1>3. Output(m, k, over, t2)
  BY <1>2, StartMessageOutput
<1> HIDE DEF m
<1>4. Output(f, k, over, t2)
  BY <1>3, FieldOutput
<1> HIDE DEF f
<1>5. Output(th, k, over, t2)
  BY <1>4, ThinkingDeltaOutput
<1> HIDE DEF th
<1>6. Output(tx, kt, over, t2)
  BY <1>5, TextDeltaOutput
<1> HIDE DEF tx, kt
<1>7. Output(re, kr, over, t2)
  BY <1>6, RefusalDeltaOutput
<1> HIDE DEF re, kr
<1>8. Output(ToolDelta(re, c), kr, over, t2)
  BY <1>7, ToolDeltaOutput
<1> QED
  BY <1>1, <1>2, <1>8 DEF kr, kt

LEMMA ItemBlockOutput ==
  ASSUME ToAnthropic, NEW s, NEW k, NEW over, NEW t, Output(s, k, over, t), NEW i, NEW kind
  PROVE  Output(OpenItemBlock(s, i, kind), k, over, t) /\ Output(CloseItemBlock(s, i), k, over, t)
<1>1. Output([s EXCEPT !.open = @ \union {i}], k, over, t)
  BY FieldOutput
<1>2. Output([s EXCEPT !.open = @ \ {i}], k, over, t)
  BY FieldOutput
<1>3. Output(OpenItemBlock(s, i, kind), k, over, t)
  BY <1>1, AnthropicWrites DEF OpenItemBlock
<1>4. Output(CloseItemBlock(s, i), k, over, t)
  BY <1>2, AnthropicWrites DEF CloseItemBlock, StopBlock
<1> QED
  BY <1>3, <1>4

ResponsesTypes ==
  {"response.created", "response.output_item.added", "response.content_part.added", "response.output_text.delta",
   "response.reasoning_summary_part", "response.output_text.done", "response.content_part.done",
   "response.output_item.done", "response.completed", "[DONE]"}

LEMMA ResponsesToAnthropicOutput ==
  ASSUME ToAnthropic, NEW s, NEW k, NEW over, NEW t, Output(s, k, over, t), Counted(t), NEW e,
         e.type \in ResponsesTypes, e.usage # <<>> => e.type = "response.completed",
         e.type \in Terminal => over = TRUE
  PROVE  \E t2 : /\ Output(ResponsesSSEToAnthropicSSE(s, e),
                           k + (IF e.type = "response.output_text.delta" THEN 1 ELSE 0), over, t2)
                 /\ Counts(t, t2, e.usage)
<1> DEFINE o == ResponsesSSEToAnthropicSSE(s, e)
<1>1. k + 0 = k /\ (e.usage = <<>> => Counts(t, t, e.usage))
  BY DEF Output, Counts
<1>2. CASE e.type = "response.created"
  BY <1>1, <1>2, StartMessageOutput DEF ResponsesSSEToAnthropicSSE, FromResponsesCreated
<1>3. CASE e.type = "response.output_item.added"
  BY <1>1, <1>3, ItemBlockOutput DEF ResponsesSSEToAnthropicSSE, FromResponsesItemAdded
<1>4. CASE e.type = "response.content_part.added"
  BY <1>1, <1>4, ItemBlockOutput DEF ResponsesSSEToAnthropicSSE
<1>5. CASE e.type = "response.output_text.delta"
  <2> DEFINE b == OpenItemBlock(s, e.index, "text")
  <2>1. Output(b, k, over, t)
    BY ItemBlockOutput
  <2> HIDE DEF b
  <2>2. Output(BlockDelta(b, e.index, "text"), k + 1, over, t)
    BY <2>1, AnthropicWrites DEF BlockDelta
  <2> QED
    BY <1>1, <1>5, <2>2 DEF ResponsesSSEToAnthropicSSE, FromResponsesText, b
<1>6. CASE e.type = "response.reasoning_summary_part"
  <2> DEFINE b == OpenItemBlock(s, e.index, "thinking")
  <2>1. Output(b, k, over, t)
    BY ItemBlockOutput
  <2> HIDE DEF b
  <2>2. Output(BlockDelta(b, e.index, "thinking"), k, over, t)
    BY <2>1, AnthropicWrites DEF BlockDelta
  <2> QED
    BY <1>1, <1>6, <2>1, <2>2 DEF ResponsesSSEToAnthropicSSE, FromResponsesSummary, b
<1>7. CASE e.type \in {"response.output_text.done", "response.content_part.done"}
  BY <1>1, <1>7, ItemBlockOutput DEF ResponsesSSEToAnthropicSSE
<1>8. CASE e.type = "response.output_item.done"
  BY <1>1, <1>8, ItemBlockOutput DEF ResponsesSSEToAnthropicSSE, FromResponsesItemDone
<1>9. CASE e.type = "response.completed"
  <2> DEFINE u == TakeUsage(s, e.usage)
  <2>1. PICK t2 : Output(u, k, over, t2) /\ Counts(t, t2, e.usage)
    BY TakeUsageOutput
  <2> HIDE DEF u
  <2>2. over = TRUE
    BY <1>9 DEF Terminal
  <2>3. Output(WriteEvent(WriteEvent(u, Ev("message_delta", 0, "end_turn")), Ev("message_stop", 0, "")), k, over, t2)
    BY <2>1, <2>2, CloseAnthropic
  <2>4. o = WriteEvent(WriteEvent(u, Ev("message_delta", 0, "end_turn")), Ev("message_stop", 0, ""))
    BY <1>9 DEF ResponsesSSEToAnthropicSSE, FromResponsesCompleted, u
  <2> HIDE DEF o
  <2>5. Output(o, k, over, t2)
    BY <2>3, <2>4
  <2> QED
    BY <1>1, <1>9, <2>1, <2>5 DEF o
<1>10. CASE e.type = "[DONE]"
  BY <1>1, <1>10 DEF ResponsesSSEToAnthropicSSE
<1> QED
  BY <1>2, <1>3, <1>4, <1>5, <1>6, <1>7, <1>8, <1>9, <1>10 DEF ResponsesTypes

LEMMA GeminiAnthropicChunkOutput ==
  ASSUME ToAnthropic, NEW s, NEW k, NEW over, NEW t, Output(s, k, over, t), NEW c \in GeminiChunks
  PROVE  \E t2 : Output(GeminiAnthropicChunk(s, c), k + (IF c.part = "text" THEN 1 ELSE 0), over, t2)
<1> DEFINE u == IF c.usage = <<>> THEN s ELSE [s EXCEPT !.tokens = UsageTotals(c.usage[1])]
           m == StartMessage(u)
           f == GeminiFinish(m, c)
<1>1. PICK t2 : Output(u, k, over, t2)
  BY TokensOutput
<1> HIDE DEF u
<1>2. Output(m, k, over, t2)
  BY <1>1, StartMessageOutput
<1> HIDE DEF m
<1>3. c.part \in {"none", "text", "call"} /\ c.finish \in {"", "STOP", "MAX_TOKENS"}
  BY DEF GeminiChunks
<1>4. Output(f, k, over, t2)
  <2>1. c.finish = "" => f = m
    BY DEF GeminiFinish
  <2>2. c.finish = "MAX_TOKENS" => f = [m EXCEPT !.finish = "max_tokens"]
    BY DEF GeminiFinish
  <2>3. c.finish = "STOP" => \E v : f = [m EXCEPT !.finish = v]
    BY DEF GeminiFinish
  <2>4. \A v : Output([m EXCEPT !.finish = v], k, over, t2)
    BY <1>2, FieldOutput
  <2> HIDE DEF f
  <2> QED
    BY <1>2, <1>3, <2>1, <2>2, <2>3, <2>4
<1> HIDE DEF f
<1>5. k + 0 = k
  BY DEF Output
<1>6. CASE c.part = "none"
  BY <1>4, <1>5, <1>6 DEF GeminiAnthropicChunk, f, m, u
<1>7. CASE c.part = "text"
  <2>1. Output(TextBlock(f), k + 1, over, t2)
    BY <1>4, TextBlockOutput
  <2> QED
    BY <1>7, <2>1 DEF GeminiAnthropicChunk, f, m, u
<1>8. CASE c.part = "call"
  <2>1. Output(ToolDelta(f, [tool |-> c.name, args |-> TRUE]), k, over, t2)
    BY <1>4, ToolDeltaOutput
  <2> QED
    BY <1>5, <1>8, <2>1 DEF GeminiAnthropicChunk, f, m, u
<1> QED
  BY <1>3, <1>6, <1>7, <1>8

------------------------------------------------------------------------------
(* Translators to Chat Completions. *)

ToOpenAI == Ready /\ path.to = "openai"

LEMMA OpenAIWrites ==
  ASSUME ToOpenAI, NEW s, NEW k, NEW over, NEW t, Output(s, k, over, t), NEW i
  PROVE  /\ Output(writeSSEChunk(s, "role"), k, over, t)
         /\ Output(writeSSEChunk(s, "reasoning"), k, over, t)
         /\ Output(writeSSEChunk(s, "text"), k + 1, over, t)
         /\ Output(writeToolCallStartChunk(s, i), k, over, t)
         /\ Output(writeToolCallDeltaChunk(s, i), k, over, t)
         /\ Output(buildChunk(s, i), k, over, t)
         /\ over => Output(WriteEvent(s, Done), k, over, t)
<1> USE DEF ToOpenAI, Vocabulary, Terminal, TextEvent
<1>1. Output(writeSSEChunk(s, "role"), k, over, t) /\ Output(writeSSEChunk(s, "reasoning"), k, over, t)
  BY WriteOther DEF writeSSEChunk
<1>2. Output(writeSSEChunk(s, "text"), k + 1, over, t)
  BY WriteText DEF writeSSEChunk
<1>3. Output(writeToolCallStartChunk(s, i), k, over, t) /\ Output(writeToolCallDeltaChunk(s, i), k, over, t)
  BY WriteOther DEF writeToolCallStartChunk, writeToolCallDeltaChunk
<1>4. Output(buildChunk(s, i), k, over, t)
  BY WriteOther DEF buildChunk
<1>5. over => Output(WriteEvent(s, Done), k, over, t)
  BY WriteOther DEF Done
<1> QED
  BY <1>1, <1>2, <1>3, <1>4, <1>5

AnthropicTypes ==
  {"message_start", "content_block_start", "content_block_delta", "content_block_stop", "message_delta", "message_stop"}
BlockKinds == {"thinking", "text", "tool_use"}

\* The finish reason and [DONE], once the answer is over.
LEMMA CloseOpenAI ==
  ASSUME ToOpenAI, NEW s, NEW k, NEW t, Output(s, k, TRUE, t), NEW reason
  PROVE  Output(WriteEvent(buildChunk(s, reason), Done), k, TRUE, t)
<1> DEFINE o == buildChunk(s, reason)
<1>1. Output(o, k, TRUE, t)
  BY OpenAIWrites
<1> HIDE DEF o
<1>2. Output(WriteEvent(o, Done), k, TRUE, t)
  BY <1>1, OpenAIWrites
<1> QED
  BY <1>2 DEF o

LEMMA StartUsageOutput ==
  ASSUME NEW s, NEW k, NEW over, NEW t, Output(s, k, over, t), NEW usage
  PROVE  \E t2 : Output(StartUsage(s, usage), k, over, t2)
<1> DEFINE t2 == [t EXCEPT !.input = usage[1].input, !.created = usage[1].created, !.cached = usage[1].cached]
<1>1. usage # <<>> => StartUsage(s, usage) = [s EXCEPT !.tokens = t2]
  BY DEF StartUsage, Output
<1> HIDE DEF t2
<1>2. Output([s EXCEPT !.tokens = t2], k, over, t2)
  BY TokensOutput
<1> QED
  BY <1>1, <1>2 DEF StartUsage

LEMMA OutputUsageOutput ==
  ASSUME NEW s, NEW k, NEW over, NEW t, Output(s, k, over, t), NEW n
  PROVE  \E t2 : Output([s EXCEPT !.tokens.output = n], k, over, t2)
<1> DEFINE t2 == [t EXCEPT !.output = n]
<1>1. [s EXCEPT !.tokens.output = n] = [s EXCEPT !.tokens = t2]
  BY DEF Output
<1> HIDE DEF t2
<1>2. Output([s EXCEPT !.tokens = t2], k, over, t2)
  BY TokensOutput
<1> QED
  BY <1>1, <1>2

\* A text delta is passed on unless its block is taken for one of thinking.
LEMMA AnthropicToOpenAIOutput ==
  ASSUME ToOpenAI, NEW s, NEW k, NEW over, NEW t, Output(s, k, over, t), NEW e,
         e.type \in AnthropicTypes, e.type = "message_stop" => over = TRUE,
         e.type \in {"content_block_start", "content_block_delta"} => e.kind \in BlockKinds,
         e.type = "content_block_delta" => (e.index \in s.thinking <=> e.kind = "thinking")
  PROVE  \E t2 : Output(OpenAIStream(s, e),
                        k + (IF e.type = "content_block_delta" /\ e.kind = "text" THEN 1 ELSE 0), over, t2)
<1>1. k + 0 = k
  BY DEF Output
<1>2. CASE e.type = "message_start"
  <2> DEFINE u == StartUsage(s, e.usage)
  <2>1. PICK t2 : Output(u, k, over, t2)
    BY StartUsageOutput
  <2> HIDE DEF u
  <2>2. Output([u EXCEPT !.started = TRUE], k, over, t2)
    BY <2>1, FieldOutput
  <2>3. Output(writeSSEChunk([u EXCEPT !.started = TRUE], "role"), k, over, t2)
    BY <2>2, OpenAIWrites
  <2>4. OpenAIStream(s, e) = IF u.started THEN u ELSE writeSSEChunk([u EXCEPT !.started = TRUE], "role")
    BY <1>2 DEF OpenAIStream, OpenAIMessageStart, u
  <2> QED
    BY <1>1, <1>2, <2>1, <2>3, <2>4
<1>3. CASE e.type = "content_block_start"
  <2>1. OpenAIStream(s, e) = OpenAIBlockStart(s, e)
    BY <1>3 DEF OpenAIStream
  <2>2. Output([s EXCEPT !.thinking = @ \union {e.index}], k, over, t) /\ Output([s EXCEPT !.textSeen = TRUE], k, over, t)
        /\ Output([s EXCEPT !.calls = Append(@, e.index)], k, over, t)
    BY FieldOutput
  <2>3. Output(OpenAIBlockStart(s, e), k, over, t)
    BY <1>3, <2>2, OpenAIWrites DEF OpenAIBlockStart, BlockKinds
  <2> QED
    BY <1>1, <1>3, <2>1, <2>3
<1>4. CASE e.type = "content_block_delta"
  <2>1. OpenAIStream(s, e) = OpenAIBlockDelta(s, e)
    BY <1>4 DEF OpenAIStream
  <2>2. CASE e.kind = "thinking"
    <3>1. OpenAIBlockDelta(s, e) \in {s, writeSSEChunk(s, "reasoning")}
      BY <1>4, <2>2 DEF OpenAIBlockDelta
    <3> QED
      BY <1>1, <2>1, <2>2, <3>1, OpenAIWrites
  <2>3. CASE e.kind = "text"
    <3>1. OpenAIBlockDelta(s, e) = writeSSEChunk(s, "text")
      BY <1>4, <2>3 DEF OpenAIBlockDelta
    <3> QED
      BY <1>4, <2>1, <2>3, <3>1, OpenAIWrites
  <2>4. CASE e.kind = "tool_use"
    <3> DEFINE n == CHOOSE n \in DOMAIN s.calls : s.calls[n] = e.index
    <3>1. OpenAIBlockDelta(s, e) \in {s, writeToolCallDeltaChunk(s, n - 1)}
      BY <1>4, <2>4 DEF OpenAIBlockDelta
    <3> HIDE DEF n
    <3> QED
      BY <1>1, <2>1, <2>4, <3>1, OpenAIWrites
  <2> QED
    BY <1>4, <2>2, <2>3, <2>4 DEF BlockKinds
<1>5. CASE e.type = "content_block_stop"
  BY <1>1, <1>5 DEF OpenAIStream
<1>6. CASE e.type = "message_delta"
  <2> DEFINE u == IF e.usage = <<>> THEN s ELSE [s EXCEPT !.tokens.output = e.usage[1].output]
  <2>1. PICK t2 : Output(u, k, over, t2)
    BY OutputUsageOutput
  <2> HIDE DEF u
  <2>2. Output(buildChunk(u, e.kind), k, over, t2)
    BY <2>1, OpenAIWrites
  <2>3. OpenAIStream(s, e) = buildChunk(u, e.kind)
    BY <1>6 DEF OpenAIStream, OpenAIMessageDelta, u
  <2> QED
    BY <1>1, <1>6, <2>2, <2>3
<1>7. CASE e.type = "message_stop"
  <2>1. OpenAIStream(s, e) = WriteEvent(s, Done)
    BY <1>7 DEF OpenAIStream
  <2> QED
    BY <1>1, <1>7, <2>1, OpenAIWrites
<1> QED
  BY <1>2, <1>3, <1>4, <1>5, <1>6, <1>7 DEF AnthropicTypes

\* The blocks the translator takes for thinking are those announced so.
LEMMA ThinkingBlocks ==
  ASSUME NEW s, "thinking" \in DOMAIN s, NEW e, e.type \in AnthropicTypes,
         e.type = "content_block_start" => e.kind \in BlockKinds,
         e.type = "content_block_delta" => e.kind \in BlockKinds,
         e.type = "content_block_delta" => (e.index \in s.thinking <=> e.kind = "thinking")
  PROVE  /\ "thinking" \in DOMAIN OpenAIStream(s, e)
         /\ OpenAIStream(s, e).thinking = IF e.type = "content_block_start" /\ e.kind = "thinking"
                                          THEN s.thinking \union {e.index} ELSE s.thinking
<1> USE DEF AnthropicTypes, BlockKinds, OpenAIStream, WriteEvent, writeSSEChunk
<1>1. CASE e.type = "message_start"
  BY <1>1 DEF OpenAIMessageStart, StartUsage
<1>2. CASE e.type = "content_block_start"
  BY <1>2 DEF OpenAIBlockStart, writeToolCallStartChunk
<1>3. CASE e.type = "content_block_delta"
  <2>1. CASE e.kind \in {"thinking", "text"}
    BY <1>3, <2>1 DEF OpenAIBlockDelta
  <2>2. CASE e.kind = "tool_use"
    <3> DEFINE n == CHOOSE n \in DOMAIN s.calls : s.calls[n] = e.index
    <3>1. OpenAIBlockDelta(s, e) \in {s, writeToolCallDeltaChunk(s, n - 1)}
      BY <1>3, <2>2 DEF OpenAIBlockDelta
    <3> HIDE DEF n
    <3> QED
      BY <1>3, <2>2, <3>1 DEF writeToolCallDeltaChunk
  <2> QED
    BY <1>3, <2>1, <2>2
<1>4. CASE e.type = "content_block_stop"
  BY <1>4
<1>5. CASE e.type = "message_delta"
  BY <1>5 DEF OpenAIMessageDelta, buildChunk
<1>6. CASE e.type = "message_stop"
  BY <1>6
<1> QED
  BY <1>1, <1>2, <1>3, <1>4, <1>5, <1>6

LEMMA ResponsesToOpenAIOutput ==
  ASSUME ToOpenAI, NEW s, NEW k, NEW over, NEW t, Output(s, k, over, t), Counted(t), NEW e,
         e.type \in ResponsesTypes, e.usage # <<>> => e.type = "response.completed",
         e.type \in Terminal => over = TRUE
  PROVE  \E t2 : /\ Output(ResponsesSSEToOpenAISSE(s, e),
                           k + (IF e.type = "response.output_text.delta" THEN 1 ELSE 0), over, t2)
                 /\ Counts(t, t2, e.usage)
<1>1. k + 0 = k /\ (e.usage = <<>> => Counts(t, t, e.usage))
  BY DEF Output, Counts
<1>2. CASE e.type = "response.created"
  <2>1. Output([s EXCEPT !.started = TRUE], k, over, t)
    BY FieldOutput
  <2>2. Output(ResponsesSSEToOpenAISSE(s, e), k, over, t)
    BY <1>2, <2>1, OpenAIWrites DEF ResponsesSSEToOpenAISSE
  <2> QED
    BY <1>1, <1>2, <2>2
<1>3. CASE e.type = "response.output_text.delta"
  BY <1>1, <1>3, OpenAIWrites DEF ResponsesSSEToOpenAISSE
<1>4. CASE e.type = "response.completed"
  <2> DEFINE u == TakeUsage(s, e.usage)
  <2>1. PICK t2 : Output(u, k, over, t2) /\ Counts(t, t2, e.usage)
    BY TakeUsageOutput
  <2> HIDE DEF u
  <2>2. over = TRUE
    BY <1>4 DEF Terminal
  <2>3. Output(WriteEvent(buildChunk(u, "stop"), Done), k, over, t2)
    BY <2>1, <2>2, CloseOpenAI
  <2>4. ResponsesSSEToOpenAISSE(s, e) = WriteEvent(buildChunk(u, "stop"), Done)
    BY <1>4 DEF ResponsesSSEToOpenAISSE, u
  <2> QED
    BY <1>1, <1>4, <2>1, <2>3, <2>4
<1>5. CASE e.type = "[DONE]"
  <2>1. over = TRUE
    BY <1>5 DEF Terminal
  <2>2. Output(WriteEvent(s, Done), k, over, t)
    BY <2>1, OpenAIWrites
  <2> QED
    BY <1>1, <1>5, <2>2 DEF ResponsesSSEToOpenAISSE
<1>6. CASE e.type \notin {"response.created", "response.output_text.delta", "response.completed", "[DONE]"}
  BY <1>1, <1>6 DEF ResponsesSSEToOpenAISSE
<1> QED
  BY <1>2, <1>3, <1>4, <1>5, <1>6

LEMMA GeminiOpenAIChunkOutput ==
  ASSUME ToOpenAI, NEW s, NEW k, NEW over, NEW t, Output(s, k, over, t), NEW c \in GeminiChunks
  PROVE  \E t2 : Output(GeminiOpenAIChunk(s, c), k + (IF c.part = "text" THEN 1 ELSE 0), over, t2)
<1> DEFINE u == IF c.usage = <<>> THEN s ELSE [s EXCEPT !.tokens = UsageTotals(c.usage[1])]
           m == IF u.started THEN u ELSE writeSSEChunk([u EXCEPT !.started = TRUE], "role")
           f == GeminiOpenAIFinish(m, c)
<1>0. ~KeepsNext
  BY DEF KeepsNext, ToOpenAI
<1>1. PICK t2 : Output(u, k, over, t2)
  BY TokensOutput
<1> HIDE DEF u
<1>2. Output(m, k, over, t2)
  <2>1. Output([u EXCEPT !.started = TRUE], k, over, t2)
    BY <1>1, FieldOutput
  <2> QED
    BY <1>1, <2>1, OpenAIWrites
<1> HIDE DEF m
<1>3. c.part \in {"none", "text", "call"} /\ c.finish \in {"", "STOP", "MAX_TOKENS"}
  BY DEF GeminiChunks
<1>4. Output(f, k, over, t2)
  <2>1. c.finish = "" => f = m
    BY DEF GeminiOpenAIFinish
  <2>2. c.finish = "MAX_TOKENS" => f = [m EXCEPT !.finish = "length"]
    BY DEF GeminiOpenAIFinish
  <2>3. c.finish = "STOP" => \E v : f = [m EXCEPT !.finish = v]
    BY DEF GeminiOpenAIFinish
  <2>4. \A v : Output([m EXCEPT !.finish = v], k, over, t2)
    BY <1>2, FieldOutput
  <2> HIDE DEF f
  <2> QED
    BY <1>2, <1>3, <2>1, <2>2, <2>3, <2>4
<1> HIDE DEF f
<1>5. k + 0 = k
  BY DEF Output
<1>6. CASE c.part = "none"
  BY <1>4, <1>5, <1>6 DEF GeminiOpenAIChunk, f, m, u
<1>7. CASE c.part = "text"
  <2>1. Output(writeSSEChunk(f, "text"), k + 1, over, t2)
    BY <1>4, OpenAIWrites
  <2> QED
    BY <1>7, <2>1 DEF GeminiOpenAIChunk, f, m, u
<1>8. CASE c.part = "call"
  <2> DEFINE o == IF f.tools[c.name] = None
                  THEN [f EXCEPT !.tools[c.name] = f.next, !.next = @ + 1] ELSE f
  <2>1. DOMAIN o = DOMAIN f /\ o.emit = f.emit /\ o.tokens = f.tokens
    BY <1>4 DEF Output
  <2> HIDE DEF o
  <2>2. f.tokens = t2
    BY <1>4 DEF Output
  <2>3. Output(o, k, over, t2)
    BY <1>0, <1>4, <2>1, <2>2, SameOutput
  <2>4. Output(writeToolCallStartChunk(o, o.tools[c.name]), k, over, t2)
    BY <2>3, OpenAIWrites
  <2>5. GeminiOpenAIChunk(s, c) = GeminiOpenAICall(f, c)
    BY <1>8 DEF GeminiOpenAIChunk, f, m, u
  <2> QED
    BY <1>5, <1>8, <2>4, <2>5 DEF GeminiOpenAICall, o
<1> QED
  BY <1>3, <1>6, <1>7, <1>8

LEMMA GeminiOpenAIEndOutput ==
  ASSUME ToOpenAI, NEW s, NEW k, NEW t, Output(s, k, TRUE, t)
  PROVE  Output(GeminiOpenAIEnd(s), k, TRUE, t)
<1> DEFINE called == \E i \in ToolSlots : s.tools[i] # None
           reason == IF called /\ s.finish = "stop" THEN "tool_calls" ELSE s.finish
<1>1. GeminiOpenAIEnd(s) = IF ~s.started THEN s ELSE WriteEvent(buildChunk(s, reason), Done)
  BY DEF GeminiOpenAIEnd
<1> HIDE DEF reason
<1> QED
  BY <1>1, CloseOpenAI

------------------------------------------------------------------------------
(* Translators to the Responses API. *)

ToResponses == Ready /\ path.to = "responses"

LEMMA ResponsesWrites ==
  ASSUME ToResponses, NEW s, NEW k, NEW over, NEW t, Output(s, k, over, t), NEW i, NEW kind
  PROVE  /\ \A type \in {"response.created", "response.output_item.added", "response.reasoning_summary_part",
                         "response.output_item.done", "response.content_part.added",
                         "response.output_text.done", "response.content_part.done"} :
              Output(WriteEvent(s, Ev(type, i, kind)), k, over, t)
         /\ Output(WriteEvent(s, Ev("response.output_text.delta", i, kind)), k + 1, over, t)
         /\ over => Output(WriteEvent(s, Ev("response.completed", i, kind)), k, over, t)
         /\ over => Output(WriteEvent(s, Done), k, over, t)
<1> USE DEF ToResponses, Vocabulary, Terminal, TextEvent
<1>1. ASSUME NEW type \in {"response.created", "response.output_item.added", "response.reasoning_summary_part",
                           "response.output_item.done", "response.content_part.added",
                           "response.output_text.done", "response.content_part.done"}
      PROVE  Output(WriteEvent(s, Ev(type, i, kind)), k, over, t)
  BY WriteOther
<1>2. Output(WriteEvent(s, Ev("response.output_text.delta", i, kind)), k + 1, over, t)
  BY WriteText
<1>3. over => Output(WriteEvent(s, Ev("response.completed", i, kind)), k, over, t)
  BY WriteOther
<1>4. over => Output(WriteEvent(s, Done), k, over, t)
  BY WriteOther DEF Done
<1> QED
  BY <1>1, <1>2, <1>3, <1>4

LEMMA SendCreatedOutput ==
  ASSUME ToResponses, NEW s, NEW k, NEW over, NEW t, Output(s, k, over, t)
  PROVE  Output(SendCreated(s), k, over, t)
<1>1. Output([s EXCEPT !.created = TRUE], k, over, t)
  BY FieldOutput
<1> QED
  BY <1>1, ResponsesWrites DEF SendCreated

LEMMA AddReasoningOutput ==
  ASSUME ToResponses, NEW s, NEW k, NEW over, NEW t, Output(s, k, over, t)
  PROVE  Output(AddReasoning(s), k, over, t)
<1>1. Output([s EXCEPT !.inThinking = TRUE], k, over, t)
  BY FieldOutput
<1> QED
  BY <1>1, ResponsesWrites DEF AddReasoning

LEMMA CloseReasoningOutput ==
  ASSUME ToResponses, NEW s, NEW k, NEW over, NEW t, Output(s, k, over, t)
  PROVE  Output(CloseReasoning(s), k, over, t)
<1> DEFINE p == WriteEvent(s, Ev("response.reasoning_summary_part", s.index, "text"))
           o == WriteEvent(p, Ev("response.output_item.done", s.index, "reasoning"))
           r == [o EXCEPT !.reasoned = Append(@, s.index)]
           q == [r EXCEPT !.index = @ + 1]
<1>1. Output(p, k, over, t)
  BY ResponsesWrites
<1> HIDE DEF p
<1>2. Output(o, k, over, t)
  BY <1>1, ResponsesWrites
<1> HIDE DEF o
<1>3. Output(r, k, over, t)
  BY <1>2, FieldOutput
<1> HIDE DEF r
<1>4. Output(q, k, over, t)
  BY <1>3, FieldOutput
<1>5. CloseReasoning(s) = [o EXCEPT !.reasoned = Append(@, s.index), !.index = @ + 1]
  BY DEF CloseReasoning, o, p
<1>6. [o EXCEPT !.reasoned = Append(@, s.index), !.index = @ + 1] = q
  BY DEF r
<1> QED
  BY <1>4, <1>5, <1>6

LEMMA AddMessageOutput ==
  ASSUME ToResponses, NEW s, NEW k, NEW over, NEW t, Output(s, k, over, t)
  PROVE  Output(AddMessage(s), k, over, t)
<1> DEFINE a == [s EXCEPT !.item = TRUE]
           o == IF s.item THEN s ELSE WriteEvent(a, Ev("response.output_item.added", s.index, "message"))
           p == [o EXCEPT !.part = TRUE]
<1>1. Output(a, k, over, t)
  BY FieldOutput
<1> HIDE DEF a
<1>2. Output(o, k, over, t)
  BY <1>1, ResponsesWrites
<1> HIDE DEF o
<1>3. Output(p, k, over, t)
  BY <1>2, FieldOutput
<1> HIDE DEF p
<1>4. Output(WriteEvent(p, Ev("response.content_part.added", o.index, "")), k, over, t)
  BY <1>3, ResponsesWrites
<1> QED
  BY <1>2, <1>4 DEF AddMessage, a, o, p

LEMMA CloseTextOutput ==
  ASSUME ToResponses, NEW s, NEW k, NEW over, NEW t, Output(s, k, over, t)
  PROVE  Output(CloseText(s), k, over, t) /\ Output(CloseMessage(s), k, over, t)
<1> DEFINE o == WriteEvent(s, Ev("response.output_text.done", s.index, ""))
<1>1. Output(o, k, over, t)
  BY ResponsesWrites
<1> HIDE DEF o
<1>2. Output(WriteEvent(o, Ev("response.content_part.done", s.index, "")), k, over, t)
  BY <1>1, ResponsesWrites
<1>3. Output(CloseMessage(s), k, over, t)
  BY ResponsesWrites DEF CloseMessage
<1> QED
  BY <1>2, <1>3 DEF CloseText, o

LEMMA CompleteOutput ==
  ASSUME ToResponses, NEW s, NEW k, NEW t, Output(s, k, TRUE, t)
  PROVE  Output(Complete(s), k, TRUE, t)
<1> DEFINE n == Len(s.reasoned) + 1
           o == WriteEvent(s, Ev("response.completed", n, ""))
<1>1. Output(o, k, TRUE, t)
  BY ResponsesWrites
<1> HIDE DEF o
<1>2. Output(WriteEvent(o, Done), k, TRUE, t)
  BY <1>1, ResponsesWrites
<1> QED
  BY <1>2 DEF Complete, o

LEMMA AnthropicToResponsesOutput ==
  ASSUME ToResponses, NEW s, NEW k, NEW over, NEW t, Output(s, k, over, t), NEW e,
         e.type \in AnthropicTypes, e.type = "message_stop" => over = TRUE
  PROVE  \E t2 : Output(AnthropicSSEToResponsesSSE(s, e),
                        k + (IF e.type = "content_block_delta" /\ e.kind = "text" THEN 1 ELSE 0), over, t2)
<1>1. k + 0 = k
  BY DEF Output
<1>2. CASE e.type = "message_start"
  <2> DEFINE u == StartUsage(s, e.usage)
  <2>1. PICK t2 : Output(u, k, over, t2)
    BY StartUsageOutput
  <2>2. AnthropicSSEToResponsesSSE(s, e) = SendCreated(u)
    BY <1>2 DEF AnthropicSSEToResponsesSSE, ResponsesMessageStart, StartUsage
  <2> HIDE DEF u
  <2>3. Output(SendCreated(u), k, over, t2)
    BY <2>1, SendCreatedOutput
  <2> QED
    BY <1>1, <1>2, <2>2, <2>3
<1>3. CASE e.type = "content_block_start"
  <2> DEFINE v == [s EXCEPT !.inThinking = FALSE]
             x == [v EXCEPT !.textSeen = TRUE]
  <2>1. AnthropicSSEToResponsesSSE(s, e) = ResponsesBlockStart(s, e)
    BY <1>3 DEF AnthropicSSEToResponsesSSE
  <2>2. ResponsesBlockStart(s, e) \in {v, AddReasoning(s), AddMessage(x)}
    <3>1. [s EXCEPT !.inThinking = FALSE, !.textSeen = TRUE] = x
      OBVIOUS
    <3> QED
      BY <3>1 DEF ResponsesBlockStart
  <2>3. Output(v, k, over, t)
    BY FieldOutput
  <2> HIDE DEF v
  <2>4. Output(x, k, over, t)
    BY <2>3, FieldOutput
  <2> HIDE DEF x
  <2> QED
    BY <1>1, <1>3, <2>1, <2>2, <2>3, <2>4, AddReasoningOutput, AddMessageOutput
<1>4. CASE e.type = "content_block_delta"
  <2>1. AnthropicSSEToResponsesSSE(s, e) = IF e.kind = "text" THEN ResponsesText(s) ELSE s
    BY <1>4 DEF AnthropicSSEToResponsesSSE, ResponsesBlockDelta
  <2>2. Output(ResponsesText(s), k + 1, over, t)
    BY ResponsesWrites DEF ResponsesText
  <2> QED
    BY <1>1, <1>4, <2>1, <2>2
<1>5. CASE e.type = "content_block_stop"
  <2> DEFINE v == CloseReasoning(s)
  <2>1. AnthropicSSEToResponsesSSE(s, e) \in {[v EXCEPT !.inThinking = FALSE], CloseText(s)}
    BY <1>5 DEF AnthropicSSEToResponsesSSE, ResponsesBlockStop
  <2>2. Output(v, k, over, t)
    BY CloseReasoningOutput
  <2> HIDE DEF v
  <2>3. Output([v EXCEPT !.inThinking = FALSE], k, over, t)
    BY <2>2, FieldOutput
  <2> QED
    BY <1>1, <1>5, <2>1, <2>3, CloseTextOutput
<1>6. CASE e.type = "message_delta"
  <2> DEFINE u == IF e.usage = <<>> THEN s ELSE [s EXCEPT !.tokens.output = e.usage[1].output]
  <2>1. PICK t2 : Output(u, k, over, t2)
    BY OutputUsageOutput
  <2> HIDE DEF u
  <2>2. Output(CloseMessage(u), k, over, t2)
    BY <2>1, CloseTextOutput
  <2>3. AnthropicSSEToResponsesSSE(s, e) = CloseMessage(u)
    BY <1>6 DEF AnthropicSSEToResponsesSSE, u
  <2> QED
    BY <1>1, <1>6, <2>2, <2>3
<1>7. CASE e.type = "message_stop"
  <2>1. AnthropicSSEToResponsesSSE(s, e) = Complete(s)
    BY <1>7 DEF AnthropicSSEToResponsesSSE
  <2> QED
    BY <1>1, <1>7, <2>1, CompleteOutput
<1> QED
  BY <1>2, <1>3, <1>4, <1>5, <1>6, <1>7 DEF AnthropicTypes

LEMMA EndReasoningOutput ==
  ASSUME ToResponses, NEW s, NEW k, NEW over, NEW t, Output(s, k, over, t)
  PROVE  Output(EndReasoning(s), k, over, t)
<1> DEFINE v == CloseReasoning(s)
<1>1. Output(v, k, over, t)
  BY CloseReasoningOutput
<1> HIDE DEF v
<1>2. Output([v EXCEPT !.thinkClosed = TRUE], k, over, t)
  BY <1>1, FieldOutput
<1> QED
  BY <1>2 DEF EndReasoning, v

LEMMA OpenAIToResponsesOutput ==
  ASSUME ToResponses, NEW s, NEW k, NEW over, NEW t, Output(s, k, over, t), Counted(t), NEW c
  PROVE  \E t2 : /\ Output(OpenAIResponsesChunk(s, c), k + (IF c.text THEN 1 ELSE 0), over, t2)
                 /\ Counts(t, t2, c.usage)
<1> DEFINE u == ReverseUsage(s, c)
           m == SendCreated(u)
           a == IF m.inThinking THEN m ELSE AddReasoning(m)
           th == OpenAIResponsesThinking(m, c)
           en == EndReasoning(th)
           ad == AddMessage(en)
<1>1. OpenAIResponsesChunk(s, c) = OpenAIResponsesText(th, c)
  BY DEF OpenAIResponsesChunk, ReverseUsage
<1>2. PICK t2 : Output(u, k, over, t2) /\ Counts(t, t2, c.usage)
  BY ReverseUsageOutput
<1> HIDE DEF u
<1>3. Output(m, k, over, t2)
  BY <1>2, SendCreatedOutput
<1> HIDE DEF m
<1>4. Output(th, k, over, t2)
  <2>1. Output(a, k, over, t2)
    BY <1>3, AddReasoningOutput
  <2> HIDE DEF a
  <2>2. Output([a EXCEPT !.thought = @ + 1], k, over, t2)
    BY <2>1, FieldOutput
  <2> QED
    BY <1>3, <2>2 DEF OpenAIResponsesThinking, a
<1> HIDE DEF th
<1>5. Output(en, k, over, t2)
  BY <1>4, EndReasoningOutput
<1> HIDE DEF en
<1>6. Output(ad, k, over, t2)
  BY <1>5, AddMessageOutput
<1> HIDE DEF ad
<1>7. Output(ResponsesText(ad), k + 1, over, t2)
  BY <1>6, ResponsesWrites DEF ResponsesText
<1>8. k + 0 = k
  BY DEF Output
<1>9. OpenAIResponsesText(th, c) = IF c.text THEN ResponsesText(ad) ELSE th
  BY DEF OpenAIResponsesText, ad, en
<1> QED
  BY <1>1, <1>2, <1>4, <1>7, <1>8, <1>9

LEMMA OpenAIResponsesDoneOutput ==
  ASSUME ToResponses, NEW s, NEW k, NEW t, Output(s, k, TRUE, t)
  PROVE  Output(OpenAIResponsesDone(s), k, TRUE, t)
<1> DEFINE en == EndReasoning(s)
           tx == CloseText(en)
           o == IF tx.item THEN CloseMessage(tx) ELSE tx
<1>1. Output(en, k, TRUE, t)
  BY EndReasoningOutput
<1> HIDE DEF en
<1>2. Output(tx, k, TRUE, t)
  BY <1>1, CloseTextOutput
<1> HIDE DEF tx
<1>3. Output(o, k, TRUE, t)
  BY <1>2, CloseTextOutput
<1> HIDE DEF o
<1>4. Output(Complete(o), k, TRUE, t)
  BY <1>3, CompleteOutput
<1> QED
  BY <1>4 DEF OpenAIResponsesDone, o, tx, en

LEMMA GeminiResponsesChunkOutput ==
  ASSUME ToResponses, NEW s, NEW k, NEW over, NEW t, Output(s, k, over, t), NEW c \in GeminiChunks
  PROVE  \E t2 : Output(GeminiResponsesChunk(s, c), k + (IF c.part = "text" THEN 1 ELSE 0), over, t2)
<1> DEFINE u == IF c.usage = <<>> THEN s ELSE [s EXCEPT !.tokens = UsageTotals(c.usage[1])]
           cr == SendCreated(u)
           m == GeminiResponsesStart(u)
<1>0. ~KeepsNext
  BY DEF KeepsNext, ToResponses
<1>1. PICK t2 : Output(u, k, over, t2)
  BY TokensOutput
<1> HIDE DEF u
<1>2. Output(m, k, over, t2)
  <2>1. Output(cr, k, over, t2)
    BY <1>1, SendCreatedOutput
  <2> HIDE DEF cr
  <2>2. Output(WriteEvent(cr, Ev("response.output_item.added", 0, "message")), k, over, t2)
    BY <2>1, ResponsesWrites
  <2> QED
    BY <1>1, <2>2 DEF GeminiResponsesStart, cr
<1> HIDE DEF m
<1>3. k + 0 = k
  BY DEF Output
<1>4. CASE c.part = "none"
  BY <1>2, <1>3, <1>4 DEF GeminiResponsesChunk, m, u
<1>5. CASE c.part = "text"
  <2> DEFINE p == [m EXCEPT !.part = TRUE]
             o == IF m.part THEN m ELSE WriteEvent(p, Ev("response.content_part.added", 0, ""))
  <2>1. Output(p, k, over, t2)
    BY <1>2, FieldOutput
  <2> HIDE DEF p
  <2>2. Output(o, k, over, t2)
    BY <1>2, <2>1, ResponsesWrites
  <2> HIDE DEF o
  <2>3. Output(ResponsesText(o), k + 1, over, t2)
    BY <2>2, ResponsesWrites DEF ResponsesText
  <2>4. GeminiResponsesChunk(s, c) = ResponsesText(o)
    BY <1>5 DEF GeminiResponsesChunk, GeminiResponsesText, m, u, o, p
  <2> QED
    BY <1>5, <2>3, <2>4
<1>6. CASE c.part = "call"
  <2> DEFINE o == [m EXCEPT !.next = @ + 1]
  <2>1. DOMAIN o = DOMAIN m /\ o.emit = m.emit /\ o.tokens = m.tokens
    BY <1>2 DEF Output
  <2> HIDE DEF o
  <2>2. m.tokens = t2
    BY <1>2 DEF Output
  <2>3. Output(o, k, over, t2)
    BY <1>0, <1>2, <2>1, <2>2, SameOutput
  <2>4. Output(WriteEvent(o, Ev("response.output_item.added", m.next + 1, "function_call")), k, over, t2)
    BY <2>3, ResponsesWrites
  <2>5. GeminiResponsesChunk(s, c) = GeminiResponsesCall(m)
    BY <1>6 DEF GeminiResponsesChunk, m, u
  <2> QED
    BY <1>3, <1>6, <2>4, <2>5 DEF GeminiResponsesCall, o
<1>7. c.part \in {"none", "text", "call"}
  BY DEF GeminiChunks
<1> QED
  BY <1>4, <1>5, <1>6, <1>7

LEMMA GeminiResponsesEndOutput ==
  ASSUME ToResponses, NEW s, NEW k, NEW t, Output(s, k, TRUE, t)
  PROVE  Output(GeminiResponsesEnd(s), k, TRUE, t)
<1> DEFINE tx == CloseText(s)
           m == CloseMessage(tx)
<1>1. Output(tx, k, TRUE, t)
  BY CloseTextOutput
<1> HIDE DEF tx
<1>2. Output(m, k, TRUE, t)
  BY <1>1, CloseTextOutput
<1> HIDE DEF m
<1>3. Output(WriteEvent(m, Ev("response.completed", 1, "")), k, TRUE, t)
  BY <1>2, ResponsesWrites
<1> QED
  BY <1>3 DEF GeminiResponsesEnd, m, tx

------------------------------------------------------------------------------
(* Responses that were fetched whole. *)

Wholes == UNION {[1..n -> {"text", "tool_use"}] : n \in Nat}

TextsOf(blocks, n) == {i \in 1..n : blocks[i] = "text"}

LEMMA TextsCounted ==
  ASSUME NEW blocks, NEW n \in Nat
  PROVE  /\ IsFiniteSet(TextsOf(blocks, n)) /\ Cardinality(TextsOf(blocks, n)) \in Nat
         /\ Cardinality(TextsOf(blocks, 0)) = 0
         /\ Cardinality(TextsOf(blocks, n + 1))
              = Cardinality(TextsOf(blocks, n)) + (IF blocks[n + 1] = "text" THEN 1 ELSE 0)
<1>1. IsFiniteSet(1..n)
  BY FS_Interval
<1>2. IsFiniteSet(TextsOf(blocks, n)) /\ Cardinality(TextsOf(blocks, n)) \in Nat
  <2>1. TextsOf(blocks, n) \subseteq 1..n
    BY DEF TextsOf
  <2> QED
    BY <1>1, <2>1, FS_Subset, FS_CardinalityType
<1>3. Cardinality(TextsOf(blocks, 0)) = 0
  <2>1. TextsOf(blocks, 0) = {}
    BY DEF TextsOf
  <2> QED
    BY <2>1, FS_EmptySet
<1>4. CASE blocks[n + 1] = "text"
  <2>1. TextsOf(blocks, n + 1) = TextsOf(blocks, n) \cup {n + 1} /\ n + 1 \notin TextsOf(blocks, n)
    BY <1>4 DEF TextsOf
  <2> QED
    BY <1>2, <1>3, <1>4, <2>1, FS_AddElement
<1>5. CASE blocks[n + 1] # "text"
  <2>1. TextsOf(blocks, n + 1) = TextsOf(blocks, n)
    BY <1>5 DEF TextsOf
  <2> QED
    BY <1>2, <1>3, <1>5, <2>1
<1> QED
  BY <1>4, <1>5

LEMMA AnthropicBlockOutput ==
  ASSUME ToAnthropic, NEW s, NEW k, NEW over, NEW t, Output(s, k, over, t), NEW i, NEW kind
  PROVE  Output(AnthropicBlock(s, i, kind), k + (IF kind = "text" THEN 1 ELSE 0), over, t)
<1> DEFINE a == WriteEvent(s, Ev("content_block_start", i, kind))
           b == WriteEvent(a, Ev("content_block_delta", i, kind))
           m == k + (IF kind = "text" THEN 1 ELSE 0)
<1>1. k + 0 = k
  BY DEF Output
<1>2. Output(a, k, over, t)
  BY AnthropicWrites
<1> HIDE DEF a
<1>3. Output(b, m, over, t)
  BY <1>1, <1>2, AnthropicWrites
<1> HIDE DEF b, m
<1>4. Output(WriteEvent(b, Ev("content_block_stop", i, "")), m, over, t)
  BY <1>3, AnthropicWrites
<1> QED
  BY <1>4 DEF AnthropicBlock, a, b, m

LEMMA ItemOutput ==
  ASSUME ToResponses, NEW s, NEW k, NEW over, NEW t, Output(s, k, over, t), NEW i
  PROVE  Output(MessageItem(s, i), k + 1, over, t) /\ Output(CallItem(s, i), k, over, t)
<1> DEFINE a == WriteEvent(s, Ev("response.output_item.added", i, "message"))
           b == WriteEvent(a, Ev("response.content_part.added", i, ""))
           c == WriteEvent(b, Ev("response.output_text.delta", i, ""))
           d == WriteEvent(c, Ev("response.output_text.done", i, ""))
           e == WriteEvent(d, Ev("response.content_part.done", i, ""))
           f == WriteEvent(e, Ev("response.output_item.done", i, "message"))
           x == WriteEvent(s, Ev("response.output_item.added", i, "function_call"))
           m == k + 1
<1>1. Output(a, k, over, t) /\ Output(x, k, over, t)
  BY ResponsesWrites
<1> HIDE DEF a, x
<1>2. Output(b, k, over, t)
  BY <1>1, ResponsesWrites
<1> HIDE DEF b
<1>3. Output(c, m, over, t)
  BY <1>2, ResponsesWrites
<1> HIDE DEF c, m
<1>4. Output(d, m, over, t)
  BY <1>3, ResponsesWrites
<1> HIDE DEF d
<1>5. Output(e, m, over, t)
  BY <1>4, ResponsesWrites
<1> HIDE DEF e
<1>6. Output(f, m, over, t)
  BY <1>5, ResponsesWrites
<1>7. Output(WriteEvent(x, Ev("response.output_item.done", i, "function_call")), k, over, t)
  BY <1>1, ResponsesWrites
<1> QED
  BY <1>6, <1>7 DEF MessageItem, CallItem, a, b, c, d, e, f, x, m

\* The texts written after n turns of a loop over the blocks.
TextsWritten(loop, k, blocks, n) == IF loop = "openai" THEN k ELSE k + Cardinality(TextsOf(blocks, n))

LEMMA LoopOutput ==
  ASSUME Ready, NEW loop, \/ loop = "anthropic" /\ path.to = "anthropic"
                          \/ loop = "openai" /\ path.to = "openai"
                          \/ loop = "responses" /\ path.to = "responses",
         NEW s, NEW k, NEW over, NEW t, Output(s, k, over, t), NEW blocks, NEW m \in Nat,
         NEW g, LoopUpTo(g, s, loop, blocks, m)
  PROVE  Output(g[m], TextsWritten(loop, k, blocks, m), over, t)
<1> DEFINE T == {n \in Nat : n <= m => Output(g[n], TextsWritten(loop, k, blocks, n), over, t)}
<1>1. g[0] = s /\ \A n \in 1..m : g[n] = Turn(loop, blocks, g[n - 1], n)
  BY LoopTurns
<1>2. k \in Nat
  BY DEF Output
<1>3. 0 \in T
  <2>1. Cardinality(TextsOf(blocks, 0)) = 0
    BY TextsCounted
  <2>2. TextsWritten(loop, k, blocks, 0) = k
    BY <1>2, <2>1 DEF TextsWritten
  <2> QED
    BY <1>1, <2>2
<1>4. ASSUME NEW n \in T PROVE n + 1 \in T
  <2> SUFFICES ASSUME n + 1 <= m PROVE Output(g[n + 1], TextsWritten(loop, k, blocks, n + 1), over, t)
    OBVIOUS
  <2> DEFINE w == TextsWritten(loop, k, blocks, n)
             step == IF blocks[n + 1] = "text" THEN 1 ELSE 0
  <2>1. Output(g[n], w, over, t) /\ n \in Nat
    OBVIOUS
  <2>2. g[n + 1] = Turn(loop, blocks, g[n], n + 1) /\ (n + 1) - 1 = n
    <3>1. n + 1 \in 1..m /\ (n + 1) - 1 = n
      OBVIOUS
    <3> QED
      BY <1>1, <3>1
  <2>3. loop # "openai" => TextsWritten(loop, k, blocks, n + 1) = w + step
    <3>1. Cardinality(TextsOf(blocks, n)) \in Nat
          /\ Cardinality(TextsOf(blocks, n + 1)) = Cardinality(TextsOf(blocks, n)) + step
      BY <2>1, TextsCounted
    <3> HIDE DEF step
    <3>2. step \in Nat
      BY DEF step
    <3> QED
      BY <1>2, <3>1, <3>2 DEF TextsWritten
  <2>4. w + 0 = w
    BY <2>1 DEF Output
  <2>5. CASE loop = "anthropic"
    <3>1. path.to = "anthropic"
      BY <2>5
    <3>2. g[n + 1] = AnthropicBlock(g[n], n, blocks[n + 1])
      BY <2>2, <2>5 DEF Turn
    <3> HIDE DEF w
    <3>3. Output(AnthropicBlock(g[n], n, blocks[n + 1]), w + step, over, t)
      BY <2>1, <3>1, AnthropicBlockOutput DEF ToAnthropic
    <3> QED
      BY <2>3, <2>5, <3>2, <3>3
  <2>6. CASE loop = "openai"
    <3>1. path.to = "openai"
      BY <2>6
    <3>2. g[n + 1] \in {writeToolCallStartChunk(g[n], None), g[n]}
      BY <2>2, <2>6 DEF Turn
    <3>3. TextsWritten(loop, k, blocks, n + 1) = w
      BY <2>6 DEF TextsWritten
    <3> HIDE DEF w
    <3>4. Output(writeToolCallStartChunk(g[n], None), w, over, t)
      BY <2>1, <3>1, OpenAIWrites DEF ToOpenAI
    <3> QED
      BY <2>1, <3>2, <3>3, <3>4
  <2>7. CASE loop = "responses"
    <3>1. path.to = "responses"
      BY <2>7
    <3>2. g[n + 1] = IF blocks[n + 1] = "text" THEN MessageItem(g[n], n) ELSE CallItem(g[n], n)
      BY <2>2, <2>7 DEF Turn
    <3> HIDE DEF w
    <3>3. Output(MessageItem(g[n], n), w + 1, over, t) /\ Output(CallItem(g[n], n), w, over, t)
      BY <2>1, <3>1, ItemOutput DEF ToResponses
    <3> QED
      BY <2>3, <2>4, <2>7, <3>2, <3>3
  <2> QED
    BY <2>5, <2>6, <2>7
<1>5. Nat \subseteq T
  <2> HIDE DEF T
  <2>1. T \in SUBSET Nat
    BY DEF T
  <2> QED
    BY <2>1, <1>3, <1>4, Induction
<1> QED
  BY <1>5

LEMMA WholesAreSequences ==
  ASSUME NEW blocks \in Wholes
  PROVE  Len(blocks) \in Nat /\ DOMAIN blocks = 1..Len(blocks)
<1>1. PICK n \in Nat : blocks \in [1..n -> {"text", "tool_use"}]
  BY DEF Wholes
<1>2. blocks \in Seq({"text", "tool_use"})
  BY <1>1
<1> QED
  BY <1>2

LEMMA SynthesizeAnthropicOutput ==
  ASSUME ToAnthropic, NEW s, NEW k, NEW t, Output(s, k, TRUE, t), NEW blocks \in Wholes
  PROVE  Output(SynthesizeAnthropicSSE(s, blocks), k + Cardinality(TextsOf(blocks, Len(blocks))), TRUE, t)
<1> DEFINE st == WriteEvent(s, Ev("message_start", 0, ""))
           start == WriteEvent(st, Ev("ping", 0, ""))
           m == Len(blocks)
           Eqn(g) == g = [n \in 0..m |-> IF n = 0 THEN start ELSE AnthropicBlock(g[n - 1], n - 1, blocks[n])]
           D == CHOOSE g : Eqn(g)
           w == k + Cardinality(TextsOf(blocks, m))
<1>1. SynthesizeAnthropicSSE(s, blocks)
        = WriteEvent(WriteEvent(D[m], Ev("message_delta", 0, "end_turn")), Ev("message_stop", 0, ""))
  BY DEF SynthesizeAnthropicSSE
<1>2. Output(st, k, TRUE, t)
  BY AnthropicWrites
<1> HIDE DEF st
<1>3. Output(start, k, TRUE, t)
  BY <1>2, AnthropicWrites
<1> HIDE DEF start
<1>4. m \in Nat
  BY WholesAreSequences
<1> HIDE DEF m
<1>5. PICK g : LoopUpTo(g, start, "anthropic", blocks, m)
  BY <1>4, LoopExists
<1>6. \A h : LoopUpTo(h, start, "anthropic", blocks, m) <=> Eqn(h)
  BY DEF LoopUpTo, Turn
<1> HIDE DEF Eqn
<1>7. LoopUpTo(D, start, "anthropic", blocks, m)
  BY <1>5, <1>6
<1> HIDE DEF D
<1>8. Output(D[m], w, TRUE, t)
  <2>1. Output(D[m], TextsWritten("anthropic", k, blocks, m), TRUE, t)
    BY <1>3, <1>4, <1>7, LoopOutput DEF ToAnthropic
  <2> QED
    BY <2>1 DEF TextsWritten
<1> HIDE DEF w
<1>9. Output(WriteEvent(WriteEvent(D[m], Ev("message_delta", 0, "end_turn")), Ev("message_stop", 0, "")), w, TRUE, t)
  BY <1>8, CloseAnthropic
<1> QED
  BY <1>1, <1>9 DEF w, m

\* All texts go into one chunk.
LEMMA OneChunkOfText ==
  ASSUME NEW texts
  PROVE  Cardinality({"text" : i \in texts}) = IF texts = {} THEN 0 ELSE 1
<1>1. CASE texts = {}
  <2>1. {"text" : i \in texts} = {}
    BY <1>1
  <2> QED
    BY <1>1, <2>1, FS_EmptySet
<1>2. CASE texts # {}
  <2>1. {"text" : i \in texts} = {"text"}
    BY <1>2
  <2> QED
    BY <1>2, <2>1, FS_Singleton
<1> QED
  BY <1>1, <1>2

LEMMA SynthesizeOpenAIOutput ==
  ASSUME ToOpenAI, NEW s, NEW k, NEW t, Output(s, k, TRUE, t), NEW blocks \in Wholes
  PROVE  Output(SynthesizeOpenAISSE(s, blocks), k + (IF TextsOf(blocks, Len(blocks)) = {} THEN 0 ELSE 1), TRUE, t)
<1> DEFINE role == writeSSEChunk(s, "role")
           m == Len(blocks)
           start == IF \E i \in 1..m : blocks[i] = "text" THEN writeSSEChunk(role, "text") ELSE role
           Eqn(g) == g = [n \in 0..m |-> IF n = 0 THEN start
                                         ELSE IF blocks[n] = "tool_use" THEN writeToolCallStartChunk(g[n - 1], None)
                                         ELSE g[n - 1]]
           D == CHOOSE g : Eqn(g)
           w == k + (IF TextsOf(blocks, m) = {} THEN 0 ELSE 1)
<1>1. SynthesizeOpenAISSE(s, blocks) = WriteEvent(buildChunk(D[m], "stop"), Done)
  BY DEF SynthesizeOpenAISSE
<1>2. Output(role, k, TRUE, t)
  BY OpenAIWrites
<1> HIDE DEF role
<1>3. m \in Nat
  BY WholesAreSequences
<1> HIDE DEF m
<1>4. Output(start, w, TRUE, t)
  <2>1. k + 0 = k
    BY DEF Output
  <2>2. (\E i \in 1..m : blocks[i] = "text") <=> TextsOf(blocks, m) # {}
    BY DEF TextsOf
  <2>3. Output(writeSSEChunk(role, "text"), k + 1, TRUE, t)
    BY <1>2, OpenAIWrites
  <2>4. CASE \E i \in 1..m : blocks[i] = "text"
    BY <2>2, <2>3, <2>4
  <2>5. CASE ~\E i \in 1..m : blocks[i] = "text"
    BY <1>2, <2>1, <2>2, <2>5
  <2> QED
    BY <2>4, <2>5
<1> HIDE DEF start, w
<1>5. PICK g : LoopUpTo(g, start, "openai", blocks, m)
  BY <1>3, LoopExists
<1>6. \A h : LoopUpTo(h, start, "openai", blocks, m) <=> Eqn(h)
  BY DEF LoopUpTo, Turn
<1> HIDE DEF Eqn
<1>7. LoopUpTo(D, start, "openai", blocks, m)
  BY <1>5, <1>6
<1> HIDE DEF D
<1>8. Output(D[m], w, TRUE, t)
  <2>1. Output(D[m], TextsWritten("openai", w, blocks, m), TRUE, t)
    BY <1>3, <1>4, <1>7, LoopOutput DEF ToOpenAI
  <2> QED
    BY <2>1 DEF TextsWritten
<1>9. Output(WriteEvent(buildChunk(D[m], "stop"), Done), w, TRUE, t)
  BY <1>8, CloseOpenAI
<1> QED
  BY <1>1, <1>9 DEF w, m

LEMMA SynthesizeResponsesOutput ==
  ASSUME ToResponses, NEW s, NEW k, NEW t, Output(s, k, TRUE, t), NEW blocks \in Wholes
  PROVE  Output(SynthesizeResponsesSSE(s, blocks), k + Cardinality(TextsOf(blocks, Len(blocks))), TRUE, t)
<1> DEFINE start == WriteEvent(s, Ev("response.created", 0, ""))
           m == Len(blocks)
           Eqn(g) == g = [n \in 0..m |-> IF n = 0 THEN start
                                         ELSE IF blocks[n] = "text" THEN MessageItem(g[n - 1], n - 1)
                                         ELSE CallItem(g[n - 1], n - 1)]
           D == CHOOSE g : Eqn(g)
           w == k + Cardinality(TextsOf(blocks, m))
           done == WriteEvent(D[m], Ev("response.completed", m, ""))
<1>1. SynthesizeResponsesSSE(s, blocks) = WriteEvent(done, Done)
  BY DEF SynthesizeResponsesSSE
<1>2. Output(start, k, TRUE, t)
  BY ResponsesWrites
<1> HIDE DEF start
<1>3. m \in Nat
  BY WholesAreSequences
<1> HIDE DEF m
<1>4. PICK g : LoopUpTo(g, start, "responses", blocks, m)
  BY <1>3, LoopExists
<1>5. \A h : LoopUpTo(h, start, "responses", blocks, m) <=> Eqn(h)
  BY DEF LoopUpTo, Turn
<1> HIDE DEF Eqn
<1>6. LoopUpTo(D, start, "responses", blocks, m)
  BY <1>4, <1>5
<1> HIDE DEF D
<1>7. Output(D[m], w, TRUE, t)
  <2>1. Output(D[m], TextsWritten("responses", k, blocks, m), TRUE, t)
    BY <1>2, <1>3, <1>6, LoopOutput DEF ToResponses
  <2> QED
    BY <2>1 DEF TextsWritten
<1> HIDE DEF w
<1>8. Output(done, w, TRUE, t)
  BY <1>7, ResponsesWrites
<1> HIDE DEF done
<1>9. Output(WriteEvent(done, Done), w, TRUE, t)
  BY <1>8, ResponsesWrites
<1> QED
  BY <1>1, <1>9 DEF w, m

------------------------------------------------------------------------------
(* What an upstream sends next. *)

CompleteAt(u) == u.phase \in {"closing", "end"} /\ (path.from = "anthropic" => u.phase = "end")

ItemKinds == {"reasoning", "message", "function_call"}
ItemLength(kind) == CASE kind = "message" -> 7 [] kind = "reasoning" -> 4 [] kind = "function_call" -> 2

UpType == [phase : {"new", "open", "between", "block", "closing", "end"}, n : Nat,
           kind : BlockKinds \cup ItemKinds \cup {""}, deltas : Nat]

UpOk(u) ==
  /\ u \in UpType
  /\ path.from \in {"anthropic", "responses"} => u.phase # "open"
  /\ path.from \in {"openai", "gemini", "whole"} => u.phase \in {"new", "open", "end"}
  /\ path.from = "anthropic" /\ u.phase = "block" => u.kind \in BlockKinds
  /\ path.from = "responses" /\ u.phase = "block" => u.kind \in ItemKinds /\ u.deltas \in 1..ItemLength(u.kind) - 1

LEMMA UpNumbers ==
  ASSUME NEW u, UpOk(u)
  PROVE  u.n \in Nat /\ u.deltas \in Nat /\ u.n + 1 \in Nat
<1>1. u \in UpType
  BY DEF UpOk
<1>2. u.n \in Nat /\ u.deltas \in Nat
  BY <1>1 DEF UpType
<1> QED
  BY <1>2

LEMMA AnthropicSends ==
  ASSUME path \in Paths, path.from = "anthropic", UpOk(up), NEW next \in Upstream
  PROVE  LET e == next[1]  u == next[2]
         IN  /\ UpOk(u) /\ ~CompleteAt(up)
             /\ e.type \in AnthropicTypes
             /\ e.usage = <<>> \/ e.type \in {"message_start", "message_delta"}
             /\ e.type \in Terminal => CompleteAt(u)
             /\ e.type = "content_block_start" =>
                  e.index = up.n /\ e.kind \in BlockKinds /\ up.phase = "between"
                  /\ u.n = up.n /\ u.phase = "block" /\ u.kind = e.kind
             /\ e.type = "content_block_delta" =>
                  e.index = up.n /\ e.kind = up.kind /\ e.kind \in BlockKinds /\ up.phase = "block"
                  /\ u.n = up.n /\ u.phase = "block" /\ u.kind = up.kind
             /\ e.type = "content_block_stop" => u.n = up.n + 1 /\ u.phase = "between"
             /\ e.type \in {"message_start", "message_delta", "message_stop"} =>
                  up.phase # "block" /\ u.n = up.n /\ u.phase # "block"
<1> DEFINE Good(e, u) ==
             /\ UpOk(u) /\ ~CompleteAt(up)
             /\ e.type \in AnthropicTypes
             /\ e.usage = <<>> \/ e.type \in {"message_start", "message_delta"}
             /\ e.type \in Terminal => CompleteAt(u)
             /\ e.type = "content_block_start" =>
                  e.index = up.n /\ e.kind \in BlockKinds /\ up.phase = "between"
                  /\ u.n = up.n /\ u.phase = "block" /\ u.kind = e.kind
             /\ e.type = "content_block_delta" =>
                  e.index = up.n /\ e.kind = up.kind /\ e.kind \in BlockKinds /\ up.phase = "block"
                  /\ u.n = up.n /\ u.phase = "block" /\ u.kind = up.kind
             /\ e.type = "content_block_stop" => u.n = up.n + 1 /\ u.phase = "between"
             /\ e.type \in {"message_start", "message_delta", "message_stop"} =>
                  up.phase # "block" /\ u.n = up.n /\ u.phase # "block"
<1> USE DEF UpOk, UpType, CompleteAt, AnthropicTypes, Terminal, BlockKinds, AEvent
<1>1. Upstream = AnthropicUpstream
  BY DEF Upstream
<1>2. CASE up.phase = "new"
  <2>1. next = <<AEvent("message_start", 0, "", <<AnthropicUsage>>), [up EXCEPT !.phase = "between"]>>
    BY <1>1, <1>2 DEF AnthropicUpstream
  <2> QED
    BY <1>2, <2>1
<1>3. CASE up.phase = "between"
  <2>1. \/ \E k \in BlockKinds :
             next = <<AEvent("content_block_start", up.n, k, <<>>),
                      [up EXCEPT !.phase = "block", !.kind = k, !.deltas = 0]>>
        \/ next = <<AEvent("message_delta", 0, "end_turn", <<AnthropicUsage>>), [up EXCEPT !.phase = "closing"]>>
    BY <1>1, <1>3 DEF AnthropicUpstream
  <2>2. ASSUME NEW k \in BlockKinds,
               next = <<AEvent("content_block_start", up.n, k, <<>>),
                        [up EXCEPT !.phase = "block", !.kind = k, !.deltas = 0]>>
        PROVE  Good(next[1], next[2])
    BY <1>3, <2>2
  <2>3. CASE next = <<AEvent("message_delta", 0, "end_turn", <<AnthropicUsage>>), [up EXCEPT !.phase = "closing"]>>
    BY <1>3, <2>3
  <2> QED
    BY <2>1, <2>2, <2>3
<1>4. CASE up.phase = "block"
  <2>1. \/ next = <<AEvent("content_block_stop", up.n, "", <<>>), [up EXCEPT !.phase = "between", !.n = @ + 1]>>
        \/ next = <<AEvent("content_block_delta", up.n, up.kind, <<>>), [up EXCEPT !.deltas = 1]>>
    BY <1>1, <1>4 DEF AnthropicUpstream
  <2>2. CASE next = <<AEvent("content_block_stop", up.n, "", <<>>), [up EXCEPT !.phase = "between", !.n = @ + 1]>>
    <3> DEFINE m == up.n + 1
    <3>1. next = <<AEvent("content_block_stop", up.n, "", <<>>), [up EXCEPT !.phase = "between", !.n = m]>> /\ m \in Nat
      BY <2>2, UpNumbers
    <3>2. next[2].n = m /\ m = up.n + 1
      BY <3>1
    <3> HIDE DEF m
    <3> QED
      BY <1>4, <3>1, <3>2
  <2>3. CASE next = <<AEvent("content_block_delta", up.n, up.kind, <<>>), [up EXCEPT !.deltas = 1]>>
    BY <1>4, <2>3
  <2> QED
    BY <2>1, <2>2, <2>3
<1>5. CASE up.phase = "closing"
  <2>1. next = <<AEvent("message_stop", 0, "", <<>>), [up EXCEPT !.phase = "end"]>>
    BY <1>1, <1>5 DEF AnthropicUpstream
  <2> QED
    BY <1>5, <2>1
<1>6. up.phase # "end"
  BY <1>1 DEF AnthropicUpstream
<1> QED
  BY <1>2, <1>3, <1>4, <1>5, <1>6

LEMMA OpenAIChunkTypes ==
  ASSUME NEW c \in OpenAIChunks
  PROVE  c.type = "chunk"
<1> DEFINE some == {NoDelta, [NoDelta EXCEPT !.think = TRUE], [NoDelta EXCEPT !.text = TRUE],
                    [NoDelta EXCEPT !.think = TRUE, !.text = TRUE], [NoDelta EXCEPT !.refusal = TRUE]}
           calls == {[NoDelta EXCEPT !.tool = call[1], !.args = call[2]] : call \in ToolSlots \X BOOLEAN}
           ends == {[NoDelta EXCEPT !.finish = f] : f \in {"stop", "tool_calls"}}
           counts == {[NoDelta EXCEPT !.usage = <<u>>] : u \in Usages}
<1>1. OpenAIChunks = some \cup calls \cup ends \cup counts
  BY DEF OpenAIChunks
<1>2. NoDelta.type = "chunk" /\ "type" \in DOMAIN NoDelta
  BY DEF NoDelta
<1>3. \A x \in some : x.type = "chunk"
  BY <1>2
<1>4. \A x \in calls : x.type = "chunk"
  BY <1>2
<1>5. \A x \in ends : x.type = "chunk"
  BY <1>2
<1>6. \A x \in counts : x.type = "chunk"
  BY <1>2
<1> HIDE DEF some, calls, ends, counts
<1> QED
  BY <1>1, <1>3, <1>4, <1>5, <1>6

LEMMA OpenAISends ==
  ASSUME path \in Paths, path.from = "openai", UpOk(up), NEW next \in Upstream
  PROVE  LET e == next[1]  u == next[2]
         IN  /\ UpOk(u) /\ ~CompleteAt(up)
             /\ e.type \in {"chunk", "[DONE]"}
             /\ e.type = "[DONE]" => CompleteAt(u) /\ ~e.text /\ ~e.refusal /\ e.usage = <<>>
<1> DEFINE Good(e, u) ==
             /\ UpOk(u) /\ ~CompleteAt(up)
             /\ e.type \in {"chunk", "[DONE]"}
             /\ e.type = "[DONE]" => CompleteAt(u) /\ ~e.text /\ ~e.refusal /\ e.usage = <<>>
<1> USE DEF UpOk, UpType, CompleteAt
<1>1. Upstream = OpenAIUpstream
  BY DEF Upstream
<1>2. up.phase \in {"new", "open"}
  BY <1>1 DEF OpenAIUpstream
<1>3. \/ \E c \in OpenAIChunks : next = <<c, [up EXCEPT !.phase = "open", !.n = @ + 1]>>
      \/ next = <<[NoDelta EXCEPT !.type = "[DONE]"], [up EXCEPT !.phase = "end"]>>
  BY <1>1, <1>2 DEF OpenAIUpstream
<1>4. ASSUME NEW c \in OpenAIChunks, next = <<c, [up EXCEPT !.phase = "open", !.n = @ + 1]>>
      PROVE  Good(next[1], next[2])
  <2> DEFINE m == up.n + 1
  <2>1. c.type = "chunk"
    BY OpenAIChunkTypes
  <2>2. next = <<c, [up EXCEPT !.phase = "open", !.n = m]>> /\ m \in Nat
    BY <1>4, UpNumbers
  <2> HIDE DEF m
  <2> QED
    BY <1>2, <2>1, <2>2
<1>5. CASE next = <<[NoDelta EXCEPT !.type = "[DONE]"], [up EXCEPT !.phase = "end"]>>
  BY <1>2, <1>5 DEF NoDelta
<1> QED
  BY <1>3, <1>4, <1>5

LEMMA GeminiSends ==
  ASSUME path \in Paths, path.from = "gemini", UpOk(up), NEW next \in Upstream
  PROVE  next[1] \in GeminiChunks /\ UpOk(next[2])
<1>1. PICK c \in GeminiChunks : next = <<c, [up EXCEPT !.n = @ + 1, !.phase = IF c.finish = "" THEN @ ELSE "end"]>>
  BY DEF Upstream, GeminiUpstream
<1> DEFINE m == up.n + 1
           p == IF c.finish = "" THEN up.phase ELSE "end"
<1>2. next = <<c, [up EXCEPT !.n = m, !.phase = p]>>
  BY <1>1
<1>3. m \in Nat /\ p \in {"new", "open", "end"}
  BY UpNumbers DEF UpOk
<1> HIDE DEF m, p
<1> QED
  BY <1>2, <1>3 DEF UpOk, UpType

LEMMA WholeSends ==
  ASSUME path \in Paths, path.from = "whole", UpOk(up), NEW next \in Upstream
  PROVE  next[1].blocks \in Wholes /\ UpOk(next[2]) /\ CompleteAt(next[2])
<1>1. PICK b \in UNION {[1..n -> {"text", "tool_use"}] : n \in 0..MaxBlocks} :
         next = <<[type |-> "response", blocks |-> b], [up EXCEPT !.phase = "end"]>>
  BY DEF Upstream, WholeUpstream
<1>2. b \in Wholes
  BY StreamAssumption DEF Wholes
<1> QED
  BY <1>1, <1>2 DEF UpOk, UpType, CompleteAt

LEMMA OfFour ==
  ASSUME NEW q, NEW a, NEW b, NEW c, NEW d, q = <<a, b, c, d>>
  PROVE  Len(q) = 4 /\ q[1] = a /\ q[2] = b /\ q[3] = c /\ q[4] = d
OBVIOUS

LEMMA OfSeven ==
  ASSUME NEW q, NEW a, NEW b, NEW c, NEW d, NEW e, NEW f, NEW g, q = <<a, b, c, d, e, f, g>>
  PROVE  Len(q) = 7 /\ q[1] = a /\ q[2] = b /\ q[3] = c /\ q[4] = d /\ q[5] = e /\ q[6] = f /\ q[7] = g
OBVIOUS

LEMMA ItemEventTypes ==
  ASSUME NEW i, NEW kind \in ItemKinds, NEW n \in 1..ItemLength(kind)
  PROVE  /\ Len(ItemEvents(i, kind)) = ItemLength(kind)
         /\ ItemEvents(i, kind)[n].type \in ResponsesTypes \ Terminal
         /\ ItemEvents(i, kind)[n].usage = <<>>
<1> DEFINE e(type, k) == AEvent(type, i, k, <<>>)
           Ok(x) == x.type \in ResponsesTypes \ Terminal /\ x.usage = <<>>
<1>1. CASE kind = "message"
  <2>1. ItemEvents(i, kind) =
          <<e("response.output_item.added", kind), e("response.content_part.added", ""),
            e("response.output_text.delta", ""), e("response.output_text.delta", ""),
            e("response.output_text.done", ""), e("response.content_part.done", ""),
            e("response.output_item.done", kind)>>
    BY <1>1 DEF ItemEvents
  <2>2. ItemLength(kind) = 7 /\ n \in {1, 2, 3, 4, 5, 6, 7}
    BY <1>1 DEF ItemLength, ItemKinds
  <2>3. \A type \in ResponsesTypes : \A k : e(type, k).type = type /\ e(type, k).usage = <<>>
    BY DEF AEvent
  <2> HIDE DEF e
  <2>4. \A type \in ResponsesTypes \ Terminal : \A k : Ok(e(type, k))
    BY <2>3
  <2> HIDE DEF Ok
  <2>5. /\ Ok(e("response.output_item.added", kind)) /\ Ok(e("response.content_part.added", ""))
        /\ Ok(e("response.output_text.delta", "")) /\ Ok(e("response.output_text.done", ""))
        /\ Ok(e("response.content_part.done", "")) /\ Ok(e("response.output_item.done", kind))
    <3>1. {"response.output_item.added", "response.content_part.added", "response.output_text.delta",
           "response.output_text.done", "response.content_part.done", "response.output_item.done",
           "response.reasoning_summary_part"} \subseteq ResponsesTypes \ Terminal
      BY DEF ResponsesTypes, Terminal
    <3> QED
      BY <2>4, <3>1
  <2>6. /\ ItemEvents(i, kind)[1] = e("response.output_item.added", kind)
        /\ ItemEvents(i, kind)[2] = e("response.content_part.added", "")
        /\ ItemEvents(i, kind)[3] = e("response.output_text.delta", "")
        /\ ItemEvents(i, kind)[4] = e("response.output_text.delta", "")
        /\ ItemEvents(i, kind)[5] = e("response.output_text.done", "")
        /\ ItemEvents(i, kind)[6] = e("response.content_part.done", "")
        /\ ItemEvents(i, kind)[7] = e("response.output_item.done", kind)
    <3> DEFINE q == ItemEvents(i, kind)
               e1 == e("response.output_item.added", kind)
               e2 == e("response.content_part.added", "")
               e3 == e("response.output_text.delta", "")
               e4 == e("response.output_text.delta", "")
               e5 == e("response.output_text.done", "")
               e6 == e("response.content_part.done", "")
               e7 == e("response.output_item.done", kind)
    <3>1. q = <<e1, e2, e3, e4, e5, e6, e7>>
      BY <2>1
    <3> HIDE DEF q, e1, e2, e3, e4, e5, e6, e7
    <3>2. q[1] = e1 /\ q[2] = e2 /\ q[3] = e3 /\ q[4] = e4 /\ q[5] = e5 /\ q[6] = e6 /\ q[7] = e7
      BY <3>1, OfSeven
    <3> QED
      BY <3>2 DEF q, e1, e2, e3, e4, e5, e6, e7
  <2>7. Len(ItemEvents(i, kind)) = ItemLength(kind)
    BY <2>1, <2>2
  <2>8. Ok(ItemEvents(i, kind)[n])
    BY <2>2, <2>5, <2>6
  <2> QED
    BY <2>7, <2>8 DEF Ok
<1>2. CASE kind = "reasoning"
  <2>1. ItemEvents(i, kind) =
          <<e("response.output_item.added", kind), e("response.reasoning_summary_part", ""),
            e("response.reasoning_summary_part", "text"), e("response.output_item.done", kind)>>
    BY <1>2 DEF ItemEvents
  <2>2. ItemLength(kind) = 4 /\ n \in {1, 2, 3, 4}
    BY <1>2 DEF ItemLength, ItemKinds
  <2>3. \A type \in ResponsesTypes : \A k : e(type, k).type = type /\ e(type, k).usage = <<>>
    BY DEF AEvent
  <2> HIDE DEF e
  <2>4. \A type \in ResponsesTypes \ Terminal : \A k : Ok(e(type, k))
    BY <2>3
  <2> HIDE DEF Ok
  <2>5. /\ Ok(e("response.output_item.added", kind)) /\ Ok(e("response.reasoning_summary_part", ""))
        /\ Ok(e("response.reasoning_summary_part", "text")) /\ Ok(e("response.output_item.done", kind))
    <3>1. {"response.output_item.added", "response.content_part.added", "response.output_text.delta",
           "response.output_text.done", "response.content_part.done", "response.output_item.done",
           "response.reasoning_summary_part"} \subseteq ResponsesTypes \ Terminal
      BY DEF ResponsesTypes, Terminal
    <3> QED
      BY <2>4, <3>1
  <2>6. /\ ItemEvents(i, kind)[1] = e("response.output_item.added", kind)
        /\ ItemEvents(i, kind)[2] = e("response.reasoning_summary_part", "")
        /\ ItemEvents(i, kind)[3] = e("response.reasoning_summary_part", "text")
        /\ ItemEvents(i, kind)[4] = e("response.output_item.done", kind)
    <3> DEFINE q == ItemEvents(i, kind)
               e1 == e("response.output_item.added", kind)
               e2 == e("response.reasoning_summary_part", "")
               e3 == e("response.reasoning_summary_part", "text")
               e4 == e("response.output_item.done", kind)
    <3>1. q = <<e1, e2, e3, e4>>
      BY <2>1
    <3> HIDE DEF q, e1, e2, e3, e4
    <3>2. q[1] = e1 /\ q[2] = e2 /\ q[3] = e3 /\ q[4] = e4
      BY <3>1, OfFour
    <3> QED
      BY <3>2 DEF q, e1, e2, e3, e4
  <2>7. Len(ItemEvents(i, kind)) = ItemLength(kind)
    BY <2>1, <2>2
  <2>8. Ok(ItemEvents(i, kind)[n])
    BY <2>2, <2>5, <2>6
  <2> QED
    BY <2>7, <2>8 DEF Ok
<1>3. CASE kind = "function_call"
  <2>1. ItemEvents(i, kind) =
          <<e("response.output_item.added", kind), e("response.output_item.done", kind)>>
    BY <1>3 DEF ItemEvents
  <2> QED
    BY <1>3, <2>1 DEF ItemLength, ItemKinds, AEvent, ResponsesTypes, Terminal
<1> QED
  BY <1>1, <1>2, <1>3 DEF ItemKinds

LEMMA ResponsesSends ==
  ASSUME path \in Paths, path.from = "responses", UpOk(up), NEW next \in Upstream
  PROVE  LET e == next[1]  u == next[2]
         IN  /\ UpOk(u) /\ (CompleteAt(up) => CompleteAt(u))
             /\ e.type \in ResponsesTypes
             /\ e.type \in Terminal => CompleteAt(u)
             /\ e.usage # <<>> => e.type = "response.completed"
<1> DEFINE Good(e, u) ==
             /\ UpOk(u) /\ (CompleteAt(up) => CompleteAt(u))
             /\ e.type \in ResponsesTypes
             /\ e.type \in Terminal => CompleteAt(u)
             /\ e.usage # <<>> => e.type = "response.completed"
<1>1. Upstream = ResponsesUpstream
  BY DEF Upstream
<1>2. CASE up.phase = "new"
  <2>1. next = <<AEvent("response.created", 0, "", <<>>), [up EXCEPT !.phase = "between"]>>
    BY <1>1, <1>2 DEF ResponsesUpstream
  <2> QED
    BY <1>2, <2>1 DEF UpOk, UpType, CompleteAt, Terminal, AEvent, ResponsesTypes
<1>3. CASE up.phase = "between"
  <2>1. \/ \E k \in ItemKinds :
             next = <<ItemEvents(up.n, k)[1], [up EXCEPT !.phase = "block", !.kind = k, !.deltas = 1]>>
        \/ \E us \in Usages :
             next = <<AEvent("response.completed", 0, "", <<us>>), [up EXCEPT !.phase = "closing"]>>
    BY <1>1, <1>3 DEF ResponsesUpstream, ItemKinds
  <2>2. ASSUME NEW k \in ItemKinds,
               next = <<ItemEvents(up.n, k)[1], [up EXCEPT !.phase = "block", !.kind = k, !.deltas = 1]>>
        PROVE  Good(next[1], next[2])
    <3>1. 1 \in 1..ItemLength(k) /\ 1 \in 1..ItemLength(k) - 1
      BY DEF ItemLength, ItemKinds
    <3>2. ItemEvents(up.n, k)[1].type \in ResponsesTypes \ Terminal /\ ItemEvents(up.n, k)[1].usage = <<>>
      BY <3>1, ItemEventTypes
    <3>3. UpOk(next[2])
      BY <1>3, <2>2, <3>1 DEF UpOk, UpType
    <3> QED
      BY <1>3, <2>2, <3>2, <3>3 DEF CompleteAt
  <2>3. ASSUME NEW us \in Usages,
               next = <<AEvent("response.completed", 0, "", <<us>>), [up EXCEPT !.phase = "closing"]>>
        PROVE  Good(next[1], next[2])
    BY <1>3, <2>3 DEF UpOk, UpType, CompleteAt, Terminal, AEvent, ResponsesTypes
  <2> QED
    BY <2>1, <2>2, <2>3
<1>4. CASE up.phase = "block"
  <2> DEFINE n == up.deltas + 1
             last == n = Len(ItemEvents(up.n, up.kind))
             u == IF last THEN [up EXCEPT !.phase = "between", !.n = @ + 1] ELSE [up EXCEPT !.deltas = @ + 1]
  <2>1. next = <<ItemEvents(up.n, up.kind)[n], u>>
    BY <1>1, <1>4 DEF ResponsesUpstream
  <2>2. up.kind \in ItemKinds /\ up.deltas \in 1..ItemLength(up.kind) - 1 /\ ItemLength(up.kind) \in Nat
    BY <1>4 DEF UpOk, ItemLength, ItemKinds
  <2>3. n \in 1..ItemLength(up.kind)
    BY <2>2
  <2>4. /\ Len(ItemEvents(up.n, up.kind)) = ItemLength(up.kind)
        /\ ItemEvents(up.n, up.kind)[n].type \in ResponsesTypes \ Terminal
        /\ ItemEvents(up.n, up.kind)[n].usage = <<>>
    BY <2>2, <2>3, ItemEventTypes
  <2>5. UpOk(u)
    <3>1. CASE last
      <4> DEFINE m == up.n + 1
      <4>1. u = [up EXCEPT !.phase = "between", !.n = m]
        BY <3>1
      <4>2. m \in Nat
        BY UpNumbers
      <4> HIDE DEF m, u
      <4> QED
        BY <4>1, <4>2 DEF UpOk, UpType
    <3>2. CASE ~last
      <4>1. n \in 1..ItemLength(up.kind) - 1 /\ n \in Nat
        BY <2>2, <2>3, <2>4, <3>2
      <4>2. u = [up EXCEPT !.deltas = n]
        BY <3>2
      <4> HIDE DEF n, u
      <4> QED
        BY <1>4, <2>2, <4>1, <4>2 DEF UpOk, UpType
    <3> QED
      BY <3>1, <3>2
  <2> HIDE DEF u
  <2> QED
    BY <1>4, <2>1, <2>4, <2>5 DEF CompleteAt
<1>5. CASE up.phase = "closing"
  <2>1. next = <<AEvent("[DONE]", 0, "", <<>>), [up EXCEPT !.phase = "end"]>>
    BY <1>1, <1>5 DEF ResponsesUpstream
  <2> QED
    BY <1>5, <2>1 DEF UpOk, UpType, CompleteAt, Terminal, AEvent, ResponsesTypes
<1>6. up.phase # "end"
  BY <1>1 DEF ResponsesUpstream
<1>7. up.phase \in {"new", "between", "block", "closing", "end"}
  BY DEF UpOk, UpType
<1> QED
  BY <1>2, <1>3, <1>4, <1>5, <1>6, <1>7

------------------------------------------------------------------------------
(* The function of each path. *)

LEMMA HandlerOf ==
  ASSUME path \in Paths, NEW s, NEW e
  PROVE  /\ path.from = path.to => Handle(s, e) = RelaySSEStream(s, e)
         /\ path.from = "whole" /\ path.to = "anthropic" => Handle(s, e) = SynthesizeAnthropicSSE(s, e.blocks)
         /\ path.from = "whole" /\ path.to = "openai" => Handle(s, e) = SynthesizeOpenAISSE(s, e.blocks)
         /\ path.from = "whole" /\ path.to = "responses" => Handle(s, e) = SynthesizeResponsesSSE(s, e.blocks)
         /\ path.from = "openai" /\ path.to = "anthropic" => Handle(s, e) = ReverseEvent(s, e)
         /\ path.from = "responses" /\ path.to = "anthropic" => Handle(s, e) = ResponsesSSEToAnthropicSSE(s, e)
         /\ path.from = "gemini" /\ path.to = "anthropic" => Handle(s, e) = GeminiAnthropicChunk(s, e)
         /\ path.from = "anthropic" /\ path.to = "openai" => Handle(s, e) = OpenAIStream(s, e)
         /\ path.from = "responses" /\ path.to = "openai" => Handle(s, e) = ResponsesSSEToOpenAISSE(s, e)
         /\ path.from = "gemini" /\ path.to = "openai" => Handle(s, e) = GeminiOpenAIChunk(s, e)
         /\ path.from = "anthropic" /\ path.to = "responses" => Handle(s, e) = AnthropicSSEToResponsesSSE(s, e)
         /\ path.from = "openai" /\ path.to = "responses" =>
              Handle(s, e) = IF e.type = "[DONE]" THEN OpenAIResponsesDone(s) ELSE OpenAIResponsesChunk(s, e)
         /\ path.from = "gemini" /\ path.to = "responses" => Handle(s, e) = GeminiResponsesChunk(s, e)
BY DEF Paths, Handle

\* The blocks taken for thinking, as far as the upstream has come.
ThinkingSeen(s, u) ==
  /\ "thinking" \in DOMAIN s
  /\ \A i \in s.thinking : i \in Nat /\ (i < u.n \/ (i = u.n /\ u.phase = "block" /\ u.kind = "thinking"))
  /\ u.phase = "block" /\ u.kind = "thinking" => u.n \in s.thinking

Reports == path.from \in {"openai", "responses"}

\* What holds of a translator between two events.
TrOk ==
  /\ {"emit", "tokens"} \subseteq DOMAIN tr
  /\ tr.emit = <<>>
  /\ KeepsNext => "next" \in DOMAIN tr /\ tr.next \in Nat
  /\ Reports => Counted(tr.tokens)
  /\ path.from = "anthropic" /\ path.to = "openai" => ThinkingSeen(tr, up)

Over(u) == path.from = "gemini" \/ CompleteAt(u)

\* What a handler has done with an event.
Handled(o, e, u) ==
  \E t : /\ Output(o, Texts(e), Over(u), t)
         /\ Reports => Counts(tr.tokens, t, e.usage)

LEMMA AnthropicHandled ==
  ASSUME Ready, path.from = "anthropic", UpOk(up), TrOk, NEW next \in Upstream,
         Output(tr, 0, Over(next[2]), tr.tokens)
  PROVE  /\ Handled(Handle(tr, next[1]), next[1], next[2])
         /\ path.to = "openai" => ThinkingSeen(Handle(tr, next[1]), next[2])
<1> DEFINE e == next[1]
           u == next[2]
           k == IF e.type = "content_block_delta" /\ e.kind = "text" THEN 1 ELSE 0
<1>1. path \in Paths /\ path.to \in {"openai", "responses"} /\ ~Reports
  BY DEF Ready, Translating, Paths, Reports
<1>2. /\ UpOk(u) /\ e.type \in AnthropicTypes
      /\ e.type = "message_stop" => Over(u) = TRUE
      /\ e.type \in {"content_block_start", "content_block_delta"} => e.kind \in BlockKinds
  BY <1>1, AnthropicSends DEF Over, Terminal
<1>3. Texts(e) = k /\ 0 + k = k
  BY DEF Texts, Ready, Translating
<1>4. up.n \in Nat
  BY UpNumbers
<1>5. CASE path.to = "openai"
  <2>1. e.type = "content_block_delta" => (e.index \in tr.thinking <=> e.kind = "thinking")
    BY <1>1, <1>4, <1>5, AnthropicSends DEF TrOk, ThinkingSeen
  <2>2. Handle(tr, e) = OpenAIStream(tr, e)
    BY <1>1, <1>5, HandlerOf
  <2>3. "thinking" \in DOMAIN tr
    BY <1>5 DEF TrOk, ThinkingSeen
  <2> HIDE DEF e, u
  <2>4. \E t : Output(OpenAIStream(tr, e), 0 + k, Over(u), t)
    BY <1>2, <1>5, <2>1, AnthropicToOpenAIOutput DEF ToOpenAI, u
  <2>5. Handled(Handle(tr, e), e, u)
    <3> HIDE DEF k
    <3> QED
      BY <1>1, <1>3, <2>2, <2>4 DEF Handled
  <2>6. /\ "thinking" \in DOMAIN OpenAIStream(tr, e)
        /\ OpenAIStream(tr, e).thinking = IF e.type = "content_block_start" /\ e.kind = "thinking"
                                          THEN tr.thinking \union {e.index} ELSE tr.thinking
    BY <1>2, <2>1, <2>3, ThinkingBlocks
  <2>7. ThinkingSeen(OpenAIStream(tr, e), u)
    <3>1. ThinkingSeen(tr, up)
      BY <1>5 DEF TrOk
    <3>2. CASE e.type = "content_block_start"
      BY <1>1, <1>4, <2>6, <3>1, <3>2, AnthropicSends DEF ThinkingSeen, e, u
    <3>3. CASE e.type = "content_block_delta"
      BY <1>1, <1>4, <2>6, <3>1, <3>3, AnthropicSends DEF ThinkingSeen, e, u
    <3>4. CASE e.type = "content_block_stop"
      BY <1>1, <1>4, <2>6, <3>1, <3>4, AnthropicSends DEF ThinkingSeen, e, u
    <3>5. CASE e.type \in {"message_start", "message_delta", "message_stop"}
      BY <1>1, <1>4, <2>6, <3>1, <3>5, AnthropicSends DEF ThinkingSeen, e, u
    <3> QED
      BY <1>2, <3>2, <3>3, <3>4, <3>5 DEF AnthropicTypes
  <2> QED
    BY <2>2, <2>5, <2>7 DEF e, u
<1>6. CASE path.to = "responses"
  <2>1. Handle(tr, e) = AnthropicSSEToResponsesSSE(tr, e)
    BY <1>1, <1>6, HandlerOf
  <2> HIDE DEF e, u
  <2>2. \E t : Output(AnthropicSSEToResponsesSSE(tr, e), 0 + k, Over(u), t)
    BY <1>2, <1>6, AnthropicToResponsesOutput DEF ToResponses, u
  <2>3. Handled(Handle(tr, e), e, u)
    <3> HIDE DEF k
    <3> QED
      BY <1>1, <1>3, <2>1, <2>2 DEF Handled
  <2> QED
    BY <1>6, <2>3 DEF e, u
<1> QED
  BY <1>1, <1>5, <1>6

LEMMA OpenAIHandled ==
  ASSUME Ready, path.from = "openai", UpOk(up), TrOk, NEW next \in Upstream,
         Output(tr, 0, Over(next[2]), tr.tokens)
  PROVE  Handled(Handle(tr, next[1]), next[1], next[2])
<1> DEFINE e == next[1]
           u == next[2]
           kt == 0 + (IF e.text THEN 1 ELSE 0)
           kr == kt + (IF e.refusal THEN 1 ELSE 0)
<1>1. path \in Paths /\ path.to \in {"anthropic", "responses"} /\ Counted(tr.tokens)
  BY DEF Ready, Translating, Paths, Reports, TrOk
<1>2. /\ e.type \in {"chunk", "[DONE]"}
      /\ e.type = "[DONE]" => Over(u) = TRUE /\ ~e.text /\ ~e.refusal /\ e.usage = <<>>
  BY <1>1, OpenAISends DEF Over
<1> HIDE DEF e, u
<1>3. e.usage = <<>> => Counts(tr.tokens, tr.tokens, e.usage)
  BY <1>1 DEF Counts
<1>4. CASE path.to = "anthropic"
  <2>1. Handle(tr, e) = IF e.type = "[DONE]" THEN ReverseDone(tr) ELSE ReverseChunk(tr, e)
    BY <1>1, <1>4, HandlerOf DEF ReverseEvent
  <2>2. Texts(e) = kr
    BY <1>4 DEF Texts
  <2>3. CASE e.type = "[DONE]"
    <3>1. Over(u) = TRUE /\ Texts(e) = 0
      BY <1>2, <2>2, <2>3
    <3>2. Output(ReverseDone(tr), Texts(e), Over(u), tr.tokens)
      BY <1>4, <3>1, ReverseDoneOutput DEF ToAnthropic, u
    <3> QED
      BY <1>2, <1>3, <2>1, <2>3, <3>2 DEF Handled, e, u
  <2>4. CASE e.type # "[DONE]"
    <3>1. \E t : Output(ReverseChunk(tr, e), kr, Over(u), t) /\ Counts(tr.tokens, t, e.usage)
      BY <1>1, <1>4, ReverseChunkOutput DEF ToAnthropic, u
    <3> HIDE DEF kr
    <3> QED
      BY <2>1, <2>2, <2>4, <3>1 DEF Handled, e, u
  <2> QED
    BY <2>3, <2>4
<1>5. CASE path.to = "responses"
  <2>1. Handle(tr, e) = IF e.type = "[DONE]" THEN OpenAIResponsesDone(tr) ELSE OpenAIResponsesChunk(tr, e)
    BY <1>1, <1>5, HandlerOf
  <2>2. Texts(e) = kt
    BY <1>5 DEF Texts
  <2>3. CASE e.type = "[DONE]"
    <3>1. Over(u) = TRUE /\ Texts(e) = 0
      BY <1>2, <2>2, <2>3
    <3>2. Output(OpenAIResponsesDone(tr), Texts(e), Over(u), tr.tokens)
      BY <1>5, <3>1, OpenAIResponsesDoneOutput DEF ToResponses, u
    <3> QED
      BY <1>2, <1>3, <2>1, <2>3, <3>2 DEF Handled, e, u
  <2>4. CASE e.type # "[DONE]"
    <3>1. \E t : Output(OpenAIResponsesChunk(tr, e), kt, Over(u), t) /\ Counts(tr.tokens, t, e.usage)
      BY <1>1, <1>5, OpenAIToResponsesOutput DEF ToResponses, u
    <3> HIDE DEF kt
    <3> QED
      BY <2>1, <2>2, <2>4, <3>1 DEF Handled, e, u
  <2> QED
    BY <2>3, <2>4
<1> QED
  BY <1>1, <1>4, <1>5

LEMMA ResponsesHandled ==
  ASSUME Ready, path.from = "responses", UpOk(up), TrOk, NEW next \in Upstream,
         Output(tr, 0, Over(next[2]), tr.tokens)
  PROVE  Handled(Handle(tr, next[1]), next[1], next[2])
<1> DEFINE e == next[1]
           u == next[2]
           k == IF e.type = "response.output_text.delta" THEN 1 ELSE 0
<1>1. path \in Paths /\ path.to \in {"anthropic", "openai"} /\ Counted(tr.tokens)
  BY DEF Ready, Translating, Paths, Reports, TrOk
<1>2. /\ e.type \in ResponsesTypes
      /\ e.type \in Terminal => Over(u) = TRUE
      /\ e.usage # <<>> => e.type = "response.completed"
  BY <1>1, ResponsesSends DEF Over
<1>3. Texts(e) = k /\ 0 + k = k
  BY DEF Texts, Ready, Translating
<1> HIDE DEF e, u
<1>4. CASE path.to = "anthropic"
  <2>1. Handle(tr, e) = ResponsesSSEToAnthropicSSE(tr, e)
    BY <1>1, <1>4, HandlerOf
  <2>2. \E t : Output(ResponsesSSEToAnthropicSSE(tr, e), 0 + k, Over(u), t) /\ Counts(tr.tokens, t, e.usage)
    BY <1>1, <1>2, <1>4, ResponsesToAnthropicOutput DEF ToAnthropic, u
  <2> HIDE DEF k
  <2> QED
    BY <1>3, <2>1, <2>2 DEF Handled, e, u
<1>5. CASE path.to = "openai"
  <2>1. Handle(tr, e) = ResponsesSSEToOpenAISSE(tr, e)
    BY <1>1, <1>5, HandlerOf
  <2>2. \E t : Output(ResponsesSSEToOpenAISSE(tr, e), 0 + k, Over(u), t) /\ Counts(tr.tokens, t, e.usage)
    BY <1>1, <1>2, <1>5, ResponsesToOpenAIOutput DEF ToOpenAI, u
  <2> HIDE DEF k
  <2> QED
    BY <1>3, <2>1, <2>2 DEF Handled, e, u
<1> QED
  BY <1>1, <1>4, <1>5

LEMMA GeminiHandled ==
  ASSUME Ready, path.from = "gemini", UpOk(up), TrOk, NEW next \in Upstream,
         Output(tr, 0, Over(next[2]), tr.tokens)
  PROVE  Handled(Handle(tr, next[1]), next[1], next[2])
<1> DEFINE e == next[1]
           u == next[2]
           k == IF e.part = "text" THEN 1 ELSE 0
<1>1. path \in Paths /\ path.to \in {"anthropic", "openai", "responses"} /\ ~Reports
  BY DEF Ready, Translating, Paths, Reports
<1>2. e \in GeminiChunks
  BY <1>1, GeminiSends
<1>3. Texts(e) = k /\ 0 + k = k
  BY DEF Texts, Ready, Translating
<1> HIDE DEF e, u
<1>4. CASE path.to = "anthropic"
  <2>1. Handle(tr, e) = GeminiAnthropicChunk(tr, e)
    BY <1>1, <1>4, HandlerOf
  <2>2. \E t : Output(GeminiAnthropicChunk(tr, e), 0 + k, Over(u), t)
    BY <1>2, <1>4, GeminiAnthropicChunkOutput DEF ToAnthropic, u
  <2> HIDE DEF k
  <2> QED
    BY <1>1, <1>3, <2>1, <2>2 DEF Handled, e, u
<1>5. CASE path.to = "openai"
  <2>1. Handle(tr, e) = GeminiOpenAIChunk(tr, e)
    BY <1>1, <1>5, HandlerOf
  <2>2. \E t : Output(GeminiOpenAIChunk(tr, e), 0 + k, Over(u), t)
    BY <1>2, <1>5, GeminiOpenAIChunkOutput DEF ToOpenAI, u
  <2> HIDE DEF k
  <2> QED
    BY <1>1, <1>3, <2>1, <2>2 DEF Handled, e, u
<1>6. CASE path.to = "responses"
  <2>1. Handle(tr, e) = GeminiResponsesChunk(tr, e)
    BY <1>1, <1>6, HandlerOf
  <2>2. \E t : Output(GeminiResponsesChunk(tr, e), 0 + k, Over(u), t)
    BY <1>2, <1>6, GeminiResponsesChunkOutput DEF ToResponses, u
  <2> HIDE DEF k
  <2> QED
    BY <1>1, <1>3, <2>1, <2>2 DEF Handled, e, u
<1> QED
  BY <1>1, <1>4, <1>5, <1>6

LEMMA WholeHandled ==
  ASSUME Ready, path.from = "whole", UpOk(up), TrOk, NEW next \in Upstream,
         Output(tr, 0, Over(next[2]), tr.tokens)
  PROVE  Handled(Handle(tr, next[1]), next[1], next[2])
<1> DEFINE e == next[1]
           u == next[2]
           b == e.blocks
           texts == {i \in DOMAIN b : b[i] = "text"}
<1>1. path \in Paths /\ path.to \in {"anthropic", "openai", "responses"} /\ ~Reports
  BY DEF Ready, Translating, Paths, Reports
<1>2. b \in Wholes /\ Over(u) = TRUE
  BY <1>1, WholeSends DEF Over
<1>3. Texts(e) = IF path.to = "openai" THEN Cardinality({"text" : i \in texts}) ELSE Cardinality(texts)
  BY DEF Texts, Ready, Translating
<1> HIDE DEF e, u, b
<1>4. Len(b) \in Nat /\ texts = TextsOf(b, Len(b))
  BY <1>2, WholesAreSequences DEF TextsOf
<1>5. Cardinality(texts) \in Nat
  BY <1>4, TextsCounted
<1> HIDE DEF texts
<1>6. Output(tr, 0, TRUE, tr.tokens)
  BY <1>2 DEF u
<1>7. CASE path.to = "anthropic"
  <2>1. Handle(tr, e) = SynthesizeAnthropicSSE(tr, b)
    BY <1>1, <1>7, HandlerOf DEF b
  <2>2. Output(SynthesizeAnthropicSSE(tr, b), 0 + Cardinality(texts), TRUE, tr.tokens)
    BY <1>2, <1>4, <1>6, <1>7, SynthesizeAnthropicOutput DEF ToAnthropic
  <2>3. 0 + Cardinality(texts) = Texts(e)
    BY <1>3, <1>5, <1>7
  <2> QED
    BY <1>1, <1>2, <2>1, <2>2, <2>3 DEF Handled, e, u
<1>8. CASE path.to = "openai"
  <2>1. Handle(tr, e) = SynthesizeOpenAISSE(tr, b)
    BY <1>1, <1>8, HandlerOf DEF b
  <2>2. Output(SynthesizeOpenAISSE(tr, b), 0 + (IF texts = {} THEN 0 ELSE 1), TRUE, tr.tokens)
    BY <1>2, <1>4, <1>6, <1>8, SynthesizeOpenAIOutput DEF ToOpenAI
  <2>3. 0 + (IF texts = {} THEN 0 ELSE 1) = Texts(e)
    BY <1>3, <1>8, OneChunkOfText
  <2> QED
    BY <1>1, <1>2, <2>1, <2>2, <2>3 DEF Handled, e, u
<1>9. CASE path.to = "responses"
  <2>1. Handle(tr, e) = SynthesizeResponsesSSE(tr, b)
    BY <1>1, <1>9, HandlerOf DEF b
  <2>2. Output(SynthesizeResponsesSSE(tr, b), 0 + Cardinality(texts), TRUE, tr.tokens)
    BY <1>2, <1>4, <1>6, <1>9, SynthesizeResponsesOutput DEF ToResponses
  <2>3. 0 + Cardinality(texts) = Texts(e)
    BY <1>3, <1>5, <1>9
  <2> QED
    BY <1>1, <1>2, <2>1, <2>2, <2>3 DEF Handled, e, u
<1> QED
  BY <1>1, <1>7, <1>8, <1>9

------------------------------------------------------------------------------
(* Relays, and the end of the body. *)

\* What a turn of the loop, or the end of the body, hands to the writer.
Result(o, usage, u) ==
  /\ {"emit", "tokens"} \subseteq DOMAIN o
  /\ KeepsNext => "next" \in DOMAIN o /\ o.next \in Nat
  /\ Len(o.emit) \in Nat
  /\ \A n \in 0..Len(o.emit) : Delivered(client, o.emit)[n].phase = "end" => Over(u)
  /\ Shape(Now(o.emit))
  /\ Reports => Counts(tr.tokens, o.tokens, usage)

LEMMA OutputResult ==
  ASSUME NEW o, NEW k, NEW t, NEW usage, NEW u, Output(o, k, Over(u), t), Reports => Counts(tr.tokens, t, usage)
  PROVE  Result(o, usage, u)
<1>1. Len(o.emit) \in Nat
  BY WrittenAppend DEF Output
<1> QED
  BY <1>1 DEF Output, Result

LEMMA NetUsageCounts ==
  ASSUME NEW s, {"emit", "tokens"} \subseteq DOMAIN s, Counted(s.tokens), NEW usage
  PROVE  LET o == NetUsage(s, usage)
         IN  DOMAIN o = DOMAIN s /\ o.emit = s.emit /\ Counts(s.tokens, o.tokens, usage)
<1>1. CASE usage = <<>>
  BY <1>1 DEF NetUsage, Counts
<1>2. CASE usage # <<>>
  <2> DEFINE net == usage[1].prompt - usage[1].cached
             in == IF net < 0 THEN 0 ELSE net
             t == [s.tokens EXCEPT !.input = in, !.output = usage[1].completion, !.cached = usage[1].cached,
                                   !.reasoning = usage[1].reasoning]
  <2>1. NetUsage(s, usage) = [s EXCEPT !.tokens = t]
    BY <1>2 DEF NetUsage
  <2> HIDE DEF in
  <2>2. Counts(s.tokens, t, usage)
    BY <1>2 DEF Counts, Counted
  <2> HIDE DEF t
  <2> QED
    BY <2>1, <2>2
<1> QED
  BY <1>1, <1>2

\* Reading the usage leaves what is written alone.
LEMMA RelayReads ==
  ASSUME path \in Paths, path.from = path.to, UpOk(up), TrOk, NEW next \in Upstream
  PROVE  \E s : /\ Handle(tr, next[1]) = WriteEvent(s, next[1])
                /\ DOMAIN s = DOMAIN tr /\ s.emit = <<>>
                /\ Reports => Counts(tr.tokens, s.tokens, next[1].usage)
<1> DEFINE e == next[1]
<1>1. Handle(tr, e) = RelaySSEStream(tr, e)
  BY HandlerOf
<1>2. CASE path.from = "anthropic"
  <2>1. Handle(tr, e) = WriteEvent(extractAnthropicTokens(tr, e), e)
    BY <1>1, <1>2 DEF RelaySSEStream
  <2>2. e.type \in {"message_start", "message_delta"} \/ e.usage = <<>>
    BY <1>2, AnthropicSends
  <2>3. LET s == extractAnthropicTokens(tr, e) IN DOMAIN s = DOMAIN tr /\ s.emit = <<>>
    BY <2>2 DEF extractAnthropicTokens, TrOk
  <2> QED
    BY <1>2, <2>1, <2>3 DEF Reports
<1>3. CASE path.from = "openai"
  <2> DEFINE s == extractOpenAITokens(tr, e)
  <2>1. Handle(tr, e) = WriteEvent(s, e)
    BY <1>1, <1>3 DEF RelaySSEStream
  <2>2. e.type = "[DONE]" => e.usage = <<>>
    BY <1>3, OpenAISends
  <2>3. Counted(tr.tokens) /\ {"emit", "tokens"} \subseteq DOMAIN tr /\ tr.emit = <<>>
    BY <1>3 DEF TrOk, Reports
  <2>4. DOMAIN s = DOMAIN tr /\ s.emit = <<>> /\ Counts(tr.tokens, s.tokens, e.usage)
    <3>1. CASE e.type = "[DONE]"
      BY <2>2, <2>3, <3>1 DEF extractOpenAITokens, Counts
    <3>2. CASE e.type # "[DONE]"
      BY <2>3, <3>2, NetUsageCounts DEF extractOpenAITokens
    <3> QED
      BY <3>1, <3>2
  <2> QED
    BY <2>1, <2>4
<1>4. CASE path.from = "responses"
  <2> DEFINE s == extractResponsesTokens(tr, e)
  <2>1. Handle(tr, e) = WriteEvent(s, e)
    BY <1>1, <1>4 DEF RelaySSEStream
  <2>2. e.usage # <<>> => e.type = "response.completed"
    BY <1>4, ResponsesSends
  <2>3. Counted(tr.tokens) /\ {"emit", "tokens"} \subseteq DOMAIN tr /\ tr.emit = <<>>
    BY <1>4 DEF TrOk, Reports
  <2>4. DOMAIN s = DOMAIN tr /\ s.emit = <<>> /\ Counts(tr.tokens, s.tokens, e.usage)
    <3>1. CASE e.type # "response.completed"
      BY <2>2, <2>3, <3>1 DEF extractResponsesTokens, Counts
    <3>2. CASE e.type = "response.completed"
      BY <2>3, <3>2, NetUsageCounts DEF extractResponsesTokens
    <3> QED
      BY <3>1, <3>2
  <2> QED
    BY <2>1, <2>4
<1> QED
  BY <1>2, <1>3, <1>4 DEF Paths

LEMMA StillComplete ==
  ASSUME path \in Paths, UpOk(up), NEW next \in Upstream, path.from # "gemini", CompleteAt(up)
  PROVE  CompleteAt(next[2])
BY AnthropicSends, OpenAISends, ResponsesSends, WholeSends DEF Paths

LEMMA DeliveredNext ==
  ASSUME NEW none, Written(none), NEW e
  PROVE  /\ Delivered(client, Append(none, e))[0] = Delivered(client, none)[0]
         /\ Delivered(client, Append(none, e))[Len(none) + 1] = Receives(Delivered(client, none)[Len(none)], e)
<1>1. \A n \in 0..Len(none) : Delivered(client, Append(none, e))[n] = Delivered(client, none)[n]
  BY DeliveredAppend
<1>2. Delivered(client, Append(none, e))[Len(none) + 1] = Receives(Delivered(client, none)[Len(none)], e)
  BY DeliveredAppend
<1>3. Len(none) \in Nat
  BY WrittenAppend
<1> QED
  BY <1>1, <1>2, <1>3

LEMMA DeliveredOne ==
  ASSUME NEW none, Written(none), Len(none) = 0, NEW e
  PROVE  /\ Delivered(client, Append(none, e))[0] = client
         /\ Delivered(client, Append(none, e))[1] = Receives(client, e)
<1>1. Delivered(client, none)[0] = client
  BY DeliveredDef
<1>2. Len(none) + 1 = 1
  OBVIOUS
<1> QED
  BY <1>1, <1>2, DeliveredNext

LEMMA RelayHandled ==
  ASSUME path \in Paths, path.from = path.to, UpOk(up), TrOk, Shape(client), NEW next \in Upstream,
         client.phase = "end" => Over(next[2])
  PROVE  Result(Handle(tr, next[1]), next[1].usage, next[2])
<1> DEFINE e == next[1]
           u == next[2]
           d == Receives(client, e)
<1>1. PICK s : /\ Handle(tr, e) = WriteEvent(s, e)
               /\ DOMAIN s = DOMAIN tr /\ s.emit = <<>>
               /\ Reports => Counts(tr.tokens, s.tokens, e.usage)
  BY RelayReads
<1>2. e.type \in Terminal => Over(u)
  BY AnthropicSends, OpenAISends, ResponsesSends DEF Paths, Over, Terminal
<1>3. Shape(d) /\ (d.phase = "end" => Over(u))
  BY <1>2 DEF Receives, Shape
<1> HIDE DEF e, u, d
<1> DEFINE o == WriteEvent(s, e)
           none == s.emit
           events == Append(none, e)
<1>4. {"emit", "tokens"} \subseteq DOMAIN o /\ o.emit = events /\ o.tokens = s.tokens /\ ~KeepsNext
  BY <1>1 DEF WriteEvent, TrOk, KeepsNext
<1>5. Written(none) /\ Len(none) = 0
  <2>1. none \in Seq({}) /\ Len(none) = 0
    BY <1>1
  <2> QED
    BY <2>1 DEF Written
<1> HIDE DEF none
<1>6. Len(events) = 1
  BY <1>5, WrittenAppend
<1>8. Delivered(client, events)[0] = client /\ Delivered(client, events)[1] = d
  BY <1>5, DeliveredOne DEF d
<1> HIDE DEF o, events
<1>9. \A n \in 0..1 : Delivered(client, events)[n].phase = "end" => Over(u)
  <2> SUFFICES ASSUME NEW n \in {0, 1}, Delivered(client, events)[n].phase = "end" PROVE Over(u)
    OBVIOUS
  <2> QED
    BY <1>3, <1>8 DEF u
<1>10. Result(o, e.usage, u)
  BY <1>1, <1>3, <1>4, <1>6, <1>8, <1>9 DEF Result, Now
<1> QED
  BY <1>1, <1>10 DEF o, e, u

LEMMA EndHandled ==
  ASSUME path \in Paths, TrOk, Shape(client), Output(tr, 0, Over(up), tr.tokens)
  PROVE  /\ Result(AtEnd(tr), <<>>, up)
         /\ path.from = "anthropic" => AtEnd(tr) = tr
<1>1. Reports => Counts(tr.tokens, tr.tokens, <<>>)
  BY DEF TrOk, Counts
<1>2. CASE path.from = "gemini"
  <2>1. Over(up) = TRUE /\ ~Reports /\ Ready
    BY <1>2 DEF Over, Reports, Ready, Translating, Paths
  <2>2. CASE path.to = "anthropic"
    <3>1. AtEnd(tr) = GeminiAnthropicEnd(tr)
      BY <1>2, <2>2 DEF AtEnd, Paths
    <3>2. Output(AtEnd(tr), 0, Over(up), tr.tokens)
      BY <1>2, <2>1, <2>2, <3>1, GeminiAnthropicEndOutput DEF ToAnthropic
    <3> QED
      BY <1>2, <2>1, <3>2, OutputResult
  <2>3. CASE path.to = "openai"
    <3>1. AtEnd(tr) = GeminiOpenAIEnd(tr)
      BY <1>2, <2>3 DEF AtEnd, Paths
    <3>2. Output(AtEnd(tr), 0, Over(up), tr.tokens)
      BY <1>2, <2>1, <2>3, <3>1, GeminiOpenAIEndOutput DEF ToOpenAI
    <3> QED
      BY <1>2, <2>1, <3>2, OutputResult
  <2>4. CASE path.to = "responses"
    <3>1. AtEnd(tr) = GeminiResponsesEnd(tr)
      BY <1>2, <2>4 DEF AtEnd, Paths
    <3>2. Output(AtEnd(tr), 0, Over(up), tr.tokens)
      BY <1>2, <2>1, <2>4, <3>1, GeminiResponsesEndOutput DEF ToResponses
    <3> QED
      BY <1>2, <2>1, <3>2, OutputResult
  <2> QED
    BY <2>2, <2>3, <2>4 DEF Paths
<1>3. CASE path.from = "openai" /\ path.to # "openai"
  <2>1. AtEnd(tr) = EstimateReasoning(tr)
    BY <1>3 DEF AtEnd, Paths
  <2>2. Counted(tr.tokens)
    BY <1>3 DEF TrOk, Reports
  <2>3. PICK t : Output(AtEnd(tr), 0, Over(up), t) /\ Counts(tr.tokens, t, <<>>)
    BY <2>1, <2>2, EstimateReasoningOutput
  <2> QED
    BY <1>3, <2>3, OutputResult
<1>4. CASE path.from # "gemini" /\ ~(path.from = "openai" /\ path.to # "openai")
  <2>1. AtEnd(tr) = tr
    BY <1>4 DEF AtEnd, Paths
  <2> QED
    BY <1>1, <2>1, OutputResult
<1> QED
  BY <1>2, <1>3, <1>4

------------------------------------------------------------------------------
(* The invariant. *)

StreamInv ==
  /\ path \in Paths /\ UpOk(up) /\ TrOk
  /\ stage = "reading" => Shape(client)
  /\ TerminalMeansComplete
  /\ NoTextLost
  /\ UsageIsLastReported

LEMMA StartOk ==
  ASSUME Init
  PROVE  StreamInv
<1>1. path \in Paths /\ UpOk(up) /\ Shape(client) /\ stage = "reading"
  BY DEF Init, UpOk, UpType, NewUpstream, Shape, NewClient
<1>2. {"emit", "tokens"} \subseteq DOMAIN tr /\ tr.emit = <<>> /\ (Reports => Counted(tr.tokens))
  BY DEF Init, TrInit, Paths, Reports, Counted, NoTokens, SynthInit, ReverseInit, FromResponsesInit,
         GeminiAnthropicInit, AnthropicOpenAIInit, ResponsesOpenAIInit, GeminiOpenAIInit,
         GeminiResponsesInit, ToResponsesInit
<1>3. KeepsNext => "next" \in DOMAIN tr /\ tr.next \in Nat
  BY DEF Init, KeepsNext, TrInit, Paths, GeminiAnthropicInit, AnthropicOpenAIInit, ResponsesOpenAIInit,
         GeminiOpenAIInit, GeminiResponsesInit, ToResponsesInit, ReverseInit, FromResponsesInit, SynthInit
<1>4. path.from = "anthropic" /\ path.to = "openai" => ThinkingSeen(tr, up)
  <2> SUFFICES ASSUME path.from = "anthropic", path.to = "openai" PROVE ThinkingSeen(tr, up)
    OBVIOUS
  <2>1. tr = AnthropicOpenAIInit
    BY DEF Init, TrInit, Paths
  <2>2. "thinking" \in DOMAIN tr /\ tr.thinking = {}
    BY <2>1 DEF AnthropicOpenAIInit
  <2> QED
    BY <2>2 DEF Init, ThinkingSeen, NewUpstream
<1>5. TerminalMeansComplete /\ NoTextLost /\ UsageIsLastReported
  BY DEF Init, TerminalMeansComplete, NoTextLost, UsageIsLastReported, NewClient
<1> QED
  BY <1>1, <1>2, <1>3, <1>4, <1>5 DEF StreamInv, TrOk

\* What is left when the writes are done, or one of them has failed.
LEMMA WritesResult ==
  ASSUME NEW o, NEW usage, NEW u, Result(o, usage, u), NEW after, Writes(o, after)
  PROVE  /\ client'.phase = "end" => Over(u)
         /\ stage' \in {after, "client_gone"}
         /\ stage' = "reading" => client' = Now(o.emit) /\ Shape(client')
         /\ DOMAIN tr' = DOMAIN o /\ tr'.emit = <<>>
         /\ \A f \in DOMAIN o \ {"emit"} : tr'[f] = o[f]
<1>1. PICK n \in 0..Len(o.emit) : /\ client' = Delivered(client, o.emit)[n]
                                  /\ tr' = [o EXCEPT !.emit = <<>>]
                                  /\ stage' = IF n = Len(o.emit) THEN after ELSE "client_gone"
  BY DEF Writes
<1>2. client'.phase = "end" => Over(u)
  BY <1>1 DEF Result
<1>3. stage' = "reading" => client' = Now(o.emit) /\ Shape(client')
  BY <1>1 DEF Result, Now, Shape
<1>4. DOMAIN tr' = DOMAIN o /\ tr'.emit = <<>> /\ \A f \in DOMAIN o \ {"emit"} : tr'[f] = o[f]
  BY <1>1 DEF Result
<1> QED
  BY <1>1, <1>2, <1>3, <1>4

LEMMA ReceiveKeeps ==
  ASSUME StreamInv, Receive
  PROVE  StreamInv'
<1> USE DEF StreamInv
<1>1. path' = path /\ stage = "reading" /\ Shape(client)
  BY DEF Receive
<1>2. PICK next \in Upstream :
        /\ up' = next[2]
        /\ seen'.texts = seen.texts + Texts(next[1])
        /\ seen'.usage = IF path.from # "whole" /\ next[1].usage # <<>> THEN next[1].usage ELSE seen.usage
        /\ Writes(Handle(tr, next[1]), "reading")
  BY DEF Receive
<1> DEFINE e == next[1]
           u == next[2]
           o == Handle(tr, e)
<1>3. UpOk(u)
  BY AnthropicSends, OpenAISends, GeminiSends, ResponsesSends, WholeSends DEF Paths
<1>4. client.phase = "end" => Over(u)
  BY StillComplete DEF TerminalMeansComplete, UpstreamComplete, CompleteAt, Over
<1>5. /\ Result(o, e.usage, u)
      /\ path.from # path.to => Now(o.emit).texts = client.texts + Texts(e)
      /\ path.from = "anthropic" /\ path.to = "openai" => ThinkingSeen(o, u)
  <2>1. CASE path.from = path.to
    BY <1>1, <1>4, <2>1, RelayHandled
  <2>2. CASE path.from # path.to
    <3>1. Ready
      BY <1>1, <2>2 DEF Ready, Translating
    <3>2. Output(tr, 0, Over(u), tr.tokens)
      BY <1>1, <1>4, NothingWritten DEF TrOk
    <3>3. Handled(o, e, u) /\ (path.from = "anthropic" /\ path.to = "openai" => ThinkingSeen(o, u))
      BY <3>1, <3>2, AnthropicHandled, OpenAIHandled, GeminiHandled, ResponsesHandled, WholeHandled DEF Paths
    <3> HIDE DEF e, u, o
    <3>4. PICK t : Output(o, Texts(e), Over(u), t) /\ (Reports => Counts(tr.tokens, t, e.usage))
      BY <3>3 DEF Handled
    <3>5. Result(o, e.usage, u)
      BY <3>4, OutputResult
    <3> QED
      BY <2>2, <3>3, <3>4, <3>5 DEF Output
  <2> QED
    BY <2>1, <2>2
<1>6. Writes(o, "reading") /\ up' = u
  BY <1>2
<1> HIDE DEF o
<1>7. /\ client'.phase = "end" => Over(u)
      /\ stage' = "reading" => client' = Now(o.emit) /\ Shape(client')
      /\ DOMAIN tr' = DOMAIN o /\ tr'.emit = <<>>
      /\ \A f \in DOMAIN o \ {"emit"} : tr'[f] = o[f]
  BY <1>5, <1>6, WritesResult
<1>8. tr'.tokens = o.tokens /\ {"emit", "tokens"} \subseteq DOMAIN tr'
  BY <1>5, <1>7 DEF Result
<1>9. Reports => Counts(tr.tokens, tr'.tokens, e.usage)
  BY <1>5, <1>8 DEF Result
<1>10. (path \in Paths)' /\ UpOk(up)'
  BY <1>1, <1>3, <1>6 DEF UpOk
<1>11. TrOk'
  <2>1. (KeepsNext => "next" \in DOMAIN tr /\ tr.next \in Nat)'
    BY <1>1, <1>5, <1>7 DEF Result, KeepsNext
  <2>2. (Reports => Counted(tr.tokens))'
    BY <1>1, <1>9 DEF Reports, Counts
  <2>3. (path.from = "anthropic" /\ path.to = "openai" => ThinkingSeen(tr, up))'
    BY <1>1, <1>5, <1>6, <1>7 DEF ThinkingSeen
  <2> QED
    BY <1>7, <1>8, <2>1, <2>2, <2>3 DEF TrOk
<1>12. TerminalMeansComplete'
  BY <1>1, <1>6, <1>7 DEF TerminalMeansComplete, UpstreamComplete, Over, CompleteAt
<1>13. NoTextLost'
  BY <1>1, <1>2, <1>5, <1>7 DEF NoTextLost
<1>14. UsageIsLastReported'
  <2> SUFFICES ASSUME seen'.usage # <<>>, Reports
               PROVE  tr'.tokens.output = seen'.usage[1].completion /\ tr'.tokens.cached = seen'.usage[1].cached
    BY <1>1 DEF UsageIsLastReported, Reports
  <2>1. CASE e.usage = <<>>
    BY <1>2, <1>9, <2>1 DEF UsageIsLastReported, Counts, Reports
  <2>2. CASE e.usage # <<>>
    BY <1>2, <1>9, <2>2 DEF Counts, Reports
  <2> QED
    BY <2>1, <2>2
<1> QED
  BY <1>7, <1>10, <1>11, <1>12, <1>13, <1>14

LEMMA StopKeeps ==
  ASSUME StreamInv, Stop
  PROVE  StreamInv'
<1> USE DEF StreamInv
<1>1. path' = path /\ up' = up /\ seen' = seen /\ stage = "reading" /\ Shape(client)
  BY DEF Stop
<1>2. PICK why \in {"eof", "cancelled", "upstream_reset", "broken"} : Writes(AtEnd(tr), why)
  BY DEF Stop
<1> DEFINE o == AtEnd(tr)
<1>3. client.phase = "end" => Over(up)
  BY DEF TerminalMeansComplete, UpstreamComplete, CompleteAt, Over
<1>4. Output(tr, 0, Over(up), tr.tokens)
  BY <1>1, <1>3, NothingWritten DEF TrOk
<1>5. Result(o, <<>>, up) /\ (path.from = "anthropic" => o = tr)
  BY <1>1, <1>4, EndHandled
<1>6. Writes(o, why)
  BY <1>2
<1> HIDE DEF o
<1>7. /\ client'.phase = "end" => Over(up)
      /\ stage' \in {why, "client_gone"}
      /\ DOMAIN tr' = DOMAIN o /\ tr'.emit = <<>>
      /\ \A f \in DOMAIN o \ {"emit"} : tr'[f] = o[f]
  BY <1>5, <1>6, WritesResult
<1>8. tr'.tokens = o.tokens /\ {"emit", "tokens"} \subseteq DOMAIN tr' /\ stage' # "reading"
  BY <1>5, <1>7 DEF Result
<1>9. Reports => Counts(tr.tokens, tr'.tokens, <<>>)
  BY <1>5, <1>8 DEF Result
<1>10. (path \in Paths)' /\ UpOk(up)'
  BY <1>1 DEF UpOk
<1>11. TrOk'
  <2>1. (KeepsNext => "next" \in DOMAIN tr /\ tr.next \in Nat)'
    BY <1>1, <1>5, <1>7 DEF Result, KeepsNext
  <2>2. (Reports => Counted(tr.tokens))'
    BY <1>1, <1>9 DEF Reports, Counts
  <2>3. (path.from = "anthropic" /\ path.to = "openai" => ThinkingSeen(tr, up))'
    BY <1>1, <1>5, <1>7 DEF TrOk, ThinkingSeen
  <2> QED
    BY <1>7, <1>8, <2>1, <2>2, <2>3 DEF TrOk
<1>12. TerminalMeansComplete'
  BY <1>1, <1>7 DEF TerminalMeansComplete, UpstreamComplete, Over, CompleteAt
<1>13. NoTextLost'
  BY <1>8 DEF NoTextLost
<1>14. UsageIsLastReported'
  BY <1>1, <1>9 DEF UsageIsLastReported, Counts, Reports
<1> QED
  BY <1>8, <1>10, <1>11, <1>12, <1>13, <1>14

LEMMA StreamInvariant == Spec => []StreamInv
<1>1. Init => StreamInv
  BY StartOk
<1>2. StreamInv /\ [Next]_vars => StreamInv'
  <2> SUFFICES ASSUME StreamInv, [Next]_vars PROVE StreamInv'
    OBVIOUS
  <2>1. CASE Receive
    BY <2>1, ReceiveKeeps
  <2>2. CASE Stop
    BY <2>2, StopKeeps
  <2>3. CASE UNCHANGED vars
    BY <2>3 DEF vars, StreamInv, UpOk, TrOk, KeepsNext, Translating, Reports, ThinkingSeen, Shape,
                TerminalMeansComplete, UpstreamComplete, NoTextLost, UsageIsLastReported
  <2> QED
    BY <2>1, <2>2, <2>3 DEF Next, Returned
<1> QED
  BY <1>1, <1>2, PTL DEF Spec

\* Of every path between the formats, for any number of chunks and blocks and any
\* usage: a client that got the terminal event of its format (message_stop,
\* response.completed, [DONE]) is one whose upstream had finished its own answer,
\* wherever the body broke off and whichever write failed.
THEOREM NoTruncatedAnswerLooksComplete == Spec => []TerminalMeansComplete
<1>1. StreamInv => TerminalMeansComplete
  BY DEF StreamInv
<1> QED
  BY <1>1, StreamInvariant, PTL

\* No translator and no synthesizer drops, repeats or invents a text delta: as
\* long as the stream is read, the client has received as many as the upstream
\* sent, whatever reasoning, tool calls and usage came in between.
THEOREM EveryTextDeltaDelivered == Spec => []NoTextLost
<1>1. StreamInv => NoTextLost
  BY DEF StreamInv
<1> QED
  BY <1>1, StreamInvariant, PTL

\* The output and cached tokens that a stream from an OpenAI or a Responses
\* upstream returns to be logged are those of the last usage the upstream
\* reported, also after the client has left and after the estimate of the
\* reasoning tokens.
THEOREM LastUsageIsBilled == Spec => []UsageIsLastReported
<1>1. StreamInv => UsageIsLastReported
  BY DEF StreamInv
<1> QED
  BY <1>1, StreamInvariant, PTL
=============================================================================
