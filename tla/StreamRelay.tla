---------------------------- MODULE StreamRelay ----------------------------
(***************************************************************************)
(* One streamed response: the upstream, the relay or translator that reads *)
(* it, and the client that reads what is written.                          *)
(*                                                                         *)
(* `path' says which function runs: from = to is RelaySSEStream, "whole"   *)
(* one of the Synthesize functions, any other pair a translator.  The      *)
(* upstream sends the events its protocol allows and may stop at any       *)
(* point, cleanly or not; the client may be gone at any write.             *)
(*                                                                         *)
(* `client' is what a client that follows the target protocol has made of  *)
(* the events it received, with the first rule it saw broken.              *)
(***************************************************************************)
EXTENDS StreamToAnthropic, StreamToOpenAI, StreamToResponses, StreamSynth, FiniteSets

CONSTANTS Usages,     \* what an OpenAI or a Responses upstream counts
          MaxChunks,  \* bound on the chunks of an OpenAI or Gemini stream
          MaxBlocks   \* bound on the blocks of an Anthropic message, the items of a response

ASSUME StreamAssumption ==
    /\ ToolSlots \subseteq Nat
    /\ Usages \subseteq [prompt : Nat, completion : Nat, cached : Nat, reasoning : Nat]
    /\ MaxChunks \in Nat /\ MaxBlocks \in Nat

VARIABLES path, up, tr, client, stage, seen

vars == <<path, up, tr, client, stage, seen>>

Paths == [from : {"anthropic", "openai", "responses", "gemini", "whole"},
          to : {"anthropic", "openai", "responses"}]

-----------------------------------------------------------------------------
(* Upstreams: the events that may come next, each with the upstream's next *)
(* position [phase, n, kind, deltas].                                      *)

AnthropicUsage == [input |-> 2, output |-> 2, created |-> 1, cached |-> 1]
GeminiUsage == [prompt |-> 3, candidates |-> 1, thoughts |-> 1, cached |-> 1]

AEvent(type, i, kind, usage) == [type |-> type, index |-> i, kind |-> kind, usage |-> usage]

\* An Anthropic message: blocks one after the other, each with a delta or none.
AnthropicUpstream ==
    CASE up.phase = "new" ->
             {<<AEvent("message_start", 0, "", <<AnthropicUsage>>), [up EXCEPT !.phase = "between"]>>}
      [] up.phase = "between" ->
             {<<AEvent("content_block_start", up.n, k, <<>>),
                [up EXCEPT !.phase = "block", !.kind = k, !.deltas = 0]>> :
                 k \in IF up.n < MaxBlocks THEN {"thinking", "text", "tool_use"} ELSE {}}
             \union
             {<<AEvent("message_delta", 0, "end_turn", <<AnthropicUsage>>), [up EXCEPT !.phase = "closing"]>>}
      [] up.phase = "block" ->
             {<<AEvent("content_block_stop", up.n, "", <<>>), [up EXCEPT !.phase = "between", !.n = @ + 1]>>}
             \union
             (IF up.deltas = 0
              THEN {<<AEvent("content_block_delta", up.n, up.kind, <<>>), [up EXCEPT !.deltas = 1]>>}
              ELSE {})
      [] up.phase = "closing" -> {<<AEvent("message_stop", 0, "", <<>>), [up EXCEPT !.phase = "end"]>>}
      [] up.phase = "end" -> {}

NoDelta == [type |-> "chunk", think |-> FALSE, text |-> FALSE, refusal |-> FALSE,
            tool |-> None, args |-> FALSE, finish |-> "", usage |-> <<>>]

\* Chunks in any order; reasoning may come interleaved with content.
OpenAIChunks ==
    {NoDelta, [NoDelta EXCEPT !.think = TRUE], [NoDelta EXCEPT !.text = TRUE],
     [NoDelta EXCEPT !.think = TRUE, !.text = TRUE], [NoDelta EXCEPT !.refusal = TRUE]}
    \union {[NoDelta EXCEPT !.tool = call[1], !.args = call[2]] : call \in ToolSlots \X BOOLEAN}
    \union {[NoDelta EXCEPT !.finish = f] : f \in {"stop", "tool_calls"}}
    \union {[NoDelta EXCEPT !.usage = <<u>>] : u \in Usages}

OpenAIUpstream ==
    CASE up.phase \in {"new", "open"} ->
             (IF up.n < MaxChunks
              THEN {<<c, [up EXCEPT !.phase = "open", !.n = @ + 1]>> : c \in OpenAIChunks} ELSE {})
             \union
             (IF up.phase = "open"
              THEN {<<[NoDelta EXCEPT !.type = "[DONE]"], [up EXCEPT !.phase = "end"]>>} ELSE {})
      [] up.phase = "end" -> {}

GeminiChunks ==
    {c \in [type : {"chunk"}, part : {"none", "text", "call"}, name : ToolSlots,
            finish : {"", "STOP", "MAX_TOKENS"}, usage : {<<>>, <<GeminiUsage>>}] :
        c.part = "call" \/ c.name = 0}

GeminiUpstream ==
    IF up.n < MaxChunks
    THEN {<<c, [up EXCEPT !.n = @ + 1, !.phase = IF c.finish = "" THEN @ ELSE "end"]>> : c \in GeminiChunks}
    ELSE {}

\* The events of an output item, in order; a reasoning item may have a summary,
\* a message has one part of text.
ItemEvents(i, kind) ==
    LET e(type, k) == AEvent(type, i, k, <<>>)
        added == e("response.output_item.added", kind)
        done == e("response.output_item.done", kind)
    IN  CASE kind = "message" ->
                 <<added, e("response.content_part.added", ""), e("response.output_text.delta", ""),
                   e("response.output_text.delta", ""), e("response.output_text.done", ""),
                   e("response.content_part.done", ""), done>>
          [] kind = "reasoning" ->
                 <<added, e("response.reasoning_summary_part", ""), e("response.reasoning_summary_part", "text"), done>>
          [] OTHER -> <<added, done>>

ResponsesUpstream ==
    CASE up.phase = "new" ->
             {<<AEvent("response.created", 0, "", <<>>), [up EXCEPT !.phase = "between"]>>}
      [] up.phase = "between" ->
             {<<ItemEvents(up.n, k)[1], [up EXCEPT !.phase = "block", !.kind = k, !.deltas = 1]>> :
                 k \in IF up.n < MaxBlocks THEN {"reasoning", "message", "function_call"} ELSE {}}
             \union {<<AEvent("response.completed", 0, "", <<u>>), [up EXCEPT !.phase = "closing"]>> : u \in Usages}
      [] up.phase = "block" ->
             LET events == ItemEvents(up.n, up.kind)
                 last == up.deltas + 1 = Len(events)
             IN  {<<events[up.deltas + 1],
                    IF last THEN [up EXCEPT !.phase = "between", !.n = @ + 1]
                    ELSE [up EXCEPT !.deltas = @ + 1]>>}
      [] up.phase = "closing" -> {<<AEvent("[DONE]", 0, "", <<>>), [up EXCEPT !.phase = "end"]>>}
      [] up.phase = "end" -> {}

WholeUpstream ==
    IF up.phase = "new"
    THEN {<<[type |-> "response", blocks |-> b], [up EXCEPT !.phase = "end"]>> :
             b \in UNION {[1..n -> {"text", "tool_use"}] : n \in 0..MaxBlocks}}
    ELSE {}

Upstream ==
    CASE path.from = "anthropic" -> AnthropicUpstream
      [] path.from = "openai" -> OpenAIUpstream
      [] path.from = "gemini" -> GeminiUpstream
      [] path.from = "responses" -> ResponsesUpstream
      [] path.from = "whole" -> WholeUpstream

\* The upstream has said that its answer is complete.
UpstreamComplete == up.phase \in {"closing", "end"} /\ (path.from = "anthropic" => up.phase = "end")

-----------------------------------------------------------------------------
(* The relay: every line is passed on as it is; the extractors read the    *)
(* usage from the events that carry it.                                    *)

extractAnthropicTokens(s, e) ==
    CASE e.usage = <<>> -> s
      [] e.usage # <<>> /\ e.type = "message_start" ->
             [s EXCEPT !.tokens.input = e.usage[1].input, !.tokens.created = e.usage[1].created,
                       !.tokens.cached = e.usage[1].cached]
      [] e.usage # <<>> /\ e.type = "message_delta" ->
             [s EXCEPT !.tokens.output = e.usage[1].output]

\* Cached tokens are part of the prompt and are taken out of the input.
NetUsage(s, usage) ==
    IF usage = <<>> THEN s
    ELSE LET net == usage[1].prompt - usage[1].cached
         IN  [s EXCEPT !.tokens.input = IF net < 0 THEN 0 ELSE net,
                       !.tokens.output = usage[1].completion, !.tokens.cached = usage[1].cached,
                       !.tokens.reasoning = usage[1].reasoning]

extractOpenAITokens(s, e) == IF e.type = "[DONE]" THEN s ELSE NetUsage(s, e.usage)

extractResponsesTokens(s, e) == IF e.type = "response.completed" THEN NetUsage(s, e.usage) ELSE s

RelaySSEStream(s, e) ==
    WriteEvent(CASE path.from = "anthropic" -> extractAnthropicTokens(s, e)
                 [] path.from = "openai" -> extractOpenAITokens(s, e)
                 [] path.from = "responses" -> extractResponsesTokens(s, e), e)

-----------------------------------------------------------------------------
(* The function the path names, applied to one upstream event, and what it *)
(* does when the upstream's body ends.                                     *)

TrInit(p) ==
    CASE p.from = p.to \/ p.from = "whole" -> SynthInit
      [] p = [from |-> "openai", to |-> "anthropic"] -> ReverseInit
      [] p = [from |-> "responses", to |-> "anthropic"] -> FromResponsesInit
      [] p = [from |-> "gemini", to |-> "anthropic"] -> GeminiAnthropicInit
      [] p = [from |-> "anthropic", to |-> "openai"] -> AnthropicOpenAIInit
      [] p = [from |-> "responses", to |-> "openai"] -> ResponsesOpenAIInit
      [] p = [from |-> "gemini", to |-> "openai"] -> GeminiOpenAIInit
      [] p = [from |-> "gemini", to |-> "responses"] -> GeminiResponsesInit
      [] OTHER -> ToResponsesInit

Handle(s, e) ==
    CASE path.from = path.to -> RelaySSEStream(s, e)
      [] path = [from |-> "whole", to |-> "anthropic"] -> SynthesizeAnthropicSSE(s, e.blocks)
      [] path = [from |-> "whole", to |-> "openai"] -> SynthesizeOpenAISSE(s, e.blocks)
      [] path = [from |-> "whole", to |-> "responses"] -> SynthesizeResponsesSSE(s, e.blocks)
      [] path = [from |-> "openai", to |-> "anthropic"] ->
             ReverseEvent(s, e)
      [] path = [from |-> "responses", to |-> "anthropic"] -> ResponsesSSEToAnthropicSSE(s, e)
      [] path = [from |-> "gemini", to |-> "anthropic"] -> GeminiAnthropicChunk(s, e)
      [] path = [from |-> "anthropic", to |-> "openai"] -> OpenAIStream(s, e)
      [] path = [from |-> "responses", to |-> "openai"] -> ResponsesSSEToOpenAISSE(s, e)
      [] path = [from |-> "gemini", to |-> "openai"] -> GeminiOpenAIChunk(s, e)
      [] path = [from |-> "anthropic", to |-> "responses"] -> AnthropicSSEToResponsesSSE(s, e)
      [] path = [from |-> "openai", to |-> "responses"] ->
             IF e.type = "[DONE]" THEN OpenAIResponsesDone(s) ELSE OpenAIResponsesChunk(s, e)
      [] path = [from |-> "gemini", to |-> "responses"] -> GeminiResponsesChunk(s, e)

AtEnd(s) ==
    CASE path = [from |-> "gemini", to |-> "anthropic"] -> GeminiAnthropicEnd(s)
      [] path = [from |-> "gemini", to |-> "openai"] -> GeminiOpenAIEnd(s)
      [] path = [from |-> "gemini", to |-> "responses"] -> GeminiResponsesEnd(s)
      [] path.from = "openai" /\ path.to # "openai" -> EstimateReasoning(s)
      [] OTHER -> s

-----------------------------------------------------------------------------
(* Clients.  `broken': some event broke the order its format prescribes.   *)

NewClient == [phase |-> "new", open |-> {}, closed |-> {}, texts |-> 0, tools |-> 0, broken |-> FALSE]

Expect(c, ok) == [c EXCEPT !.broken = @ \/ ~ok]

Kinds(c) == {b[2] : b \in c.open}
Indices(S) == {b[1] : b \in S}

AnthropicClient(c, e) ==
    CASE e.type = "message_start" -> [Expect(c, c.phase = "new") EXCEPT !.phase = "open"]
      [] e.type = "content_block_start" ->
             LET fresh == c.phase = "open" /\ e.index \notin Indices(c.open \union c.closed)
             IN  [Expect(c, fresh) EXCEPT !.open = @ \union {<<e.index, e.kind>>}]
      [] e.type = "content_block_delta" ->
             LET c1 == Expect(c, <<e.index, e.kind>> \in c.open)
             IN  [c1 EXCEPT !.texts = IF e.kind = "text" THEN @ + 1 ELSE @]
      [] e.type = "content_block_stop" ->
             LET c1 == Expect(c, e.index \in Indices(c.open))
                 stopped == {b \in c.open : b[1] = e.index}
             IN  [c1 EXCEPT !.open = @ \ stopped, !.closed = @ \union stopped]
      [] e.type = "message_delta" ->
             [Expect(c, c.phase = "open" /\ c.open = {}) EXCEPT !.phase = "delta"]
      [] e.type = "message_stop" -> [Expect(c, c.phase = "delta") EXCEPT !.phase = "end"]
      [] e.type = "ping" -> c

OpenAIClient(c, e) ==
    CASE e.type = "chunk" ->
             LET ok == CASE e.kind = "role" -> c.phase = "new"
                         [] e.kind = "text" -> c.phase = "open"
                         [] e.kind = "reasoning" -> c.phase = "open" /\ c.texts = 0
                 c1 == Expect(c, ok)
             IN  [c1 EXCEPT !.phase = "open", !.texts = IF e.kind = "text" THEN @ + 1 ELSE @]
      [] e.type = "tool_start" ->
             LET c1 == Expect(c, c.phase = "open" /\ e.index <= c.tools)
             IN  [c1 EXCEPT !.tools = IF e.index \in {None, @} THEN @ + 1 ELSE @]
      [] e.type = "tool_delta" -> Expect(c, c.phase = "open" /\ e.index < c.tools)
      [] e.type = "finish" -> [Expect(c, c.phase = "open") EXCEPT !.phase = "delta"]
      [] e.type = "[DONE]" -> [Expect(c, c.phase \in {"delta", "end"}) EXCEPT !.phase = "end"]

\* A message item may be finished without having been announced: an Anthropic
\* message that holds only thinking is translated so.
ResponsesClient(c, e) ==
    CASE e.type = "response.created" -> [Expect(c, c.phase = "new") EXCEPT !.phase = "open"]
      [] e.type = "response.output_item.added" ->
             LET fresh == /\ c.phase = "open"
                          /\ e.index \notin Indices(c.open \union c.closed)
                          /\ "reasoning" \notin Kinds(c)
             IN  [Expect(c, fresh) EXCEPT !.open = @ \union {<<e.index, e.kind>>}]
      [] e.type = "response.reasoning_summary_part" ->
             Expect(c, <<e.index, "reasoning">> \in c.open)
      [] e.type = "response.output_item.done" ->
             LET item == <<e.index, e.kind>>
                 unannounced == e.kind = "message" /\ e.index \notin Indices(c.open \union c.closed)
             IN  [Expect(c, item \in c.open \/ unannounced)
                     EXCEPT !.open = @ \ {item}, !.closed = @ \union {item}]
      [] e.type = "response.completed" ->
             LET ok == c.phase = "open" /\ Kinds(c) \subseteq {"function_call"}
             IN  [Expect(c, ok) EXCEPT !.phase = "end"]
      [] e.type = "[DONE]" -> Expect(c, c.phase = "end")
      [] OTHER ->
             LET c1 == Expect(c, <<e.index, "message">> \in c.open)
             IN  [c1 EXCEPT !.texts = IF e.type = "response.output_text.delta" THEN @ + 1 ELSE @]

\* A relayed stream is what the upstream sent: only whether it came to its end is looked at.
Terminal == {"message_stop", "response.completed", "[DONE]"}

Receives(c, e) ==
    CASE path.from = path.to -> [c EXCEPT !.phase = IF e.type \in Terminal THEN "end" ELSE "open"]
      [] path.from # path.to /\ path.to = "anthropic" -> AnthropicClient(c, e)
      [] path.from # path.to /\ path.to = "openai" -> OpenAIClient(c, e)
      [] path.from # path.to /\ path.to = "responses" -> ResponsesClient(c, e)

-----------------------------------------------------------------------------
NewUpstream == [phase |-> "new", n |-> 0, kind |-> "", deltas |-> 0]

Init ==
    /\ path \in Paths
    /\ up = NewUpstream
    /\ tr = TrInit(path)
    /\ client = NewClient
    /\ stage = "reading"
    /\ seen = [texts |-> 0, usage |-> <<>>, reasoned |-> FALSE, late |-> FALSE]

\* The text deltas of an event, as far as the target can carry them.
Texts(e) ==
    CASE path.from = path.to -> 0
      [] path.from = "anthropic" -> IF e.type = "content_block_delta" /\ e.kind = "text" THEN 1 ELSE 0
      [] path.from = "openai" ->
             (IF e.text THEN 1 ELSE 0) + (IF e.refusal /\ path.to = "anthropic" THEN 1 ELSE 0)
      [] path.from = "gemini" -> IF e.part = "text" THEN 1 ELSE 0
      [] path.from = "responses" -> IF e.type = "response.output_text.delta" THEN 1 ELSE 0
      [] path.from = "whole" ->
             LET texts == {i \in DOMAIN e.blocks : e.blocks[i] = "text"}
             IN  IF path.to = "openai" THEN Cardinality({"text" : i \in texts}) ELSE Cardinality(texts)

\* What the client has made of the first n events that are written, for every n.
Delivered(c, events) ==
    LET after[n \in 0..Len(events)] == IF n = 0 THEN c ELSE Receives(after[n - 1], events[n])
    IN  after

\* Writing stops at the first write that fails: the client has left, and the
\* function returns what it has counted so far.
Writes(t, next) ==
    \E n \in 0..Len(t.emit) :
        /\ client' = Delivered(client, t.emit)[n]
        /\ tr' = [t EXCEPT !.emit = <<>>]
        /\ stage' = IF n = Len(t.emit) THEN next ELSE "client_gone"

\* One turn of the loop.
Receive ==
    /\ stage = "reading"
    /\ UNCHANGED path
    /\ \E next \in Upstream :
           /\ up' = next[2]
           /\ LET reasons == path.from = "openai" /\ next[1].think
              IN  seen' = [texts |-> seen.texts + Texts(next[1]),
                           usage |-> IF path.from # "whole" /\ next[1].usage # <<>>
                                     THEN next[1].usage ELSE seen.usage,
                           reasoned |-> seen.reasoned \/ reasons,
                           late |-> seen.late \/ (reasons /\ ~seen.reasoned /\ seen.texts > 0)]
           /\ Writes(Handle(tr, next[1]), "reading")

\* The scanner stops: the body has ended, the request was cancelled, the
\* upstream reset the connection, or the read failed otherwise.
Stop ==
    /\ stage = "reading"
    /\ \E why \in {"eof", "cancelled", "upstream_reset", "broken"} : Writes(AtEnd(tr), why)
    /\ UNCHANGED <<path, up, seen>>

\* The handler has returned.
Returned == stage # "reading" /\ UNCHANGED vars

Next == Receive \/ Stop \/ Returned

Spec == Init /\ [][Next]_vars

-----------------------------------------------------------------------------
(* Properties.                                                             *)

\* Whatever the upstream sends and wherever it stops, a translated stream keeps
\* the order its format prescribes.  Anthropic: every block is started once, gets
\* only deltas of its own kind and is stopped before message_delta; message_stop
\* is last.  Chat Completions: the role comes first, tool-call indices have no
\* gaps, arguments follow the start of their call, no reasoning follows text, and
\* only [DONE] follows the finish reason.  Responses: no index is announced
\* twice, nothing while a reasoning item is open, text only goes to the open
\* message item, and response.completed finds neither kind open.  (Only an OpenAI
\* upstream that begins to reason after it has begun to answer gets a Responses
\* client an item under the index of the message.)
StreamsWellFormed == client.broken => path.to = "responses" /\ seen.late

\* A client only sees a finished answer if the upstream finished its own: a
\* stream that breaks off half way is not passed off as complete.  (The Gemini
\* translators close the message however the body ends.)
TerminalMeansComplete ==
    path.from # "gemini" /\ client.phase = "end" => UpstreamComplete

\* Every text delta of the upstream reaches the client exactly once, whatever
\* was suppressed around it, as long as the client is there to read it.
NoTextLost ==
    stage = "reading" /\ path.from # path.to => client.texts = seen.texts

\* The tokens a stream is billed for are those the upstream reported last, even
\* if the client left in the middle of it.
UsageIsLastReported ==
    (seen.usage # <<>> /\ path.from \in {"openai", "responses"}) =>
        /\ tr.tokens.output = seen.usage[1].completion
        /\ tr.tokens.cached = seen.usage[1].cached
=============================================================================
