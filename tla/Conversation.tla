---------------------------- MODULE Conversation ----------------------------
(***************************************************************************)
(* A client's conversation through the proxy, turn by turn: the client     *)
(* sends its whole history in its own format, the format's handler checks  *)
(* it, builds the route for the provider the chain picks, translates the   *)
(* request, and translates or forwards the provider's answer; the client   *)
(* puts the answer and the results of its tool calls into the history.     *)
(* Every turn may be served by a provider of another API: another model,   *)
(* or a fallback.  (internal/proxy/{anthropic,openai,responses}_handler.go *)
(* over the converters of Translation; streamed answers are in StreamRelay *)
(* and enter here as the blocks they carry.)                               *)
(***************************************************************************)
EXTENDS Translation, FiniteSets

CONSTANTS Clients,      \* the formats of the clients, among anthropic, openai, responses
          APIs,         \* the formats of the providers, those three and gemini
          Openings,     \* the contents of the first message
          Options,      \* the options the client repeats in every request
          Answers,      \* the blocks of an answer, calls named but without an id
          Stops,        \* why a provider stops
          Usages,       \* what it counts
          MaxTurns      \* bound on the requests of a conversation

\* What Anthropic and Gemini report as cached is part of the prompt they counted.
ASSUME ConversationAssumption ==
  /\ Clients \subseteq {"anthropic", "openai", "responses"}
  /\ APIs \subseteq {"anthropic", "openai", "responses", "gemini"}
  /\ \A o \in Options : o.max \in Nat /\ o.budget \in Nat
  /\ \A u \in Usages : u.prompt \in Nat /\ u.cached \in 0..u.prompt

VARIABLES client, opts,
          history,      \* the messages the client sends, in its format
          turn,         \* requests sent
          phase,        \* "client", "sent", "answered", "refused"
          route,        \* the route of the request that is out
          req,          \* the request as the provider sees it
          answer,       \* the provider's answer
          reply,        \* the answer as the client sees it
          record        \* what the log entry counts

conversationVars == <<client, opts, history, turn, phase, route, req, answer, reply, record>>

None == [none |-> TRUE]

\* A user message in the client's format: a Responses client sends media and audio as items.
UserMessages(c, bs) ==
  IF c # "responses" THEN <<Msg("user", bs)>>
  ELSE [i \in 1..Len(bs) |-> Msg(IF bs[i].kind = "text" THEN "user" ELSE "item", <<bs[i]>>)]

ConversationInit ==
  /\ client \in Clients
  /\ opts \in Options
  /\ \E bs \in Openings : history = UserMessages(client, bs)
  /\ turn = 0
  /\ phase = "client"
  /\ route = None /\ req = None /\ answer = None /\ reply = None /\ record = None

------------------------------------------------------------------------------
(* Requests *)

\* A handler's own checks, in order, each an early return with its status.  Only the Responses handler
\* asks for an input; the allowlist and the budget are skipped when their store fails.
Gate(name, status) == [name |-> name, status |-> status]
AnthropicServeHTTP ==
  <<Gate("method", 405), Gate("bodySize", 413), Gate("json", 400), Gate("model", 400), Gate("unknownModel", 400),
    Gate("allowlist", 403), Gate("budget", 429)>>
OpenAIServeHTTP == AnthropicServeHTTP
ResponsesServeHTTP == SubSeq(AnthropicServeHTTP, 1, 4) \o <<Gate("input", 400)>> \o SubSeq(AnthropicServeHTTP, 5, 7)
Gates == CASE client = "anthropic" -> AnthropicServeHTTP
           [] client = "openai" -> OpenAIServeHTTP
           [] client = "responses" -> ResponsesServeHTTP

\* Where the provider's stream:false is honoured: the Gemini routes and the Anthropic handler's OpenAI route.
AnthropicForces(api) == api \in {"openai", "gemini"}
OpenAIForces(api) == api = "gemini"
ResponsesForces(api) == api = "gemini"
Forced(r) ==
  /\ r.stream
  /\ r.force
  /\ CASE client = "anthropic" -> AnthropicForces(r.api)
       [] client = "openai" -> OpenAIForces(r.api)
       [] client = "responses" -> ResponsesForces(r.api)
IsStreaming(r) == r.stream /\ ~Forced(r)

\* A native route changes the model's name only; the others translate.  A streamed Chat
\* Completions request asks for its usage; forcing clears stream afterwards.
RouteRequest(r) ==
  LET t == IF client = r.api
           THEN [system |-> opts.system, max |-> opts.max, budget |-> opts.budget, effort |-> opts.effort,
                 choice |-> opts.choice, messages |-> history]
           ELSE CanonicalToRequest(r.api, RequestToCanonical(client, opts, history))
  IN  [system |-> t.system, max |-> t.max, budget |-> t.budget, effort |-> t.effort, choice |-> t.choice,
       messages |-> t.messages, stream |-> IsStreaming(r), includeUsage |-> r.api = "openai" /\ r.stream]

ServeHTTPRejects(gate) ==
  /\ phase = "client"
  /\ turn < MaxTurns
  /\ gate \in Range(Gates)
  /\ phase' = "refused"
  /\ reply' = [status |-> gate.status]
  /\ UNCHANGED <<client, opts, history, turn, route, req, answer, record>>

ServeHTTP(r) ==
  /\ phase = "client"
  /\ turn < MaxTurns
  /\ turn' = turn + 1
  /\ IF client # r.api /\ TranslationFails(client, r.api, opts, history)
     THEN /\ phase' = "refused"
          /\ reply' = [status |-> 400]
          /\ UNCHANGED <<route, req>>
     ELSE /\ phase' = "sent"
          /\ route' = r
          /\ req' = RouteRequest(r)
          /\ UNCHANGED reply
  /\ UNCHANGED <<client, opts, history, answer, record>>

------------------------------------------------------------------------------
(* What the handlers make of a body the provider client has read.  An answer *)
(* is [status, parses, blocks, stop, usage]; a result the reply and what the *)
(* log entry counts.                                                         *)

Passed(a) == [reply |-> [status |-> a.status], record |-> None]
BadGateway == [reply |-> [status |-> 502], record |-> None]
\* A body that cannot be read becomes an answer without content.
Empty(stop, tokens) == [reply |-> [blocks |-> <<>>, stop |-> stop, prompt |-> 0, cached |-> 0], record |-> tokens]
Result(reply0, input, cached) == [reply |-> reply0, record |-> [input |-> input, cached |-> cached]]
Handled(a, unreadable, result) == IF a.status >= 400 THEN Passed(a) ELSE IF ~a.parses THEN unreadable ELSE result

\* What the provider client takes from a body: the prompt net of its cached part.
extractTokens(a) ==
  IF a.parses THEN [input |-> Most(a.usage.prompt - a.usage.cached, 0), cached |-> a.usage.cached]
  ELSE [input |-> 0, cached |-> 0]
Uncached(tokens) == [tokens EXCEPT !.cached = 0]
Extracted(reply0, a) == Result(reply0, extractTokens(a).input, extractTokens(a).cached)
\* A native route forwards the body as it is.
Forwarded(a) ==
  Handled(a, Empty("forwarded", extractTokens(a)),
          Extracted([blocks |-> a.blocks, stop |-> a.stop, prompt |-> a.usage.prompt, cached |-> a.usage.cached], a))

handleNonStreaming(a) == Forwarded(a)
handleOpenAIProviderNonStreaming(a) ==
  LET t == CanonicalToAnthropicResponse(OpenAIResponseToCanonical(a)) IN Handled(a, BadGateway, Result(t, t.prompt, t.cached))
\* The synthesized stream counts the translated usage.
handleOpenAIProviderForcedStream(a) ==
  LET t == CanonicalToAnthropicResponse(OpenAIResponseToCanonical(a)) IN Handled(a, BadGateway, Result(t, t.prompt, t.cached))
handleResponsesProviderNonStreaming(a) ==
  LET t == CanonicalToAnthropicResponse(ResponsesResponseToCanonical(a))
  IN  Handled(a, Empty("error", [input |-> 0, cached |-> 0]), Result(t, t.prompt, t.cached))
handleGeminiProviderNonStreaming(a) ==
  Handled(a, Empty("endTurn", extractTokens(a)), Extracted(CanonicalToAnthropicResponse(GeminiResponseToCanonical(a)), a))
handleGeminiProviderForcedStream(a) ==
  Handled(a, Empty("endTurn", extractTokens(a)), Extracted(CanonicalToAnthropicResponse(GeminiResponseToCanonical(a)), a))

handleOpenAINonStreaming(a) ==
  LET c == AnthropicResponseToCanonical(a) IN Handled(a, BadGateway, Result(CanonicalToOpenAIResponse(c), c.input, c.cached))
handleOpenAINativeNonStreaming(a) == Forwarded(a)
handleResponsesProviderNonStreamingToCC(a) ==
  LET t == CanonicalToOpenAIResponse(ResponsesResponseToCanonical(a))
  IN  Handled(a, Empty("unset", extractTokens(a)), Result(t, extractTokens(a).input, 0))
handleGeminiNonStreamingToCC(a) ==
  Handled(a, Empty("endTurn", extractTokens(a)), Extracted(CanonicalToOpenAIResponse(GeminiResponseToCanonical(a)), a))
handleGeminiForcedStreamToCC(a) ==
  Handled(a, Empty("endTurn", extractTokens(a)), Extracted(CanonicalToOpenAIResponse(GeminiResponseToCanonical(a)), a))

handleResponsesNonStreaming(a) == Forwarded(a)
handleAnthropicProviderNonStreaming(a) ==
  LET c == AnthropicResponseToCanonical(a) IN Handled(a, BadGateway, Result(CanonicalToResponsesResponse(c), c.input, c.cached))
handleOpenAICCProviderNonStreaming(a) ==
  LET t == CanonicalToResponsesResponse(OpenAIResponseToCanonical(a))
  IN  Handled(a, Empty("failed", extractTokens(a)), Result(t, extractTokens(a).input, 0))
handleGeminiNonStreamingToResponses(a) ==
  Handled(a, Empty("failed", extractTokens(a)), Extracted(CanonicalToResponsesResponse(GeminiResponseToCanonical(a)), a))
handleGeminiForcedStreamToResponses(a) ==
  Handled(a, Empty("failed", extractTokens(a)), Extracted(CanonicalToResponsesResponse(GeminiResponseToCanonical(a)), a))

\* The route builders' HandleResponse: an error goes to the handler of whole bodies, a stream that is
\* forced, or that the Gemini client fell back from, to the one that synthesizes it.
AnthropicRoute(api, a, synthesized) ==
  CASE api = "anthropic" -> handleNonStreaming(a)
    [] api = "openai" -> IF synthesized THEN handleOpenAIProviderForcedStream(a) ELSE handleOpenAIProviderNonStreaming(a)
    [] api = "responses" -> handleResponsesProviderNonStreaming(a)
    [] api = "gemini" -> IF synthesized THEN handleGeminiProviderForcedStream(a) ELSE handleGeminiProviderNonStreaming(a)
OpenAIRoute(api, a, synthesized) ==
  CASE api = "anthropic" -> handleOpenAINonStreaming(a)
    [] api = "openai" -> handleOpenAINativeNonStreaming(a)
    [] api = "responses" -> handleResponsesProviderNonStreamingToCC(a)
    [] api = "gemini" -> IF synthesized THEN handleGeminiForcedStreamToCC(a) ELSE handleGeminiNonStreamingToCC(a)
ResponsesRoute(api, a, synthesized) ==
  CASE api = "anthropic" -> handleAnthropicProviderNonStreaming(a)
    [] api = "openai" -> handleOpenAICCProviderNonStreaming(a)
    [] api = "responses" -> handleResponsesNonStreaming(a)
    [] api = "gemini" -> IF synthesized THEN handleGeminiForcedStreamToResponses(a) ELSE handleGeminiNonStreamingToResponses(a)
Handle(api, a, synthesized) ==
  CASE client = "anthropic" -> AnthropicRoute(api, a, synthesized)
    [] client = "openai" -> OpenAIRoute(api, a, synthesized)
    [] client = "responses" -> ResponsesRoute(api, a, synthesized)

------------------------------------------------------------------------------
(* Answers *)

\* The ids a provider gives its calls: fresh ones, except Gemini, which gives none but may sign.
Identified(api, bs, sig) ==
  [i \in 1..Len(bs) |->
     IF bs[i].kind # "toolUse" THEN bs[i]
     ELSE IF api = "gemini" THEN [bs[i] EXCEPT !.src = IF sig = "none" THEN NoSig ELSE <<sig, turn>>]
     ELSE [bs[i] EXCEPT !.id = [base |-> 10 * turn + i, sig |-> NoSig]]]
\* The order and the number of the blocks a format can carry in one answer.
Carried(api, bs) ==
  CASE api = "openai" -> openAIAssistantMessageToCanonical(Msg("assistant", bs)).blocks
    [] api = "anthropic" -> Keep(bs, {"text", "thinking", "toolUse"})
    [] api = "gemini" -> Keep(bs, {"text", "thinking", "toolUse"})
    [] OTHER -> bs

\* The ids of a stream's calls: numbered among the calls when Gemini made them (toolu_000000 for an
\* Anthropic client, call_000000 for the others), never cut.  No answer here calls a function twice.
StreamedIDs(api, bs) ==
  LET calls == Kind(bs, "toolUse")
  IN  [i \in 1..Len(calls) |->
         IF api = "gemini" THEN EncodeToolCallID(IF client = "anthropic" THEN i - 1 ELSE 99 + i, calls[i].src) ELSE calls[i].id]
StreamedReply(api, a) ==
  LET t == Handle(api, a, FALSE).reply
      CallNo(i) == Len(Kind(SubSeq(t.blocks, 1, i), "toolUse"))
  IN  [t EXCEPT !.blocks = [i \in 1..Len(@) |->
         IF @[i].kind = "toolUse" THEN [@[i] EXCEPT !.id = StreamedIDs(api, a.blocks)[CallNo(i)]] ELSE @[i]]]

\* retried: the Gemini client repeated a refused stream request without streaming.
SendRequestRetries(retried) == retried => route.api = "gemini" /\ IsStreaming(route)

HandleResponse(bs, sig, stop, usage, retried) ==
  LET api == route.api
      a == [status |-> 200, parses |-> TRUE, blocks |-> Identified(api, Carried(api, bs), sig), stop |-> stop, usage |-> usage]
      streamed == IsStreaming(route) /\ ~retried
  IN  /\ phase = "sent"
      /\ SendRequestRetries(retried)
      /\ sig # "none" => api = "gemini"
      /\ phase' = "answered"
      /\ answer' = a
      /\ reply' = IF streamed THEN StreamedReply(api, a) ELSE Handle(api, a, route.stream).reply
      /\ record' = IF streamed THEN None ELSE Handle(api, a, route.stream).record
      /\ UNCHANGED <<client, opts, history, turn, route, req>>

\* An error status, or a body that cannot be read, of a request that was not streamed.
HandleBadResponse(status, retried) ==
  LET a == [status |-> status, parses |-> FALSE, blocks |-> <<>>, stop |-> "unset", usage |-> [prompt |-> 0, cached |-> 0]]
      r == Handle(route.api, a, route.stream /\ status < 400)
  IN  /\ phase = "sent"
      /\ SendRequestRetries(retried)
      /\ status < 400 => ~IsStreaming(route) \/ retried
      /\ retried => status < 400
      /\ phase' = IF "blocks" \in DOMAIN r.reply THEN "answered" ELSE "refused"
      /\ answer' = a
      /\ reply' = r.reply
      /\ record' = r.record
      /\ UNCHANGED <<client, opts, history, turn, route, req>>

------------------------------------------------------------------------------
(* The client *)

\* What the client answers a call with; the token tells which function's result it is.
ResultOf(b) == ToolResult(b.id, <<b.name>>)
AssistantMessages(bs) ==
  IF bs = <<>> THEN <<>>
  ELSE IF client # "responses" THEN <<Msg("assistant", bs)>>
  ELSE LET said == Keep(bs, {"text", "refusal"})
           calls == Kind(bs, "toolUse")
       IN  (IF said = <<>> THEN <<>> ELSE <<Msg("assistant", said)>>)
           \o [i \in 1..Len(calls) |-> Msg("item", <<calls[i]>>)]
ResultMessages(bs) ==
  LET results == [i \in 1..Len(Kind(bs, "toolUse")) |-> ResultOf(Kind(bs, "toolUse")[i])]
  IN  IF client = "anthropic"
      THEN <<Msg("user", Append(results, Block("text", <<"more">>)))>>
      ELSE [i \in 1..Len(results) |-> Msg(IF client = "openai" THEN "tool" ELSE "item", <<results[i]>>)]
           \o <<Msg("user", <<Block("text", <<"more">>)>>)>>

Continue ==
  /\ phase = "answered"
  /\ turn < MaxTurns
  /\ history' = history \o AssistantMessages(reply.blocks) \o ResultMessages(reply.blocks)
  /\ phase' = "client"
  /\ route' = None /\ req' = None /\ answer' = None /\ reply' = None /\ record' = None
  /\ UNCHANGED <<client, opts, turn>>

Signatures == {"none", "short", "long"}
Routes == {r \in [api : APIs, stream : BOOLEAN, force : BOOLEAN] : r.force => r.stream}

ConversationNext ==
  \/ \E gate \in Range(ResponsesServeHTTP) : ServeHTTPRejects(gate)
  \/ \E r \in Routes : ServeHTTP(r)
  \/ \E bs \in Answers, sig \in Signatures, stop \in Stops, u \in Usages, retried \in BOOLEAN :
       HandleResponse(bs, sig, stop, u, retried)
  \/ \E status \in {200, 400, 529}, retried \in BOOLEAN : HandleBadResponse(status, retried)
  \/ Continue

ConversationSpec == ConversationInit /\ [][ConversationNext]_conversationVars

------------------------------------------------------------------------------
(* Properties *)

Content(msgs) == FlattenSeq([i \in 1..Len(msgs) |-> msgs[i].blocks])
\* What the user's side says, its words and its results in order; what the assistant said; what it called.
UserSide(msgs) ==
  LET heard == Keep(Content(SelectSeq(msgs, LAMBDA m : m.role \notin {"assistant", "model"})), {"text", "toolResult"})
  IN  FlattenSeq([i \in 1..Len(heard) |-> heard[i].body])
AssistantText(msgs) == Joined(Content(SelectSeq(msgs, LAMBDA m : m.role \in {"assistant", "model"})), "text")
CallNames(bs) == [i \in 1..Len(Kind(bs, "toolUse")) |-> Kind(bs, "toolUse")[i].name]
IDs(bs, k) == [i \in 1..Len(Kind(bs, k)) |-> Kind(bs, k)[i].id]

\* Whatever the two formats, and whichever providers served the earlier turns, the words of both
\* sides, the calls and the results all reach the provider, in the order the client sent them:
\* a message that is split, merged or re-ordered by a converter loses and moves nothing
\* (canonicalUserToOpenAI, canonicalMessageToOpenAI, canonicalMessageToResponsesInput).
HistoryReachesProvider ==
  phase = "sent" =>
    /\ UserSide(req.messages) = UserSide(history)
    /\ AssistantText(req.messages) = AssistantText(history)
    /\ CallNames(Content(req.messages)) = CallNames(Content(history))

\* In a request to a provider whose API links calls and results by id, the results carry the ids of
\* the calls, call by call, however the ids were made or cut on the way through earlier turns
\* (sanitizeAnthropicToolID on both sides, EncodeToolCallID).
ResultsAnswerCalls ==
  phase = "sent" /\ route.api # "gemini" =>
    IDs(Content(req.messages), "toolResult") = IDs(Content(req.messages), "toolUse")

\* Everything a provider says reaches the client: its words and its refusals, joined or not, and
\* its calls in order; and an answer that was cut at the token limit, and holds no call, is never
\* shown as a finished one (CanonicalTo*Response and the stop reason maps of canonical_*.go).
AnswerReachesClient ==
  phase = "answered" =>
    /\ Joined(reply.blocks, "text") \o Joined(reply.blocks, "refusal")
         = Joined(answer.blocks, "text") \o Joined(answer.blocks, "refusal")
    /\ CallNames(reply.blocks) = CallNames(answer.blocks)
    /\ answer.stop = "maxTokens" /\ Kind(answer.blocks, "toolUse") = <<>> =>
         reply.stop \in {"maxTokens", "incomplete"}

\* A thinking budget derived from an effort stays below max_tokens, as Anthropic requires, down to
\* the smallest limit that leaves room for one, which is 2 (effortToBudgetTokens, helpers.go:266).
BudgetBelowMaxTokens ==
  phase = "sent" /\ route.api = "anthropic" /\ client # "anthropic" /\ req.budget > 0 /\ req.max > 1 =>
    req.budget < req.max

\* What an Anthropic or a Gemini provider counts is logged once: the prompt net of its cached part,
\* and the cached part, whichever client asked (CanonicalUsage, UsageTotals).
UsageExact ==
  phase = "answered" /\ record # None /\ route.api \in {"anthropic", "gemini"} =>
    record.input + record.cached = answer.usage.prompt /\ record.cached = answer.usage.cached
=============================================================================
