------------------------- MODULE ConversationProofs -------------------------
(***************************************************************************)
(* Proofs about Conversation: what holds of the numbers in a request and   *)
(* in its log entry for every history, options, usage and mix of formats.  *)
(***************************************************************************)
EXTENDS Conversation, TLAPS

\* Budgets: the request that is out came from options the client sent, and keeps the limit.
BudgetInv ==
  /\ client \in Clients
  /\ opts \in Options
  /\ BudgetBelowMaxTokens

\* The budget made of an effort is below any limit of at least 2, and the default limit is one.
LEMMA EffortBudgetBelowLimit ==
  ASSUME NEW effort, NEW max \in Nat, max > 1
  PROVE  effortToBudgetTokens(effort, max) \in Nat /\ effortToBudgetTokens(effort, max) < max
<1> DEFINE b == IF effort \in DOMAIN EffortBudget THEN EffortBudget[effort] ELSE 5000
<1>1. b \in Nat
  BY DEF EffortBudget
<1> HIDE DEF b
<1>2. effortToBudgetTokens(effort, max) = Most(IF max > 0 /\ b >= max THEN max - 1 ELSE b, 1)
  BY DEF effortToBudgetTokens, b
<1> QED
  BY <1>1, <1>2 DEF Most

\* A canonical request of an OpenAI or a Responses client carries no budget of its own.
LEMMA OtherClientsSetNoBudget ==
  ASSUME NEW c \in {"openai", "responses"}, NEW o, NEW msgs
  PROVE  /\ RequestToCanonical(c, o, msgs).budget = 0
         /\ RequestToCanonical(c, o, msgs).max = o.max
BY DEF RequestToCanonical, OpenAIRequestToCanonical, ResponsesRequestToCanonical

LEMMA TranslatedBudgetBelowLimit ==
  ASSUME NEW c, c.budget = 0, c.max \in Nat,
         CanonicalToAnthropicRequest(c).budget > 0, CanonicalToAnthropicRequest(c).max > 1
  PROVE  CanonicalToAnthropicRequest(c).budget < CanonicalToAnthropicRequest(c).max
<1> DEFINE max == IF c.max = 0 THEN defaultMaxTokens ELSE c.max
<1>1. max \in Nat
  BY DEF defaultMaxTokens
<1>2. CanonicalToAnthropicRequest(c).max = max
  BY DEF CanonicalToAnthropicRequest
<1>3. CanonicalToAnthropicRequest(c).budget
        = IF c.budget = 0 /\ c.effort # "" THEN effortToBudgetTokens(c.effort, max) ELSE c.budget
  BY DEF CanonicalToAnthropicRequest
<1> HIDE DEF max
<1>4. CASE c.budget = 0 /\ c.effort # ""
  <2>1. CanonicalToAnthropicRequest(c).budget = effortToBudgetTokens(c.effort, max)
    BY <1>3, <1>4, Zenon
  <2> QED
    BY <1>1, <1>2, <2>1, EffortBudgetBelowLimit
<1>5. CASE ~(c.budget = 0 /\ c.effort # "")
  <2>1. CanonicalToAnthropicRequest(c).budget = 0
    BY <1>3, <1>5, Zenon
  <2> QED
    BY <2>1
<1> QED
  BY <1>4, <1>5

LEMMA BudgetInvInit == ConversationInit => BudgetInv
BY DEF ConversationInit, BudgetInv, BudgetBelowMaxTokens

LEMMA BudgetInvStep == BudgetInv /\ [ConversationNext]_conversationVars => BudgetInv'
<1> SUFFICES ASSUME BudgetInv, [ConversationNext]_conversationVars
             PROVE  BudgetInv'
  OBVIOUS
<1> USE ConversationAssumption DEF BudgetInv
<1>1. ASSUME NEW r \in Routes, ServeHTTP(r)
      PROVE  BudgetInv'
  <2>1. client' \in Clients /\ opts' \in Options
    BY <1>1 DEF ServeHTTP
  <2>2. ASSUME phase' = "sent", route'.api = "anthropic", client' # "anthropic", req'.budget > 0, req'.max > 1
        PROVE  req'.budget < req'.max
    <3>1. route' = r /\ req' = RouteRequest(r) /\ r.api = "anthropic" /\ client \in {"openai", "responses"}
      BY <1>1, <2>2 DEF ServeHTTP
    <3> DEFINE c == RequestToCanonical(client, opts, history)
               t == CanonicalToAnthropicRequest(c)
    <3>2. req'.budget = t.budget /\ req'.max = t.max
      BY <3>1 DEF RouteRequest, CanonicalToRequest
    <3>3. c.budget = 0 /\ c.max \in Nat
      BY <3>1, OtherClientsSetNoBudget
    <3> HIDE DEF c, t
    <3>4. t.budget > 0 /\ t.max > 1 => t.budget < t.max
      BY <3>3, TranslatedBudgetBelowLimit DEF t
    <3> QED
      BY <2>2, <3>2, <3>4
  <2> QED
    BY <2>1, <2>2 DEF BudgetBelowMaxTokens
<1>2. ASSUME NEW gate, ServeHTTPRejects(gate)
      PROVE  BudgetInv'
  BY <1>2 DEF ServeHTTPRejects, BudgetBelowMaxTokens
<1>3. ASSUME NEW bs, NEW sig, NEW stop, NEW u, NEW retried, HandleResponse(bs, sig, stop, u, retried)
      PROVE  BudgetInv'
  BY <1>3 DEF HandleResponse, BudgetBelowMaxTokens
<1>4. ASSUME NEW status, NEW retried, HandleBadResponse(status, retried)
      PROVE  BudgetInv'
  BY <1>4 DEF HandleBadResponse, BudgetBelowMaxTokens
<1>5. ASSUME Continue
      PROVE  BudgetInv'
  BY <1>5 DEF Continue, BudgetBelowMaxTokens
<1>6. ASSUME UNCHANGED conversationVars
      PROVE  BudgetInv'
  BY <1>6 DEF conversationVars, BudgetBelowMaxTokens
<1> QED
  BY <1>1, <1>2, <1>3, <1>4, <1>5, <1>6 DEF ConversationNext

\* Every thinking budget derived from an effort is below the limit it is sent with
\* (effortToBudgetTokens), for every effort and every limit that leaves room for one.
THEOREM BudgetStaysBelowMaxTokens == ConversationSpec => []BudgetBelowMaxTokens
<1>1. BudgetInv => BudgetBelowMaxTokens
  BY DEF BudgetInv
<1> QED
  BY BudgetInvInit, BudgetInvStep, <1>1, PTL DEF ConversationSpec
------------------------------------------------------------------------------
(* Usage. *)

\* The usage of an answer of an Anthropic or a Gemini provider, as it should be logged.
LoggedOnce(a) == [input |-> a.usage.prompt - a.usage.cached, cached |-> a.usage.cached]

UsageInv ==
  /\ client \in Clients
  /\ phase = "sent" => route \in Routes
  /\ UsageExact

LEMMA ExtractedOnce ==
  ASSUME NEW a, a.parses, a.usage.prompt \in Nat, a.usage.cached \in 0..a.usage.prompt
  PROVE  extractTokens(a) = LoggedOnce(a)
<1>1. Most(a.usage.prompt - a.usage.cached, 0) = a.usage.prompt - a.usage.cached
  BY DEF Most
<1> QED
  BY <1>1 DEF extractTokens, LoggedOnce

\* Every handler that reads an answer of one of the two logs its usage once.
LEMMA HandlersLogOnce ==
  ASSUME client \in {"anthropic", "openai", "responses"}, NEW api \in {"anthropic", "gemini"}, NEW synthesized \in BOOLEAN,
         NEW a, a.status = 200, a.parses, a.usage.prompt \in Nat, a.usage.cached \in 0..a.usage.prompt
  PROVE  Handle(api, a, synthesized).record = LoggedOnce(a)
<1>1. \A u, r : Handled(a, u, r) = r
  BY DEF Handled
<1>2. \A reply0 : Extracted(reply0, a).record = LoggedOnce(a)
  BY ExtractedOnce DEF Extracted, Result, LoggedOnce
<1>3. \A reply0 : Result(reply0, AnthropicResponseToCanonical(a).input, AnthropicResponseToCanonical(a).cached).record
                    = LoggedOnce(a)
  BY DEF Result, AnthropicResponseToCanonical, LoggedOnce
<1>4. CASE api = "anthropic" /\ client = "anthropic"
  BY <1>1, <1>2, <1>4 DEF Handle, AnthropicRoute, handleNonStreaming, Forwarded
<1>5. CASE api = "anthropic" /\ client = "openai"
  BY <1>1, <1>3, <1>5 DEF Handle, OpenAIRoute, handleOpenAINonStreaming
<1>6. CASE api = "anthropic" /\ client = "responses"
  BY <1>1, <1>3, <1>6 DEF Handle, ResponsesRoute, handleAnthropicProviderNonStreaming
<1>7. CASE api = "gemini" /\ client = "anthropic"
  BY <1>1, <1>2, <1>7 DEF Handle, AnthropicRoute, handleGeminiProviderForcedStream, handleGeminiProviderNonStreaming
<1>8. CASE api = "gemini" /\ client = "openai"
  BY <1>1, <1>2, <1>8 DEF Handle, OpenAIRoute, handleGeminiForcedStreamToCC, handleGeminiNonStreamingToCC
<1>9. CASE api = "gemini" /\ client = "responses"
  BY <1>1, <1>2, <1>9 DEF Handle, ResponsesRoute, handleGeminiForcedStreamToResponses, handleGeminiNonStreamingToResponses
<1> QED
  BY <1>4, <1>5, <1>6, <1>7, <1>8, <1>9

\* An error, or a body that cannot be read, logs nothing or zeros.
LEMMA BadAnswersLogNothing ==
  ASSUME client \in {"anthropic", "openai", "responses"}, NEW api \in {"anthropic", "gemini"}, NEW synthesized \in BOOLEAN,
         NEW a, ~a.parses
  PROVE  Handle(api, a, synthesized).record \in {None, [input |-> 0, cached |-> 0]}
<1>1. \A u, r : Handled(a, u, r) \in {Passed(a), u}
  BY DEF Handled
<1>2. Passed(a).record = None /\ BadGateway.record = None
  BY DEF Passed, BadGateway
<1>3. extractTokens(a) = [input |-> 0, cached |-> 0]
  BY DEF extractTokens
<1>4. \A stop0 : Empty(stop0, extractTokens(a)).record = [input |-> 0, cached |-> 0]
  BY <1>3 DEF Empty
<1>5. CASE api = "anthropic" /\ client = "anthropic"
  BY <1>1, <1>2, <1>4, <1>5 DEF Handle, AnthropicRoute, handleNonStreaming, Forwarded
<1>6. CASE api = "anthropic" /\ client = "openai"
  BY <1>1, <1>2, <1>6 DEF Handle, OpenAIRoute, handleOpenAINonStreaming
<1>7. CASE api = "anthropic" /\ client = "responses"
  BY <1>1, <1>2, <1>7 DEF Handle, ResponsesRoute, handleAnthropicProviderNonStreaming
<1>8. CASE api = "gemini" /\ client = "anthropic"
  BY <1>1, <1>2, <1>4, <1>8 DEF Handle, AnthropicRoute, handleGeminiProviderForcedStream, handleGeminiProviderNonStreaming
<1>9. CASE api = "gemini" /\ client = "openai"
  BY <1>1, <1>2, <1>4, <1>9 DEF Handle, OpenAIRoute, handleGeminiForcedStreamToCC, handleGeminiNonStreamingToCC
<1>10. CASE api = "gemini" /\ client = "responses"
  BY <1>1, <1>2, <1>4, <1>10 DEF Handle, ResponsesRoute, handleGeminiForcedStreamToResponses, handleGeminiNonStreamingToResponses
<1> QED
  BY <1>5, <1>6, <1>7, <1>8, <1>9, <1>10

LEMMA UsageInvInit == ConversationInit => UsageInv
BY DEF ConversationInit, UsageInv, UsageExact

LEMMA UsageInvStep == UsageInv /\ [ConversationNext]_conversationVars => UsageInv'
<1> SUFFICES ASSUME UsageInv, [ConversationNext]_conversationVars
             PROVE  UsageInv'
  OBVIOUS
<1> USE ConversationAssumption DEF UsageInv
<1>1. ASSUME NEW r \in Routes, ServeHTTP(r)
      PROVE  UsageInv'
  BY <1>1 DEF ServeHTTP, UsageExact
<1>2. ASSUME NEW gate, ServeHTTPRejects(gate)
      PROVE  UsageInv'
  BY <1>2 DEF ServeHTTPRejects, UsageExact
<1>3. ASSUME NEW bs \in Answers, NEW sig \in Signatures, NEW stop \in Stops, NEW u \in Usages, NEW retried \in BOOLEAN,
             HandleResponse(bs, sig, stop, u, retried)
      PROVE  UsageInv'
  <2> DEFINE a == [status |-> 200, parses |-> TRUE, blocks |-> Identified(route.api, Carried(route.api, bs), sig),
                   stop |-> stop, usage |-> u]
  <2>1. /\ client' = client /\ route' = route /\ phase' = "answered" /\ phase = "sent" /\ answer' = a
        /\ record' = None \/ record' = Handle(route.api, a, route.stream).record
    BY <1>3 DEF HandleResponse
  <2>2. a.status = 200 /\ a.parses /\ a.usage = u
    OBVIOUS
  <2>3. route.stream \in BOOLEAN /\ u.prompt \in Nat /\ u.cached \in 0..u.prompt
    BY <2>1 DEF Routes
  <2> HIDE DEF a
  <2>4. ASSUME record' # None, route.api \in {"anthropic", "gemini"}
        PROVE  record'.input + record'.cached = u.prompt /\ record'.cached = u.cached
    <3>1. record' = LoggedOnce(a)
      BY <2>1, <2>2, <2>3, <2>4, HandlersLogOnce
    <3>2. record'.input = u.prompt - u.cached /\ record'.cached = u.cached
      BY <3>1, <2>2 DEF LoggedOnce
    <3> QED
      BY <3>2, <2>3
  <2> QED
    BY <2>1, <2>2, <2>4 DEF UsageExact
<1>4. ASSUME NEW status \in {200, 400, 529}, NEW retried \in BOOLEAN, HandleBadResponse(status, retried)
      PROVE  UsageInv'
  <2> DEFINE a == [status |-> status, parses |-> FALSE, blocks |-> <<>>, stop |-> "unset",
                   usage |-> [prompt |-> 0, cached |-> 0]]
             synthesized == route.stream /\ status < 400
  <2>1. /\ client' = client /\ route' = route /\ phase' # "sent" /\ phase = "sent" /\ answer' = a
        /\ record' = Handle(route.api, a, synthesized).record
    BY <1>4 DEF HandleBadResponse
  <2>2. ~a.parses /\ a.usage.prompt = 0 /\ a.usage.cached = 0 /\ synthesized \in BOOLEAN
    OBVIOUS
  <2> HIDE DEF a, synthesized
  <2>3. ASSUME record' # None, route.api \in {"anthropic", "gemini"}
        PROVE  record' = [input |-> 0, cached |-> 0]
    BY <2>1, <2>2, <2>3, BadAnswersLogNothing
  <2>4. ASSUME record' # None, route.api \in {"anthropic", "gemini"}
        PROVE  record'.input + record'.cached = 0 /\ record'.cached = 0
    BY <2>3, <2>4
  <2> QED
    BY <2>1, <2>2, <2>4 DEF UsageExact
<1>5. ASSUME Continue
      PROVE  UsageInv'
  BY <1>5 DEF Continue, UsageExact
<1>6. ASSUME UNCHANGED conversationVars
      PROVE  UsageInv'
  BY <1>6 DEF conversationVars, UsageExact
<1> QED
  BY <1>1, <1>2, <1>3, <1>4, <1>5, <1>6 DEF ConversationNext

\* What an Anthropic or a Gemini provider counts is logged exactly once (extractTokens, UsageTotals),
\* whatever it counts, whichever client asked and however many turns went before.
THEOREM UsageLoggedExactly == ConversationSpec => []UsageExact
<1>1. UsageInv => UsageExact
  BY DEF UsageInv
<1> QED
  BY UsageInvInit, UsageInvStep, <1>1, PTL DEF ConversationSpec
=============================================================================
