---------------------------- MODULE Translation ----------------------------
(***************************************************************************)
(* The canonical converters: what becomes of a chat request and of its     *)
(* answer between the client's format and the provider's                   *)
(* (internal/translate, canonical_*.go, helpers.go, delegations.go).       *)
(*                                                                         *)
(* A message in any of the four formats is [role, blocks].  A block is a   *)
(* piece of content: text, thinking and refusals carry a sequence of       *)
(* tokens (<<>> is the empty string), a call an id and a function name, a  *)
(* result the id it answers, an image or a document where its bytes come   *)
(* from.  The fields of an OpenAI assistant message have no order; they    *)
(* are listed reasoning, content, refusal, tool_calls.                     *)
(***************************************************************************)
EXTENDS Integers, Sequences, SequencesExt

NoSig == <<"none", 0>>
NoID == [base |-> 0, sig |-> NoSig]
Block(kind, body) == [kind |-> kind, id |-> NoID, name |-> "", body |-> body, src |-> "none"]
Media(kind, src) == [Block(kind, <<>>) EXCEPT !.src = src]
ToolUse(id, name) == [Block("toolUse", <<>>) EXCEPT !.id = id, !.name = name]
ToolResult(id, body) == [Block("toolResult", body) EXCEPT !.id = id]
Msg(role, blocks) == [role |-> role, blocks |-> blocks]

\* The blocks of a kind, their joined text, and a field that is left out when it is empty.
Kind(bs, k) == SelectSeq(bs, LAMBDA b : b.kind = k)
Keep(bs, ks) == SelectSeq(bs, LAMBDA b : b.kind \in ks)
Joined(bs, k) == FlattenSeq([i \in 1..Len(Kind(bs, k)) |-> Kind(bs, k)[i].body])
Latest(bs, k) == IF Kind(bs, k) = <<>> THEN <<>> ELSE Last(Kind(bs, k)).body
Field(k, body) == IF body = <<>> THEN <<>> ELSE <<Block(k, body)>>
Each(bs, op(_)) == FlattenSeq([i \in 1..Len(bs) |-> op(bs[i])])

------------------------------------------------------------------------------
(* Tool call ids.  A Gemini thought signature travels inside the id; an id   *)
(* sent in Anthropic's format is cut to 64 characters, which leaves a short  *)
(* signature whole and truncates a long one (the rest still decodes).  A     *)
(* signature is its length and the turn it was given in.                     *)

EncodeToolCallID(base, sig) == [base |-> base, sig |-> sig]
DecodedSignature(id) == id.sig
sanitizeAnthropicToolID(id) == IF id.sig[1] = "long" THEN [id EXCEPT !.sig[1] = "cut"] ELSE id

------------------------------------------------------------------------------
(* Thinking budgets and efforts *)

Least(a, b) == IF a < b THEN a ELSE b
Most(a, b) == IF a > b THEN a ELSE b
defaultMaxTokens == 4096
EffortBudget == [low |-> 1024, medium |-> 5000, high |-> 10000]
\* Mutant: the budget is lowered only when it exceeds the limit.
effortToBudgetTokensAllowsEqual(effort, max) ==
  LET b == IF effort \in DOMAIN EffortBudget THEN EffortBudget[effort] ELSE 5000
  IN  Most(IF max > 0 /\ b > max THEN max - 1 ELSE b, 1)
effortToBudgetTokens(effort, max) ==
  LET b == IF effort \in DOMAIN EffortBudget THEN EffortBudget[effort] ELSE 5000
  IN  Most(IF max > 0 /\ b >= max THEN max - 1 ELSE b, 1)
budgetTokensToEffort(b) == IF b <= 2000 THEN "low" ELSE IF b <= 7000 THEN "medium" ELSE "high"

------------------------------------------------------------------------------
(* Requests into canonical form.  The options of a request: the parts of its *)
(* system prompt, max_tokens (0 when absent), the thinking budget (0) or     *)
(* effort (""), the tool choice ("" when absent) and whether a tool that is  *)
(* no function is offered.                                                   *)

AnthropicKinds == {"text", "image", "document", "toolUse", "toolResult", "thinking"}

\* extractAnthropicSystem drops Anthropic's own metadata blocks.
extractAnthropicSystem(parts) == SelectSeq(parts, LAMBDA p : p # "x-anthropic")

AnthropicRequestToCanonical(opts, msgs) ==
  [system |-> extractAnthropicSystem(opts.system), max |-> opts.max, budget |-> opts.budget,
   effort |-> IF opts.budget > 0 THEN budgetTokensToEffort(opts.budget) ELSE "",
   choice |-> IF opts.choice \in {"", "required", "specific"} THEN opts.choice ELSE "auto",
   messages |-> [i \in 1..Len(msgs) |-> Msg(msgs[i].role, Keep(msgs[i].blocks, AnthropicKinds))]]

\* A data URI without a comma keeps its block and loses its source; an empty URL drops it.
OpenAIPart(b) ==
  CASE b.kind = "text" -> <<b>>
    [] b.kind = "image" /\ b.src # "none" -> <<Media("image", IF b.src = "bad" THEN "none" ELSE b.src)>>
    [] b.kind = "document" /\ b.src # "none" -> <<Media("document", IF b.src = "data" THEN "data" ELSE "none")>>
    [] OTHER -> <<>>
openAIUserMessageToCanonical(m) == Msg("user", Each(m.blocks, OpenAIPart))
openAIAssistantMessageToCanonical(m) ==
  Msg("assistant", Field("thinking", Joined(m.blocks, "thinking")) \o Field("text", Joined(m.blocks, "text"))
                   \o Field("refusal", Joined(m.blocks, "refusal")) \o Kind(m.blocks, "toolUse"))
OpenAIMessage(m) ==
  CASE m.role = "user" -> openAIUserMessageToCanonical(m)
    [] m.role = "assistant" -> openAIAssistantMessageToCanonical(m)
    [] m.role = "tool" -> Msg("user", m.blocks)
OpenAIRequestToCanonical(opts, msgs) ==
  [system |-> opts.system, max |-> opts.max, budget |-> 0, effort |-> opts.effort, choice |-> opts.choice,
   messages |-> [i \in 1..Len(msgs) |-> OpenAIMessage(msgs[i])]]

\* parseImageURL keeps a malformed data URI as a plain URL.
parseImageURL(b) == IF b.src = "none" THEN <<>> ELSE <<Media("image", IF b.src = "bad" THEN "url" ELSE b.src)>>
ResponsesPart(b) ==
  CASE b.kind = "image" -> parseImageURL(b)
    [] b.kind = "text" -> <<b>>
    [] OTHER -> <<Block("text", <<>>)>>
responsesMessageItemToCanonical(m) == <<Msg(m.role, Each(m.blocks, ResponsesPart))>>
\* input_file takes data from a data URI only; file_data of any other form leaves the document empty.
ResponsesFile(b) == Media("document", IF b.src = "bad" THEN "none" ELSE b.src)
ResponsesItem(m) ==
  IF m.role # "item" THEN responsesMessageItemToCanonical(m)
  ELSE LET b == Head(m.blocks)
       IN  CASE b.kind = "toolUse" -> <<Msg("assistant", <<b>>)>>
             [] b.kind \in {"toolResult", "audio"} -> <<Msg("user", <<b>>)>>
             [] b.kind = "image" -> LET p == parseImageURL(b) IN IF p = <<>> THEN <<>> ELSE <<Msg("user", p)>>
             [] b.kind = "document" -> <<Msg("user", <<ResponsesFile(b)>>)>>
\* An item of another type, or an image without a URL, is refused.
ResponsesInputOK(msgs) ==
  \A i \in 1..Len(msgs) :
    msgs[i].role = "item" =>
      LET b == Head(msgs[i].blocks)
      IN  b.kind \in {"toolUse", "toolResult", "audio", "image", "document"} /\ ~(b.kind = "image" /\ b.src = "none")
ResponsesRequestToCanonical(opts, msgs) ==
  [system |-> opts.system, max |-> opts.max, budget |-> 0, effort |-> opts.effort, choice |-> opts.choice,
   messages |-> Each(msgs, ResponsesItem)]

------------------------------------------------------------------------------
(* Canonical requests into the provider's format *)

\* Mutant: only the calls' ids are cut.
AnthropicBlockCallsOnly(b) ==
  IF b.kind = "toolUse" THEN <<[b EXCEPT !.id = sanitizeAnthropicToolID(b.id)]>>
  ELSE Keep(<<b>>, AnthropicKinds)
AnthropicBlock(b) ==
  IF b.kind \in {"toolUse", "toolResult"} THEN <<[b EXCEPT !.id = sanitizeAnthropicToolID(b.id)]>>
  ELSE Keep(<<b>>, AnthropicKinds)
canonicalMessageToAnthropic(m) == Msg(m.role, Each(m.blocks, AnthropicBlock))
canonicalToolChoiceToAnthropic(choice) == IF choice = "none" THEN "" ELSE choice
HasAudio(c) == \E i \in 1..Len(c.messages) : Kind(c.messages[i].blocks, "audio") # <<>>
CanonicalToAnthropicRequest(c) ==
  LET max == IF c.max = 0 THEN defaultMaxTokens ELSE c.max
  IN  [system |-> c.system, max |-> max, effort |-> "", choice |-> canonicalToolChoiceToAnthropic(c.choice),
       budget |-> IF c.budget = 0 /\ c.effort # "" THEN effortToBudgetTokens(c.effort, max) ELSE c.budget,
       messages |-> [i \in 1..Len(c.messages) |-> canonicalMessageToAnthropic(c.messages[i])]]

\* Tool results split a user message: what was gathered is flushed as a message before each.
flushParts(parts) ==
  IF parts = <<>> THEN <<>>
  ELSE IF \A i \in 1..Len(parts) : parts[i].kind = "text" THEN <<Msg("user", <<Block("text", Joined(parts, "text"))>>)>>
  ELSE <<Msg("user", parts)>>
\* Mutant: what follows the last tool result is not flushed.
canonicalUserToOpenAINoFlush(m) ==
  LET Take(acc, b) ==
        CASE b.kind = "toolResult" -> [out |-> acc.out \o flushParts(acc.parts) \o <<Msg("tool", <<b>>)>>, parts |-> <<>>]
          [] b.kind \in {"text", "audio"} \/ (b.kind \in {"image", "document"} /\ b.src # "none") ->
               [acc EXCEPT !.parts = Append(@, b)]
          [] OTHER -> acc
      r == FoldLeft(Take, [out |-> <<>>, parts |-> <<>>], m.blocks)
  IN  IF r.out = <<>> THEN flushParts(r.parts) ELSE r.out
canonicalUserToOpenAI(m) ==
  LET Take(acc, b) ==
        CASE b.kind = "toolResult" -> [out |-> acc.out \o flushParts(acc.parts) \o <<Msg("tool", <<b>>)>>, parts |-> <<>>]
          [] b.kind \in {"text", "audio"} \/ (b.kind \in {"image", "document"} /\ b.src # "none") ->
               [acc EXCEPT !.parts = Append(@, b)]
          [] OTHER -> acc
      r == FoldLeft(Take, [out |-> <<>>, parts |-> <<>>], m.blocks)
  IN  r.out \o flushParts(r.parts)
canonicalMessageToOpenAI(m) ==
  IF m.role = "user" THEN canonicalUserToOpenAI(m)
  ELSE <<Msg("assistant", Field("thinking", Latest(m.blocks, "thinking")) \o Field("text", Joined(m.blocks, "text"))
                          \o Field("refusal", Latest(m.blocks, "refusal")) \o Kind(m.blocks, "toolUse"))>>
CanonicalToOpenAIRequest(c) ==
  [system |-> c.system, max |-> c.max, budget |-> 0, choice |-> c.choice,
   effort |-> IF c.effort = "" /\ c.budget > 0 THEN budgetTokensToEffort(c.budget) ELSE c.effort,
   messages |-> Each(c.messages, canonicalMessageToOpenAI)]

canonicalMessageToResponsesInput(m) ==
  LET Item(b) == CASE b.kind = "text" -> <<Msg(m.role, <<b>>)>>
                   [] b.kind \in {"toolUse", "toolResult"} -> <<Msg("item", <<b>>)>>
                   [] b.kind \in {"image", "document"} /\ b.src # "none" -> <<Msg("item", <<b>>)>>
                   [] OTHER -> <<>>
  IN  Each(m.blocks, Item)
CanonicalToResponsesRequest(c) ==
  [CanonicalToOpenAIRequest(c) EXCEPT !.messages = Each(c.messages, canonicalMessageToResponsesInput)]

\* The function a result answers is looked up by id among all the calls; a later call of that id wins.
Calls(c) == Each(SelectSeq(c.messages, LAMBDA m : m.role = "assistant"), LAMBDA m : Kind(m.blocks, "toolUse"))
toolNameByID(c, id) ==
  LET named == SelectSeq(Calls(c), LAMBDA b : b.id = id)
  IN  IF named = <<>> THEN "" ELSE Last(named).name
canonicalBlocksToGeminiParts(c, bs) ==
  LET Part(b) ==
        CASE b.kind = "text" -> Field("text", b.body)
          [] b.kind \in {"image", "document"} /\ b.src = "data" -> <<b>>
          [] b.kind = "toolUse" -> <<[b EXCEPT !.id = NoID, !.src = DecodedSignature(b.id)]>>
          [] b.kind = "toolResult" -> <<[b EXCEPT !.id = NoID, !.name = toolNameByID(c, b.id)]>>
          [] OTHER -> <<>>
      parts == Each(bs, Part)
  IN  IF parts = <<>> THEN <<Block("text", <<>>)>> ELSE parts
CanonicalToGeminiRequest(c) ==
  [system |-> c.system, max |-> c.max, budget |-> c.budget, effort |-> "", choice |-> "",
   messages |-> [i \in 1..Len(c.messages) |->
                   Msg(IF c.messages[i].role = "assistant" THEN "model" ELSE "user",
                       canonicalBlocksToGeminiParts(c, c.messages[i].blocks))]]

------------------------------------------------------------------------------
(* Answers: [blocks, stop, usage], where usage counts the prompt's tokens,   *)
(* the cached ones among them, and the answer's.                             *)

StopReasons == {"endTurn", "maxTokens", "toolUse", "stopSequence", "contentFilter", "unset", "unknown"}

anthropicStopReasonToCanonical(r) == IF r \in {"endTurn", "maxTokens", "toolUse", "stopSequence", "unset"} THEN r ELSE "unknown"
canonicalStopReasonToAnthropic(r) == IF r = "contentFilter" THEN "endTurn" ELSE r
openAIFinishToCanonical(r) == IF r \in {"maxTokens", "toolUse", "contentFilter", "unset"} THEN r ELSE "endTurn"
canonicalStopReasonToOpenAIFinish(r) == IF r = "stopSequence" THEN "endTurn" ELSE r
responsesStatusToCanonical(status, bs) ==
  IF Kind(bs, "toolUse") # <<>> THEN "toolUse" ELSE IF status = "incomplete" THEN "maxTokens" ELSE "endTurn"
canonicalStopReasonToResponsesStatus(r) == IF r \in {"maxTokens", "contentFilter"} THEN "incomplete" ELSE "completed"
geminiFinishReasonToCanonical(r, bs) ==
  IF r \in {"maxTokens", "contentFilter"} THEN r ELSE IF Kind(bs, "toolUse") # <<>> THEN "toolUse" ELSE "endTurn"

\* Mutant: Anthropic's input_tokens taken to include the cached ones.
AnthropicResponseToCanonicalGross(a) ==
  [blocks |-> Keep(a.blocks, {"text", "thinking", "toolUse"}), stop |-> anthropicStopReasonToCanonical(a.stop),
   input |-> a.usage.prompt, cached |-> a.usage.cached]
AnthropicResponseToCanonical(a) ==
  [blocks |-> Keep(a.blocks, {"text", "thinking", "toolUse"}), stop |-> anthropicStopReasonToCanonical(a.stop),
   input |-> a.usage.prompt - a.usage.cached, cached |-> a.usage.cached]
OpenAIResponseToCanonical(a) ==
  [blocks |-> openAIAssistantMessageToCanonical(a).blocks, stop |-> openAIFinishToCanonical(a.stop),
   input |-> a.usage.prompt, cached |-> a.usage.cached]
ResponsesResponseToCanonical(a) ==
  [blocks |-> Keep(a.blocks, {"text", "refusal", "thinking", "toolUse"}),
   stop |-> responsesStatusToCanonical(canonicalStopReasonToResponsesStatus(a.stop), a.blocks),
   input |-> a.usage.prompt, cached |-> a.usage.cached]
\* A call's id is made up from its place in the answer.
GeminiBlock(b, i) ==
  IF b.kind = "toolUse" THEN <<[b EXCEPT !.id = EncodeToolCallID(i, b.src), !.src = "none"]>>
  ELSE IF b.kind = "text" THEN Field("text", b.body) ELSE Keep(<<b>>, {"thinking"})
GeminiResponseToCanonical(a) ==
  [blocks |-> FlattenSeq([i \in 1..Len(a.blocks) |-> GeminiBlock(a.blocks[i], i - 1)]),
   stop |-> geminiFinishReasonToCanonical(a.stop, a.blocks),
   input |-> a.usage.prompt - Least(a.usage.cached, a.usage.prompt), cached |-> Least(a.usage.cached, a.usage.prompt)]

\* Mutant: a refusal has no place in an Anthropic answer.
AnthropicAnswerBlockNoRefusal(b) ==
  IF b.kind = "toolUse" THEN <<[b EXCEPT !.id = sanitizeAnthropicToolID(b.id)]>>
  ELSE Keep(<<b>>, {"text", "thinking"})
AnthropicAnswerBlock(b) ==
  CASE b.kind = "refusal" -> <<Block("text", b.body)>>
    [] b.kind = "toolUse" -> <<[b EXCEPT !.id = sanitizeAnthropicToolID(b.id)]>>
    [] OTHER -> Keep(<<b>>, {"text", "thinking"})
CanonicalToAnthropicResponse(c) ==
  [blocks |-> Each(c.blocks, AnthropicAnswerBlock), stop |-> canonicalStopReasonToAnthropic(c.stop),
   prompt |-> c.input, cached |-> c.cached]
CanonicalToOpenAIResponse(c) ==
  [blocks |-> Field("thinking", Joined(c.blocks, "thinking")) \o Field("text", Joined(c.blocks, "text"))
              \o Field("refusal", Latest(c.blocks, "refusal")) \o Kind(c.blocks, "toolUse"),
   stop |-> canonicalStopReasonToOpenAIFinish(c.stop), prompt |-> c.input + c.cached, cached |-> c.cached]
CanonicalToResponsesResponse(c) ==
  [blocks |-> Kind(c.blocks, "thinking") \o Keep(c.blocks, {"text", "refusal"}) \o Kind(c.blocks, "toolUse"),
   stop |-> canonicalStopReasonToResponsesStatus(c.stop), prompt |-> c.input + c.cached, cached |-> c.cached]

------------------------------------------------------------------------------
(* The pairwise translations compose the two halves (delegations.go). *)

RequestToCanonical(client, opts, msgs) ==
  CASE client = "anthropic" -> AnthropicRequestToCanonical(opts, msgs)
    [] client = "openai" -> OpenAIRequestToCanonical(opts, msgs)
    [] client = "responses" -> ResponsesRequestToCanonical(opts, msgs)
\* A translation that returns an error, which the handler answers with 400.
TranslationFails(client, api, opts, msgs) ==
  \/ client = "responses" /\ ~ResponsesInputOK(msgs)
  \/ client = "responses" /\ api = "openai" /\ opts.hosted
  \/ api = "anthropic" /\ HasAudio(RequestToCanonical(client, opts, msgs))
CanonicalToRequest(api, c) ==
  CASE api = "anthropic" -> CanonicalToAnthropicRequest(c)
    [] api = "openai" -> CanonicalToOpenAIRequest(c)
    [] api = "responses" -> CanonicalToResponsesRequest(c)
    [] api = "gemini" -> CanonicalToGeminiRequest(c)
ResponseToCanonical(api, a) ==
  CASE api = "anthropic" -> AnthropicResponseToCanonical(a)
    [] api = "openai" -> OpenAIResponseToCanonical(a)
    [] api = "responses" -> ResponsesResponseToCanonical(a)
    [] api = "gemini" -> GeminiResponseToCanonical(a)
CanonicalToResponse(client, c) ==
  CASE client = "anthropic" -> CanonicalToAnthropicResponse(c)
    [] client = "openai" -> CanonicalToOpenAIResponse(c)
    [] client = "responses" -> CanonicalToResponsesResponse(c)
=============================================================================
