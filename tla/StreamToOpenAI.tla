--------------------------- MODULE StreamToOpenAI ---------------------------
(***************************************************************************)
(* The translators that produce a Chat Completions stream: SSEStream (from *)
(* Anthropic), ResponsesSSEToOpenAISSE and GeminiSSEToOpenAISSE.           *)
(***************************************************************************)
EXTENDS SSE

-----------------------------------------------------------------------------
(* Anthropic -> OpenAI.  An event is [type, index, kind, usage]; the kind  *)
(* of a block or of a delta is "thinking", "text" or "tool_use".           *)

AnthropicOpenAIInit ==
    [emit |-> <<>>, started |-> FALSE, thinking |-> {}, textSeen |-> FALSE,
     calls |-> <<>>, tokens |-> NoTokens, thought |-> 0]

StartUsage(s, usage) ==
    IF usage = <<>> THEN s
    ELSE [s EXCEPT !.tokens.input = usage[1].input, !.tokens.created = usage[1].created,
                   !.tokens.cached = usage[1].cached]

OpenAIMessageStart(s, e) ==
    LET u == StartUsage(s, e.usage)
    IN  IF u.started THEN u ELSE writeSSEChunk([u EXCEPT !.started = TRUE], "role")

\* A tool_use block gets the next tool-call index; `calls' holds the block
\* indices in that order.
OpenAIBlockStart(s, e) ==
    CASE e.kind = "thinking" -> [s EXCEPT !.thinking = @ \union {e.index}]
      [] e.kind = "text" -> [s EXCEPT !.textSeen = TRUE]
      [] e.kind = "tool_use" ->
             writeToolCallStartChunk([s EXCEPT !.calls = Append(@, e.index)], Len(s.calls))

OpenAIBlockDelta(s, e) ==
    CASE e.index \in s.thinking ->
             IF e.kind = "thinking" /\ ~s.textSeen THEN writeSSEChunk(s, "reasoning") ELSE s
      [] e.index \notin s.thinking /\ e.kind = "text" -> writeSSEChunk(s, "text")
      [] e.index \notin s.thinking /\ e.kind = "tool_use" ->
             IF \E k \in DOMAIN s.calls : s.calls[k] = e.index
             THEN LET k == CHOOSE k \in DOMAIN s.calls : s.calls[k] = e.index
                  IN  writeToolCallDeltaChunk(s, k - 1)
             ELSE s

OpenAIMessageDelta(s, e) ==
    LET u == IF e.usage = <<>> THEN s ELSE [s EXCEPT !.tokens.output = e.usage[1].output]
    IN  buildChunk(u, e.kind)

OpenAIStream(s, e) ==
    CASE e.type = "message_start" -> OpenAIMessageStart(s, e)
      [] e.type = "content_block_start" -> OpenAIBlockStart(s, e)
      [] e.type = "content_block_delta" -> OpenAIBlockDelta(s, e)
      [] e.type = "content_block_stop" -> s
      [] e.type = "message_delta" -> OpenAIMessageDelta(s, e)
      [] e.type = "message_stop" -> WriteEvent(s, Done)

-----------------------------------------------------------------------------
(* Responses -> OpenAI: only the text is passed on.                        *)

ResponsesOpenAIInit ==
    [emit |-> <<>>, started |-> FALSE, tokens |-> NoTokens, thought |-> 0]

ResponsesSSEToOpenAISSE(s, e) ==
    CASE e.type = "response.created" ->
             IF s.started THEN s ELSE writeSSEChunk([s EXCEPT !.started = TRUE], "role")
      [] e.type = "response.output_text.delta" -> writeSSEChunk(s, "text")
      [] e.type = "response.completed" ->
             WriteEvent(buildChunk(TakeUsage(s, e.usage), "stop"), Done)
      [] e.type = "[DONE]" -> WriteEvent(s, Done)
      [] OTHER -> s

-----------------------------------------------------------------------------
(* Gemini -> OpenAI.  A call is one chunk that holds the index, the name   *)
(* and all the arguments; calls of one function share one index.           *)

GeminiOpenAIInit ==
    [emit |-> <<>>, started |-> FALSE, tools |-> [t \in ToolSlots |-> None],
     next |-> 0, finish |-> "stop", tokens |-> NoTokens, thought |-> 0]

GeminiOpenAICall(s, c) ==
    LET o == IF s.tools[c.name] = None
             THEN [s EXCEPT !.tools[c.name] = s.next, !.next = @ + 1] ELSE s
    IN  writeToolCallStartChunk(o, o.tools[c.name])

GeminiOpenAIFinish(s, c) ==
    LET called == \E t \in ToolSlots : s.tools[t] # None
    IN  CASE c.finish = "" -> s
          [] c.finish = "MAX_TOKENS" -> [s EXCEPT !.finish = "length"]
          [] c.finish = "STOP" -> [s EXCEPT !.finish = IF called THEN "tool_calls" ELSE "stop"]

GeminiOpenAIChunk(s, c) ==
    LET u == IF c.usage = <<>> THEN s ELSE [s EXCEPT !.tokens = UsageTotals(c.usage[1])]
        m == IF u.started THEN u ELSE writeSSEChunk([u EXCEPT !.started = TRUE], "role")
        f == GeminiOpenAIFinish(m, c)
    IN  CASE c.part = "none" -> f
          [] c.part = "text" -> writeSSEChunk(f, "text")
          [] c.part = "call" -> GeminiOpenAICall(f, c)

GeminiOpenAIEnd(s) ==
    IF ~s.started THEN s
    ELSE LET called == \E t \in ToolSlots : s.tools[t] # None
             reason == IF called /\ s.finish = "stop" THEN "tool_calls" ELSE s.finish
         IN  WriteEvent(buildChunk(s, reason), Done)
=============================================================================
