------------------------- MODULE StreamToResponses -------------------------
(***************************************************************************)
(* The translators that produce a Responses API stream:                    *)
(* AnthropicSSEToResponsesSSE, OpenAISSEToResponsesSSE and                 *)
(* GeminiSSEToResponsesSSE.  Whatever is not thinking becomes the one      *)
(* message item.                                                           *)
(***************************************************************************)
EXTENDS SSE

\* State shared by the first two: the item being reasoned about, and what has
\* been announced of the message item.
ToResponsesInit ==
    [emit |-> <<>>, created |-> FALSE, item |-> FALSE, part |-> FALSE,
     inThinking |-> FALSE, thinkClosed |-> FALSE, textSeen |-> FALSE, index |-> 0,
     reasoned |-> <<>>, tokens |-> NoTokens, thought |-> 0]

SendCreated(s) ==
    IF s.created THEN s
    ELSE WriteEvent([s EXCEPT !.created = TRUE], Ev("response.created", 0, ""))

AddReasoning(s) ==
    WriteEvent([s EXCEPT !.inThinking = TRUE],
               Ev("response.output_item.added", s.index, "reasoning"))

\* Mutant of CloseReasoning: the message would reuse the reasoning item's index.
CloseReasoningKeepsIndex(s) ==
    LET o == WriteEvent(WriteEvent(s, Ev("response.reasoning_summary_part", s.index, "text")),
                        Ev("response.output_item.done", s.index, "reasoning"))
    IN  [o EXCEPT !.reasoned = Append(@, s.index)]

CloseReasoning(s) ==
    LET o == WriteEvent(WriteEvent(s, Ev("response.reasoning_summary_part", s.index, "text")),
                        Ev("response.output_item.done", s.index, "reasoning"))
    IN  [o EXCEPT !.reasoned = Append(@, s.index), !.index = @ + 1]

AddMessage(s) ==
    LET o == IF s.item THEN s
             ELSE WriteEvent([s EXCEPT !.item = TRUE],
                             Ev("response.output_item.added", s.index, "message"))
    IN  IF o.part THEN o
        ELSE WriteEvent([o EXCEPT !.part = TRUE], Ev("response.content_part.added", o.index, ""))

ResponsesText(s) == WriteEvent(s, Ev("response.output_text.delta", s.index, ""))

CloseText(s) ==
    IF ~s.part THEN s
    ELSE WriteEvent(WriteEvent(s, Ev("response.output_text.done", s.index, "")),
                    Ev("response.content_part.done", s.index, ""))

CloseMessage(s) == WriteEvent(s, Ev("response.output_item.done", s.index, "message"))

\* response.completed lists the reasoning items and then the message.
Complete(s) ==
    WriteEvent(WriteEvent(s, Ev("response.completed", Len(s.reasoned) + 1, "")), Done)

-----------------------------------------------------------------------------
(* Anthropic -> Responses.                                                 *)

ResponsesMessageStart(s, e) ==
    SendCreated(IF e.usage = <<>> THEN s
                ELSE [s EXCEPT !.tokens.input = e.usage[1].input,
                               !.tokens.created = e.usage[1].created,
                               !.tokens.cached = e.usage[1].cached])

\* A thinking block that starts after text has started is suppressed.
ResponsesBlockStart(s, e) ==
    CASE e.kind = "thinking" /\ s.textSeen -> [s EXCEPT !.inThinking = FALSE]
      [] e.kind = "thinking" /\ ~s.textSeen -> AddReasoning(s)
      [] OTHER -> AddMessage([s EXCEPT !.inThinking = FALSE, !.textSeen = TRUE])

ResponsesBlockDelta(s, e) ==
    CASE s.inThinking /\ e.kind = "thinking" -> s
      [] e.kind = "text" -> ResponsesText(s)
      [] OTHER -> s

ResponsesBlockStop(s) ==
    IF s.inThinking THEN [CloseReasoning(s) EXCEPT !.inThinking = FALSE] ELSE CloseText(s)

AnthropicSSEToResponsesSSE(s, e) ==
    CASE e.type = "message_start" -> ResponsesMessageStart(s, e)
      [] e.type = "content_block_start" -> ResponsesBlockStart(s, e)
      [] e.type = "content_block_delta" -> ResponsesBlockDelta(s, e)
      [] e.type = "content_block_stop" -> ResponsesBlockStop(s)
      [] e.type = "message_delta" ->
             CloseMessage(IF e.usage = <<>> THEN s
                          ELSE [s EXCEPT !.tokens.output = e.usage[1].output])
      [] e.type = "message_stop" -> Complete(s)

-----------------------------------------------------------------------------
(* OpenAI -> Responses.  Refusals and tool calls are dropped.              *)

ReasoningOpen(s) == s.inThinking /\ ~s.thinkClosed

EndReasoning(s) ==
    IF ReasoningOpen(s) THEN [CloseReasoning(s) EXCEPT !.thinkClosed = TRUE] ELSE s

OpenAIResponsesThinking(s, c) ==
    IF ~c.think \/ s.thinkClosed THEN s
    ELSE [(IF s.inThinking THEN s ELSE AddReasoning(s)) EXCEPT !.thought = @ + 1]

OpenAIResponsesText(s, c) ==
    IF c.text THEN ResponsesText(AddMessage(EndReasoning(s))) ELSE s

OpenAIResponsesChunk(s, c) ==
    LET u == IF c.usage = <<>> THEN s
             ELSE [TakeUsage(s, c.usage) EXCEPT !.tokens.reasoning = c.usage[1].reasoning]
    IN  OpenAIResponsesText(OpenAIResponsesThinking(SendCreated(u), c), c)

OpenAIResponsesDone(s) ==
    LET t == CloseText(EndReasoning(s))
    IN  Complete(IF t.item THEN CloseMessage(t) ELSE t)

-----------------------------------------------------------------------------
(* Gemini -> Responses.  The message item is announced at once; a call is  *)
(* an item of its own, already complete, after it.  No [DONE] is sent.     *)

GeminiResponsesInit ==
    [emit |-> <<>>, created |-> FALSE, part |-> FALSE, next |-> 0, index |-> 0,
     tokens |-> NoTokens, thought |-> 0]

GeminiResponsesStart(s) ==
    IF s.created THEN s
    ELSE WriteEvent(SendCreated(s), Ev("response.output_item.added", 0, "message"))

GeminiResponsesText(s) ==
    ResponsesText(IF s.part THEN s
                  ELSE WriteEvent([s EXCEPT !.part = TRUE], Ev("response.content_part.added", 0, "")))

GeminiResponsesCall(s) ==
    WriteEvent([s EXCEPT !.next = @ + 1],
               Ev("response.output_item.added", s.next + 1, "function_call"))

GeminiResponsesChunk(s, c) ==
    LET u == IF c.usage = <<>> THEN s ELSE [s EXCEPT !.tokens = UsageTotals(c.usage[1])]
        m == GeminiResponsesStart(u)
    IN  CASE c.part = "none" -> m
          [] c.part = "text" -> GeminiResponsesText(m)
          [] c.part = "call" -> GeminiResponsesCall(m)

GeminiResponsesEnd(s) ==
    IF ~s.created THEN s
    ELSE WriteEvent(CloseMessage(CloseText(s)), Ev("response.completed", 1, ""))
=============================================================================
