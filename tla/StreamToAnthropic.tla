------------------------- MODULE StreamToAnthropic -------------------------
(***************************************************************************)
(* The translators that produce an Anthropic stream: ReverseSSEStream      *)
(* (from Chat Completions), ResponsesSSEToAnthropicSSE and                 *)
(* GeminiSSEToAnthropicSSE.                                                *)
(***************************************************************************)
EXTENDS SSE

-----------------------------------------------------------------------------
(* OpenAI -> Anthropic.  A chunk is                                        *)
(*   [think, text, refusal : BOOLEAN, tool : ToolSlots or None,            *)
(*    args : BOOLEAN, finish : STRING, usage : <<>> or <<usage>>].         *)

ReverseInit ==
    [emit |-> <<>>, started |-> FALSE, think |-> None, thinkClosed |-> FALSE,
     text |-> None, tools |-> [t \in ToolSlots |-> None], next |-> 0,
     finish |-> "end_turn", tokens |-> NoTokens, thought |-> 0]

OpenBlock(s, kind) ==
    WriteEvent([s EXCEPT !.next = @ + 1], Ev("content_block_start", s.next, kind))
BlockDelta(s, i, kind) == WriteEvent(s, Ev("content_block_delta", i, kind))
StopBlock(s, i) == WriteEvent(s, Ev("content_block_stop", i, ""))

StartMessage(s) ==
    IF s.started THEN s
    ELSE WriteEvent([s EXCEPT !.started = TRUE], Ev("message_start", 0, ""))

ThinkingDelta(s, c) ==
    IF ~c.think \/ s.thinkClosed THEN s
    ELSE LET o == IF s.think = None
                  THEN OpenBlock([s EXCEPT !.think = s.next], "thinking") ELSE s
         IN  BlockDelta([o EXCEPT !.thought = @ + 1], o.think, "thinking")

\* Text and refusals share one block.
TextBlock(s) ==
    LET o == IF s.text = None THEN OpenBlock([s EXCEPT !.text = s.next], "text") ELSE s
    IN  BlockDelta(o, o.text, "text")

\* Mutant of TextDelta: the text that closes the thinking block is not passed on.
TextDeltaLost(s, c) ==
    CASE ~c.text -> s
      [] c.text /\ s.think # None /\ ~s.thinkClosed ->
             StopBlock([s EXCEPT !.thinkClosed = TRUE], s.think)
      [] OTHER -> TextBlock(s)

TextDelta(s, c) ==
    IF ~c.text THEN s
    ELSE TextBlock(IF s.think # None /\ ~s.thinkClosed
                   THEN StopBlock([s EXCEPT !.thinkClosed = TRUE], s.think) ELSE s)

RefusalDelta(s, c) == IF c.refusal THEN TextBlock(s) ELSE s

ToolDelta(s, c) ==
    IF c.tool = None THEN s
    ELSE LET o == IF s.tools[c.tool] = None
                  THEN OpenBlock([s EXCEPT !.tools[c.tool] = s.next], "tool_use") ELSE s
         IN  IF c.args THEN BlockDelta(o, o.tools[c.tool], "tool_use") ELSE o

ReverseUsage(s, c) ==
    IF c.usage = <<>> THEN s
    ELSE [TakeUsage(s, c.usage) EXCEPT !.tokens.reasoning = c.usage[1].reasoning]

\* A chunk without choices only carries usage.
ReverseChunk(s, c) ==
    LET m == StartMessage(ReverseUsage(s, c))
        f == IF c.finish = "" THEN m ELSE [m EXCEPT !.finish = c.finish]
    IN  ToolDelta(RefusalDelta(TextDelta(ThinkingDelta(f, c), c), c), c)

\* Stops the blocks of a set of indices below next, in ascending order.
StopBlocks(s, open, next) ==
    LET below[n \in 0..next] == IF n = 0 THEN s
                               ELSE IF n - 1 \in open THEN StopBlock(below[n - 1], n - 1)
                               ELSE below[n - 1]
    IN  below[next]

ReverseDone(s) ==
    LET thinking == IF s.think # None /\ ~s.thinkClosed THEN StopBlock(s, s.think) ELSE s
        text == IF s.text # None THEN StopBlock(thinking, s.text) ELSE thinking
        tools == {text.tools[t] : t \in ToolSlots} \ {None}
        closed == StopBlocks(text, tools, text.next)
        reason == IF s.finish = "tool_calls" THEN "tool_use" ELSE "end_turn"
    IN  WriteEvent(WriteEvent(closed, Ev("message_delta", 0, reason)),
                   Ev("message_stop", 0, ""))

\* Mutant of ReverseEvent: the finish reason already ends the message.
ReverseEventStopsEarly(s, c) ==
    IF c.type = "[DONE]" \/ c.finish # "" THEN ReverseDone(s) ELSE ReverseChunk(s, c)

ReverseEvent(s, c) == IF c.type = "[DONE]" THEN ReverseDone(s) ELSE ReverseChunk(s, c)

-----------------------------------------------------------------------------
(* Responses -> Anthropic.  The block of an output item keeps the item's   *)
(* output index; openBlocks maps an index to the kind of its open block.   *)

FromResponsesInit ==
    [emit |-> <<>>, started |-> FALSE, open |-> {}, tokens |-> NoTokens, thought |-> 0]

OpenItemBlock(s, i, kind) ==
    IF i \in s.open THEN s
    ELSE WriteEvent([s EXCEPT !.open = @ \union {i}], Ev("content_block_start", i, kind))

CloseItemBlock(s, i) ==
    IF i \notin s.open THEN s
    ELSE StopBlock([s EXCEPT !.open = @ \ {i}], i)

FromResponsesCreated(s) == StartMessage(s)

FromResponsesItemAdded(s, e) ==
    IF e.kind = "reasoning" THEN OpenItemBlock(s, e.index, "thinking") ELSE s

FromResponsesText(s, e) == BlockDelta(OpenItemBlock(s, e.index, "text"), e.index, "text")

FromResponsesSummary(s, e) ==
    LET o == OpenItemBlock(s, e.index, "thinking")
    IN  IF e.kind = "text" THEN BlockDelta(o, e.index, "thinking") ELSE o

FromResponsesItemDone(s, e) ==
    IF e.kind = "reasoning" THEN CloseItemBlock(s, e.index) ELSE s

FromResponsesCompleted(s, e) ==
    WriteEvent(WriteEvent(TakeUsage(s, e.usage), Ev("message_delta", 0, "end_turn")),
               Ev("message_stop", 0, ""))

ResponsesSSEToAnthropicSSE(s, e) ==
    CASE e.type = "response.created" -> FromResponsesCreated(s)
      [] e.type = "response.output_item.added" -> FromResponsesItemAdded(s, e)
      [] e.type = "response.content_part.added" -> OpenItemBlock(s, e.index, "text")
      [] e.type = "response.output_text.delta" -> FromResponsesText(s, e)
      [] e.type = "response.reasoning_summary_part" -> FromResponsesSummary(s, e)
      [] e.type \in {"response.output_text.done", "response.content_part.done"} ->
             CloseItemBlock(s, e.index)
      [] e.type = "response.output_item.done" -> FromResponsesItemDone(s, e)
      [] e.type = "response.completed" -> FromResponsesCompleted(s, e)
      [] e.type = "[DONE]" -> s

-----------------------------------------------------------------------------
(* Gemini -> Anthropic.  A chunk is [part : "none", "text" or "call",      *)
(* name : ToolSlots, finish : STRING, usage : <<>> or <<metadata>>].       *)
(* Calls are told apart by the function's name alone.                      *)

GeminiAnthropicInit == ReverseInit

GeminiFinish(s, c) ==
    LET called == \E t \in ToolSlots : s.tools[t] # None
    IN  CASE c.finish = "" -> s
          [] c.finish = "MAX_TOKENS" -> [s EXCEPT !.finish = "max_tokens"]
          [] c.finish = "STOP" -> [s EXCEPT !.finish = IF called THEN "tool_use" ELSE "end_turn"]

GeminiAnthropicChunk(s, c) ==
    LET u == IF c.usage = <<>> THEN s ELSE [s EXCEPT !.tokens = UsageTotals(c.usage[1])]
        f == GeminiFinish(StartMessage(u), c)
    IN  CASE c.part = "none" -> f
          [] c.part = "text" -> TextBlock(f)
          [] c.part = "call" -> ToolDelta(f, [tool |-> c.name, args |-> TRUE])

\* When the body ends, however it ends, the message is closed.
GeminiAnthropicEnd(s) ==
    IF ~s.started THEN s
    ELSE LET text == IF s.text # None THEN StopBlock(s, s.text) ELSE s
             tools == {s.tools[t] : t \in ToolSlots} \ {None}
             closed == StopBlocks(text, tools, text.next)
             reason == IF tools # {} /\ s.finish = "end_turn" THEN "tool_use" ELSE s.finish
         IN  WriteEvent(WriteEvent(closed, Ev("message_delta", 0, reason)),
                        Ev("message_stop", 0, ""))
=============================================================================
