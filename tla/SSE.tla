-------------------------------- MODULE SSE --------------------------------
(***************************************************************************)
(* What the stream translators of internal/translate and the relays of     *)
(* internal/proxy share (internal/sse/sse.go, translate/streaming.go).     *)
(*                                                                         *)
(* A translator is a loop over the lines of the upstream's body.  Its      *)
(* state is a record; the handler of an upstream event is an operator from *)
(* state and event to the next state, whose field `emit' collects the      *)
(* events the handler writes, in order.  The payload of a text, thinking   *)
(* or argument delta is left out: only that it is not empty matters.       *)
(***************************************************************************)
EXTENDS Integers, Sequences

CONSTANT ToolSlots    \* indices of tool calls, and Gemini's function names, as 0..n

None == -1

\* An event on the wire: its type, the block, item or tool index it carries,
\* and the kind of that block, or the reason of a stop.
Ev(type, index, kind) == [type |-> type, index |-> index, kind |-> kind]

\* The token counts of a StreamResult.
NoTokens == [input |-> 0, output |-> 0, created |-> 0, cached |-> 0, reasoning |-> 0]

\* Every write also goes to `captured', the body kept for the request log.
WriteEvent(s, e) == [s EXCEPT !.emit = Append(@, e)]

Done == Ev("[DONE]", 0, "")

\* A chunk of the Chat Completions stream carries one delta, or a finish reason.
writeSSEChunk(s, kind) == WriteEvent(s, Ev("chunk", 0, kind))
writeToolCallStartChunk(s, i) == WriteEvent(s, Ev("tool_start", i, ""))
writeToolCallDeltaChunk(s, i) == WriteEvent(s, Ev("tool_delta", i, ""))
buildChunk(s, reason) == WriteEvent(s, Ev("finish", 0, reason))

\* Gemini's prompt count includes the cache hits, its candidate count leaves
\* the thoughts out.
UsageTotals(md) ==
    LET hits == IF md.cached > md.prompt THEN md.prompt ELSE md.cached
    IN  [input |-> md.prompt - hits, output |-> md.candidates + md.thoughts,
         created |-> 0, cached |-> hits, reasoning |-> md.thoughts]

\* The reasoning tokens of a stream that reported none: a quarter of the bytes.
EstimateReasoning(s) ==
    IF s.tokens.reasoning = 0 /\ s.thought > 0
    THEN [s EXCEPT !.tokens.reasoning = (s.thought + 3) \div 4]
    ELSE s

\* The usage object of an OpenAI chunk or of response.completed as the
\* translators take it over.  `usage' is <<>> when the event carries none.
\*
\* Mutant of TakeUsage: the first report is kept.
TakeUsageFirst(s, usage) ==
    IF usage = <<>> \/ s.tokens.output # 0 THEN s
    ELSE [s EXCEPT !.tokens.input = usage[1].prompt, !.tokens.output = usage[1].completion,
                   !.tokens.cached = usage[1].cached]

TakeUsage(s, usage) ==
    IF usage = <<>> THEN s
    ELSE [s EXCEPT !.tokens.input = usage[1].prompt, !.tokens.output = usage[1].completion,
                   !.tokens.cached = usage[1].cached]
=============================================================================
