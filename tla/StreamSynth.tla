---------------------------- MODULE StreamSynth ----------------------------
(***************************************************************************)
(* The streams internal/proxy/stream_synth.go makes of a response that was *)
(* fetched whole, for a client that asked for a stream.  A response is the *)
(* sequence of the kinds of its content blocks ("text", "tool_use").       *)
(***************************************************************************)
EXTENDS SSE

SynthInit == [emit |-> <<>>, tokens |-> NoTokens, thought |-> 0]

\* Three events per block, and a ping after message_start.
AnthropicBlock(s, i, kind) ==
    WriteEvent(WriteEvent(WriteEvent(s, Ev("content_block_start", i, kind)),
                          Ev("content_block_delta", i, kind)),
               Ev("content_block_stop", i, ""))

SynthesizeAnthropicSSE(s, blocks) ==
    LET start == WriteEvent(WriteEvent(s, Ev("message_start", 0, "")), Ev("ping", 0, ""))
        after[n \in 0..Len(blocks)] == IF n = 0 THEN start ELSE AnthropicBlock(after[n - 1], n - 1, blocks[n])
    IN  WriteEvent(WriteEvent(after[Len(blocks)], Ev("message_delta", 0, "end_turn")),
                   Ev("message_stop", 0, ""))

\* The texts are one chunk; a tool call of a whole response has no index.
SynthesizeOpenAISSE(s, blocks) ==
    LET role == writeSSEChunk(s, "role")
        start == IF \E i \in 1..Len(blocks) : blocks[i] = "text" THEN writeSSEChunk(role, "text") ELSE role
        after[n \in 0..Len(blocks)] == IF n = 0 THEN start
                                       ELSE IF blocks[n] = "tool_use" THEN writeToolCallStartChunk(after[n - 1], None)
                                       ELSE after[n - 1]
    IN  WriteEvent(buildChunk(after[Len(blocks)], "stop"), Done)

MessageItem(s, i) ==
    LET added == WriteEvent(WriteEvent(s, Ev("response.output_item.added", i, "message")),
                            Ev("response.content_part.added", i, ""))
        text == WriteEvent(WriteEvent(added, Ev("response.output_text.delta", i, "")),
                           Ev("response.output_text.done", i, ""))
    IN  WriteEvent(WriteEvent(text, Ev("response.content_part.done", i, "")),
                   Ev("response.output_item.done", i, "message"))
CallItem(s, i) ==
    WriteEvent(WriteEvent(s, Ev("response.output_item.added", i, "function_call")),
               Ev("response.output_item.done", i, "function_call"))

SynthesizeResponsesSSE(s, blocks) ==
    LET after[n \in 0..Len(blocks)] == IF n = 0 THEN WriteEvent(s, Ev("response.created", 0, ""))
                                       ELSE IF blocks[n] = "text" THEN MessageItem(after[n - 1], n - 1)
                                       ELSE CallItem(after[n - 1], n - 1)
    IN  WriteEvent(WriteEvent(after[Len(blocks)], Ev("response.completed", Len(blocks), "")), Done)
=============================================================================
