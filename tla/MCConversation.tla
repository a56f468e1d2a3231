--------------------------- MODULE MCConversation ---------------------------
(* Small instances of Conversation: one conversation of two turns, with every pair of formats. *)
EXTENDS Conversation

text(t) == Block("text", <<t>>)
call(f) == ToolUse(NoID, f)

MCOpenings == {<<text("hello")>>, <<text("see"), Media("image", "url"), text("this")>>, <<Media("document", "bad"), text("read")>>,
               <<Block("audio", <<>>), text("listen")>>}
MCOptions ==
  {[system |-> <<"x-anthropic", "be brief">>, max |-> 0, budget |-> 3000, effort |-> "", choice |-> "none", hosted |-> FALSE],
   [system |-> <<>>, max |-> 2, budget |-> 0, effort |-> "high", choice |-> "required", hosted |-> TRUE],
   [system |-> <<>>, max |-> 1024, budget |-> 0, effort |-> "low", choice |-> "", hosted |-> FALSE]}
MCAnswers == {<<text("yes")>>, <<Block("thinking", <<"hm">>), text("a"), call("f"), call("g"), text("b")>>,
              <<call("g")>>, <<Block("refusal", <<"no">>)>>, <<text("c"), Block("thinking", <<"t">>), text("d")>>}
MCUsages == {[prompt |-> 3, cached |-> 0], [prompt |-> 3, cached |-> 2]}
=============================================================================
