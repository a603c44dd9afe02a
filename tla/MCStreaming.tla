----------------------------- MODULE MCStreaming -----------------------------
(***************************************************************************)
(* Bodies of up to three events, in both line endings.                     *)
(***************************************************************************)
EXTENDS Streaming

DataLine(c) == [k |-> "data", chunk |-> c]
NameLine(n) == [k |-> "event", name |-> n]
DoneLine    == [k |-> "[DONE]"]
Comment     == [k |-> "comment"]
Junk        == [k |-> "bad"]

OpenAI == [k |-> "chunk", error |-> FALSE, choices |-> TRUE, content |-> NoText,
           reasoning |-> <<NoText, NoText, NoText>>, finish |-> "none", usage |-> NoUse, id |-> FALSE]
Answer(t)  == [OpenAI EXCEPT !.content = t]
Thought(t) == [OpenAI EXCEPT !.reasoning = <<<<>>, t, NoText>>]
OpenAIEvents == {
    <<DataLine(Answer(<<"w">>))>>,
    <<Comment, DataLine(Thought(<<"w">>))>>,
    <<DataLine(Thought(<<"w", "|", "w">>))>>,
    <<DataLine(Answer(<<"w", "|", " ">>))>>,
    <<DataLine([Answer(<<"w">>) EXCEPT !.finish = "length", !.usage = 1])>>,
    <<DataLine([OpenAI EXCEPT !.choices = FALSE, !.usage = 2])>>,
    <<DataLine([OpenAI EXCEPT !.error = TRUE, !.id = TRUE])>>,
    <<DataLine(Answer(<<"w">>)), DataLine(Junk)>>,
    <<DataLine(Junk)>>,
    <<DoneLine>>}

Anthropic == [k |-> "chunk", type |-> "ping", block |-> "none", delta |-> "none", text |-> NoText,
              finish |-> "none", usage |-> NoUse, id |-> FALSE]
Named(c) == <<NameLine(c.type), DataLine(c)>>
AnthropicEvents == {
    Named([Anthropic EXCEPT !.type = "message_start", !.usage = 1]),
    Named([Anthropic EXCEPT !.type = "content_block_start", !.block = "thinking"]),
    Named([Anthropic EXCEPT !.type = "content_block_delta", !.delta = "thinking_delta", !.text = <<"w">>]),
    Named([Anthropic EXCEPT !.type = "content_block_delta", !.delta = "text_delta", !.text = <<"w">>]),
    Named([Anthropic EXCEPT !.type = "message_delta", !.finish = "max_tokens", !.usage = 2]),
    Named([Anthropic EXCEPT !.type = "message_stop"]),
    Named([Anthropic EXCEPT !.type = "error", !.id = TRUE])}

\* The lines of an event with their ends, and the blank line after it.
Wire(event, end) == FoldLeft(LAMBDA acc, x : acc \o <<x>> \o end, <<>>, event) \o end

Pairs(events, end) == {Wire(e, end) \o Wire(f, end) : e, f \in events}
Triples(events, end) == {Wire(e, end) \o Wire(f, end) \o Wire(g, end) : e, f, g \in events}

Thinks    == <<Comment, DataLine(Thought(<<"w">>))>>
Final     == <<DataLine([Answer(<<"w">>) EXCEPT !.finish = "length", !.usage = 1])>>
Thinking  == Named([Anthropic EXCEPT !.type = "content_block_start", !.block = "thinking"])
Thinks2   == Named([Anthropic EXCEPT !.type = "content_block_delta", !.delta = "thinking_delta",
                                     !.text = <<"w">>])
Answers2  == Named([Anthropic EXCEPT !.type = "content_block_delta", !.delta = "text_delta",
                                     !.text = <<"w">>])

MCBodies == [p \in {"openai", "anthropic"} |->
    IF p = "openai"
    THEN Pairs(OpenAIEvents, <<LF>>)
         \cup Pairs({Thinks, <<DoneLine>>}, <<CR, LF>>)
         \cup Triples({Thinks, Final}, <<LF>>)
    ELSE Pairs(AnthropicEvents, <<LF>>)
         \cup {Wire(Thinking, <<LF>>) \o Wire(e, <<LF>>) \o Wire(f, <<LF>>) :
                   e, f \in {Thinks2, Answers2}}]
=============================================================================
