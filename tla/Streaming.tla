------------------------------ MODULE Streaming ------------------------------
(***************************************************************************)
(* One streaming test: the request, the bytes as they arrive in chunks, the *)
(* server-sent events cut out of them, what each event does to the state of *)
(* the test, the two timeouts, and the record the test ends with.           *)
(*                                                                         *)
(* The body of a response is a sequence of atoms: carriage returns, line    *)
(* feeds, and lines, which are never cut.  A chunk is any number of atoms,  *)
(* so that a boundary may fall between any two of them.  The JSON text of a *)
(* data line is the record it decodes to.  A text is a sequence of words    *)
(* ("w"), blanks (" ") and the marker THINK_END ("|").                      *)
(***************************************************************************)
EXTENDS Integers, SequencesExt

CONSTANTS
    Bodies,            \* protocol -> the response bodies its providers send
    TestTypes,         \* the types of tests that stream
    RequestTimeout,    \* test_timeout, in ticks
    ActivityTimeout,   \* stream_activity_timeout
    HeaderTimes        \* bound: when the headers may be complete

ASSUME StreamingAssumption ==
    /\ RequestTimeout \in Nat \ {0}
    /\ ActivityTimeout \in Nat \ {0}
    /\ HeaderTimes \subseteq Nat

----------------------------------------------------------------------------
(* Bytes to events.                                                        *)

\* FoldLeft as a recursive function; the singleton makes TLC evaluate each step
\* once, also in ENABLED.
Fold(op(_, _), base, s) ==
    LET F[i \in 0 .. Len(s)] ==
            IF i = 0 THEN base
            ELSE CHOOSE v \in {op(acc, s[i]) : acc \in {F[i - 1]}} : TRUE
    IN  F[Len(s)]

CR == [k |-> "cr"]
LF == [k |-> "lf"]
AtomKinds == {"cr", "lf", "event", "data", "comment", "[DONE]"}

\* What an HTTP server sends as a line end, "\n" or "\r\n", has one carriage
\* return.  Of "\r\r\n" the replacement leaves "\r\n", which the replacement of the
\* next chunk shortens again if it is still in the buffer: for such a body it would
\* matter where it is cut.
OneReturn(s) == \A i \in 1 .. Len(s) - 2 : ~(s[i] = CR /\ s[i + 1] = CR /\ s[i + 2] = LF)

ASSUME BodiesAssumption ==
    \A p \in DOMAIN Bodies : \A b \in Bodies[p] :
        /\ b \in Seq(Range(b))
        /\ \A i \in DOMAIN b : b[i].k \in AtomKinds
        /\ OneReturn(b)

\* buf.replace(b"\r\n", b"\n")
Normalise(buf) ==
    Fold(LAMBDA acc, x : IF x = LF /\ acc # <<>> /\ Last(acc) = CR
                               THEN Append(Front(acc), LF) ELSE Append(acc, x),
             <<>>, buf)

\* The text before each blank line, and the incomplete tail that stays in buf.
Blocks(buf) ==
    Fold(LAMBDA acc, x : IF x = LF /\ acc.rest # <<>> /\ Last(acc.rest) = LF
                               THEN [whole |-> Append(acc.whole, Front(acc.rest)), rest |-> <<>>]
                               ELSE [whole |-> acc.whole, rest |-> Append(acc.rest, x)],
             [whole |-> <<>>, rest |-> <<>>], buf)

NoName == "none"
Done   == [name |-> "done", data |-> <<>>]

\* What a blank line or the end of a block does to the lines gathered so far.
Flushed(acc) ==
    [acc EXCEPT !.out = IF acc.data = <<>> THEN @ ELSE Append(@, [name |-> acc.name, data |-> acc.data]),
                !.name = NoName, !.data = <<>>, !.blank = TRUE]

ParseLine(acc, x) ==
    LET here == [acc EXCEPT !.blank = FALSE] IN
    CASE x.k = "lf"      -> IF acc.blank THEN Flushed(acc) ELSE [acc EXCEPT !.blank = TRUE]
      [] x.k \in {"cr", "comment"} -> IF x.k = "cr" THEN acc ELSE here
      [] x.k = "event"   -> [here EXCEPT !.name = x.name]
      [] x.k = "data"    -> [here EXCEPT !.data = Append(@, x.chunk)]
      [] x.k = "[DONE]"  -> [Flushed(acc) EXCEPT !.out = Append(@, Done), !.blank = FALSE]

\* _parse_sse_text
Parse(block) ==
    Flushed(Fold(ParseLine, [out |-> <<>>, name |-> NoName, data |-> <<>>, blank |-> TRUE], block)).out

Events(blocks) == Fold(LAMBDA acc, b : acc \o Parse(b), <<>>, blocks)

----------------------------------------------------------------------------
(* Events to what they say.  A chunk of the OpenAI protocol carries the     *)
(* fields of choices[0].delta, one of the Anthropic protocol its type.      *)

NoText == <<"none">>
NoUse  == 0

\* Two data lines in one event are not one JSON text.
Decodes(event) == Len(event.data) = 1 /\ event.data[1].k \notin {"bad", "nondict"}

Silent == [content |-> NoText, reasoning |-> NoText, finish |-> "none", usage |-> NoUse,
           source |-> "none", last |-> FALSE, error |-> FALSE, thinks |-> FALSE]

\* delta.get("a") or delta.get("b") or delta.get("c")
FirstTruthy(texts) ==
    LET t == SelectInSeq(texts, LAMBDA x : x \notin {NoText, <<>>})
    IN  IF t = 0 THEN Last(texts) ELSE texts[t]

ParseOpenAI(c) ==
    IF c.error THEN [Silent EXCEPT !.error = TRUE]
    ELSE [Silent EXCEPT
            !.content   = IF c.choices THEN c.content ELSE NoText,
            !.reasoning = IF c.choices THEN FirstTruthy(c.reasoning) ELSE NoText,
            !.finish    = IF c.choices THEN c.finish ELSE "none",
            !.usage     = c.usage,
            !.source    = IF c.choices THEN "inline_usage" ELSE "final_usage"]

ParseAnthropicType(c) ==
    CASE c.type = "message_start"       -> [Silent EXCEPT !.usage = c.usage, !.source = "message_start"]
      [] c.type = "content_block_start" -> [Silent EXCEPT !.thinks = c.block = "thinking"]
      [] c.type = "content_block_delta" ->
            [Silent EXCEPT !.content   = IF c.delta = "text_delta" THEN c.text ELSE NoText,
                           !.reasoning = IF c.delta = "thinking_delta" THEN c.text ELSE NoText]
      [] c.type = "message_delta"       ->
            [Silent EXCEPT !.finish = c.finish, !.usage = c.usage, !.source = "message_delta"]
      [] c.type = "message_stop"        -> [Silent EXCEPT !.last = TRUE]
      [] OTHER                          -> Silent

ParseAnthropic(name, c) ==
    IF name = "error" \/ c.type = "error" THEN [Silent EXCEPT !.error = TRUE]
    ELSE IF name = "ping" THEN Silent ELSE ParseAnthropicType(c)

Marked(text) == text # NoText /\ Contains(text, "|")
Cut(text)    == SelectInSeq(text, LAMBDA x : x = "|")
Before(text) == IF Cut(text) = 1 THEN NoText ELSE SubSeq(text, 1, Cut(text) - 1)
After(text)  == SubSeq(text, Cut(text) + 1, Len(text))
Blank(text)  == \A i \in DOMAIN text : text[i] = " "

\* split_thinking: the marker ends the reasoning, in whichever field it comes.
SplitThinking(content0, reasoning0, ended0) ==
    LET moved == ended0 /\ reasoning0 # NoText /\ content0 = NoText
        c1 == IF moved THEN reasoning0 ELSE content0
        r1 == IF moved THEN NoText ELSE reasoning0
        inReasoning == Marked(r1)
        c2 == IF inReasoning /\ After(r1) # <<>> THEN After(r1) ELSE c1
        r2 == IF inReasoning THEN Before(r1) ELSE r1
        inContent == Marked(c2) /\ r2 \in {NoText, <<>>}
    IN  [content   |-> IF inContent THEN (IF Blank(After(c2)) THEN NoText ELSE After(c2)) ELSE c2,
         reasoning |-> IF inContent THEN Before(c2) ELSE r2,
         ended     |-> ended0 \/ inReasoning \/ inContent]

----------------------------------------------------------------------------
VARIABLES
    protocol,    \* "openai" or "anthropic": is_anthropic
    testType,
    body,        \* what the provider sends in this test
    sent,        \* how many of its atoms have arrived
    phase,       \* "headers", "refusal" (the body of an answer that is not 200), "reading",
                 \* "broken" (out of the loop), "done", "raised"
    now,         \* ticks since the request started, counted up to SafetyTimeout
    waited,      \* ticks since the last byte, while httpx alone watches the time
    headersAt,   \* when the headers of a stream were complete, or -1
    buf,         \* the bytes not yet cut into events
    pending,     \* events of the current chunk the test has not seen
    ending,      \* why the iterator ends once they are seen: "", "eof", "deadline", "stalled"
    frame,       \* frame_tracker: [count, tokens, batched]
    ss,          \* _StreamState and the local variables of stream_test
    result,      \* the record returned
    seen         \* history variable: every event the test has seen

vars == <<protocol, testType, body, sent, phase, now, waited, headersAt, buf, pending, ending,
          frame, ss, result, seen>>
request == <<protocol, testType, body>>

Never  == -1
Max2(a, b) == IF a < b THEN b ELSE a
Min2(a, b) == IF a < b THEN a ELSE b

\* httpx's read timeout, for each read: the only one on the headers and on the body
\* of a refusal.
SafetyTimeout == Max2(2 * RequestTimeout, 3 * ActivityTimeout)

\* Mutant of Wait: the deadline is not looked at.
WaitActivity == ActivityTimeout

\* How long the iterator waits for the next chunk.
Wait == Min2(ActivityTimeout, RequestTimeout - now)

Fresh == [tokens |-> <<>>, thinkStart |-> Never, thinkEnd |-> Never, current |-> FALSE,
          ended |-> FALSE, usage |-> NoUse, source |-> "none", finish |-> "none",
          error |-> FALSE, requestId |-> "none"]

NoResult == [success |-> FALSE, error |-> FALSE, degraded |-> FALSE, requestId |-> "none",
             batched |-> 0]

NoEvents == [count |-> 0, tokens |-> 0, batched |-> 0]

Init ==
    /\ protocol \in DOMAIN Bodies
    /\ testType \in TestTypes
    /\ body \in Bodies[protocol]
    /\ phase = "headers"
    /\ sent = 0 /\ now = 0 /\ waited = 0 /\ headersAt = Never
    /\ buf = <<>> /\ pending = <<>> /\ ending = ""
    /\ frame = NoEvents
    /\ ss = Fresh
    /\ result = NoResult
    /\ seen = <<>>

----------------------------------------------------------------------------
(* What an event does to the test.                                         *)

\* _StreamState.record_token, for a text that is there.
Record(s, text, reasons) ==
    IF text \in {NoText, <<>>} THEN s
    ELSE LET t == [s EXCEPT !.tokens = Append(@, [at |-> now, reasons |-> reasons])] IN
         IF reasons
         THEN [t EXCEPT !.thinkStart = IF @ = Never THEN now ELSE @]
         ELSE [t EXCEPT !.current = FALSE,
                        !.thinkEnd = IF @ = Never /\ (s.current \/ s.thinkStart # Never)
                                       THEN now ELSE @]

FinalSources == {"final_usage", "message_delta"}

Say(s, p) ==
    LET s0 == IF p.thinks THEN [s EXCEPT !.current = TRUE,
                                         !.thinkStart = IF @ = Never THEN now ELSE @] ELSE s
        split == IF protocol = "openai" THEN SplitThinking(p.content, p.reasoning, s.ended)
                 ELSE [content |-> p.content, reasoning |-> p.reasoning, ended |-> s.ended]
        s1 == Record(Record(s0, split.reasoning, TRUE), split.content, FALSE)
        used == p.usage # NoUse /\ (p.source \in FinalSources \/ s.usage = NoUse)
    IN  [s1 EXCEPT !.ended = split.ended,
                   !.usage  = IF used THEN p.usage ELSE @,
                   !.source = IF used THEN p.source ELSE @,
                   !.finish = IF p.finish # "none" THEN p.finish ELSE @]

\* The chunk's id of the request, searched for only in an error; what is kept
\* is what re.search returns.
Fail(s, c) ==
    [s EXCEPT !.error = TRUE,
              !.requestId = IF @ = "none" /\ c.id THEN "match" ELSE @]

Said(event) ==
    IF protocol = "openai" THEN ParseOpenAI(event.data[1])
                           ELSE ParseAnthropic(event.name, event.data[1])

Handle(s, event) ==
    CASE event.name = "done"         -> [s |-> s, stop |-> TRUE]
      [] event.name # "done" /\ ~Decodes(event) -> [s |-> s, stop |-> FALSE]
      [] OTHER -> IF Said(event).error
                    THEN [s |-> Fail(s, event.data[1]), stop |-> TRUE]
                    ELSE [s |-> Say(s, Said(event)), stop |-> Said(event).last]

Attributed(f) ==
    IF f.count >= 2 THEN [f EXCEPT !.batched = @ + f.tokens, !.tokens = 0] ELSE f

\* The next event is the test's.
Taken == phase = "reading" /\ pending # <<>> /\ pending' = Tail(pending)

\* Everything up to the next wait for bytes, if the chunk has no event left.
TakeEvent ==
    /\ Taken
    /\ \E h \in {Handle(ss, Head(pending))} :
       LET tracked == testType # "health"
           f == [frame EXCEPT !.count = IF tracked /\ ending # "eof" THEN @ + 1 ELSE @,
                              !.tokens = IF tracked THEN @ + Len(h.s.tokens) - Len(ss.tokens)
                                                    ELSE @]
           resumed == ~h.stop /\ Len(pending) = 1 /\ ending = ""
       IN  /\ ss' = h.s
           /\ phase' = IF h.stop THEN "broken" ELSE phase
           /\ frame' = IF resumed THEN Attributed(f) ELSE f
    /\ seen' = Append(seen, Head(pending))
    /\ UNCHANGED <<request, sent, now, waited, headersAt, buf, ending, result>>

----------------------------------------------------------------------------
(* The request and the wait for bytes.                                     *)

\* The deadline of the test is looked at only while a stream is read.
Unwatched == phase \in {"headers", "refusal"}

\* A tick without a byte.  Past the deadline of the test its time does not matter.
Silence ==
    /\ Unwatched /\ waited < SafetyTimeout
    /\ waited' = waited + 1
    /\ now' = Min2(now + 1, SafetyTimeout)
    /\ UNCHANGED <<request, sent, phase, headersAt, buf, pending, ending, frame, ss, result, seen>>

\* A byte that completes nothing.
Drip ==
    /\ Unwatched /\ waited > 0
    /\ waited' = 0
    /\ UNCHANGED <<request, sent, phase, now, headersAt, buf, pending, ending, frame, ss, result,
                   seen>>

Headers(id) ==
    /\ phase = "headers"
    /\ headersAt' = now
    /\ waited' = 0
    /\ phase' = "reading"
    /\ ss' = [ss EXCEPT !.requestId = id]
    /\ UNCHANGED <<request, sent, now, buf, pending, ending, frame, result, seen>>

\* A status other than 200: the body is read, whole, before anything is recorded.
Refused(id) ==
    /\ phase = "headers"
    /\ waited' = 0
    /\ phase' = "refusal"
    /\ ss' = [ss EXCEPT !.requestId = id]
    /\ UNCHANGED <<request, sent, now, headersAt, buf, pending, ending, frame, result, seen>>

\* It ends the test, with what it says.
RefusalRead(id) ==
    /\ phase = "refusal"
    /\ phase' = "done"
    /\ waited' = 0
    /\ result' = [NoResult EXCEPT
            !.error = TRUE,
            !.requestId = IF ss.requestId # "none" THEN ss.requestId
                          ELSE IF id # "none" THEN id ELSE "own"]
    /\ UNCHANGED <<request, sent, now, headersAt, buf, pending, ending, frame, ss, seen>>

\* The connection fails before there is an answer, or in the body of a refusal.
Unreachable ==
    /\ Unwatched
    /\ phase' = "broken"
    /\ waited' = 0
    /\ ss' = [ss EXCEPT !.error = TRUE]
    /\ UNCHANGED <<request, sent, now, headersAt, buf, pending, ending, frame, result, seen>>

\* httpx.TimeoutException
SafetyFires == waited = SafetyTimeout /\ Unreachable

Waiting == phase = "reading" /\ pending = <<>> /\ ending = ""

\* Mutant of Receive: line ends are normalised in the chunk, not in the buffer.
ReceiveChunkwise(n, d) ==
    /\ Waiting /\ Wait > 0
    /\ now' = now + d
    /\ sent' = sent + n
    /\ LET blocks == Blocks(buf \o Normalise(SubSeq(body, sent + 1, sent + n)))
       IN  buf' = blocks.rest /\ pending' = Events(blocks.whole)
    /\ frame' = [frame EXCEPT !.count = 0, !.tokens = 0]
    /\ UNCHANGED <<request, phase, waited, headersAt, ending, ss, result, seen>>

\* The next n atoms arrive after d ticks.
Receive(n, d) ==
    /\ Waiting /\ Wait > 0
    /\ now' = now + d
    /\ sent' = sent + n
    /\ LET blocks == Blocks(Normalise(buf \o SubSeq(body, sent + 1, sent + n)))
       IN  buf' = blocks.rest /\ pending' = Events(blocks.whole)
    /\ frame' = [frame EXCEPT !.count = 0, !.tokens = 0]
    /\ UNCHANGED <<request, phase, waited, headersAt, ending, ss, result, seen>>

\* The iterator ends: what is left in the buffer is parsed first.
Drain(why) ==
    /\ ending' = why
    /\ pending' = Parse(buf)
    /\ UNCHANGED <<request, sent, phase, waited, headersAt, buf, frame, ss, result, seen>>

\* Mutant of DeadlineFound: a deadline that has passed changes nothing.
DeadlineIgnored == Waiting /\ Wait <= 0 /\ UNCHANGED vars

StreamEnds    == Waiting /\ Wait > 0 /\ UNCHANGED now /\ Drain("eof")

DeadlineFound == Waiting /\ Wait <= 0 /\ UNCHANGED now /\ Drain("deadline")
WaitTimesOut  ==
    /\ Waiting /\ Wait > 0
    /\ now' = now + Wait
    /\ Drain(IF now' >= RequestTimeout THEN "deadline" ELSE "stalled")

IteratorEnds ==
    /\ phase = "reading" /\ pending = <<>> /\ ending # ""
    /\ phase' = "broken"
    /\ ss' = [ss EXCEPT !.error = ending # "eof"]
    /\ UNCHANGED <<request, sent, now, waited, headersAt, buf, pending, ending, frame, result, seen>>

\* The provider drops the connection.
Dropped ==
    /\ Waiting
    /\ phase' = "broken"
    /\ ss' = [ss EXCEPT !.error = TRUE]
    /\ UNCHANGED <<request, sent, now, waited, headersAt, buf, pending, ending, frame, result, seen>>

\* Cancelled, shut down, or an internal error, wherever the test is: nothing is
\* returned, nothing is left of its state.
Raise ==
    /\ phase \notin {"done", "raised"}
    /\ phase' = "raised"
    /\ sent' = 0 /\ now' = 0 /\ waited' = 0 /\ headersAt' = Never
    /\ buf' = <<>> /\ pending' = <<>> /\ ending' = ""
    /\ frame' = NoEvents
    /\ ss' = Fresh
    /\ seen' = <<>>
    /\ UNCHANGED <<request, result>>

----------------------------------------------------------------------------
(* The record of the test.                                                 *)

\* The tokens of the reasoning and of the answer.
Reasoned(s) == {i \in DOMAIN s.tokens : s.tokens[i].reasons}
Answered(s) == {i \in DOMAIN s.tokens : ~s.tokens[i].reasons}

\* _check_no_answer: thoughts only, though the token limit was not reached.
NoAnswer(s) ==
    /\ Answered(s) = {} /\ Reasoned(s) # {}
    /\ s.finish \notin {"length", "max_tokens"}
    /\ testType # "health"

\* Mutant of Outcome: any error makes a failure, whatever came before it.
OutcomeOfError(s) ==
    [success |-> ~(s.error \/ s.tokens = <<>> \/ NoAnswer(s)), error |-> s.error,
     degraded |-> FALSE, requestId |-> "own", batched |-> frame.batched]

Outcome(s) ==
    LET late == s.error /\ s.tokens # <<>>
        fails == (s.error /\ ~late) \/ s.tokens = <<>> \/ NoAnswer(s)
    IN  [success |-> ~fails, error |-> fails \/ late, degraded |-> late /\ ~fails,
         requestId |-> IF s.requestId = "none" THEN "own" ELSE s.requestId,
         batched |-> frame.batched]

Finish ==
    /\ phase = "broken"
    /\ phase' = "done"
    /\ ss' = [ss EXCEPT !.thinkEnd = IF @ = Never /\ ss.thinkStart # Never /\ Reasoned(ss) # {}
                                       THEN now ELSE @]
    /\ result' = Outcome(ss)
    /\ UNCHANGED <<request, sent, now, waited, headersAt, buf, pending, ending, frame, seen>>

Next ==
    \/ Silence \/ Drip \/ Unreachable
    \/ \E id \in {"none", "text"} :
          \/ now \in HeaderTimes /\ (Headers(id) \/ Refused(id))
          \/ RefusalRead(id)
    \/ \E n \in 1 .. Len(body) - sent, d \in 0 .. Wait - 1 : Receive(n, d)
    \/ StreamEnds \/ DeadlineFound \/ WaitTimesOut \/ IteratorEnds \/ Dropped \/ Raise
    \/ TakeEvent
    \/ Finish
    \/ phase \in {"done", "raised"} /\ UNCHANGED vars

Spec == Init /\ [][Next]_vars

\* Time passes, which bounds each wait through wait_for or httpx, and the event
\* loop runs what can run.  The provider owes nothing, neither bytes nor silence.
Bounds == Silence \/ SafetyFires \/ WaitTimesOut \/ DeadlineFound \/ IteratorEnds \/ Finish

\* No other step takes an event, so that this is the fairness of TakeEvent, but
\* takes less to evaluate.
FairSpec == Spec /\ WF_pending(Taken) /\ WF_vars(Bounds)

----------------------------------------------------------------------------
(* Properties.                                                             *)

TokenType == [at : 0 .. SafetyTimeout, reasons : BOOLEAN]

TypeOK ==
    /\ sent \in 0 .. Len(body)
    /\ {now, waited} \subseteq 0 .. SafetyTimeout
    /\ headersAt \in {Never} \cup 0 .. SafetyTimeout
    /\ phase \in {"headers", "refusal", "reading", "broken", "done", "raised"}
    /\ ending \in {"", "eof", "deadline", "stalled"}
    /\ \A i \in DOMAIN ss.tokens : ss.tokens[i] \in TokenType
    /\ {ss.thinkStart, ss.thinkEnd} \subseteq {Never} \cup 0 .. SafetyTimeout

\* aiter_sse_events: where the chunks of a body are cut does not matter.  The
\* events the test has seen are the first of those of the whole body, read at
\* once, as long as the iterator goes on, and all of them if it read it all.
ChunkingIsInvisible ==
    LET all == Blocks(Normalise(body))
    IN  /\ ending = "" => IsPrefix(seen, Events(all.whole))
        /\ Waiting /\ sent = Len(body) => seen = Events(all.whole)

\* compute_stream_metrics: a test succeeds if and only if it got the start of an
\* answer, or thoughts only, in a health check or up to the token limit; what
\* breaks off later makes a success degraded, never a failure.
SuccessMeansAnswered ==
    phase = "done" =>
        /\ result.success <=>
              \/ Answered(ss) # {}
              \/ Reasoned(ss) # {} /\ (testType = "health" \/ ss.finish \in {"length", "max_tokens"})
        /\ result.degraded <=> result.success /\ ss.error

\* record_token: thinking lasts from its start to the first text of the answer
\* after it, or to the end of the test.
ThinkingSpan ==
    ss.thinkEnd # Never =>
        /\ ss.thinkStart # Never /\ ss.thinkStart <= ss.thinkEnd
        /\ \A i \in DOMAIN ss.tokens :
              ~ss.tokens[i].reasons => ~(ss.thinkStart < ss.tokens[i].at /\ ss.tokens[i].at < ss.thinkEnd)

\* What a test records of a stream is what the stream said.
RecordIsHonest == SuccessMeansAnswered /\ ThinkingSpan

\* aiter_sse_events: a stream is not read past the deadline of its request.
DeadlineHolds == now > RequestTimeout => now = headersAt \/ headersAt = Never

Over == phase \in {"done", "raised"}

\* However the provider sends or stalls, a test ends, unless bytes keep dripping for
\* ever where httpx alone watches the time: before a stream begins or in the
\* body of a refusal.  Once a stream is read nothing can prevent the end.
EveryStreamEnds == <>Over \/ []<><<Drip>>_vars

\* "We manage timeouts ourselves": every test ends.  Violated: see the README.
EveryTestEnds == <>Over

\* _extract_request_id_from_chunk: the id a test records is a text.  Violated: see
\* the README.
RequestIdIsText == result.requestId \in {"none", "text", "own"}

\* aiter_sse_events: the tokens of a chunk with two events or more count as
\* batched, of the last chunk as well.  Violated: see the README.
BatchesCounted == phase = "done" /\ frame.count >= 2 => frame.tokens = 0
=============================================================================
