---------------------------- MODULE StreamingProofs ----------------------------
(***************************************************************************)
(* Proofs about Streaming, for any bodies, chunks, timeouts and times: a    *)
(* body is not read past the deadline, what a test records of success,      *)
(* degradation and thinking is what its stream said, and the chunks a body   *)
(* arrives in do not change the events it gives.                            *)
(***************************************************************************)
EXTENDS Streaming, SequenceTheorems, WellFoundedInduction, TLAPS

-----------------------------------------------------------------------------
(* The deadline                                                             *)

Clock ==
    /\ now \in 0 .. SafetyTimeout
    /\ headersAt \in Nat \cup {Never}
    /\ Unwatched => headersAt = Never
    /\ DeadlineHolds

LEMMA TimeoutFacts ==
    /\ RequestTimeout \in Nat \ {0} /\ ActivityTimeout \in Nat \ {0}
    /\ SafetyTimeout \in Nat /\ RequestTimeout <= SafetyTimeout
BY StreamingAssumption DEF SafetyTimeout, Max2

\* Each wait for bytes is cut to what is left of the request (aiter_sse_events).
LEMMA WaitFacts ==
    ASSUME now \in Nat
    PROVE  Wait \in Int /\ now + Wait <= RequestTimeout
BY TimeoutFacts DEF Wait, Min2

\* A tick of silence.
LEMMA SilenceFacts ==
    ASSUME now \in 0 .. SafetyTimeout, Silence
    PROVE  now' \in 0 .. SafetyTimeout /\ now <= now'
BY TimeoutFacts DEF Silence, Min2

LEMMA NextClock == Clock /\ [Next]_vars => Clock'
<1> SUFFICES ASSUME Clock, [Next]_vars PROVE Clock'
  OBVIOUS
<1>1. CASE Silence
  <2>1. now' \in 0 .. SafetyTimeout /\ Unwatched /\ headersAt = Never /\ UNCHANGED headersAt
    BY <1>1, SilenceFacts DEF Silence, Clock
  <2> QED
    BY <2>1 DEF Clock, DeadlineHolds
<1>2. ASSUME NEW id \in {"none", "text"}, Headers(id) PROVE Clock'
  <2>1. now' = now /\ headersAt' = now /\ phase' = "reading"
    BY <1>2 DEF Headers
  <2> QED
    BY <2>1, TimeoutFacts DEF Clock, DeadlineHolds, Unwatched
<1>3. ASSUME NEW n \in 1 .. Len(body) - sent, NEW d \in 0 .. Wait - 1, Receive(n, d)
      PROVE  Clock'
  <2>1. d \in Nat /\ d < Wait /\ now' = now + d /\ phase = "reading"
        /\ UNCHANGED <<headersAt, phase>>
    <3>1. Wait \in Int
      BY WaitFacts DEF Clock
    <3>2. d \in Nat /\ d < Wait
      BY <3>1
    <3> QED
      BY <1>3, <3>2 DEF Receive, Waiting
  <2>2. now' \in 0 .. SafetyTimeout /\ now' <= RequestTimeout
    BY <2>1, WaitFacts, TimeoutFacts DEF Clock
  <2> QED
    BY <2>1, <2>2, TimeoutFacts DEF Clock, DeadlineHolds, Unwatched
<1>4. CASE WaitTimesOut
  <2>1. Wait > 0 /\ now' = now + Wait /\ phase = "reading" /\ UNCHANGED <<headersAt, phase>>
    BY <1>4 DEF WaitTimesOut, Waiting, Drain
  <2>2. now' \in 0 .. SafetyTimeout /\ now' <= RequestTimeout
    BY <2>1, WaitFacts, TimeoutFacts DEF Clock
  <2> QED
    BY <2>1, <2>2, TimeoutFacts DEF Clock, DeadlineHolds, Unwatched
<1>5. CASE TakeEvent
  <2>1. UNCHANGED <<now, headersAt>> /\ phase' \in {"reading", "broken"}
    BY <1>5 DEF TakeEvent, Taken
  <2> QED
    BY <2>1 DEF Clock, DeadlineHolds, Unwatched
<1>6. CASE Raise
  <2>1. now' = 0 /\ headersAt' = Never /\ phase' = "raised"
    BY <1>6 DEF Raise
  <2> QED
    BY <2>1, TimeoutFacts DEF Clock, DeadlineHolds, Unwatched
<1>7. CASE Drip \/ UNCHANGED vars \/ \E id \in {"none", "text"} : Refused(id)
  <2>1. UNCHANGED <<now, headersAt>> /\ (Unwatched' => Unwatched)
    BY <1>7 DEF Drip, Refused, vars, Unwatched
  <2> QED
    BY <2>1 DEF Clock, DeadlineHolds
<1>8. CASE \/ Unreachable \/ StreamEnds \/ DeadlineFound \/ IteratorEnds \/ Dropped \/ Finish
           \/ \E id \in {"none", "text"} : RefusalRead(id)
  <2>1. UNCHANGED <<now, headersAt>> /\ phase' \in {"reading", "broken", "done"}
    BY <1>8 DEF Unreachable, StreamEnds, DeadlineFound, Drain, Waiting, IteratorEnds, Dropped,
                Finish, RefusalRead
  <2> QED
    BY <2>1 DEF Clock, DeadlineHolds, Unwatched
<1> QED
  BY <1>1, <1>2, <1>3, <1>4, <1>5, <1>6, <1>7, <1>8 DEF Next

LEMMA InitClock == Init => Clock
<1> SUFFICES ASSUME Init PROVE Clock
  OBVIOUS
<1>1. now = 0 /\ headersAt = Never
  BY DEF Init
<1> QED
  BY <1>1, TimeoutFacts DEF Clock, DeadlineHolds

\* However the bytes come, and whatever the two timeouts are, no wait for bytes goes
\* past the deadline of the request.
THEOREM DeadlineHoldsCorrect == Spec => []DeadlineHolds
<1>1. Clock => DeadlineHolds
  BY DEF Clock
<1> QED
  BY <1>1, InitClock, NextClock, PTL DEF Spec

-----------------------------------------------------------------------------
(* Thinking                                                                 *)

StateFields == {"tokens", "thinkStart", "thinkEnd", "current", "ended", "usage", "source",
                "finish", "error", "requestId"}

\* When the tokens came, when thinking began and ended: the answer has begun after
\* the thoughts only if thinking has ended, and then ended with its first token.
Spanned(s) ==
    /\ DOMAIN s = StateFields
    /\ s.tokens \in Seq([at : Nat, reasons : BOOLEAN])
    /\ s.thinkStart \in Nat \cup {Never} /\ s.thinkEnd \in Nat \cup {Never}
    /\ s.thinkStart <= now /\ s.thinkEnd <= now
    /\ \A i \in DOMAIN s.tokens : s.tokens[i].at <= now
    /\ s.current => s.thinkStart # Never
    /\ s.thinkEnd # Never => s.thinkStart # Never /\ s.thinkStart <= s.thinkEnd
    /\ \A i \in DOMAIN s.tokens : ~s.tokens[i].reasons =>
          /\ s.thinkStart # Never /\ s.thinkEnd = Never => s.tokens[i].at <= s.thinkStart
          /\ s.thinkEnd # Never => s.tokens[i].at <= s.thinkStart \/ s.thinkEnd <= s.tokens[i].at

\* The elements of a sequence to which one is appended.
LEMMA AppendFacts ==
    ASSUME NEW T, NEW x \in T, NEW t \in Seq(T)
    PROVE  /\ Append(t, x) \in Seq(T)
           /\ \A i \in DOMAIN Append(t, x) :
                 Append(t, x)[i] = x \/ (i \in DOMAIN t /\ Append(t, x)[i] = t[i])
OBVIOUS

LEMMA TokenFacts ==
    ASSUME NEW s, Spanned(s)
    PROVE  \A i \in DOMAIN s.tokens :
              s.tokens[i].at \in Nat /\ s.tokens[i].reasons \in BOOLEAN
<1> DEFINE T == [at : Nat, reasons : BOOLEAN]
<1>1. s.tokens \in Seq(T)
  BY DEF Spanned
<1>2. \A x \in T : x.at \in Nat /\ x.reasons \in BOOLEAN
  OBVIOUS
<1> HIDE DEF T
<1> QED
  BY <1>1, <1>2

\* A text of the reasoning begins the thinking (record_token).
LEMMA RecordReasoning ==
    ASSUME NEW s, NEW text, now \in Nat, Spanned(s)
    PROVE  Spanned(Record(s, text, TRUE))
<1>1. CASE text \in {NoText, <<>>}
  BY <1>1 DEF Record
<1>2. CASE text \notin {NoText, <<>>}
  <2> DEFINE new == [at |-> now, reasons |-> TRUE]
             q   == [s EXCEPT !.tokens = Append(s.tokens, new),
                              !.thinkStart = IF s.thinkStart = Never THEN now ELSE s.thinkStart]
  <2>1. Record(s, text, TRUE) = q
    BY <1>2 DEF Record, Spanned, StateFields
  <2>2. /\ DOMAIN q = StateFields
        /\ q.tokens = Append(s.tokens, new)
        /\ q.thinkStart = IF s.thinkStart = Never THEN now ELSE s.thinkStart
        /\ q.thinkEnd = s.thinkEnd /\ q.current = s.current
    BY DEF Spanned, StateFields
  <2> HIDE DEF q
  <2>3. /\ q.tokens \in Seq([at : Nat, reasons : BOOLEAN])
        /\ \A i \in DOMAIN q.tokens : q.tokens[i] = new \/ (i \in DOMAIN s.tokens /\ q.tokens[i] = s.tokens[i])
    <3>1. s.tokens \in Seq([at : Nat, reasons : BOOLEAN]) /\ new \in [at : Nat, reasons : BOOLEAN]
      BY DEF Spanned
    <3> HIDE DEF new
    <3> QED
      BY <2>2, <3>1, AppendFacts
  <2>4. new.at = now /\ (new.reasons <=> TRUE)
    OBVIOUS
  <2> HIDE DEF new
  <2>5. \A i \in DOMAIN s.tokens : s.tokens[i].at \in Nat
    BY TokenFacts
  <2>6. /\ q.thinkStart \in Nat \cup {Never} /\ q.thinkEnd \in Nat \cup {Never}
        /\ q.thinkStart <= now /\ q.thinkEnd <= now
        /\ q.current => q.thinkStart # Never
        /\ q.thinkEnd # Never => q.thinkStart # Never /\ q.thinkStart <= q.thinkEnd
    <3>1. s.thinkStart \in Int /\ s.thinkEnd \in Int /\ Never \in Int
      BY DEF Spanned, Never
    <3>2. CASE s.thinkStart = Never
      BY <2>2, <3>1, <3>2 DEF Spanned
    <3>3. CASE s.thinkStart # Never
      BY <2>2, <3>1, <3>3 DEF Spanned
    <3> QED
      BY <3>2, <3>3
  <2>7. ASSUME NEW i \in DOMAIN q.tokens
        PROVE  /\ q.tokens[i].at <= now
               /\ ~q.tokens[i].reasons =>
                   /\ q.thinkStart # Never /\ q.thinkEnd = Never => q.tokens[i].at <= q.thinkStart
                   /\ q.thinkEnd # Never => q.tokens[i].at <= q.thinkStart \/ q.thinkEnd <= q.tokens[i].at
    <3>1. CASE q.tokens[i] = new
      BY <2>2, <2>4, <3>1 DEF Spanned, Never
    <3>2. CASE i \in DOMAIN s.tokens /\ q.tokens[i] = s.tokens[i]
      BY <2>2, <2>5, <3>2 DEF Spanned, Never
    <3> QED
      BY <2>3, <3>1, <3>2
  <2> QED
    BY <2>1, <2>2, <2>3, <2>6, <2>7 DEF Spanned
<1> QED
  BY <1>1, <1>2

\* A text of the answer ends it (record_token).
LEMMA RecordAnswer ==
    ASSUME NEW s, NEW text, now \in Nat, Spanned(s)
    PROVE  Spanned(Record(s, text, FALSE))
<1>1. CASE text \in {NoText, <<>>}
  BY <1>1 DEF Record
<1>2. CASE text \notin {NoText, <<>>}
  <2> DEFINE new == [at |-> now, reasons |-> FALSE]
             q   == [s EXCEPT !.tokens = Append(s.tokens, new), !.current = FALSE,
                              !.thinkEnd = IF s.thinkEnd = Never /\ (s.current \/ s.thinkStart # Never)
                                             THEN now ELSE s.thinkEnd]
  <2>1. Record(s, text, FALSE) = q
    BY <1>2 DEF Record, Spanned, StateFields
  <2>2. /\ DOMAIN q = StateFields
        /\ q.tokens = Append(s.tokens, new)
        /\ q.thinkEnd = IF s.thinkEnd = Never /\ s.thinkStart # Never THEN now ELSE s.thinkEnd
        /\ q.thinkStart = s.thinkStart /\ ~q.current
    BY DEF Spanned, StateFields
  <2> HIDE DEF q
  <2>3. /\ q.tokens \in Seq([at : Nat, reasons : BOOLEAN])
        /\ \A i \in DOMAIN q.tokens : q.tokens[i] = new \/ (i \in DOMAIN s.tokens /\ q.tokens[i] = s.tokens[i])
    <3>1. s.tokens \in Seq([at : Nat, reasons : BOOLEAN]) /\ new \in [at : Nat, reasons : BOOLEAN]
      BY DEF Spanned
    <3> HIDE DEF new
    <3> QED
      BY <2>2, <3>1, AppendFacts
  <2>4. new.at = now /\ (new.reasons <=> FALSE)
    OBVIOUS
  <2> HIDE DEF new
  <2>5. \A i \in DOMAIN s.tokens : s.tokens[i].at \in Nat
    BY TokenFacts
  <2>6. /\ q.thinkStart \in Nat \cup {Never} /\ q.thinkEnd \in Nat \cup {Never}
        /\ q.thinkStart <= now /\ q.thinkEnd <= now
        /\ q.current => q.thinkStart # Never
        /\ q.thinkEnd # Never => q.thinkStart # Never /\ q.thinkStart <= q.thinkEnd
    <3>1. s.thinkStart \in Int /\ s.thinkEnd \in Int /\ Never \in Int
      BY DEF Spanned, Never
    <3>2. CASE s.thinkEnd = Never
      BY <2>2, <3>1, <3>2 DEF Spanned
    <3>3. CASE s.thinkEnd # Never
      BY <2>2, <3>1, <3>3 DEF Spanned
    <3> QED
      BY <3>2, <3>3
  <2>7. ASSUME NEW i \in DOMAIN q.tokens
        PROVE  /\ q.tokens[i].at <= now
               /\ ~q.tokens[i].reasons =>
                   /\ q.thinkStart # Never /\ q.thinkEnd = Never => q.tokens[i].at <= q.thinkStart
                   /\ q.thinkEnd # Never => q.tokens[i].at <= q.thinkStart \/ q.thinkEnd <= q.tokens[i].at
    <3>1. CASE q.tokens[i] = new
      BY <2>2, <2>4, <3>1 DEF Spanned, Never
    <3>2. CASE i \in DOMAIN s.tokens /\ q.tokens[i] = s.tokens[i]
      BY <2>2, <2>5, <3>2 DEF Spanned, Never
    <3> QED
      BY <2>3, <3>1, <3>2
  <2> QED
    BY <2>1, <2>2, <2>3, <2>6, <2>7 DEF Spanned
<1> QED
  BY <1>1, <1>2

\* Fields that have nothing to do with thinking.
LEMMA OtherFields ==
    ASSUME NEW s, Spanned(s), NEW q, DOMAIN q = StateFields, q.tokens = s.tokens,
           q.thinkStart = s.thinkStart, q.thinkEnd = s.thinkEnd, q.current = s.current
    PROVE  Spanned(q)
BY DEF Spanned

\* A block of thinking may begin before its first text.
LEMMA ThinksSpanned ==
    ASSUME NEW s, now \in Nat, Spanned(s)
    PROVE  Spanned([s EXCEPT !.current = TRUE,
                             !.thinkStart = IF s.thinkStart = Never THEN now ELSE s.thinkStart])
<1> DEFINE q == [s EXCEPT !.current = TRUE,
                          !.thinkStart = IF s.thinkStart = Never THEN now ELSE s.thinkStart]
<1>1. /\ DOMAIN q = StateFields /\ q.tokens = s.tokens /\ q.thinkEnd = s.thinkEnd
      /\ q.thinkStart = IF s.thinkStart = Never THEN now ELSE s.thinkStart
  BY DEF Spanned, StateFields
<1> HIDE DEF q
<1>2. ASSUME s.thinkStart = Never PROVE Spanned(q)
  <2>1. q.thinkStart = now /\ q.thinkEnd = Never
    BY <1>1, <1>2 DEF Spanned
  <2> QED
    <3>1. now # Never /\ Never <= now /\ now <= now
      BY DEF Never
    <3>2. q.tokens \in Seq([at : Nat, reasons : BOOLEAN]) /\ \A i \in DOMAIN q.tokens : q.tokens[i].at <= now
      BY <1>1 DEF Spanned
    <3> QED
      BY <1>1, <2>1, <3>1, <3>2 DEF Spanned
<1>3. ASSUME s.thinkStart # Never PROVE Spanned(q)
  BY <1>1, <1>3 DEF Spanned
<1> QED
  BY <1>2, <1>3 DEF q

\* The thoughts of an event are recorded before its answer, whatever they are.
LEMMA SaySpanned ==
    ASSUME NEW s, NEW p, now \in Nat, Spanned(s)
    PROVE  Spanned(Say(s, p))
<1> DEFINE s0 == IF p.thinks
                 THEN [s EXCEPT !.current = TRUE,
                                !.thinkStart = IF s.thinkStart = Never THEN now ELSE s.thinkStart]
                 ELSE s
<1>1. Spanned(s0)
  BY ThinksSpanned
<1> DEFINE split == IF protocol = "openai" THEN SplitThinking(p.content, p.reasoning, s.ended)
                    ELSE [content |-> p.content, reasoning |-> p.reasoning, ended |-> s.ended]
           used  == p.usage # NoUse /\ (p.source \in FinalSources \/ s.usage = NoUse)
<1>2. Say(s, p) = [Record(Record(s0, split.reasoning, TRUE), split.content, FALSE) EXCEPT
                     !.ended = split.ended,
                     !.usage  = IF used THEN p.usage ELSE @,
                     !.source = IF used THEN p.source ELSE @,
                     !.finish = IF p.finish # "none" THEN p.finish ELSE @]
  BY DEF Say
<1> HIDE DEF s0, split, used
<1>3. Spanned(Record(Record(s0, split.reasoning, TRUE), split.content, FALSE))
  BY <1>1, RecordReasoning, RecordAnswer
<1>4. PICK s1 : s1 = Record(Record(s0, split.reasoning, TRUE), split.content, FALSE)
  OBVIOUS
<1>5. /\ DOMAIN Say(s, p) = StateFields
      /\ Say(s, p).tokens = s1.tokens /\ Say(s, p).thinkStart = s1.thinkStart
      /\ Say(s, p).thinkEnd = s1.thinkEnd /\ Say(s, p).current = s1.current
  BY <1>2, <1>3, <1>4 DEF Spanned, StateFields
<1> QED
  BY <1>3, <1>4, <1>5, OtherFields

LEMMA HandleSpanned ==
    ASSUME NEW s, NEW event, now \in Nat, Spanned(s)
    PROVE  Spanned(Handle(s, event).s)
<1>1. \/ Handle(s, event).s = s
      \/ \E c : Handle(s, event).s = Fail(s, c)
      \/ \E p : Handle(s, event).s = Say(s, p)
  <2>1. CASE event.name = "done"
    <3>1. Handle(s, event) = [s |-> s, stop |-> TRUE]
      BY <2>1, Zenon DEF Handle
    <3> QED
      BY <3>1
  <2>2. CASE event.name # "done" /\ ~Decodes(event)
    <3>1. Handle(s, event) = [s |-> s, stop |-> FALSE]
      BY <2>2, Zenon DEF Handle
    <3> QED
      BY <3>1
  <2>3. CASE event.name # "done" /\ Decodes(event)
    <3>1. Handle(s, event) = IF Said(event).error
                               THEN [s |-> Fail(s, event.data[1]), stop |-> TRUE]
                               ELSE [s |-> Say(s, Said(event)), stop |-> Said(event).last]
      BY <2>3, Zenon DEF Handle
    <3> QED
      BY <3>1
  <2> QED
    BY <2>1, <2>2, <2>3
<1>2. ASSUME NEW c PROVE Spanned(Fail(s, c))
  <2>1. PICK q : q = Fail(s, c)
    OBVIOUS
  <2>2. /\ DOMAIN q = StateFields /\ q.tokens = s.tokens /\ q.thinkStart = s.thinkStart
        /\ q.thinkEnd = s.thinkEnd /\ q.current = s.current
    BY <2>1 DEF Fail, Spanned, StateFields
  <2> QED
    BY <2>1, <2>2, OtherFields
<1> QED
  BY <1>1, <1>2, SaySpanned

-----------------------------------------------------------------------------
(* What a test records                                                      *)

IInv ==
    /\ Clock
    /\ Unwatched => ss.tokens = <<>> /\ ~ss.error
    /\ Spanned(ss)
    /\ SuccessMeansAnswered

LEMMA FreshSpanned == now \in Nat => Spanned(Fresh)
BY DEF Fresh, Spanned, StateFields, Never

\* Time passes.
LEMMA StaysSpanned ==
    ASSUME now \in Nat, Spanned(ss), now' \in Nat, now <= now',
           DOMAIN ss' = StateFields, ss'.tokens = ss.tokens, ss'.thinkStart = ss.thinkStart,
           ss'.thinkEnd = ss.thinkEnd, ss'.current = ss.current
    PROVE  Spanned(ss)'
<1>1. \A i \in DOMAIN ss.tokens : ss.tokens[i].at \in Nat /\ ss.tokens[i].at <= now'
  <2>1. \A i \in DOMAIN ss.tokens : ss.tokens[i].at \in Nat
    BY TokenFacts
  <2>2. \A i \in DOMAIN ss.tokens : ss.tokens[i].at <= now
    BY DEF Spanned
  <2> QED
    BY <2>1, <2>2
<1>2. ss.thinkStart \in Int /\ ss.thinkEnd \in Int
  BY DEF Spanned, Never
<1>3. ss'.thinkStart <= now' /\ ss'.thinkEnd <= now'
  BY <1>2 DEF Spanned
<1>4. ss.tokens \in Seq([at : Nat, reasons : BOOLEAN])
  BY DEF Spanned
<1>5. /\ ss.thinkStart \in Nat \cup {Never} /\ ss.thinkEnd \in Nat \cup {Never}
      /\ ss.current => ss.thinkStart # Never
      /\ ss.thinkEnd # Never => ss.thinkStart # Never /\ ss.thinkStart <= ss.thinkEnd
      /\ \A i \in DOMAIN ss.tokens : ~ss.tokens[i].reasons =>
            /\ ss.thinkStart # Never /\ ss.thinkEnd = Never => ss.tokens[i].at <= ss.thinkStart
            /\ ss.thinkEnd # Never => ss.tokens[i].at <= ss.thinkStart \/ ss.thinkEnd <= ss.tokens[i].at
  BY DEF Spanned
<1> QED
  BY <1>1, <1>3, <1>4, <1>5 DEF Spanned

\* What the record of a finished test says (compute_stream_metrics).
LEMMA OutcomeFacts ==
    ASSUME NEW s, s.tokens \in Seq([at : Nat, reasons : BOOLEAN])
    PROVE  /\ Outcome(s).success <=>
                \/ Answered(s) # {}
                \/ Reasoned(s) # {} /\ (testType = "health" \/ s.finish \in {"length", "max_tokens"})
           /\ Outcome(s).degraded <=> Outcome(s).success /\ s.error
<1>1. s.tokens = <<>> <=> Answered(s) = {} /\ Reasoned(s) = {}
  <2>1. s.tokens = <<>> <=> DOMAIN s.tokens = {}
    <3> DEFINE T == [at : Nat, reasons : BOOLEAN]
    <3>1. s.tokens \in Seq(T)
      OBVIOUS
    <3> HIDE DEF T
    <3>2. s.tokens = <<>> <=> Len(s.tokens) = 0
      BY <3>1, EmptySeq
    <3>3. DOMAIN s.tokens = 1 .. Len(s.tokens) /\ Len(s.tokens) \in Nat
      BY <3>1
    <3>4. CASE Len(s.tokens) = 0
      BY <3>2, <3>3, <3>4
    <3>5. CASE Len(s.tokens) # 0
      <4>1. 1 \in DOMAIN s.tokens
        BY <3>3, <3>5
      <4> QED
        BY <3>2, <3>5, <4>1
    <3> QED
      BY <3>4, <3>5
  <2> QED
    BY <2>1 DEF Answered, Reasoned
<1> DEFINE late  == s.error /\ s.tokens # <<>>
           fails == \/ s.error /\ ~late
                    \/ s.tokens = <<>>
                    \/ NoAnswer(s)
<1>2. Outcome(s).success = ~fails /\ Outcome(s).degraded = (late /\ ~fails)
  BY DEF Outcome
<1> QED
  BY <1>1, <1>2, Zenon DEF NoAnswer

LEMMA NextIInv == IInv /\ [Next]_vars => IInv'
<1> SUFFICES ASSUME IInv, [Next]_vars PROVE IInv'
  OBVIOUS
<1>0. Clock' /\ now \in Nat /\ now' \in Nat /\ now \in 0 .. SafetyTimeout /\ Spanned(ss)
  BY NextClock DEF IInv, Clock
<1>1. ASSUME now <= now', phase' \in {"reading", "broken"},
             DOMAIN ss' = StateFields, ss'.tokens = ss.tokens, ss'.thinkStart = ss.thinkStart,
             ss'.thinkEnd = ss.thinkEnd, ss'.current = ss.current
      PROVE  IInv'
  BY <1>0, <1>1, StaysSpanned DEF IInv, SuccessMeansAnswered, Unwatched
<1>2. ASSUME now <= now', phase' \in {"reading", "broken"}, UNCHANGED ss
      PROVE  IInv'
  BY <1>0, <1>1, <1>2 DEF Spanned
<1>3. ASSUME NEW id \in {"none", "text"}, Headers(id) \/ Refused(id) PROVE IInv'
  <2>1. /\ now' = now /\ phase' \in {"reading", "refusal"} /\ Unwatched
        /\ ss' = [ss EXCEPT !.requestId = id]
    BY <1>3 DEF Headers, Refused, Unwatched
  <2>2. /\ DOMAIN ss' = StateFields /\ ss'.tokens = ss.tokens /\ ss'.thinkStart = ss.thinkStart
        /\ ss'.thinkEnd = ss.thinkEnd /\ ss'.current = ss.current /\ ss'.error = ss.error
    BY <1>0, <2>1 DEF Spanned, StateFields
  <2>3. Spanned(ss)'
    BY <1>0, <2>1, <2>2, StaysSpanned
  <2>4. Unwatched' => ss'.tokens = <<>> /\ ~ss'.error
    BY <2>1, <2>2 DEF IInv
  <2> QED
    BY <1>0, <2>1, <2>3, <2>4 DEF IInv, SuccessMeansAnswered
<1>4. ASSUME NEW id \in {"none", "text"}, RefusalRead(id) PROVE IInv'
  <2>1. /\ now' = now /\ phase' = "done" /\ UNCHANGED ss /\ Unwatched
        /\ \E i : result' = [NoResult EXCEPT !.error = TRUE, !.requestId = i]
    BY <1>4 DEF RefusalRead, Unwatched
  <2>2. Answered(ss) = {} /\ Reasoned(ss) = {} /\ ~ss.error
    <3>1. ss.tokens = <<>> /\ ~ss.error
      BY <2>1 DEF IInv
    <3> QED
      BY <3>1 DEF Answered, Reasoned
  <2>3. ~result'.success /\ ~result'.degraded
    BY <2>1 DEF NoResult
  <2>4. SuccessMeansAnswered'
    BY <2>1, <2>2, <2>3 DEF SuccessMeansAnswered, Answered, Reasoned
  <2>5. Spanned(ss)'
    BY <1>0, <2>1, StaysSpanned DEF Spanned
  <2> QED
    BY <1>0, <2>1, <2>4, <2>5 DEF IInv, Unwatched
<1>5. CASE Unreachable
  <2>1. now' = now /\ phase' = "broken" /\ ss' = [ss EXCEPT !.error = TRUE]
    BY <1>5 DEF Unreachable
  <2>2. /\ DOMAIN ss' = StateFields /\ ss'.tokens = ss.tokens /\ ss'.thinkStart = ss.thinkStart
        /\ ss'.thinkEnd = ss.thinkEnd /\ ss'.current = ss.current
    BY <1>0, <2>1 DEF Spanned, StateFields
  <2> QED
    BY <1>0, <1>1, <2>1, <2>2
<1>6. ASSUME NEW n \in 1 .. Len(body) - sent, NEW d \in 0 .. Wait - 1, Receive(n, d)
      PROVE  IInv'
  <2>1. Wait \in Int
    BY <1>0, WaitFacts
  <2>2. d \in Nat /\ now' = now + d /\ phase' = "reading" /\ UNCHANGED ss
    <3>1. d \in Nat
      BY <2>1
    <3> QED
      BY <1>6, <3>1 DEF Receive, Waiting, request
  <2> QED
    BY <1>0, <1>2, <2>2
<1>7. CASE WaitTimesOut
  <2>1. Wait \in Int
    BY <1>0, WaitFacts
  <2>2. Wait > 0 /\ now' = now + Wait /\ phase' = "reading" /\ UNCHANGED ss
    BY <1>7 DEF WaitTimesOut, Waiting, Drain
  <2> QED
    BY <1>0, <1>2, <2>1, <2>2
<1>8. CASE StreamEnds \/ DeadlineFound
  <2>1. now' = now /\ phase' = "reading" /\ UNCHANGED ss
    BY <1>8 DEF StreamEnds, DeadlineFound, Waiting, Drain
  <2> QED
    BY <1>0, <1>2, <2>1
<1>9. CASE IteratorEnds \/ Dropped
  <2>1. /\ now' = now /\ phase' = "broken"
        /\ \E e : ss' = [ss EXCEPT !.error = e]
    BY <1>9 DEF IteratorEnds, Dropped
  <2>2. /\ DOMAIN ss' = StateFields /\ ss'.tokens = ss.tokens /\ ss'.thinkStart = ss.thinkStart
        /\ ss'.thinkEnd = ss.thinkEnd /\ ss'.current = ss.current
    BY <1>0, <2>1 DEF Spanned, StateFields
  <2> QED
    BY <1>0, <1>1, <2>1, <2>2
<1>10. CASE TakeEvent
  <2>1. now' = now /\ phase' \in {"reading", "broken"}
    BY <1>10 DEF TakeEvent, Taken
  <2>2. ss' = Handle(ss, Head(pending)).s
    BY <1>10 DEF TakeEvent
  <2>3. PICK s : s = ss
    OBVIOUS
  <2>4. PICK event : event = Head(pending)
    OBVIOUS
  <2>5. Spanned(Handle(s, event).s)
    BY <1>0, <2>3, HandleSpanned
  <2>6. Spanned(ss)'
    BY <2>1, <2>2, <2>3, <2>4, <2>5 DEF Spanned
  <2> QED
    BY <1>0, <2>1, <2>6 DEF IInv, SuccessMeansAnswered, Unwatched
<1>11. CASE Finish
  <2>1. /\ now' = now /\ phase' = "done" /\ result' = Outcome(ss) /\ UNCHANGED testType
        /\ ss' = [ss EXCEPT !.thinkEnd = IF ss.thinkEnd = Never /\ ss.thinkStart # Never
                                               /\ Reasoned(ss) # {} THEN now ELSE ss.thinkEnd]
    BY <1>11 DEF Finish, request
  <2>2. /\ DOMAIN ss' = StateFields /\ ss'.tokens = ss.tokens /\ ss'.thinkStart = ss.thinkStart
        /\ ss'.thinkEnd = IF ss.thinkEnd = Never /\ ss.thinkStart # Never
                               /\ Reasoned(ss) # {} THEN now ELSE ss.thinkEnd
        /\ ss'.current = ss.current /\ ss'.error = ss.error /\ ss'.finish = ss.finish
    BY <1>0, <2>1 DEF Spanned, StateFields
  <2>3. SuccessMeansAnswered'
    <3>1. Answered(ss') = Answered(ss) /\ Reasoned(ss') = Reasoned(ss)
      BY <2>2 DEF Answered, Reasoned
    <3>2. PICK s : s = ss
      OBVIOUS
    <3>3. s.tokens \in Seq([at : Nat, reasons : BOOLEAN])
      BY <1>0, <3>2 DEF Spanned
    <3> QED
      BY <2>1, <2>2, <3>1, <3>2, <3>3, OutcomeFacts DEF SuccessMeansAnswered
  <2>4. Spanned(ss)'
    <3>1. CASE ss'.thinkEnd = ss.thinkEnd
      BY <1>0, <2>1, <2>2, <3>1, StaysSpanned
    <3>2. CASE ss.thinkEnd = Never /\ ss.thinkStart # Never /\ ss'.thinkEnd = now
      <4>1. \A i \in DOMAIN ss.tokens : ~ss.tokens[i].reasons => ss.tokens[i].at <= ss.thinkStart
        BY <1>0, <3>2 DEF Spanned
      <4>2. now # Never
        BY <1>0 DEF Never
      <4> QED
        BY <1>0, <2>1, <2>2, <3>2, <4>1, <4>2 DEF Spanned
    <3> QED
      BY <2>2, <3>1, <3>2
  <2> QED
    BY <1>0, <2>1, <2>3, <2>4 DEF IInv, Unwatched
<1>12. CASE Drip \/ UNCHANGED vars
  <2>1. UNCHANGED <<phase, now, ss, result, testType>>
    BY <1>12 DEF Drip, vars, request
  <2> QED
    BY <1>0, <2>1 DEF IInv, Spanned, SuccessMeansAnswered, Answered, Reasoned, Unwatched
<1>13. CASE Silence
  <2>1. now <= now' /\ UNCHANGED <<phase, ss, result, testType>>
    BY <1>0, <1>13, SilenceFacts DEF Silence, request
  <2>2. Spanned(ss)'
    BY <1>0, <2>1, StaysSpanned DEF Spanned
  <2> QED
    BY <1>0, <2>1, <2>2 DEF IInv, SuccessMeansAnswered, Answered, Reasoned, Unwatched
<1>14. CASE Raise
  <2>1. now' = 0 /\ phase' = "raised" /\ ss' = Fresh
    BY <1>14 DEF Raise
  <2>2. Spanned(ss)'
    BY <1>0, <2>1, FreshSpanned DEF Spanned, Fresh, StateFields, Never
  <2> QED
    BY <1>0, <2>1, <2>2 DEF IInv, SuccessMeansAnswered, Unwatched
<1> QED
  BY <1>3, <1>4, <1>5, <1>6, <1>7, <1>8, <1>9, <1>10, <1>11, <1>12, <1>13, <1>14 DEF Next

LEMMA InitIInv == Init => IInv
<1> SUFFICES ASSUME Init PROVE IInv
  OBVIOUS
<1>1. now = 0 /\ ss = Fresh /\ phase = "headers"
  BY DEF Init
<1>2. Spanned(ss)
  BY <1>1, FreshSpanned
<1> QED
  BY <1>1, <1>2, InitClock DEF IInv, SuccessMeansAnswered, Fresh

LEMMA SpansThink == Clock /\ Spanned(ss) => ThinkingSpan
<1> SUFFICES ASSUME Clock, Spanned(ss), ss.thinkEnd # Never PROVE
        /\ ss.thinkStart # Never /\ ss.thinkStart <= ss.thinkEnd
        /\ \A i \in DOMAIN ss.tokens : ~ss.tokens[i].reasons =>
              ~(ss.thinkStart < ss.tokens[i].at /\ ss.tokens[i].at < ss.thinkEnd)
  BY DEF ThinkingSpan
<1>1. \A i \in DOMAIN ss.tokens : ss.tokens[i].at \in Nat
  BY TokenFacts
<1>2. ss.thinkStart \in Int /\ ss.thinkEnd \in Int
  BY DEF Spanned, Never
<1>3. ss.thinkStart # Never /\ ss.thinkStart <= ss.thinkEnd
  BY DEF Spanned
<1>4. \A i \in DOMAIN ss.tokens : ~ss.tokens[i].reasons =>
        ss.tokens[i].at <= ss.thinkStart \/ ss.thinkEnd <= ss.tokens[i].at
  BY DEF Spanned
<1> QED
  BY <1>1, <1>2, <1>3, <1>4

\* For any answer, cut anyhow and broken off anywhere: a test that ends with a record
\* succeeds if and only if its stream said enough, is degraded if and only if it then
\* broke off, and gives thinking the span its tokens show; a refusal, or no answer, is a
\* failure.
THEOREM RecordIsHonestCorrect == Spec => []RecordIsHonest
<1>1. Spec => []IInv
  BY InitIInv, NextIInv, PTL DEF Spec
<1>2. IInv => RecordIsHonest
  BY SpansThink DEF IInv, RecordIsHonest
<1> QED
  BY <1>1, <1>2, PTL

-----------------------------------------------------------------------------
(* Induction, and the folds over bytes, lines and blocks                    *)

LEMMA Induct ==
    ASSUME NEW S, 0 \in S, \A n \in Nat : n \in S => n + 1 \in S
    PROVE  Nat \subseteq S
<1> DEFINE R == OpToRel(<, Nat)
           T == {n \in Nat : n \notin S}
<1>1. IsWellFoundedOn(R, Nat)
  BY NatLessThanWellFounded
<1>2. \A k, n \in Nat : k < n => <<k, n>> \in R
  BY DEF OpToRel
<1> HIDE DEF R
<1>3. ASSUME T # {} PROVE FALSE
  <2>1. T \subseteq Nat
    OBVIOUS
  <2>2. PICK n \in T : \A k \in T : ~(<<k, n>> \in R)
    BY <1>1, <1>3, <2>1, WFMin
  <2>3. n \in Nat /\ n # 0 /\ n - 1 \in Nat /\ n - 1 < n
    BY <2>2
  <2>4. n - 1 \in S
    BY <1>2, <2>2, <2>3
  <2> QED
    BY <2>3, <2>4
<1> QED
  BY <1>3

\* The steps of the folds over the bytes and over the blocks, by name.
NormaliseStep(acc, x) ==
    IF x = LF /\ acc # <<>> /\ Last(acc) = CR THEN Append(Front(acc), LF) ELSE Append(acc, x)
BlocksStep(acc, x) ==
    IF x = LF /\ acc.rest # <<>> /\ Last(acc.rest) = LF
    THEN [whole |-> Append(acc.whole, Front(acc.rest)), rest |-> <<>>]
    ELSE [whole |-> acc.whole, rest |-> Append(acc.rest, x)]

Base(fold) ==
    CASE fold = "normalise" -> <<>>
      [] fold = "blocks"    -> [whole |-> <<>>, rest |-> <<>>]
      [] fold = "parse"     -> [out |-> <<>>, name |-> NoName, data |-> <<>>, blank |-> TRUE]
      [] fold = "events"    -> <<>>
Step(fold, acc, x) ==
    CASE fold = "normalise" -> NormaliseStep(acc, x)
      [] fold = "blocks"    -> BlocksStep(acc, x)
      [] fold = "parse"     -> ParseLine(acc, x)
      [] fold = "events"    -> acc \o Parse(x)

Folds(fold, s, n, F) ==
    F = [i \in 0 .. n |-> IF i = 0 THEN Base(fold)
                          ELSE CHOOSE v \in {Step(fold, acc, s[i]) : acc \in {F[i - 1]}} : TRUE]
Folded(fold, s) == (CHOOSE F : Folds(fold, s, Len(s), F))[Len(s)]

LEMMA NormaliseFolds == ASSUME NEW s PROVE Normalise(s) = Folded("normalise", s)
BY DEF Normalise, Fold, Folded, Folds, Step, Base, NormaliseStep
LEMMA BlocksFolds == ASSUME NEW s PROVE Blocks(s) = Folded("blocks", s)
BY DEF Blocks, Fold, Folded, Folds, Step, Base, BlocksStep
LEMMA ParseFolds == ASSUME NEW s PROVE Parse(s) = Flushed(Folded("parse", s)).out
BY DEF Parse, Fold, Folded, Folds, Step, Base
LEMMA EventsFolds == ASSUME NEW s PROVE Events(s) = Folded("events", s)
BY DEF Events, Fold, Folded, Folds, Step, Base

\* Induction over a set of naturals, for sequences.
LEMMA SeqInduct ==
    ASSUME NEW A, NEW S, <<>> \in S,
           \A s \in Seq(A), x \in A : s \in S => Append(s, x) \in S
    PROVE  Seq(A) \subseteq S
<1> DEFINE N == {n \in Nat : \A s \in Seq(A) : Len(s) = n => s \in S}
<1>1. 0 \in N
  BY EmptySeq
<1>2. ASSUME NEW n \in Nat, n \in N PROVE n + 1 \in N
  <2> SUFFICES ASSUME NEW s \in Seq(A), Len(s) = n + 1 PROVE s \in S
    OBVIOUS
  <2>1. PICK t \in Seq(A), x \in A : s = Append(t, x)
    BY SequenceEmptyOrAppend, EmptySeq
  <2>2. Len(t) = n
    BY <2>1, AppendProperties, LenProperties
  <2> QED
    BY <1>2, <2>1, <2>2
<1> HIDE DEF N
<1>3. Nat \subseteq N
  BY <1>1, <1>2, Induct
<1> QED
  BY <1>3, LenProperties DEF N

\* The values of a fold, as a table.
Runs(fold, s, n, F) ==
    /\ F = [i \in 0 .. n |-> F[i]]
    /\ F[0] = Base(fold)
    /\ \A i \in 1 .. n : F[i] = Step(fold, F[i - 1], s[i])

LEMMA FoldsRuns ==
    ASSUME NEW fold, NEW s, NEW n \in Nat, NEW F
    PROVE  Folds(fold, s, n, F) <=> Runs(fold, s, n, F)
<1>1. \A i \in 1 .. n :
         (CHOOSE v \in {Step(fold, acc, s[i]) : acc \in {F[i - 1]}} : TRUE) = Step(fold, F[i - 1], s[i])
  OBVIOUS
<1> DEFINE G == [i \in 0 .. n |-> IF i = 0 THEN Base(fold)
                        ELSE CHOOSE v \in {Step(fold, acc, s[i]) : acc \in {F[i - 1]}} : TRUE]
<1>2. /\ G = [i \in 0 .. n |-> G[i]]
      /\ G[0] = Base(fold)
      /\ \A i \in 1 .. n : G[i] = Step(fold, F[i - 1], s[i])
  BY <1>1
<1>3. Folds(fold, s, n, F) <=> F = G
  BY DEF Folds
<1> HIDE DEF G
<1>4. ASSUME F = G PROVE Runs(fold, s, n, F)
  BY <1>2, <1>4 DEF Runs
<1>5. ASSUME Runs(fold, s, n, F) PROVE F = G
  <2>1. \A i \in 0 .. n : F[i] = G[i]
    <3> SUFFICES ASSUME NEW i \in 0 .. n PROVE F[i] = G[i]
      OBVIOUS
    <3>1. i = 0 \/ i \in 1 .. n
      OBVIOUS
    <3> QED
      BY <1>2, <1>5, <3>1 DEF Runs
  <2> QED
    BY <1>2, <1>5, <2>1 DEF Runs
<1> QED
  BY <1>3, <1>4, <1>5

LEMMA RunsExist ==
    ASSUME NEW fold, NEW s, NEW n \in Nat
    PROVE  \E F : Runs(fold, s, n, F)
<1> DEFINE N == {k \in Nat : \E F : Runs(fold, s, k, F)}
<1>1. 0 \in N
  <2> DEFINE F == [i \in 0 .. 0 |-> Base(fold)]
  <2>1. Runs(fold, s, 0, F)
    BY DEF Runs
  <2> QED
    BY <2>1
<1>2. ASSUME NEW k \in Nat, k \in N PROVE k + 1 \in N
  <2>1. PICK F : Runs(fold, s, k, F)
    BY <1>2
  <2> DEFINE G == [i \in 0 .. k + 1 |-> IF i = k + 1 THEN Step(fold, F[k], s[k + 1]) ELSE F[i]]
  <2>2. G = [i \in 0 .. k + 1 |-> G[i]] /\ G[0] = Base(fold)
    BY <2>1 DEF Runs
  <2>3. ASSUME NEW i \in 1 .. k + 1 PROVE G[i] = Step(fold, G[i - 1], s[i])
    <3>1. G[i - 1] = F[i - 1] /\ G[i] = IF i = k + 1 THEN Step(fold, F[k], s[k + 1]) ELSE F[i]
      OBVIOUS
    <3>2. i # k + 1 => i \in 1 .. k
      OBVIOUS
    <3>3. i = k + 1 => i - 1 = k
      OBVIOUS
    <3> QED
      BY <2>1, <3>1, <3>2, <3>3 DEF Runs
  <2>4. Runs(fold, s, k + 1, G)
    BY <2>2, <2>3 DEF Runs
  <2> QED
    BY <2>4
<1> HIDE DEF N
<1>3. Nat \subseteq N
  BY <1>1, <1>2, Induct
<1> QED
  BY <1>3 DEF N

LEMMA FoldedRuns ==
    ASSUME NEW fold, NEW A, NEW s \in Seq(A)
    PROVE  \E F : Runs(fold, s, Len(s), F) /\ Folded(fold, s) = F[Len(s)]
<1>1. Len(s) \in Nat
  BY LenProperties
<1>2. \E F : Folds(fold, s, Len(s), F)
  BY <1>1, RunsExist, FoldsRuns
<1> DEFINE F == CHOOSE F : Folds(fold, s, Len(s), F)
<1>3. Folds(fold, s, Len(s), F)
  BY <1>2
<1>4. Folded(fold, s) = F[Len(s)]
  BY DEF Folded
<1> HIDE DEF F
<1>5. Runs(fold, s, Len(s), F)
  BY <1>1, <1>3, FoldsRuns
<1> QED
  BY <1>4, <1>5

\* What a fold makes of nothing, and of one element more.
LEMMA FoldedEmpty ==
    ASSUME NEW fold
    PROVE  Folded(fold, <<>>) = Base(fold)
<1>1. <<>> \in Seq({}) /\ Len(<<>>) = 0
  BY EmptySeq
<1>2. PICK F : Runs(fold, <<>>, Len(<<>>), F) /\ Folded(fold, <<>>) = F[Len(<<>>)]
  BY <1>1, FoldedRuns
<1> QED
  BY <1>1, <1>2 DEF Runs

LEMMA FoldedAppend ==
    ASSUME NEW fold, NEW A, NEW s \in Seq(A), NEW x \in A
    PROVE  Folded(fold, Append(s, x)) = Step(fold, Folded(fold, s), x)
<1> DEFINE t == Append(s, x)
           n == Len(s)
<1>1. /\ n \in Nat /\ t \in Seq(A) /\ Len(t) = n + 1 /\ t[n + 1] = x
      /\ \A i \in 1 .. n : t[i] = s[i]
  BY LenProperties, AppendProperties
<1> HIDE DEF t
<1>2. PICK F : Runs(fold, s, n, F) /\ Folded(fold, s) = F[n]
  BY FoldedRuns
<1>3. PICK G : Runs(fold, t, n + 1, G) /\ Folded(fold, t) = G[n + 1]
  BY <1>1, FoldedRuns
<1> DEFINE N == {i \in Nat : i <= n => G[i] = F[i]}
<1>4. 0 \in N
  BY <1>2, <1>3 DEF Runs
<1> HIDE DEF n
<1>5. ASSUME NEW i \in Nat, i \in N PROVE i + 1 \in N
  <2> SUFFICES ASSUME i + 1 <= n PROVE G[i + 1] = F[i + 1]
    OBVIOUS
  <2>1. i + 1 \in 1 .. n /\ i + 1 \in 1 .. n + 1 /\ (i + 1) - 1 = i /\ G[i] = F[i]
    BY <1>1, <1>5
  <2>2. G[i + 1] = Step(fold, G[i], t[i + 1]) /\ F[i + 1] = Step(fold, F[i], s[i + 1])
    BY <1>2, <1>3, <2>1 DEF Runs
  <2> QED
    BY <1>1, <2>1, <2>2
<1> HIDE DEF N
<1>6. n \in N
  BY <1>1, <1>4, <1>5, Induct
<1>7. G[n] = F[n] /\ n + 1 \in 1 .. n + 1 /\ (n + 1) - 1 = n
  BY <1>1, <1>6 DEF N
<1>8. G[n + 1] = Step(fold, G[n], t[n + 1])
  BY <1>3, <1>7 DEF Runs
<1> QED
  BY <1>1, <1>2, <1>3, <1>7, <1>8 DEF t

LEMMA EndFacts ==
    ASSUME NEW A, NEW s \in Seq(A), NEW x \in A
    PROVE  /\ Append(s, x) \in Seq(A) /\ Append(s, x) # <<>>
           /\ Last(Append(s, x)) = x /\ Front(Append(s, x)) = s
<1>1. /\ Append(s, x) \in Seq(A) /\ Append(s, x) # <<>> /\ Len(Append(s, x)) = Len(s) + 1
      /\ \A i \in 1 .. Len(s) : Append(s, x)[i] = s[i]
      /\ Append(s, x)[Len(s) + 1] = x /\ Len(s) \in Nat
  BY AppendProperties, LenProperties
<1> DEFINE t == Append(s, x)
           f == SubSeq(t, 1, Len(s))
<1> HIDE DEF t
<1>2. \A i \in 1 .. Len(s) : t[i] \in A
  BY <1>1, ElementOfSeq DEF t
<1>3. f \in Seq(A) /\ Len(f) = Len(s) /\ \A i \in 1 .. Len(s) : f[i] = t[i]
  BY <1>1, <1>2, SubSeqProperties
<1> HIDE DEF f
<1>4. f = s
  BY <1>1, <1>3, SeqEqual DEF t
<1> QED
  BY <1>1, <1>4 DEF t, f, Last, Front

LEMMA FrontFacts ==
    ASSUME NEW A, NEW s \in Seq(A), s # <<>>
    PROVE  /\ Front(s) \in Seq(A) /\ Last(s) \in A /\ s = Append(Front(s), Last(s))
           /\ Len(s) \in Nat \ {0} /\ Len(Front(s)) = Len(s) - 1
           /\ \A i \in 1 .. Len(s) - 1 : Front(s)[i] = s[i]
<1>1. PICK t \in Seq(A), x \in A : s = Append(t, x)
  BY SequenceEmptyOrAppend
<1>2. Last(s) = x /\ Front(s) = t
  BY <1>1, EndFacts
<1>3. Len(t) \in Nat /\ Len(s) = Len(t) + 1 /\ \A i \in 1 .. Len(t) : s[i] = t[i]
  BY <1>1, AppendProperties, LenProperties
<1> QED
  BY <1>1, <1>2, <1>3

-----------------------------------------------------------------------------
(* Cutting a body into the texts before its blank lines.                    *)

CutUp(s) == Blocks(Normalise(s))

\* One byte more, when b is what the bytes before it were cut into.
CutStep(b, x) ==
    IF x = LF /\ b.rest # <<>> /\ Last(b.rest) = CR
    THEN BlocksStep([whole |-> b.whole, rest |-> Front(b.rest)], LF)
    ELSE BlocksStep(b, x)

\* What a sequence s is cut into.
Cutting(b, s, A) ==
    /\ b.whole \in Seq(Seq(A)) /\ b.rest \in Seq(A)
    /\ b.rest = <<>> => s = <<>> \/ Last(s) = LF
    /\ b.rest # <<>> => s # <<>> /\ Last(s) = Last(b.rest)

LEMMA BlocksEmpty == Blocks(<<>>) = [whole |-> <<>>, rest |-> <<>>] /\ Normalise(<<>>) = <<>>
BY BlocksFolds, NormaliseFolds, FoldedEmpty DEF Base

LEMMA BlocksAppend ==
    ASSUME NEW A, NEW s \in Seq(A), NEW x \in A
    PROVE  Blocks(Append(s, x)) = BlocksStep(Blocks(s), x)
BY BlocksFolds, FoldedAppend DEF Step

LEMMA NormaliseAppend ==
    ASSUME NEW A, NEW s \in Seq(A), NEW x \in A
    PROVE  Normalise(Append(s, x)) = NormaliseStep(Normalise(s), x)
BY NormaliseFolds, FoldedAppend DEF Step

LEMMA BlocksStepFacts ==
    ASSUME NEW b, NEW x
    PROVE  /\ x = LF /\ b.rest # <<>> /\ Last(b.rest) = LF =>
                 /\ BlocksStep(b, x).whole = Append(b.whole, Front(b.rest))
                 /\ BlocksStep(b, x).rest = <<>>
           /\ ~(x = LF /\ b.rest # <<>> /\ Last(b.rest) = LF) =>
                 /\ BlocksStep(b, x).whole = b.whole
                 /\ BlocksStep(b, x).rest = Append(b.rest, x)
BY DEF BlocksStep

LEMMA CuttingFacts ==
    ASSUME NEW A, NEW s \in Seq(A)
    PROVE  Cutting(Blocks(s), s, A)
<1> DEFINE S == {t \in Seq(A) : Cutting(Blocks(t), t, A)}
<1>1. <<>> \in S
  <2>1. Blocks(<<>>).whole = <<>> /\ Blocks(<<>>).rest = <<>>
    BY BlocksEmpty
  <2>2. <<>> \in Seq(A) /\ <<>> \in Seq(Seq(A))
    BY EmptySeq
  <2> QED
    BY <2>1, <2>2 DEF Cutting
<1>2. ASSUME NEW t \in Seq(A), NEW x \in A, t \in S PROVE Append(t, x) \in S
  <2> DEFINE b == Blocks(t)
             w == b.whole
             r == b.rest
  <2>1. /\ w \in Seq(Seq(A)) /\ r \in Seq(A)
        /\ Append(t, x) \in Seq(A) /\ Append(t, x) # <<>> /\ Last(Append(t, x)) = x
    BY <1>2, EndFacts DEF Cutting
  <2>2. Blocks(Append(t, x)) = BlocksStep(b, x)
    BY BlocksAppend
  <2> HIDE DEF b
  <2>3. CASE x = LF /\ r # <<>> /\ Last(r) = LF
    <3>1. Blocks(Append(t, x)).whole = Append(w, Front(r)) /\ Blocks(Append(t, x)).rest = <<>>
      BY <2>2, <2>3, BlocksStepFacts
    <3>2. Front(r) \in Seq(A)
      BY <2>1, <2>3, FrontFacts
    <3>3. Append(w, Front(r)) \in Seq(Seq(A)) /\ <<>> \in Seq(A)
      BY <2>1, <3>2, AppendProperties, EmptySeq
    <3> QED
      BY <2>1, <2>3, <3>1, <3>3 DEF Cutting
  <2>4. CASE ~(x = LF /\ r # <<>> /\ Last(r) = LF)
    <3>1. Blocks(Append(t, x)).whole = w /\ Blocks(Append(t, x)).rest = Append(r, x)
      BY <2>2, <2>4, BlocksStepFacts
    <3>2. Append(r, x) \in Seq(A) /\ Append(r, x) # <<>> /\ Last(Append(r, x)) = x
      BY <2>1, EndFacts
    <3> QED
      BY <2>1, <3>1, <3>2 DEF Cutting
  <2> QED
    BY <2>3, <2>4
<1> HIDE DEF S
<1>3. Seq(A) \subseteq S
  BY <1>1, <1>2, SeqInduct
<1> QED
  BY <1>3 DEF S

LEMMA NormaliseType ==
    ASSUME NEW A, LF \in A, NEW s \in Seq(A)
    PROVE  Normalise(s) \in Seq(A)
<1> DEFINE S == {t \in Seq(A) : Normalise(t) \in Seq(A)}
<1>1. <<>> \in S
  BY BlocksEmpty, EmptySeq
<1>2. ASSUME NEW t \in Seq(A), NEW x \in A, t \in S PROVE Append(t, x) \in S
  <2> DEFINE n == Normalise(t)
  <2>1. Normalise(Append(t, x)) = NormaliseStep(n, x) /\ n \in Seq(A) /\ Append(t, x) \in Seq(A)
    BY <1>2, NormaliseAppend, EndFacts
  <2> HIDE DEF n
  <2>2. n # <<>> => Front(n) \in Seq(A)
    BY <2>1, FrontFacts
  <2>3. NormaliseStep(n, x) \in Seq(A)
    BY <2>1, <2>2, AppendProperties DEF NormaliseStep
  <2> QED
    BY <2>1, <2>3
<1> HIDE DEF S
<1>3. Seq(A) \subseteq S
  BY <1>1, <1>2, SeqInduct
<1> QED
  BY <1>3 DEF S

LEMMA LineEnds == LF # CR
BY DEF LF, CR

\* The bytes need not be kept to go on cutting: the rest is enough.
LEMMA CutUpAppend ==
    ASSUME NEW A, LF \in A, NEW s \in Seq(A), NEW x \in A
    PROVE  CutUp(Append(s, x)) = CutStep(CutUp(s), x)
<1> DEFINE n == Normalise(s)
           b == Blocks(n)
<1>1. n \in Seq(A) /\ Normalise(Append(s, x)) = NormaliseStep(n, x)
  BY NormaliseType, NormaliseAppend
<1>2. CutUp(Append(s, x)) = Blocks(NormaliseStep(n, x)) /\ CutUp(s) = b
  BY <1>1 DEF CutUp
<1>3. Cutting(b, n, A)
  BY <1>1, CuttingFacts
<1> HIDE DEF n, b
<1>4. CASE x = LF /\ n # <<>> /\ Last(n) = CR
  <2> DEFINE m == Front(n)
             c == Blocks(m)
  <2>1. m \in Seq(A) /\ n = Append(m, CR) /\ CR \in A
    BY <1>1, <1>4, FrontFacts
  <2>2. Cutting(c, m, A)
    BY <2>1, CuttingFacts
  <2>3. b = BlocksStep(c, CR)
    BY <2>1, BlocksAppend DEF b
  <2>4. Blocks(NormaliseStep(n, x)) = BlocksStep(c, LF)
    BY <1>4, <2>1, BlocksAppend DEF NormaliseStep
  <2> HIDE DEF m, c
  <2>5. c.rest \in Seq(A)
    BY <2>2 DEF Cutting
  <2>7. b.whole = c.whole /\ b.rest = Append(c.rest, CR)
    BY <2>3, BlocksStepFacts, LineEnds
  <2>8. b.rest # <<>> /\ Last(b.rest) = CR /\ Front(b.rest) = c.rest
    <3>1. /\ Append(c.rest, CR) # <<>> /\ Last(Append(c.rest, CR)) = CR
          /\ Front(Append(c.rest, CR)) = c.rest
      BY <2>1, <2>5, EndFacts
    <3> QED
      BY <2>7, <3>1
  <2>9. CutStep(b, x) = BlocksStep(c, LF)
    BY <1>4, <2>7, <2>8 DEF CutStep, BlocksStep
  <2> QED
    BY <1>2, <2>4, <2>9
<1>5. CASE ~(x = LF /\ n # <<>> /\ Last(n) = CR)
  <2>1. Blocks(NormaliseStep(n, x)) = BlocksStep(b, x)
    BY <1>1, <1>5, BlocksAppend DEF NormaliseStep, b
  <2>2. ~(x = LF /\ b.rest # <<>> /\ Last(b.rest) = CR)
    BY <1>3, <1>5 DEF Cutting
  <2> QED
    BY <1>2, <2>1, <2>2 DEF CutStep
<1> QED
  BY <1>4, <1>5

\* Cut texts, whole and rest, of sequences of A.
LEMMA CutUpType ==
    ASSUME NEW A, LF \in A, NEW s \in Seq(A)
    PROVE  CutUp(s).whole \in Seq(Seq(A)) /\ CutUp(s).rest \in Seq(A)
BY NormaliseType, CuttingFacts DEF CutUp, Cutting

LEMMA OneReturnAppend ==
    ASSUME NEW A, NEW s \in Seq(A), NEW x \in A, OneReturn(Append(s, x))
    PROVE  /\ OneReturn(s)
           /\ Len(s) >= 2 /\ s[Len(s) - 1] = CR /\ s[Len(s)] = CR => x # LF
<1> DEFINE t == Append(s, x)
<1>1. /\ Len(t) = Len(s) + 1 /\ Len(s) \in Nat /\ t[Len(s) + 1] = x
      /\ \A i \in 1 .. Len(s) : t[i] = s[i]
  BY AppendProperties, LenProperties
<1> HIDE DEF t
<1>2. \A i \in 1 .. Len(t) - 2 : ~(t[i] = CR /\ t[i + 1] = CR /\ t[i + 2] = LF)
  BY DEF t, OneReturn
<1>3. OneReturn(s)
  <2> SUFFICES ASSUME NEW i \in 1 .. Len(s) - 2 PROVE ~(s[i] = CR /\ s[i + 1] = CR /\ s[i + 2] = LF)
    BY DEF OneReturn
  <2>1. i \in 1 .. Len(t) - 2 /\ t[i] = s[i] /\ t[i + 1] = s[i + 1] /\ t[i + 2] = s[i + 2]
    BY <1>1
  <2> QED
    BY <1>2, <2>1
<1>4. Len(s) >= 2 /\ s[Len(s) - 1] = CR /\ s[Len(s)] = CR => x # LF
  <2> SUFFICES ASSUME Len(s) >= 2, s[Len(s) - 1] = CR, s[Len(s)] = CR PROVE x # LF
    OBVIOUS
  <2> DEFINE i == Len(s) - 1
  <2>1. i \in 1 .. Len(t) - 2 /\ t[i] = s[i] /\ t[i + 1] = s[Len(s)] /\ t[i + 2] = x
    BY <1>1
  <2> QED
    BY <1>2, <2>1
<1> QED
  BY <1>3, <1>4

\* A rest in which no line end is left to normalise and no blank line to cut at.
Stable(s) == \A i \in 1 .. Len(s) - 1 : s[i + 1] = LF => s[i] \notin {CR, LF}

LEMMA StableAppend ==
    ASSUME NEW A, NEW s \in Seq(A), NEW x \in A
    PROVE  Stable(Append(s, x)) <=>
               Stable(s) /\ (x = LF /\ s # <<>> => Last(s) \notin {CR, LF})
<1> DEFINE t == Append(s, x)
<1>1. /\ Len(t) = Len(s) + 1 /\ Len(s) \in Nat /\ t[Len(s) + 1] = x
      /\ \A i \in 1 .. Len(s) : t[i] = s[i]
      /\ s # <<>> <=> Len(s) # 0
  BY AppendProperties, LenProperties, EmptySeq
<1> HIDE DEF t
<1>2. ASSUME Stable(t) PROVE Stable(s) /\ (x = LF /\ s # <<>> => Last(s) \notin {CR, LF})
  BY <1>1, <1>2 DEF Stable, Last
<1>3. ASSUME Stable(s), x = LF /\ s # <<>> => Last(s) \notin {CR, LF} PROVE Stable(t)
  <2> SUFFICES ASSUME NEW i \in 1 .. Len(t) - 1, t[i + 1] = LF PROVE t[i] \notin {CR, LF}
    BY DEF Stable
  <2>1. CASE i = Len(s)
    BY <1>1, <1>3, <2>1 DEF Last
  <2>2. CASE i # Len(s)
    <3>1. i \in 1 .. Len(s) - 1 /\ t[i] = s[i] /\ t[i + 1] = s[i + 1]
      BY <1>1, <2>2
    <3> QED
      BY <1>3, <3>1 DEF Stable
  <2> QED
    BY <2>1, <2>2
<1> QED
  BY <1>2, <1>3 DEF t

\* A stable rest is cut into nothing but itself.
LEMMA StableStays ==
    ASSUME NEW A, LF \in A, NEW s \in Seq(A), Stable(s)
    PROVE  CutUp(s).whole = <<>> /\ CutUp(s).rest = s
<1> DEFINE S == {t \in Seq(A) : Stable(t) => CutUp(t).whole = <<>> /\ CutUp(t).rest = t}
<1>1. <<>> \in S
  BY BlocksEmpty, EmptySeq DEF CutUp
<1>2. ASSUME NEW t \in Seq(A), NEW x \in A, t \in S PROVE Append(t, x) \in S
  <2> SUFFICES ASSUME Stable(Append(t, x))
               PROVE  CutUp(Append(t, x)).whole = <<>> /\ CutUp(Append(t, x)).rest = Append(t, x)
    BY EndFacts
  <2>1. Stable(t) /\ (x = LF /\ t # <<>> => Last(t) \notin {CR, LF})
    BY StableAppend
  <2> DEFINE b == CutUp(t)
  <2>2. b.whole = <<>> /\ b.rest = t
    BY <1>2, <2>1
  <2>3. CutUp(Append(t, x)) = CutStep(b, x)
    BY CutUpAppend
  <2> HIDE DEF b
  <2>4. CutStep(b, x) = BlocksStep(b, x)
    BY <2>1, <2>2 DEF CutStep
  <2>5. BlocksStep(b, x).whole = b.whole /\ BlocksStep(b, x).rest = Append(b.rest, x)
    BY <2>1, <2>2, BlocksStepFacts
  <2> QED
    BY <2>2, <2>3, <2>4, <2>5
<1> HIDE DEF S
<1>3. Seq(A) \subseteq S
  BY <1>1, <1>2, SeqInduct
<1> QED
  BY <1>3 DEF S

\* The rest ends with the carriage returns the bytes end with.
SameReturns(r, s) ==
    /\ r # <<>> /\ Last(r) = CR => s # <<>> /\ Last(s) = CR
    /\ Len(r) >= 2 /\ r[Len(r)] = CR /\ r[Len(r) - 1] = CR =>
           Len(s) >= 2 /\ s[Len(s)] = CR /\ s[Len(s) - 1] = CR

LEMMA RestStable ==
    ASSUME NEW A, LF \in A, NEW s \in Seq(A), OneReturn(s)
    PROVE  Stable(CutUp(s).rest)
<1> DEFINE S == {t \in Seq(A) : OneReturn(t) => Stable(CutUp(t).rest) /\ SameReturns(CutUp(t).rest, t)}
<1>1. <<>> \in S
  <2>1. CutUp(<<>>).rest = <<>> /\ Len(<<>>) = 0 /\ <<>> \in Seq(A)
    BY BlocksEmpty, EmptySeq DEF CutUp
  <2> QED
    BY <2>1 DEF Stable, SameReturns
<1>2. ASSUME NEW t \in Seq(A), NEW x \in A, t \in S PROVE Append(t, x) \in S
  <2> DEFINE b == CutUp(t)
             r == b.rest
             u == Append(t, x)
             d == CutStep(b, x).rest
  <2> SUFFICES ASSUME OneReturn(u) PROVE Stable(CutUp(u).rest) /\ SameReturns(CutUp(u).rest, u)
    BY EndFacts
  <2>1. OneReturn(t) /\ (Len(t) >= 2 /\ t[Len(t) - 1] = CR /\ t[Len(t)] = CR => x # LF)
    BY OneReturnAppend
  <2>2. Stable(r) /\ SameReturns(r, t) /\ r \in Seq(A)
    BY <1>2, <2>1, CutUpType
  <2>3. CutUp(u).rest = d
    BY CutUpAppend
  <2>4. /\ u # <<>> /\ Last(u) = x /\ Len(t) \in Nat /\ Len(u) = Len(t) + 1 /\ u[Len(u)] = x
        /\ \A i \in 1 .. Len(t) : u[i] = t[i]
        /\ t # <<>> <=> Len(t) # 0
    BY EndFacts, AppendProperties, LenProperties, EmptySeq
  <2> HIDE DEF b, u, d
  <2>5. CASE d = <<>>
    BY <2>3, <2>5, EmptySeq DEF Stable, SameReturns
  <2>6. CASE x = LF /\ r # <<>> /\ Last(r) = CR /\ d # <<>>
    <3> DEFINE m == Front(r)
               c == [whole |-> b.whole, rest |-> m]
    <3>1. /\ m \in Seq(A) /\ r = Append(m, CR) /\ CR \in A /\ Len(m) \in Nat
          /\ Len(r) = Len(m) + 1 /\ r[Len(r)] = CR
          /\ \A i \in 1 .. Len(m) : r[i] = m[i]
          /\ m # <<>> <=> Len(m) # 0
      <4> HIDE DEF r
      <4>1. /\ Front(r) \in Seq(A) /\ Last(r) \in A /\ r = Append(Front(r), Last(r))
            /\ Len(r) \in Nat \ {0} /\ Len(Front(r)) = Len(r) - 1
            /\ \A i \in 1 .. Len(r) - 1 : Front(r)[i] = r[i]
        BY <2>2, <2>6, FrontFacts
      <4>2. m # <<>> <=> Len(m) # 0
        BY <4>1, EmptySeq
      <4> QED
        BY <2>6, <4>1, <4>2 DEF Last
    <3>2. CutStep(b, x) = BlocksStep(c, LF) /\ c.rest = m
      BY <2>6 DEF CutStep
    <3> HIDE DEF c, m, r
    <3>3. ~(m # <<>> /\ Last(m) = LF) /\ d = Append(m, LF)
      BY <2>6, <3>2, BlocksStepFacts DEF d
    <3>4. Stable(m)
      BY <2>2, <3>1, StableAppend
    <3>5. ~(m # <<>> /\ Last(m) = CR)
      <4> SUFFICES ASSUME m # <<>>, Last(m) = CR PROVE FALSE
        OBVIOUS
      <4>1. Len(r) >= 2 /\ r[Len(r)] = CR /\ r[Len(r) - 1] = CR
        BY <3>1 DEF Last
      <4> QED
        BY <2>1, <2>2, <2>6, <4>1 DEF SameReturns
    <3>6. Stable(d)
      BY <3>1, <3>3, <3>4, <3>5, StableAppend
    <3>7. d[Len(d)] = LF /\ Last(d) = LF
      BY <3>1, <3>3, AppendProperties, EndFacts DEF Last
    <3> QED
      BY <2>3, <3>6, <3>7, LineEnds DEF SameReturns
  <2>7. CASE ~(x = LF /\ r # <<>> /\ Last(r) = CR) /\ d # <<>>
    <3>1. CutStep(b, x) = BlocksStep(b, x)
      BY <2>7 DEF CutStep
    <3>2. ~(x = LF /\ r # <<>> /\ Last(r) = LF) /\ d = Append(r, x)
      BY <2>7, <3>1, BlocksStepFacts DEF d
    <3> HIDE DEF r
    <3>3. Stable(d)
      BY <2>2, <2>7, <3>2, StableAppend
    <3>4. /\ Last(d) = x /\ Len(r) \in Nat /\ Len(d) = Len(r) + 1 /\ d[Len(d)] = x
          /\ \A i \in 1 .. Len(r) : d[i] = r[i]
          /\ r # <<>> <=> Len(r) # 0
      BY <2>2, <3>2, EndFacts, AppendProperties, LenProperties, EmptySeq
    <3>5. SameReturns(d, u)
      <4>1. Last(d) = CR => u # <<>> /\ Last(u) = CR
        BY <2>4, <3>4
      <4>2. ASSUME Len(d) >= 2, d[Len(d)] = CR, d[Len(d) - 1] = CR
            PROVE  Len(u) >= 2 /\ u[Len(u)] = CR /\ u[Len(u) - 1] = CR
        <5>1. r # <<>> /\ Last(r) = CR /\ x = CR
          BY <3>4, <4>2 DEF Last
        <5>2. t # <<>> /\ Last(t) = CR
          BY <2>2, <5>1 DEF SameReturns
        <5> QED
          BY <2>4, <5>1, <5>2 DEF Last
      <4> QED
        BY <4>1, <4>2 DEF SameReturns
    <3> QED
      BY <2>3, <3>3, <3>5
  <2> QED
    BY <2>5, <2>6, <2>7
<1> HIDE DEF S
<1>3. Seq(A) \subseteq S
  BY <1>1, <1>2, SeqInduct
<1> QED
  BY <1>3 DEF S

LEMMA AppendConcat ==
    ASSUME NEW T, NEW s \in Seq(T), NEW t \in Seq(T), NEW y \in T
    PROVE  s \o Append(t, y) = Append(s \o t, y)
<1>1. s \o t \in Seq(T) /\ <<y>> \in Seq(T)
  BY ConcatProperties
<1>2. Append(t, y) = t \o <<y>> /\ Append(s \o t, y) = (s \o t) \o <<y>>
  BY <1>1, AppendIsConcat
<1>3. (s \o t) \o <<y>> = s \o (t \o <<y>>)
  BY <1>1, ConcatAssociative
<1> QED
  BY <1>2, <1>3

\* The step of the cutting, by what it does to the whole texts and to the rest.
Kept(r, x)  == IF x = LF /\ r # <<>> /\ Last(r) = CR THEN Front(r) ELSE r
Ended(r, x) == x = LF /\ Kept(r, x) # <<>> /\ Last(Kept(r, x)) = LF

LEMMA CutStepFacts ==
    ASSUME NEW b, NEW x
    PROVE  /\ CutStep(b, x).whole = IF Ended(b.rest, x) THEN Append(b.whole, Front(Kept(b.rest, x)))
                                    ELSE b.whole
           /\ CutStep(b, x).rest = IF Ended(b.rest, x) THEN <<>> ELSE Append(Kept(b.rest, x), x)
<1>1. CASE x = LF /\ b.rest # <<>> /\ Last(b.rest) = CR
  BY <1>1 DEF CutStep, BlocksStep, Ended, Kept
<1>2. CASE ~(x = LF /\ b.rest # <<>> /\ Last(b.rest) = CR)
  BY <1>2 DEF CutStep, BlocksStep, Ended, Kept
<1> QED
  BY <1>1, <1>2

\* Cutting goes on from the rest: what is whole is found once, and what comes after it
\* depends on the rest only.
LEMMA CutUpConcat ==
    ASSUME NEW A, LF \in A, NEW s \in Seq(A), OneReturn(s), NEW c \in Seq(A)
    PROVE  /\ CutUp(s \o c).whole = CutUp(s).whole \o CutUp(CutUp(s).rest \o c).whole
           /\ CutUp(s \o c).rest = CutUp(CutUp(s).rest \o c).rest
<1> DEFINE w == CutUp(s).whole
           r == CutUp(s).rest
           Goes(t) == /\ CutUp(s \o t).whole = w \o CutUp(r \o t).whole
                      /\ CutUp(s \o t).rest = CutUp(r \o t).rest
           S == {t \in Seq(A) : Goes(t)}
<1>1. w \in Seq(Seq(A)) /\ r \in Seq(A) /\ CutUp(r).whole = <<>> /\ CutUp(r).rest = r
  BY CutUpType, RestStable, StableStays
<1>2. <<>> \in S
  <2>1. s \o <<>> = s /\ r \o <<>> = r /\ w \o <<>> = w /\ <<>> \in Seq(A)
    BY <1>1, ConcatEmptySeq, EmptySeq
  <2> QED
    BY <1>1, <2>1
<1> HIDE DEF w, r
<1>3. ASSUME NEW t \in Seq(A), NEW x \in A, t \in S PROVE Append(t, x) \in S
  <2> DEFINE b == CutUp(s \o t)
             d == CutUp(r \o t)
  <2>1. /\ s \o t \in Seq(A) /\ r \o t \in Seq(A) /\ Append(t, x) \in Seq(A)
        /\ s \o Append(t, x) = Append(s \o t, x) /\ r \o Append(t, x) = Append(r \o t, x)
    <3>1. s \o t \in Seq(A) /\ r \o t \in Seq(A)
      BY <1>1, ConcatProperties
    <3>2. s \o Append(t, x) = Append(s \o t, x)
      BY AppendConcat
    <3>3. r \o Append(t, x) = Append(r \o t, x)
      BY <1>1, AppendConcat
    <3> QED
      BY <3>1, <3>2, <3>3, EndFacts
  <2>2. CutUp(Append(s \o t, x)) = CutStep(b, x) /\ CutUp(Append(r \o t, x)) = CutStep(d, x)
    BY <2>1, CutUpAppend
  <2>3. b.whole = w \o d.whole /\ b.rest = d.rest /\ d.whole \in Seq(Seq(A)) /\ d.rest \in Seq(A)
    BY <1>3, <2>1, CutUpType
  <2> HIDE DEF b, d
  <2>6. CutStep(b, x).whole = w \o CutStep(d, x).whole /\ CutStep(b, x).rest = CutStep(d, x).rest
    <3> DEFINE T == Seq(A)
               v == d.whole
               f == Front(Kept(d.rest, x))
    <3>1. w \in Seq(T) /\ v \in Seq(T)
      BY <1>1, <2>3
    <3>2. CASE Ended(d.rest, x)
      <4>1. f \in T
        <5>1. \A u \in Seq(A) : u # <<>> => Front(u) \in Seq(A)
          BY FrontFacts
        <5>2. Kept(d.rest, x) \in Seq(A) /\ Kept(d.rest, x) # <<>>
          BY <2>3, <3>2, <5>1 DEF Ended, Kept
        <5> QED
          BY <5>1, <5>2
      <4>2. CutStep(d, x).whole = Append(v, f) /\ CutStep(d, x).rest = <<>>
        BY <3>2, CutStepFacts
      <4>3. CutStep(b, x).whole = Append(w \o v, f) /\ CutStep(b, x).rest = <<>>
        <5>1. CutStep(b, x).whole = Append(b.whole, Front(Kept(b.rest, x))) /\ CutStep(b, x).rest = <<>>
          BY <2>3, <3>2, CutStepFacts
        <5> QED
          BY <2>3, <5>1
      <4> HIDE DEF T, v, f
      <4>4. w \o Append(v, f) = Append(w \o v, f)
        BY <3>1, <4>1, AppendConcat
      <4> QED
        BY <4>2, <4>3, <4>4
    <3>3. CASE ~Ended(d.rest, x)
      <4>1. CutStep(d, x).whole = d.whole /\ CutStep(d, x).rest = Append(Kept(d.rest, x), x)
        BY <3>3, CutStepFacts
      <4>2. CutStep(b, x).whole = b.whole /\ CutStep(b, x).rest = Append(Kept(b.rest, x), x)
        BY <2>3, <3>3, CutStepFacts
      <4> QED
        BY <2>3, <4>1, <4>2
    <3> QED
      BY <3>2, <3>3
  <2> QED
    BY <2>1, <2>2, <2>6
<1> HIDE DEF S
<1>4. Seq(A) \subseteq S
  BY <1>2, <1>3, SeqInduct
<1> QED
  BY <1>4 DEF S, w, r

-----------------------------------------------------------------------------
(* From texts to events.                                                    *)

IsSeq(s) == s \in Seq(Range(s))

LEMMA IsSeqFacts ==
    ASSUME NEW s, NEW t, IsSeq(s), IsSeq(t)
    PROVE  \E T : s \in Seq(T) /\ t \in Seq(T)
<1> DEFINE T == Range(s) \cup Range(t)
           R == Range(s)
           Q == Range(t)
<1>1. s \in Seq(R) /\ t \in Seq(Q) /\ R \subseteq T /\ Q \subseteq T
  BY DEF IsSeq
<1> HIDE DEF R, Q, T
<1>2. s \in Seq(T) /\ t \in Seq(T)
  BY <1>1, SeqMonotonic
<1> QED
  BY <1>2

LEMMA SeqIsSeq ==
    ASSUME NEW T, NEW s \in Seq(T)
    PROVE  IsSeq(s)
BY SeqOfRange DEF IsSeq

LEMMA ConcatIsSeq ==
    ASSUME NEW s, NEW t, IsSeq(s), IsSeq(t)
    PROVE  IsSeq(s \o t)
<1>1. PICK T : s \in Seq(T) /\ t \in Seq(T)
  BY IsSeqFacts
<1>2. s \o t \in Seq(T)
  BY <1>1, ConcatProperties
<1> QED
  BY <1>2, SeqIsSeq

LEMMA AppendIsSeq ==
    ASSUME NEW s, NEW x, IsSeq(s)
    PROVE  IsSeq(Append(s, x))
<1> DEFINE R == Range(s)
           T == R \cup {x}
<1>1. s \in Seq(R) /\ R \subseteq T /\ x \in T
  BY DEF IsSeq
<1> HIDE DEF R, T
<1>2. s \in Seq(T)
  BY <1>1, SeqMonotonic
<1>3. Append(s, x) \in Seq(T)
  BY <1>1, <1>2, AppendProperties
<1> QED
  BY <1>3, SeqIsSeq

LEMMA IsSeqAssociative ==
    ASSUME NEW s, NEW t, NEW u, IsSeq(s), IsSeq(t), IsSeq(u)
    PROVE  (s \o t) \o u = s \o (t \o u)
<1> DEFINE R == Range(s)
           Q == Range(t)
           P == Range(u)
           T == R \cup Q \cup P
<1>1. /\ s \in Seq(R) /\ t \in Seq(Q) /\ u \in Seq(P)
      /\ R \subseteq T /\ Q \subseteq T /\ P \subseteq T
  BY DEF IsSeq
<1> HIDE DEF R, Q, P, T
<1>2. s \in Seq(T) /\ t \in Seq(T) /\ u \in Seq(T)
  BY <1>1, SeqMonotonic
<1> QED
  BY <1>2, ConcatAssociative

LEMMA ConcatPrefix ==
    ASSUME NEW s, NEW t, IsSeq(s), IsSeq(t)
    PROVE  IsPrefix(s, s \o t)
<1>1. PICK T : s \in Seq(T) /\ t \in Seq(T)
  BY IsSeqFacts
<1>2. Len(s) \in Nat /\ Len(t) \in Nat /\ Len(s \o t) = Len(s) + Len(t)
  BY <1>1, ConcatProperties, LenProperties
<1>3. SubSeq(s \o t, 1, Len(s)) = SubSeq(s, 1, Len(s))
  <2>1. CASE Len(s) = 0
    BY <2>1, SubSeqEmpty
  <2>2. CASE Len(s) # 0
    <3>1. 1 \in 1 .. Len(s) /\ Len(s) \in 1 .. Len(s)
      BY <1>2, <2>2
    <3> QED
      BY <1>1, <3>1, SubSeqOfConcat1
  <2> QED
    BY <2>1, <2>2
<1> QED
  BY <1>2, <1>3 DEF IsPrefix

\* The lines gathered so far are a record, whose events are a sequence.
Gathered(acc) == DOMAIN acc = {"out", "name", "data", "blank"} /\ IsSeq(acc.out)

LEMMA FlushedGathered ==
    ASSUME NEW acc, Gathered(acc)
    PROVE  Gathered(Flushed(acc))
<1> DEFINE f == Flushed(acc)
           e == [name |-> acc.name, data |-> acc.data]
<1>1. /\ DOMAIN f = {"out", "name", "data", "blank"}
      /\ f.out = IF acc.data = <<>> THEN acc.out ELSE Append(acc.out, e)
  BY DEF Flushed, Gathered
<1> HIDE DEF f, e
<1>2. IsSeq(acc.out) /\ IsSeq(Append(acc.out, e))
  BY AppendIsSeq DEF Gathered
<1> QED
  BY <1>1, <1>2 DEF Gathered, f

LEMMA ParseLineGathered ==
    ASSUME NEW acc, Gathered(acc), NEW x, x.k \in AtomKinds
    PROVE  Gathered(ParseLine(acc, x))
<1> DEFINE here == [acc EXCEPT !.blank = FALSE]
<1>1. Gathered(here) /\ Gathered([acc EXCEPT !.blank = TRUE])
  BY DEF Gathered
<1>2. Gathered([here EXCEPT !.name = x.name]) /\ Gathered([here EXCEPT !.data = Append(@, x.chunk)])
  BY DEF Gathered
<1>3. Gathered(Flushed(acc))
  BY FlushedGathered
<1>4. Gathered([Flushed(acc) EXCEPT !.out = Append(@, Done), !.blank = FALSE])
  <2> DEFINE f == Flushed(acc)
             g == [f EXCEPT !.out = Append(@, Done), !.blank = FALSE]
  <2>1. Gathered(f)
    BY <1>3
  <2> HIDE DEF f
  <2>2. DOMAIN g = {"out", "name", "data", "blank"} /\ g.out = Append(f.out, Done)
    BY <2>1 DEF Gathered
  <2> HIDE DEF g
  <2>3. Gathered(g)
    BY <2>1, <2>2, AppendIsSeq DEF Gathered
  <2> QED
    BY <2>3 DEF f, g
<1>5. CASE x.k = "lf"
  BY <1>1, <1>3, <1>5 DEF ParseLine
<1>6. CASE x.k \in {"cr", "comment"}
  BY <1>1, <1>6 DEF ParseLine
<1>7. CASE x.k = "event"
  BY <1>2, <1>7 DEF ParseLine
<1>8. CASE x.k = "data"
  BY <1>2, <1>8 DEF ParseLine
<1>9. CASE x.k = "[DONE]"
  BY <1>4, <1>9 DEF ParseLine
<1> QED
  BY <1>5, <1>6, <1>7, <1>8, <1>9 DEF AtomKinds

\* Bytes as they come, and as the replacement of the line ends leaves them.
Atoms(A) == LF \in A /\ \A x \in A : x.k \in AtomKinds

LEMMA ParseIsSeq ==
    ASSUME NEW A, Atoms(A), NEW s \in Seq(A)
    PROVE  IsSeq(Parse(s))
<1> DEFINE S == {t \in Seq(A) : Gathered(Folded("parse", t))}
<1>1. <<>> \in S
  <2>1. Folded("parse", <<>>) = [out |-> <<>>, name |-> NoName, data |-> <<>>, blank |-> TRUE]
    BY FoldedEmpty DEF Base
  <2>2. <<>> \in Seq(A) /\ IsSeq(<<>>)
    BY EmptySeq DEF IsSeq
  <2> QED
    BY <2>1, <2>2 DEF Gathered
<1>2. ASSUME NEW t \in Seq(A), NEW x \in A, t \in S PROVE Append(t, x) \in S
  <2>1. Folded("parse", Append(t, x)) = Step("parse", Folded("parse", t), x)
    BY FoldedAppend
  <2>2. Gathered(ParseLine(Folded("parse", t), x))
    BY <1>2, ParseLineGathered DEF Atoms
  <2> QED
    BY <2>1, <2>2, EndFacts DEF Step
<1> HIDE DEF S
<1>3. Seq(A) \subseteq S
  BY <1>1, <1>2, SeqInduct
<1>4. Gathered(Flushed(Folded("parse", s)))
  BY <1>3, FlushedGathered DEF S
<1> QED
  BY <1>4, ParseFolds DEF Gathered

LEMMA EventsEmpty == Events(<<>>) = <<>>
BY EventsFolds, FoldedEmpty DEF Base

LEMMA EventsAppend ==
    ASSUME NEW T, NEW w \in Seq(T), NEW t \in T
    PROVE  Events(Append(w, t)) = Events(w) \o Parse(t)
<1>1. Folded("events", Append(w, t)) = Step("events", Folded("events", w), t)
  BY FoldedAppend
<1>2. Step("events", Events(w), t) = Events(w) \o Parse(t)
  BY DEF Step
<1> QED
  BY <1>1, <1>2, EventsFolds

LEMMA EventsIsSeq ==
    ASSUME NEW A, Atoms(A), NEW w \in Seq(Seq(A))
    PROVE  IsSeq(Events(w))
<1> DEFINE T == Seq(A)
           S == {v \in Seq(T) : IsSeq(Events(v))}
<1>1. <<>> \in S
  BY EventsEmpty, EmptySeq DEF IsSeq
<1>2. ASSUME NEW v \in Seq(T), NEW t \in T, v \in S PROVE Append(v, t) \in S
  <2>1. IsSeq(Events(v)) /\ IsSeq(Parse(t))
    BY <1>2, ParseIsSeq
  <2>2. IsSeq(Events(v) \o Parse(t))
    BY <2>1, ConcatIsSeq
  <2> HIDE DEF T
  <2>3. Events(Append(v, t)) = Events(v) \o Parse(t) /\ Append(v, t) \in Seq(T)
    BY EventsAppend, EndFacts
  <2> QED
    BY <2>2, <2>3
<1> HIDE DEF S, T
<1>3. Seq(T) \subseteq S
  BY <1>1, <1>2, SeqInduct
<1> QED
  BY <1>3 DEF S, T

\* The events of more texts come after those of the texts before.
LEMMA EventsConcat ==
    ASSUME NEW A, Atoms(A), NEW w \in Seq(Seq(A)), NEW v \in Seq(Seq(A))
    PROVE  Events(w \o v) = Events(w) \o Events(v)
<1> DEFINE T == Seq(A)
           S == {u \in Seq(T) : Events(w \o u) = Events(w) \o Events(u)}
           e == Events(w)
<1>1. IsSeq(e)
  BY EventsIsSeq
<1>2. <<>> \in S
  <2>1. w \o <<>> = w /\ <<>> \in Seq(T)
    BY ConcatEmptySeq, EmptySeq
  <2>2. e \o <<>> = e
    BY <1>1, ConcatEmptySeq DEF IsSeq
  <2> QED
    BY <2>1, <2>2, EventsEmpty
<1>3. ASSUME NEW u \in Seq(T), NEW t \in T, u \in S PROVE Append(u, t) \in S
  <2> DEFINE g == Events(u)
             p == Parse(t)
  <2>1. IsSeq(g) /\ IsSeq(p)
    BY EventsIsSeq, ParseIsSeq
  <2> HIDE DEF T
  <2>2. Append(u, t) \in Seq(T) /\ Events(Append(u, t)) = g \o p
    BY EventsAppend, EndFacts
  <2>3. w \in Seq(T) /\ w \o u \in Seq(T)
    BY ConcatProperties DEF T
  <2>4. w \o Append(u, t) = Append(w \o u, t)
    BY <2>3, AppendConcat
  <2>5. Events(Append(w \o u, t)) = Events(w \o u) \o p
    BY <2>3, EventsAppend
  <2>6. Events(w \o u) = e \o g
    BY <1>3
  <2> HIDE DEF g, p, e
  <2>7. (e \o g) \o p = e \o (g \o p)
    BY <1>1, <2>1, IsSeqAssociative
  <2> QED
    BY <2>2, <2>4, <2>5, <2>6, <2>7 DEF e
<1> HIDE DEF S, T
<1>4. Seq(T) \subseteq S
  BY <1>2, <1>3, SeqInduct
<1> QED
  BY <1>4 DEF S, T

-----------------------------------------------------------------------------
(* Where the chunks are cut does not matter                                 *)

\* What has arrived, and what of it the test has seen and is about to see.
Arrived == SubSeq(body, 1, sent)

Chunked ==
    /\ protocol \in DOMAIN Bodies /\ body \in Bodies[protocol]
    /\ sent \in 0 .. Len(body)
    /\ ending = "" =>
          /\ IsSeq(seen) /\ IsSeq(pending)
          /\ buf = CutUp(Arrived).rest
          /\ Events(CutUp(Arrived).whole) = seen \o pending

BodyAtoms(s) == Range(s) \cup {LF}

LEMMA BodyFacts ==
    ASSUME NEW p \in DOMAIN Bodies, NEW b \in Bodies[p]
    PROVE  /\ b \in Seq(BodyAtoms(b)) /\ Atoms(BodyAtoms(b)) /\ LF \in BodyAtoms(b)
           /\ OneReturn(b) /\ Len(b) \in Nat
<1>1. b \in Seq(Range(b)) /\ OneReturn(b) /\ \A i \in DOMAIN b : b[i].k \in AtomKinds
  BY BodiesAssumption
<1> DEFINE R == Range(b)
<1>2. \A x \in R : \E i \in DOMAIN b : x = b[i]
  BY DEF Range
<1>3. LF.k \in AtomKinds
  BY DEF LF, AtomKinds
<1>4. Atoms(BodyAtoms(b))
  BY <1>1, <1>2, <1>3 DEF Atoms, BodyAtoms
<1> DEFINE T == R \cup {LF}
<1>5. b \in Seq(R) /\ R \subseteq T
  BY <1>1
<1> HIDE DEF R, T
<1>6. b \in Seq(T)
  BY <1>5, SeqMonotonic
<1>7. Len(b) \in Nat
  BY <1>6, LenProperties
<1> QED
  BY <1>1, <1>4, <1>6, <1>7 DEF T, R, BodyAtoms

\* A body without its end is such a sequence too, and the end follows it.
LEMMA PartFacts ==
    ASSUME NEW A, NEW s \in Seq(A), OneReturn(s), NEW m \in 0 .. Len(s), NEW n \in m .. Len(s)
    PROVE  /\ SubSeq(s, 1, m) \in Seq(A) /\ OneReturn(SubSeq(s, 1, m))
           /\ SubSeq(s, m + 1, n) \in Seq(A)
           /\ SubSeq(s, 1, n) = SubSeq(s, 1, m) \o SubSeq(s, m + 1, n)
           /\ SubSeq(s, 1, Len(s)) = s
<1>1. Len(s) \in Nat /\ \A i \in 1 .. Len(s) : s[i] \in A
  BY LenProperties, ElementOfSeq
<1> DEFINE u == SubSeq(s, 1, m)
<1>2. u \in Seq(A) /\ Len(u) = m /\ \A i \in 1 .. m : u[i] = s[i]
  BY <1>1, SubSeqProperties
<1>3. SubSeq(s, m + 1, n) \in Seq(A)
  BY <1>1, SubSeqProperties
<1> HIDE DEF u
<1>4. OneReturn(u)
  <2> SUFFICES ASSUME NEW i \in 1 .. Len(u) - 2
               PROVE  ~(u[i] = CR /\ u[i + 1] = CR /\ u[i + 2] = LF)
    BY DEF OneReturn
  <2>1. i \in 1 .. Len(s) - 2 /\ u[i] = s[i] /\ u[i + 1] = s[i + 1] /\ u[i + 2] = s[i + 2]
    BY <1>1, <1>2
  <2> QED
    BY <2>1 DEF OneReturn
<1>5. SubSeq(s, 1, m) \o SubSeq(s, m + 1, n) = SubSeq(s, 1, n)
  <2>1. 1 \in 1 .. Len(s) + 1 /\ m \in 1 - 1 .. Len(s) /\ n \in m .. Len(s)
    BY <1>1
  <2> QED
    BY <2>1, ConcatAdjacentSubSeq
<1> QED
  BY <1>2, <1>3, <1>4, <1>5, SubSeqFull DEF u

\* Before any byte of a stream, and when a test has raised.
LEMMA NothingCut ==
    ASSUME NEW p \in DOMAIN Bodies, NEW b \in Bodies[p]
    PROVE  /\ 0 \in 0 .. Len(b) /\ IsSeq(<<>>)
           /\ CutUp(SubSeq(b, 1, 0)).rest = <<>>
           /\ Events(CutUp(SubSeq(b, 1, 0)).whole) = <<>> \o <<>>
<1>1. Len(b) \in Nat
  BY BodyFacts
<1>2. SubSeq(b, 1, 0) = <<>>
  BY SubSeqEmpty
<1>3. CutUp(<<>>).whole = <<>> /\ CutUp(<<>>).rest = <<>>
  BY BlocksEmpty DEF CutUp
<1>4. <<>> \o <<>> = <<>> /\ IsSeq(<<>>)
  BY EmptySeq, ConcatEmptySeq DEF IsSeq
<1>5. CutUp(SubSeq(b, 1, 0)).rest = <<>> /\ CutUp(SubSeq(b, 1, 0)).whole = <<>>
  BY <1>2, <1>3
<1>6. Events(CutUp(SubSeq(b, 1, 0)).whole) = <<>> \o <<>>
  BY <1>4, <1>5, EventsEmpty
<1>7. 0 \in 0 .. Len(b)
  BY <1>1
<1> QED
  BY <1>4, <1>5, <1>6, <1>7

LEMMA InitChunked == Init => Chunked
<1> SUFFICES ASSUME Init PROVE Chunked
  OBVIOUS
<1>1. /\ protocol \in DOMAIN Bodies /\ body \in Bodies[protocol]
      /\ sent = 0 /\ buf = <<>> /\ pending = <<>> /\ seen = <<>>
  BY DEF Init
<1> QED
  BY <1>1, NothingCut DEF Chunked, Arrived

LEMMA RaiseChunked == Chunked /\ Raise => Chunked'
<1> SUFFICES ASSUME Chunked, Raise PROVE Chunked'
  OBVIOUS
<1>1. /\ protocol' \in DOMAIN Bodies /\ body' \in Bodies[protocol']
      /\ sent' = 0 /\ buf' = <<>> /\ pending' = <<>> /\ seen' = <<>>
  BY DEF Raise, Chunked, request
<1> QED
  BY <1>1, NothingCut DEF Chunked, Arrived

\* A chunk is cut together with what was left of the chunks before it (the loop of
\* aiter_sse_events over buf).
LEMMA ReceiveChunked ==
    ASSUME Chunked, NEW n \in 1 .. Len(body) - sent, NEW d, Receive(n, d)
    PROVE  Chunked'
<1> DEFINE A == BodyAtoms(body)
           c == SubSeq(body, sent + 1, sent + n)
           b == CutUp(Arrived)
           e == CutUp(buf \o c)
<1>1. /\ ending = "" /\ ending' = "" /\ pending = <<>> /\ UNCHANGED <<protocol, body, seen>>
      /\ sent' = sent + n /\ buf' = e.rest /\ pending' = Events(e.whole)
  BY DEF Receive, Waiting, request, CutUp
<1>2. /\ IsSeq(seen) /\ buf = b.rest /\ Events(b.whole) = seen \o <<>>
      /\ sent \in 0 .. Len(body) /\ body \in Bodies[protocol] /\ protocol \in DOMAIN Bodies
  BY <1>1 DEF Chunked
<1>3. body \in Seq(A) /\ Atoms(A) /\ LF \in A /\ OneReturn(body) /\ Len(body) \in Nat
  <2>1. protocol \in DOMAIN Bodies /\ body \in Bodies[protocol]
    BY <1>2
  <2> QED
    BY ONLY <2>1, BodyFacts
<1>4. sent' \in 0 .. Len(body) /\ sent + n \in sent .. Len(body)
  <2>1. /\ sent \in 0 .. Len(body) /\ n \in 1 .. Len(body) - sent /\ Len(body) \in Nat
        /\ sent' = sent + n
    BY <1>1, <1>2, <1>3
  <2> QED
    BY ONLY <2>1
<1> HIDE DEF A
<1>5. /\ Arrived \in Seq(A) /\ OneReturn(Arrived) /\ c \in Seq(A)
      /\ SubSeq(body, 1, sent + n) = Arrived \o c
  <2> DEFINE k == sent + n
  <2>1. k \in sent .. Len(body)
    BY <1>4
  <2> HIDE DEF k
  <2>2. /\ SubSeq(body, 1, sent) \in Seq(A) /\ OneReturn(SubSeq(body, 1, sent))
        /\ SubSeq(body, sent + 1, k) \in Seq(A)
        /\ SubSeq(body, 1, k) = SubSeq(body, 1, sent) \o SubSeq(body, sent + 1, k)
    BY <1>2, <1>3, <2>1, PartFacts
  <2> QED
    BY <2>2 DEF Arrived, k
<1>6. Arrived' = Arrived \o c
  BY <1>1, <1>5 DEF Arrived
<1> HIDE DEF c
<1>7. CutUp(Arrived \o c).whole = b.whole \o e.whole /\ CutUp(Arrived \o c).rest = e.rest
  BY <1>2, <1>3, <1>5, CutUpConcat
<1>8. b.whole \in Seq(Seq(A)) /\ e.whole \in Seq(Seq(A))
  <2>1. b.rest \in Seq(A) /\ b.whole \in Seq(Seq(A))
    BY <1>3, <1>5, CutUpType
  <2>2. buf \o c \in Seq(A)
    BY <1>2, <1>5, <2>1, ConcatProperties
  <2> QED
    BY <1>3, <2>1, <2>2, CutUpType
<1> HIDE DEF b, e
<1>9. Events(b.whole \o e.whole) = Events(b.whole) \o Events(e.whole) /\ IsSeq(Events(e.whole))
  BY <1>3, <1>8, EventsConcat, EventsIsSeq
<1>10. seen \o <<>> = seen
  BY <1>2, ConcatEmptySeq DEF IsSeq
<1>11. CutUp(Arrived)' = CutUp(Arrived \o c)
  BY <1>6
<1>12. /\ buf' = CutUp(Arrived)'.rest
       /\ Events(CutUp(Arrived)'.whole) = seen' \o pending'
  BY <1>1, <1>2, <1>7, <1>9, <1>10, <1>11
<1> QED
  BY <1>1, <1>2, <1>4, <1>9, <1>12 DEF Chunked

LEMMA TakeEventChunked ==
    ASSUME Chunked, TakeEvent
    PROVE  Chunked'
<1>1. /\ pending # <<>> /\ pending' = Tail(pending) /\ seen' = Append(seen, Head(pending))
      /\ UNCHANGED <<protocol, body, sent, buf, ending>>
  BY DEF TakeEvent, Taken, request
<1>2. ASSUME IsSeq(seen), IsSeq(pending)
      PROVE  IsSeq(seen') /\ IsSeq(pending') /\ seen' \o pending' = seen \o pending
  <2>1. PICK T : seen \in Seq(T) /\ pending \in Seq(T)
    BY <1>2, IsSeqFacts
  <2> DEFINE h == Head(pending)
             t == Tail(pending)
  <2>2. h \in T /\ t \in Seq(T) /\ <<h>> \in Seq(T)
    BY <1>1, <2>1, HeadTailProperties
  <2>3. pending = <<h>> \o t
    <3>1. 1 \in 1 .. Len(pending) /\ Len(pending) \in 1 .. Len(pending)
      BY <1>1, <2>1, EmptySeq
    <3>2. SubSeq(pending, 1, Len(pending)) = <<pending[1]>> \o SubSeq(pending, 2, Len(pending))
      BY <2>1, <3>1, SubSeqRecursiveFirst
    <3>3. SubSeq(pending, 1, Len(pending)) = pending /\ t = SubSeq(pending, 2, Len(pending))
      BY <1>1, <2>1, SubSeqFull, TailIsSubSeq
    <3> QED
      BY <3>2, <3>3
  <2> HIDE DEF h, t
  <2>4. Append(seen, h) = seen \o <<h>> /\ Append(seen, h) \in Seq(T)
    BY <2>1, <2>2, AppendIsConcat, AppendProperties
  <2>5. (seen \o <<h>>) \o t = seen \o (<<h>> \o t)
    BY <2>1, <2>2, ConcatAssociative
  <2> QED
    BY <1>1, <2>2, <2>3, <2>4, <2>5, SeqIsSeq DEF h, t
<1> QED
  BY <1>1, <1>2 DEF Chunked, Arrived

LEMMA NextChunked == Chunked /\ [Next]_vars => Chunked'
<1> SUFFICES ASSUME Chunked, [Next]_vars PROVE Chunked'
  OBVIOUS
<1>1. ASSUME UNCHANGED <<request, sent, buf, pending, ending, seen>> PROVE Chunked'
  BY <1>1 DEF Chunked, Arrived, request
<1>2. ASSUME NEW why, why # "", Drain(why) PROVE Chunked'
  BY <1>2 DEF Drain, Chunked, request
<1>3. CASE Silence \/ Drip \/ Unreachable \/ \E id : Headers(id) \/ Refused(id) \/ RefusalRead(id)
  BY <1>1, <1>3 DEF Silence, Drip, Unreachable, Headers, Refused, RefusalRead
<1>4. ASSUME NEW n \in 1 .. Len(body) - sent, NEW d, Receive(n, d) PROVE Chunked'
  BY <1>4, ReceiveChunked
<1>5. CASE StreamEnds \/ DeadlineFound \/ WaitTimesOut
  BY <1>2, <1>5 DEF StreamEnds, DeadlineFound, WaitTimesOut
<1>6. CASE IteratorEnds \/ Dropped \/ Finish \/ UNCHANGED vars
  BY <1>1, <1>6 DEF IteratorEnds, Dropped, Finish, vars, request
<1>7. CASE TakeEvent
  BY <1>7, TakeEventChunked
<1>8. CASE Raise
  BY <1>8, RaiseChunked
<1> QED
  BY <1>3, <1>4, <1>5, <1>6, <1>7, <1>8 DEF Next

LEMMA ChunkedInvisible == Chunked => ChunkingIsInvisible
<1> SUFFICES ASSUME Chunked, ending = "" PROVE
        /\ IsPrefix(seen, Events(CutUp(body).whole))
        /\ pending = <<>> /\ sent = Len(body) => seen = Events(CutUp(body).whole)
  BY DEF ChunkingIsInvisible, Waiting, CutUp
<1> DEFINE A == BodyAtoms(body)
           c == SubSeq(body, sent + 1, Len(body))
           b == CutUp(Arrived)
           e == CutUp(b.rest \o c)
<1>1. /\ IsSeq(seen) /\ IsSeq(pending) /\ Events(b.whole) = seen \o pending
      /\ sent \in 0 .. Len(body) /\ body \in Bodies[protocol] /\ protocol \in DOMAIN Bodies
  BY DEF Chunked
<1>2. body \in Seq(A) /\ Atoms(A) /\ LF \in A /\ OneReturn(body) /\ Len(body) \in Nat
  <2>1. protocol \in DOMAIN Bodies /\ body \in Bodies[protocol]
    BY <1>1
  <2> QED
    BY ONLY <2>1, BodyFacts
<1>3. Len(body) \in sent .. Len(body)
  <2>1. sent \in 0 .. Len(body) /\ Len(body) \in Nat
    BY <1>1, <1>2
  <2> QED
    BY ONLY <2>1
<1> HIDE DEF A
<1>4. /\ Arrived \in Seq(A) /\ OneReturn(Arrived) /\ c \in Seq(A)
      /\ body = Arrived \o c
  BY <1>1, <1>2, <1>3, PartFacts DEF Arrived
<1> HIDE DEF c
<1>5. CutUp(Arrived \o c).whole = b.whole \o e.whole
  BY <1>2, <1>4, CutUpConcat
<1>6. b.whole \in Seq(Seq(A)) /\ e.whole \in Seq(Seq(A))
  <2>1. b.rest \in Seq(A) /\ b.whole \in Seq(Seq(A))
    BY <1>2, <1>4, CutUpType
  <2>2. b.rest \o c \in Seq(A)
    BY <1>4, <2>1, ConcatProperties
  <2> QED
    BY <1>2, <2>1, <2>2, CutUpType
<1>7. pending = <<>> /\ sent = Len(body) => seen = Events(CutUp(body).whole)
  <2> SUFFICES ASSUME pending = <<>>, sent = Len(body) PROVE seen = Events(CutUp(body).whole)
    OBVIOUS
  <2>1. Arrived = body
    BY <1>2, SubSeqFull DEF Arrived
  <2>2. seen \o <<>> = seen
    BY <1>1, ConcatEmptySeq DEF IsSeq
  <2> QED
    BY <1>1, <2>1, <2>2
<1> DEFINE x == Events(e.whole)
<1>8. Events(CutUp(body).whole) = (seen \o pending) \o x /\ IsSeq(x)
  <2> HIDE DEF b, e
  <2>1. Events(b.whole \o e.whole) = Events(b.whole) \o x /\ IsSeq(x)
    BY <1>2, <1>6, EventsConcat, EventsIsSeq
  <2> QED
    BY <1>1, <1>4, <1>5, <2>1
<1> HIDE DEF x, b
<1>9. (seen \o pending) \o x = seen \o (pending \o x) /\ IsSeq(pending \o x)
  <2>1. IsSeq(seen) /\ IsSeq(pending) /\ IsSeq(x)
    BY <1>1, <1>8
  <2>2. (seen \o pending) \o x = seen \o (pending \o x)
    BY ONLY <2>1, IsSeqAssociative
  <2>3. IsSeq(pending \o x)
    BY <2>1, ConcatIsSeq
  <2> QED
    BY <2>2, <2>3
<1> DEFINE y == pending \o x
           z == seen \o y
<1> HIDE DEF y
<1>10. IsPrefix(seen, z)
  BY <1>1, <1>9, ConcatPrefix DEF y
<1> QED
  BY <1>7, <1>8, <1>9, <1>10 DEF z, y

\* Wherever the network cuts a body into chunks, in the middle of a line end or of a
\* blank line, the test sees the events of the whole body in their order, none lost, none
\* twice, and all of them when it read all of it (aiter_sse_events: line ends are
\* normalised in the buffer, and its tail stays).
THEOREM ChunkingIsInvisibleCorrect == Spec => []ChunkingIsInvisible
BY InitChunked, NextChunked, ChunkedInvisible, PTL DEF Spec

=============================================================================
