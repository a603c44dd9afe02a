---------------------------- MODULE StreamMetrics ----------------------------
(***************************************************************************)
(* The numbers of a streaming test: from when its chunks arrived and how    *)
(* many tokens each held to the metrics in its record.                      *)
(*                                                                         *)
(* A test t has: type, anthropic, override (max_tokens of its options, or   *)
(* 0); perChunk, the tokens of each chunk, and answers, reasons, those of   *)
(* either kind; batched, the chunks that came with others; gaps, the        *)
(* milliseconds between chunks; first and total, from the start of the      *)
(* request to the first chunk and to the end; connect and tls, how long the *)
(* handshakes took; usage, the numbers the provider reports, and source;    *)
(* late, an error after tokens.                                            *)
(***************************************************************************)
EXTENDS Scores

CONSTANTS
    MinSamples,        \* the samples a shrunk or reliable statistic needs
    StallVisible,      \* stall_visible_ms
    StallHiccup,       \* stall_hiccup_ms
    HiccupMultiplier,  \* hiccup_multiplier
    HealthTokens,      \* health_max_tokens
    TargetTokens,      \* benchmark_target_tokens
    ThinkingBudget     \* anthropic_thinking_budget

Absent == -1    \* a number of tokens nobody reported

Wholes(xs) == [i \in DOMAIN xs |-> Whole(xs[i])]
IsHealth(t) == t.type = "health"

----------------------------------------------------------------------------
(* The request.                                                            *)

\* _build_stream_request; an override of 0 is none.
MaxTokens(type, override) ==
    CASE override # 0 -> override
      [] override = 0 /\ type = "health" -> HealthTokens
      [] OTHER -> TargetTokens

Budget(type, anthropic, override) ==
    IF anthropic /\ type # "health" /\ ThinkingBudget # 0
    THEN Smaller2(MaxTokens(type, override) - 1, ThinkingBudget) ELSE 0

TokenLimit(type, anthropic, override) == MaxTokens(type, override) + Budget(type, anthropic, override)

----------------------------------------------------------------------------
(* The network.                                                            *)

\* calc_network_rtt_ms
NetworkRtt(connect, tls) ==
    CASE connect = None -> Round(tls, 10)
      [] connect # None /\ tls = None -> Round(connect, 10)
      [] OTHER -> Plus(Round(connect, 10), Round(tls, 10))

Rtt(t) == NetworkRtt(t.connect, t.tls)

\* update_provider_rtt: of at most n samples
RttSeen(samples, rtt, n) ==
    IF rtt = None \/ ~Less(Zero, rtt) THEN samples
    ELSE LET all == Append(samples, rtt) IN SubSeq(all, Larger2(1, Len(all) - n + 1), Len(all))

\* get_provider_jitter: from the median distance to the median
Jitter(samples) ==
    IF Len(samples) < 2 THEN None
    ELSE LET med == Median(samples)
         IN  Round(Times(Median([i \in DOMAIN samples |-> Distance(samples[i], med)]),
                         Frac(14826, 10000)), 10)

----------------------------------------------------------------------------
(* Token counts.                                                           *)

\* extract_completion_tokens: what a provider reports, if it is plausible
CompletionTokens(reported, limit) ==
    IF reported <= 0 \/ (limit > 0 /\ 10 * reported > 12 * limit) THEN Absent ELSE reported

ImplausibleRatio == 20
BatchingConfirmed == 3

\* _validate_token_counts
Validated(t) ==
    LET reported == CompletionTokens(t.usage.output, TokenLimit(t.type, t.anthropic, t.override))
        chunks == Len(t.perChunk)
        incomplete == t.anthropic /\ t.source = "message_start" /\ reported <= 2
        implausible == /\ chunks > 0 /\ reported > ImplausibleRatio * chunks
                       /\ SumOf(t.perChunk) < BatchingConfirmed * chunks
    IN  IF incomplete \/ implausible THEN Absent ELSE reported

TokensForTps(t) ==
    CASE Validated(t) # Absent -> Validated(t)
      [] Validated(t) = Absent /\ SumOf(t.perChunk) > 0 -> SumOf(t.perChunk)
      [] OTHER -> Len(t.perChunk)

ChunkTokenRatio(t) ==
    IF SumOf(t.perChunk) = 0 THEN None ELSE Round(Frac(SumOf(t.perChunk), Len(t.perChunk)), 100)

\* _infer_reasoning_tokens
ReasoningTokens(t) ==
    CASE ~t.anthropic /\ t.usage.reasoning # Absent -> t.usage.reasoning
      [] t.anthropic /\ t.answers > 0 /\ t.usage.output > t.answers -> t.usage.output - t.answers
      [] OTHER -> IF t.reasons > 0 THEN t.reasons ELSE Absent

----------------------------------------------------------------------------
(* Gaps.                                                                   *)

RawGaps(t) == Wholes(t.gaps)

\* A gap is divided by the tokens of the chunk at its end.
EffectiveGaps(t) ==
    [k \in DOMAIN t.gaps |-> IF t.perChunk[k + 1] > 0 THEN Frac(t.gaps[k], t.perChunk[k + 1])
                             ELSE Whole(t.gaps[k])]

Bursts(t) == IF IsHealth(t) THEN 0 ELSE Cardinality({k \in DOMAIN t.gaps : t.gaps[k] < 1})
BurstPct(t) == IF t.gaps = <<>> THEN Zero ELSE Round(Frac(100 * Bursts(t), Len(t.gaps)), 10)

\* A stall is measured against the noise of the network.
StallThreshold(t, jitter) ==
    CASE Less(Zero, jitter) /\ jitter # None -> Plus(Whole(StallVisible), Round(jitter, 1))
      [] ~(Less(Zero, jitter) /\ jitter # None) /\ Rtt(t) # None /\ Less(Zero, Rtt(t)) ->
            Plus(Whole(StallVisible), Round(Times(Rtt(t), Frac(1, 2)), 1))
      [] OTHER -> Whole(StallVisible)

StallsAt(t, jitter) == {k \in DOMAIN t.gaps : Less(StallThreshold(t, jitter), Whole(t.gaps[k]))}

\* compute_stall_metrics: gaps are numbered from 0; a cluster begins at a stall
\* that follows none.
StallMetrics(t, stalls) ==
    LET pct(k) == Round(Frac(100 * (k - 1), Len(t.gaps)), 10)
        none == [first |-> None, last |-> None, clusters |-> 0, ratio |-> None]
    IN  CASE t.gaps = <<>> \/ IsHealth(t) -> none
          [] t.gaps # <<>> /\ ~IsHealth(t) /\ stalls = {} -> [none EXCEPT !.ratio = Zero]
          [] OTHER -> [first |-> pct(Min(stalls)), last |-> pct(Max(stalls)),
                       clusters |-> Cardinality({k \in stalls : k - 1 \notin stalls}),
                       ratio |-> Round(Frac(Cardinality(stalls), Len(t.gaps)), 1000)]

\* A hiccup is measured against the test's own median.
Hiccups(t) ==
    LET positive == Picked(RawGaps(t), {k \in DOMAIN t.gaps : t.gaps[k] > 0})
        limit == IF positive = <<>> THEN Whole(StallHiccup)
                 ELSE Times(Whole(HiccupMultiplier), Median(positive))
    IN  Cardinality({k \in DOMAIN positive : Less(limit, positive[k])})

\* Gaps of a millisecond or less are the work of the event loop.
Measurable(t, gaps) ==
    Picked(gaps, {k \in DOMAIN gaps : Less(IF IsHealth(t) THEN Zero ELSE Whole(1), gaps[k])})

\* The share of the variance that is not the network's, or None.
Shrinkage(xs, jitter) ==
    IF jitter = None \/ ~Less(Zero, jitter) \/ Len(xs) < MinSamples \/ ~Less(Zero, Median(xs)) THEN None
    ELSE LET med == Median(xs)
             square(x) == Times(Minus(x, med), Minus(x, med))
             noise == Times(jitter, jitter)
             signal == Larger(Zero, Minus(Mean([i \in DOMAIN xs |-> square(xs[i])]), noise))
         IN  Over(signal, Plus(signal, noise))

\* Mutant of Adjust: what remains is taken off the value, not off its distance
\* from the median.
AdjustWhole(x, med, shrink) == IF shrink = None THEN x ELSE Times(shrink, x)

\* A gap pulled towards the median by what is noise.
Adjust(x, med, shrink) == IF shrink = None THEN x ELSE Plus(med, Times(shrink, Minus(x, med)))

P99(xs, shrink) ==
    Round(Percentile(Sorted([i \in DOMAIN xs |-> Adjust(xs[i], Median(xs), shrink)]), 99), 10)

\* _compute_itl_statistics, of the gaps between chunks
RawOf(t, xs, shrink) ==
    LET longest == IF t.gaps = <<>> THEN None
                   ELSE Whole(Max(Range(t.gaps)))
    IN  IF xs = <<>>
        THEN [median |-> Zero, p99 |-> None, avg |-> None, max |-> longest, shrink |-> None, n |-> 0]
        ELSE [median |-> Median(xs), p99 |-> P99(xs, shrink),
              avg |-> Round(Adjust(Mean(xs), Median(xs), shrink), 100),
              max |-> Round(Adjust(longest, Median(xs), shrink), 10),
              shrink |-> shrink, n |-> Len(xs)]

RawItl(t, jitter) ==
    LET xs == Measurable(t, RawGaps(t)) IN RawOf(t, xs, Shrinkage(xs, jitter))

\* ... and of those between tokens
EffectiveOf(xs, shrink) ==
    LET med == Median(xs)
        avg == Round(Mean(xs), 100)
        ratio == CASE AtMost(Whole(1), med) -> Over(P99(xs, shrink), med)
                   [] Less(med, Whole(1)) /\ Less(Zero, avg) -> Over(P99(xs, shrink), avg)
                   [] OTHER -> None
    IN  IF xs = <<>>
        THEN [median |-> None, p99 |-> None, avg |-> None, tail |-> None, estimated |-> FALSE,
              shrink |-> None]
        ELSE [median |-> Round(med, 10), p99 |-> P99(xs, shrink),
              avg |-> Round(Adjust(avg, med, shrink), 10),
              tail |-> IF ratio = None THEN None ELSE Smaller(Round(ratio, 100), Whole(100)),
              estimated |-> Less(med, Whole(1)) /\ ratio # None, shrink |-> shrink]

EffectiveItl(t, jitter) ==
    LET xs == Measurable(t, EffectiveGaps(t)) IN EffectiveOf(xs, Shrinkage(xs, jitter))

ItlReliable(t, raw, eff) ==
    LET shrink == IF raw.shrink # None THEN raw.shrink ELSE eff.shrink
    IN  /\ AtMost(Whole(1), raw.median) /\ raw.n >= MinSamples
        /\ Less(BurstPct(t), Whole(30))
        /\ shrink = None \/ Less(Frac(1, 100), shrink)

----------------------------------------------------------------------------
(* The record.                                                             *)

HasRtt(t) == Rtt(t) # None /\ Less(Zero, Rtt(t))
GenTime(t) == SumOf(t.gaps)

Ttft(t) == IF HasRtt(t) THEN Round(Larger(Zero, Minus(Whole(t.first), Rtt(t))), 10)
           ELSE Round(Whole(t.first), 10)

\* Tokens per second; of an answer in one burst, of the whole latency.
Tps(t) ==
    LET latency == IF HasRtt(t) THEN Larger(Zero, Minus(Whole(t.total), Rtt(t))) ELSE Whole(t.total)
        per(ms, scale) == Round(Over(Whole(1000 * TokensForTps(t)), ms), scale)
    IN  CASE GenTime(t) > 0 -> per(Whole(GenTime(t)), 10)
          [] GenTime(t) = 0 /\ TokensForTps(t) > 0 /\ Less(Zero, latency) -> per(latency, 100)
          [] OTHER -> None

Tpot(t) ==
    IF GenTime(t) > 0 /\ TokensForTps(t) > 1
    THEN Round(Frac(GenTime(t), TokensForTps(t) - 1), 100) ELSE None

TotalLatency(t) == Round(Plus(Ttft(t), Whole(GenTime(t))), 10)

FrameBatchPct(batched, tokens) == IF tokens = 0 THEN Zero ELSE Round(Frac(100 * batched, tokens), 10)

\* compute_stream_metrics, of a test that succeeds
MetricsOf(t, stalls, count, raw, eff) ==
    LET number(n) == IF n = Absent THEN None ELSE Whole(n)
    IN  [completion_tokens |-> number(Validated(t)), reasoning_tokens |-> number(ReasoningTokens(t)),
         itl_reliable |-> IF ItlReliable(t, raw, eff) THEN Whole(1) ELSE Zero,
         ttft_ms |-> Ttft(t), tps |-> Tps(t), tpot_ms |-> Tpot(t), total_latency_ms |-> TotalLatency(t),
         stall_count |-> Whole(count),
         hiccup_count |-> Whole(Hiccups(t)),
         raw_median_itl_ms |-> Round(raw.median, 10), raw_p99_itl_ms |-> raw.p99, raw_avg_itl_ms |-> raw.avg, raw_max_itl_ms |-> raw.max,
         effective_p99_itl_ms |-> eff.p99, effective_median_itl_ms |-> eff.median,
         effective_avg_itl_ms |-> eff.avg, effective_itl_tail_ratio |-> eff.tail,
         chunk_token_ratio |-> ChunkTokenRatio(t), frame_batch_pct |-> FrameBatchPct(t.batched, Len(t.perChunk)),
         burst_arrival_pct |-> BurstPct(t),
         stall_first_pct |-> stalls.first, stall_last_pct |-> stalls.last,
         stall_clusters |-> Whole(stalls.clusters), stall_ratio |-> stalls.ratio]

Metrics(t, jitter) ==
    LET stalls == StallsAt(t, jitter)
    IN  MetricsOf(t, StallMetrics(t, stalls), Cardinality(stalls), RawItl(t, jitter), EffectiveItl(t, jitter))

\* strip_health_metrics
HealthKeep == {"ttft_ms", "completion_tokens", "total_latency_ms", "consistency_score", "speed_score"}

Stripped(r, scores) ==
    [r EXCEPT !.v =
        [k \in DOMAIN r.v \cup DOMAIN scores |->
            CASE r.kind = "health" /\ k \notin HealthKeep \ DOMAIN scores -> None
              [] r.kind # "health" /\ k \in DOMAIN scores -> scores[k]
              [] OTHER -> r.v[k]]]

Scored(r) == Stripped(r, [consistency_score |-> ConsistencyScore(r), speed_score |-> SpeedScore(r)])

ResultOf(t, jitter) ==
    Scored([success |-> TRUE, degraded |-> t.late, available |-> TRUE, kind |-> t.type,
            v |-> Metrics(t, jitter)])

\* make_result, of one that fails
FailedResult(type) ==
    [success |-> FALSE, degraded |-> FALSE, available |-> FALSE, kind |-> type,
     v |-> [k \in DOMAIN TrendHib |-> None]]
=============================================================================
