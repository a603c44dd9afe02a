---------------------------- MODULE ModelHistory ----------------------------
(***************************************************************************)
(* The numbers of one model over time: each test is measured against the    *)
(* jitter of its provider, scored and kept in recent_history, which a cap,  *)
(* a window, reloads and restarts cut, and from which uptime, trends and    *)
(* charts are computed.                                                    *)
(***************************************************************************)
EXTENDS StreamMetrics

CONSTANTS
    Samples,             \* how many results there are -> the tests that may succeed
    Failures,            \* ... and those that may fail: their type, what is known of the
                         \* network's round trip, and if another attempt follows
    Windows,             \* the values of recent_history_seconds
    UptimeWindow,        \* uptime_window
    HealthInterval, BenchmarkInterval,
    MaxRtts,             \* _PROVIDER_RTT_MAXLEN
    ChartBuckets,        \* the buckets of a chart
    MaxNow, MaxRows      \* bounds of the instance

ASSUME HistoryAssumption ==
    /\ Windows \subseteq Nat \ {0}
    /\ UptimeWindow \in Nat
    /\ \A w \in Windows : UptimeWindow <= w   \* otherwise the code warns
    /\ HealthInterval \in Nat \ {0} /\ BenchmarkInterval \in Nat \ {0}   \* max(interval, 1)

IsTest(t) ==
    /\ t.type \in {"health", "benchmark"} /\ t.anthropic \in BOOLEAN /\ t.override \in Nat
    /\ t.gaps \in Seq(Nat) /\ t.perChunk \in Seq(Nat) /\ Len(t.perChunk) = Len(t.gaps) + 1
    /\ t.first \in Nat /\ t.total \in Nat
    /\ t.connect \in Fraction \cup {None} /\ t.tls \in Fraction \cup {None}
    /\ t.usage.output \in Int

ASSUME NumbersAssumption ==
    /\ MaxRows \in Nat
    /\ \A n \in 0 .. MaxRows - 1 : \A t \in Samples[n] : IsTest(t)
    /\ \A n \in 0 .. MaxRows - 1 : \A f \in Failures[n] : f.rtt \in Fraction \cup {None}
    /\ MinSamples \in Nat /\ MinSamples > 2 /\ ChartBuckets \in Nat \ {0}   \* 10 in the code
    /\ StallVisible \in Nat /\ ThinkingBudget \in Nat /\ MaxRtts \in Nat \ {0}
    /\ HealthTokens \in Nat \ {0} /\ TargetTokens \in Nat \ {0} /\ MinScorePoints \in Nat \ {0}
    /\ \A m \in DOMAIN TrendHib : TrendLimits[m] \in Fraction /\ 0 < TrendLimits[m].n

\* The code checks that each metric has a limit for each of two or more tiers and
\* that no weight is negative. That the tiers are in order, and that those of a
\* lower-is-better metric end with 0, is how app.yaml lists them; it is not checked.
ASSUME TiersAssumption ==
    /\ \A m \in {"uptime", "ttft", "tps"} \cup DOMAIN ConsistencyMetrics :
          /\ Thresholds[m].limits \in Seq(Int) /\ Len(Thresholds[m].limits) >= 2
          /\ Thresholds[m].higherIsBetter \in BOOLEAN
          /\ TiersInOrder(Thresholds[m])
    /\ \A k \in DOMAIN SpeedMetrics \cup DOMAIN ConsistencyMetrics : Weights[k] \in Nat

VARIABLES
    now,
    window,     \* c.recent_history_seconds
    rows,       \* test_results of the model
    history,    \* recent_history
    uptime,     \* uptime_pct
    uptimeAt,   \* when it was computed
    rtts,       \* provider_rtt_history
    grown       \* whether a reload has widened the window since startup

historyVars == <<now, window, rows, history, uptime, uptimeAt, rtts, grown>>

\* _effective_history_cap
Cap(w) == Larger2(1, (12 * w * (HealthInterval + BenchmarkInterval))
                        \div (10 * HealthInterval * BenchmarkInterval))

LastOf(s, n) == SubSeq(s, Larger2(1, Len(s) - n + 1), Len(s))

Since(s, t) == {i \in DOMAIN s : s[i].at >= t}
Within(s) == Picked(s, Since(s, now - window))

\* Mutant of Kept: the cap keeps the oldest.
KeptOldest(s) == Within(SubSeq(s, 1, Smaller2(Len(s), Cap(window))))

\* _append_history
Kept(s) ==
    LET capped == LastOf(s, Cap(window))
    IN  IF capped[1].at < now - window THEN Within(capped) ELSE capped

\* load_all_recent_history
Loaded == LastOf(Within(rows), Cap(window))

Percent(counted) == IF counted = <<>> THEN None ELSE Uptime(counted)

\* What counts for the uptime at t: the final results of its window.
Counted(s, t) == {i \in DOMAIN s : s[i].at > t - UptimeWindow /\ ~s[i].retry}

\* calc_uptime_pct, of the history in memory
UptimeOf(s) == Percent(Picked(s, Counted(s, now)))

\* ... and of the rows, by its query
StoredUptime(t) == Percent(Picked(rows, Counted(rows, t)))

HistoryInit ==
    /\ now = 0
    /\ window \in Windows
    /\ rows = <<>> /\ history = <<>> /\ rtts = <<>>
    /\ uptime = None /\ uptimeAt = 0
    /\ grown = FALSE

\* A result with the time and the kind of its record.
Record(result, retry) ==
    [k \in DOMAIN result \cup {"at", "retry"} |->
        CASE k = "at" -> now [] k = "retry" -> retry [] OTHER -> result[k]]

\* record_result_async and record_retry_async
Enter(result, retry) ==
    \E r \in {Record(x, retry) : x \in {result}} :
        /\ rows' = Append(rows, r)
        /\ history' = Kept(Append(history, r))
        /\ uptime' = UptimeOf(history')
        /\ uptimeAt' = now

\* A test that succeeds.
Measure(t) ==
    /\ rtts' = RttSeen(rtts, Rtt(t), MaxRtts)
    /\ Enter(ResultOf(t, Jitter(rtts')), FALSE)
    /\ UNCHANGED <<now, window, grown>>

\* A test that fails, or an attempt of it that is followed by another.  The round trip
\* is measured if its connection was made.
Fail(type, rtt, retry) ==
    /\ rtts' = RttSeen(rtts, rtt, MaxRtts)
    /\ Enter(FailedResult(type), retry)
    /\ UNCHANGED <<now, window, grown>>

Tick ==
    /\ now < MaxNow
    /\ now' = now + 1
    /\ UNCHANGED <<window, rows, history, uptime, uptimeAt, rtts, grown>>

\* reload_config with another recent_history_seconds
Reload(w) ==
    /\ w # window
    /\ window' = w
    /\ grown' = (grown \/ w > window)
    /\ \E last \in {LastOf(history, Cap(w))} : history' = Picked(last, Since(last, now - w))
    /\ UNCHANGED <<now, rows, uptime, uptimeAt, rtts>>

\* The uptime of a restart is computed from the rows, before the model is cached.
HistoryRestart ==
    /\ rows # <<>>
    /\ history' = Loaded
    /\ uptime' = StoredUptime(now) /\ uptimeAt' = now
    /\ rtts' = <<>>
    /\ grown' = FALSE
    /\ UNCHANGED <<now, window, rows>>

HistoryNext ==
    \/ Len(rows) < MaxRows /\ \E t \in Samples[Len(rows)] : Measure(t)
    \/ Len(rows) < MaxRows /\ \E f \in Failures[Len(rows)] : Fail(f.type, f.rtt, f.retry)
    \/ Tick
    \/ \E w \in Windows : Reload(w)
    \/ HistoryRestart

HistorySpec == HistoryInit /\ [][HistoryNext]_historyVars

----------------------------------------------------------------------------
(* Properties.                                                             *)

\* _append_history, reload_config: what memory has of the window is what a restart
\* would load; after a reload that widened the window, the last part of it.
RestartAgrees ==
    /\ IsSuffix(Within(history), Loaded)
    /\ ~grown => Within(history) = Loaded

\* calc_uptime_pct: the uptime computed from memory is the one of the rows, unless
\* the cap is smaller than what the window holds.
UptimeAgrees ==
    Cardinality(Since(rows, uptimeAt - UptimeWindow + 1)) <= Cap(Min(Windows))
        => uptime = StoredUptime(uptimeAt)

\* What memory says of the last hours, the rows say: the tests of the window, and
\* the uptime computed from either.
MemoryAgrees == RestartAgrees /\ UptimeAgrees

Sound(r) == r.success /\ ~r.degraded
Present(x, y) == x # None /\ y # None
NoWorse(a, b, metrics) ==
    \A k \in DOMAIN metrics :
        IF Thresholds[metrics[k]].higherIsBetter THEN AtMost(b.v[k], a.v[k]) ELSE AtMost(a.v[k], b.v[k])

\* tier_continuous_score, _weighted_tier_score: a result that is no worse in any
\* metric scores no less, between 0 and 100.  range_scores: the score a card shows lies
\* among those of the benchmarks, and its reliability, if it shows one, is the one
\* compute_reliability_score records.
ScoresOrdered ==
    LET ScoredBy(key) == {i \in DOMAIN history : history[i].v[key] # None}
        Ordered(key, metrics) ==
            \A i, j \in ScoredBy(key) :
                /\ AtMost(Zero, history[i].v[key]) /\ AtMost(history[i].v[key], Whole(100))
                /\ (\A k \in DOMAIN metrics : Present(history[i].v[k], history[j].v[k]))
                   /\ NoWorse(history[i], history[j], metrics)
                   => AtMost(history[j].v[key], history[i].v[key])
        range == RangeScores(BenchOnly(history), uptime)
    IN  /\ Ordered("speed_score", SpeedMetrics)
        /\ Ordered("consistency_score", ConsistencyMetrics)
        /\ range.speed # None =>
              \E i, j \in ScoredBy("speed_score") :
                 /\ AtMost(history[i].v.speed_score, range.speed)
                 /\ AtMost(range.speed, history[j].v.speed_score)
        /\ uptime # None /\ range.reliability # None =>
              ReliabilityScore(history, uptime) = range.reliability

\* tier_continuous_score: its boundaries match those of tier_idx, so that a metric
\* find_critical_metrics names scores nothing, or less than a tier.
TiersAgree ==
    \A i \in DOMAIN history : \A key \in DOMAIN SpeedMetrics \cup DOMAIN ConsistencyMetrics :
        LET r == history[i]
            both == [k \in DOMAIN SpeedMetrics \cup DOMAIN ConsistencyMetrics |->
                        IF k \in DOMAIN SpeedMetrics THEN SpeedMetrics[k] ELSE ConsistencyMetrics[k]]
            t == Thresholds[both[key]]
            n == Len(t.limits)
            tier == TierIdx(r.v[key], t.limits, t.higherIsBetter)
            score == MetricScore(key, both[key], r.v)
            at(k) == Round(Frac(n - 1 - k, n - 1), 10000)
            best == IF t.higherIsBetter THEN at(Larger2(tier - 1, 0)) ELSE at(tier)
            worst == IF t.higherIsBetter THEN at(tier) ELSE at(Smaller2(tier + 1, n - 1))
        IN  r.success /\ r.v[key] # None =>
              /\ AtMost(worst, score) /\ AtMost(score, best)
              /\ key \in CriticalMetrics(r, both) => AtMost(score, at(n - 2))

\* Both ways to grade a result agree: the scores keep the order of the metrics,
\* and their boundaries are those of the tiers.
GradesAgree == ScoresOrdered /\ TiersAgree

\* compute_reliability_score, compute_range_reliability: the reliability of a record
\* is shown.  Violated: see the README.
ReliabilitiesAgree ==
    ReliabilityScore(history, uptime) \in {None, RangeScores(BenchOnly(history), uptime).reliability}

\* The limits of the requests whose tests may succeed.
Limits ==
    {TokenLimit(t.type, t.anthropic, t.override) : t \in UNION {Samples[n] : n \in 0 .. MaxRows - 1}}

\* _compute_itl_statistics, compute_stall_metrics: the numbers of one record fit
\* each other: taking the network's noise out of a gap moves it towards the median
\* and not past it, and stalls, their share, their clusters and their places agree.
\* The tail ratio may be below 1 by what the p99 loses when it is rounded to a tenth
\* of a millisecond before it is divided, and the share of few stalls may round to 0.
MeasurementsAgree ==
    \A i \in DOMAIN history :
        LET r == history[i]
            m == r.v
        IN  r.success /\ r.kind = "benchmark" =>
            /\ m.raw_p99_itl_ms # None => /\ AtMost(m.raw_median_itl_ms, m.raw_p99_itl_ms)
                                          /\ AtMost(m.raw_p99_itl_ms, m.raw_max_itl_ms)
            /\ m.effective_p99_itl_ms # None =>
                  /\ AtMost(m.effective_median_itl_ms, m.effective_p99_itl_ms)
                  /\ AtMost(Frac(95, 100), m.effective_itl_tail_ratio)
            /\ m.itl_reliable = Whole(1) => m.raw_p99_itl_ms # None /\ Less(m.burst_arrival_pct, Whole(30))
            /\ m.completion_tokens # None => \E l \in Limits : 10 * m.completion_tokens.n <= 12 * l
            /\ AtMost(m.stall_clusters, m.stall_count)
            /\ m.stall_count = Zero => m.stall_ratio \in {None, Zero}
            /\ (m.stall_count = Zero) <=> (m.stall_first_pct = None)
            /\ m.stall_count # Zero =>
                  /\ AtMost(m.stall_first_pct, m.stall_last_pct)
                  /\ (m.stall_count = Whole(1)) => m.stall_first_pct = m.stall_last_pct

\* compute_bucketed_history: every record is in one bucket of the chart, the
\* buckets are in order of time, and no more than were asked for.
BucketsPartition ==
    LET bs == Buckets(history, ChartBuckets)
        shown == ShownBuckets(history, ChartBuckets)
    IN  /\ SumOf([i \in DOMAIN bs |-> bs[i].count]) = Len(history)
        /\ Len(bs) <= ChartBuckets
        /\ history # <<>> => bs[1].count > 0 /\ Last(bs).count > 0
        /\ \A i \in 1 .. Len(shown) - 1 : Less(shown[i].ts, shown[i + 1].ts)

\* compute_trends: a metric that is nowhere better in the last quarter than before
\* is not improving, and one that is nowhere worse is not degrading.
TrendSound ==
    LET bench == BenchOnly(history)
        NowhereAbove(xs, ys) == \A i \in DOMAIN xs, j \in DOMAIN ys : AtMost(xs[i], ys[j])
    IN  \A metric \in {"ttft_ms", "tps", "speed_score"} :
            LET before == Values(Baseline(bench), metric)
                after == Values(Recent(bench), metric)
                better == IF TrendHib[metric] THEN NowhereAbove(before, after) ELSE NowhereAbove(after, before)
                worse == IF TrendHib[metric] THEN NowhereAbove(after, before) ELSE NowhereAbove(before, after)
            IN  /\ worse => Trend(bench, metric) # "improving"
                /\ better => Trend(bench, metric) # "degrading"

\* What the charts show of a history is all of it, in order, and its trend is
\* not the opposite of what the metrics did.
ChartsAgree == BucketsPartition /\ TrendSound
=============================================================================
