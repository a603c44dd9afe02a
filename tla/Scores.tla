-------------------------------- MODULE Scores --------------------------------
(***************************************************************************)
(* The statistics of the program as operators: tiers and their scores,      *)
(* percentiles, reliability, trends, and the buckets of a chart.            *)
(*                                                                         *)
(* A number is a fraction [n, d] in lowest terms, or None.  Floating-point  *)
(* errors are left out; rounding is not.                                    *)
(***************************************************************************)
EXTENDS Integers, SequencesExt

CONSTANTS
    Thresholds,      \* metric -> its tiers: [limits, higherIsBetter]
    Weights,         \* result key -> its weight in its score
    MinPoints,       \* min_data_points_trend
    MinScorePoints,  \* min_data_points_score
    RecentPoints,    \* _TREND_MIN_RECENT
    TrendLimits      \* _TREND_THRESHOLDS

----------------------------------------------------------------------------
(* Fractions.                                                              *)

None == [n |-> 0, d |-> 0]
Fraction == [n : Int, d : Nat \ {0}]

Smaller2(a, b) == IF a < b THEN a ELSE b
Larger2(a, b)  == IF a < b THEN b ELSE a

Gcd[p \in Nat \X Nat] == IF p[2] = 0 THEN p[1] ELSE Gcd[<<p[2], p[1] % p[2]>>]
Size(a) == IF a < 0 THEN -a ELSE a

Frac(a, b) == LET g == Gcd[<<Size(a), b>>] IN [n |-> a \div g, d |-> b \div g]
Whole(a)   == [n |-> a, d |-> 1]
Zero       == Whole(0)

\* Over the least common denominator, so that TLC's integers suffice.
Plus(x, y)  == LET g == Gcd[<<x.d, y.d>>] IN Frac(x.n * (y.d \div g) + y.n * (x.d \div g), (x.d \div g) * y.d)
Minus(x, y) == Plus(x, [y EXCEPT !.n = -@])
Times(x, y) == LET a == Frac(x.n, y.d)  b == Frac(y.n, x.d) IN [n |-> a.n * b.n, d |-> a.d * b.d]
Over(x, y)  == IF y.n < 0 THEN Times(x, [n |-> -y.d, d |-> -y.n]) ELSE Times(x, [n |-> y.d, d |-> y.n])
Less(x, y)  == LET g == Gcd[<<x.d, y.d>>] IN x.n * (y.d \div g) < y.n * (x.d \div g)
AtMost(x, y) == ~Less(y, x)
Smaller(x, y) == IF Less(y, x) THEN y ELSE x
Larger(x, y)  == IF Less(x, y) THEN y ELSE x
Distance(x, y) == Larger(Minus(x, y), Minus(y, x))

\* Sums of a list, of whole numbers and of fractions.
SumOf(ns) ==
    LET upTo[k \in 0 .. Len(ns)] == IF k = 0 THEN 0 ELSE upTo[k - 1] + ns[k] IN upTo[Len(ns)]
Total(xs) ==
    LET upTo[k \in 0 .. Len(xs)] == IF k = 0 THEN Zero ELSE Plus(upTo[k - 1], xs[k]) IN upTo[Len(xs)]

\* round(x, k) for scale = 10^k: half to even.
Round(x, scale) ==
    IF x = None THEN None
    ELSE LET whole == (x.n \div x.d) * scale
             part  == (x.n % x.d) * scale
             down  == whole + part \div x.d
             rest  == 2 * (part % x.d)
         IN  Frac(IF rest > x.d \/ (rest = x.d /\ down % 2 = 1) THEN down + 1 ELSE down, scale)

----------------------------------------------------------------------------
(* Lists of numbers.                                                       *)

\* The elements of s at the places in P, in their order.
Picked(s, P) ==
    LET upTo[n \in 0 .. Len(s)] ==
            IF n = 0 THEN <<>>
            ELSE IF n \in P THEN Append(upTo[n - 1], s[n]) ELSE upTo[n - 1]
    IN  upTo[Len(s)]

\* x after the numbers of s that are not larger.
Insert(s, x) == InsertAt(s, Cardinality({i \in DOMAIN s : AtMost(s[i], x)}) + 1, x)
Sorted(xs) ==
    LET upTo[k \in 0 .. Len(xs)] == IF k = 0 THEN <<>> ELSE Insert(upTo[k - 1], xs[k]) IN upTo[Len(xs)]

Mean(xs)   == IF xs = <<>> THEN None ELSE Over(Total(xs), Whole(Len(xs)))

Median(xs) ==
    IF xs = <<>> THEN None
    ELSE LET s == Sorted(xs)  mid == Len(xs) \div 2
         IN  IF Len(xs) % 2 = 1 THEN s[mid + 1] ELSE Over(Plus(s[mid], s[mid + 1]), Whole(2))

\* percentile, of a sorted list
Percentile(s, p) ==
    IF s = <<>> THEN None
    ELSE LET k == p * (Len(s) - 1)
             lo == k \div 100
         IN  IF lo + 2 > Len(s) THEN s[lo + 1]
             ELSE Plus(s[lo + 1], Times(Frac(k % 100, 100), Minus(s[lo + 2], s[lo + 1])))

Known(xs) == Picked(xs, {i \in DOMAIN xs : xs[i] # None})
Values(records, key) == Known([i \in DOMAIN records |-> records[i].v[key]])

----------------------------------------------------------------------------
(* Tiers.                                                                  *)

\* tier_idx
TierIdx(x, limits, hib) ==
    LET hits == {i \in DOMAIN limits : IF hib THEN AtMost(Whole(limits[i]), x) ELSE Less(x, Whole(limits[i]))}
    IN  CASE x = None \/ limits = <<>> -> -1
          [] x # None /\ limits # <<>> /\ hits = {} -> Len(limits) - 1
          [] OTHER -> Min(hits) - 1

\* 1 - i/(n-1), between the scores of tiers i + 1 and i.
Lerp(i, frac, n) == Round(Plus(Frac(n - 2 - i, n - 1), Times(frac, Frac(1, n - 1))), 10000)

\* tier_continuous_score where a higher value is better
RisingScore(x, limits) ==
    LET n == Len(limits)
        bands == {i \in 1 .. n - 1 : AtMost(x, Whole(limits[i])) /\ Less(Whole(limits[i + 1]), x)}
    IN  CASE AtMost(Whole(limits[1]), x) -> Whole(1)
          [] Less(x, Whole(limits[1])) /\ Less(x, Whole(limits[n])) -> Zero
          [] bands # {} /\ Less(x, Whole(limits[1])) /\ ~Less(x, Whole(limits[n])) ->
                LET i == Min(bands)
                IN  Lerp(i - 1, Over(Minus(x, Whole(limits[i + 1])), Whole(limits[i] - limits[i + 1])), n)
          [] OTHER -> Round(Frac(n - 1 - TierIdx(x, limits, TRUE), n - 1), 10000)

\* A last limit of 0 stands for no limit.
Open(limits) == LET n == Len(limits) IN limits[n] <= 0 /\ 0 < limits[n - 1]

\* Mutant of FallingScore: the band of a value is scored one tier too low.
FallingScoreShifted(x, limits) ==
    LET n == Len(limits)
        last == IF Open(limits) THEN n - 1 ELSE n
        bands == {i \in 1 .. last - 1 : AtMost(Whole(limits[i]), x) /\ Less(x, Whole(limits[i + 1]))}
    IN  CASE Less(x, Whole(limits[1])) -> Whole(1)
          [] AtMost(Whole(limits[last]), x) /\ ~Less(x, Whole(limits[1])) -> Zero
          [] OTHER -> LET i == Min(bands)
                      IN  Lerp(i, Over(Minus(x, Whole(limits[i])), Whole(limits[i + 1] - limits[i])), n)

\* tier_continuous_score where a lower value is better
FallingScore(x, limits) ==
    LET n == Len(limits)
        last == IF Open(limits) THEN n - 1 ELSE n
        bands == {i \in 1 .. last - 1 : AtMost(Whole(limits[i]), x) /\ Less(x, Whole(limits[i + 1]))}
    IN  CASE Less(x, Whole(limits[1])) -> Whole(1)
          [] AtMost(Whole(limits[last]), x) /\ ~Less(x, Whole(limits[1])) -> Zero
          [] OTHER -> LET i == Min(bands)
                          frac == Over(Minus(x, Whole(limits[i])), Whole(limits[i + 1] - limits[i]))
                      IN  Lerp(i, Minus(Whole(1), frac), n)

\* The tiers of a metric, from the best to the worst; the last of a lower-is-better
\* metric has no limit.
TiersInOrder(tiers) ==
    LET limits == tiers.limits
        n == Len(limits)
    IN  IF tiers.higherIsBetter THEN \A i \in 1 .. n - 1 : limits[i + 1] < limits[i]
        ELSE Open(limits) /\ \A i \in 1 .. n - 2 : limits[i] < limits[i + 1]

TierScore(x, limits, hib) ==
    CASE x = None \/ Len(limits) < 2 -> None
      [] x # None /\ Len(limits) >= 2 /\ hib -> RisingScore(x, limits)
      [] OTHER -> FallingScore(x, limits)

MetricScore(key, metric, values) ==
    TierScore(values[key], Thresholds[metric].limits, Thresholds[metric].higherIsBetter)

ConsistencyMetrics == [stall_count |-> "stall_count",
                       effective_itl_tail_ratio |-> "effective_itl_tail_ratio",
                       chunk_token_ratio |-> "chunk_token_ratio",
                       burst_arrival_pct |-> "burst_arrival_pct"]
SpeedMetrics == [ttft_ms |-> "ttft", tps |-> "tps"]

\* _weighted_tier_score: of at least two components
WeightedScore(values, metrics) ==
    LET valid == {k \in DOMAIN metrics : Weights[k] # 0 /\ MetricScore(k, metrics[k], values) # None}
        keys == SetToSeq(valid)
        weight == SumOf([i \in DOMAIN keys |-> Weights[keys[i]]])
        total == Total([i \in DOMAIN keys |->
                            Times(Whole(Weights[keys[i]]), MetricScore(keys[i], metrics[keys[i]], values))])
    IN  IF Cardinality(valid) < 2 THEN None
        ELSE Round(Times(Over(total, Whole(weight)), Whole(100)), 10)

ConsistencyScore(r) ==
    IF r.success /\ ~r.degraded THEN WeightedScore(r.v, ConsistencyMetrics) ELSE None
SpeedScore(r) == IF r.success THEN WeightedScore(r.v, SpeedMetrics) ELSE None

\* find_critical_metrics: those of a sound result in their last tier
CriticalMetrics(r, metrics) ==
    {k \in DOMAIN metrics :
        /\ r.success /\ ~r.degraded
        /\ r.v[k] # None
        /\ LET t == Thresholds[metrics[k]]
           IN  t.limits # <<>> /\ TierIdx(r.v[k], t.limits, t.higherIsBetter) = Len(t.limits) - 1}

----------------------------------------------------------------------------
(* Reliability.                                                            *)

AvailWeight   == Frac(1, 2)
QualityWeight == Frac(1, 2)

ReliabilityFormula(avail, quality) ==
    LET r == Times(Times(avail, Plus(AvailWeight, Times(QualityWeight, quality))), Whole(100))
    IN  Round(Smaller(Larger(r, Zero), Whole(100)), 10)

BenchOnly(records) == Picked(records, {i \in DOMAIN records : records[i].kind = "benchmark"})

\* The share of the records with a flag.
Rate(records, flag) == Frac(Cardinality({i \in DOMAIN records : records[i][flag]}), Len(records))

AvailScore(uptime) ==
    TierScore(uptime, Thresholds["uptime"].limits, Thresholds["uptime"].higherIsBetter)

Uptime(records) == Round(Times(Rate(records, "available"), Whole(100)), 10)

\* compute_range_reliability; without benchmarks every record counts
RangeReliability(records, uptime) ==
    IF Len(records) < MinScorePoints \/ records = <<>> THEN None
    ELSE LET avail == AvailScore(IF uptime = None THEN Uptime(records) ELSE uptime)
             bench == IF BenchOnly(records) = <<>> THEN records ELSE BenchOnly(records)
         IN  IF avail = None THEN None
             ELSE ReliabilityFormula(avail, Minus(Whole(1), Rate(bench, "degraded")))

\* compute_reliability_score, of a model's whole history
ReliabilityScore(history, uptime) ==
    LET bench == BenchOnly(history)
    IN  IF Len(history) < MinScorePoints \/ uptime = None \/ bench = <<>> \/ AvailScore(uptime) = None
        THEN None
        ELSE ReliabilityFormula(AvailScore(uptime), Minus(Whole(1), Rate(bench, "degraded")))

\* _bucket_reliability
BucketReliability(available, degraded) ==
    LET avail == AvailScore(Times(available, Whole(100)))
    IN  IF avail = None THEN None ELSE ReliabilityFormula(avail, Minus(Whole(1), degraded))

\* range_scores
RangeScores(records, uptime) ==
    [consistency |-> Round(Median(Values(records, "consistency_score")), 10),
     speed       |-> Round(Median(Values(records, "speed_score")), 10),
     reliability |-> IF records = <<>> THEN None ELSE RangeReliability(records, uptime)]

----------------------------------------------------------------------------
(* Trends.                                                                 *)

TrendHib == [tps |-> TRUE, ttft_ms |-> FALSE, stall_count |-> FALSE, raw_p99_itl_ms |-> FALSE,
             effective_itl_tail_ratio |-> FALSE, chunk_token_ratio |-> FALSE,
             consistency_score |-> TRUE, speed_score |-> TRUE,
             available |-> TRUE, reliability_score |-> TRUE]

\* The two windows: what came before, and the last quarter.
Split(records)    == Larger2(1, (3 * Len(records)) \div 4)
Baseline(records) == SubSeq(records, 1, Smaller2(Split(records), Len(records)))
Recent(records)   == SubSeq(records, Split(records) + 1, Len(records))

\* The value of a metric in a window, if it has enough points.
Level(metric, records, least) ==
    CASE metric = "available"         -> IF records = <<>> THEN None
                                         ELSE Times(Rate(records, "available"), Whole(100))
      [] metric = "reliability_score" -> RangeReliability(records, None)
      [] OTHER -> IF Len(Values(records, metric)) < least THEN None ELSE Median(Values(records, metric))

\* Mutant of Direction: more is better, whatever the metric.
DirectionRising(metric, delta) ==
    CASE Less(Distance(delta, Zero), TrendLimits[metric]) -> "stable"
      [] OTHER -> IF Less(Zero, delta) THEN "improving" ELSE "degrading"

\* _sliding_medianCompare
Direction(metric, delta) ==
    CASE Less(Distance(delta, Zero), TrendLimits[metric]) -> "stable"
      [] OTHER -> IF Less(Zero, delta) = TrendHib[metric] THEN "improving" ELSE "degrading"

\* compute_trends, for one metric: "none" if it has no trend
Trend(records, metric) ==
    LET before == Level(metric, Baseline(records), MinPoints)
        after  == Level(metric, Recent(records), RecentPoints)
    IN  IF Len(records) < MinPoints \/ Len(Recent(records)) < RecentPoints
            \/ before = None \/ after = None
        THEN "none" ELSE Direction(metric, Minus(after, before))

----------------------------------------------------------------------------
(* Buckets.                                                                *)

\* _bucket_params: charts fit the data; a single point gets a width of 1
BucketWidth(records, buckets) ==
    LET first == records[1].at  last == Last(records).at
    IN  Frac(IF last > first THEN last - first ELSE 1, buckets)

BucketOf(r, records, buckets) ==
    LET w == BucketWidth(records, buckets)
        idx == ((r.at - records[1].at) * w.d) \div w.n
    IN  Smaller2(idx, buckets - 1)

\* What _aggregate_card_bucket and _aggregate_modal_bucket share, with the ttft
\* and the reliability of a card.
Bucket(rs) ==
    LET avail == Round(Rate(rs, "available"), 1000)
        degr  == Round(Rate(rs, "degraded"), 1000)
        ttft  == Values(rs, "ttft_ms")
    IN  [count |-> Len(rs), ts |-> Mean([i \in DOMAIN rs |-> Whole(rs[i].at)]),
         available |-> avail, degraded |-> degr,
         ttft |-> Median(ttft),
         p10 |-> IF Len(ttft) > 1 THEN Round(Percentile(Sorted(ttft), 10), 10) ELSE None,
         p90 |-> IF Len(ttft) > 1 THEN Round(Percentile(Sorted(ttft), 90), 10) ELSE None,
         reliability |-> BucketReliability(avail, degr)]
EmptyBucket == [count |-> 0, ts |-> None, available |-> None, degraded |-> None, ttft |-> None,
                p10 |-> None, p90 |-> None, reliability |-> None]

\* compute_bucketed_history: from the first to the last bucket with a record
\* (_trim_empty_buckets has nothing left to remove)
Buckets(records, buckets) ==
    IF records = <<>> THEN <<>>
    ELSE LET in(i) == Picked(records, {j \in DOMAIN records : BucketOf(records[j], records, buckets) = i})
             used == {i \in 0 .. buckets - 1 : in(i) # <<>>}
         IN  [j \in 1 .. Max(used) - Min(used) + 1 |->
                LET rs == in(Min(used) + j - 1) IN IF rs = <<>> THEN EmptyBucket ELSE Bucket(rs)]

\* _filter_no_primary_all
ShownBuckets(records, buckets) ==
    LET bs == Buckets(records, buckets) IN Picked(bs, {i \in DOMAIN bs : bs[i].count > 0})
=============================================================================
