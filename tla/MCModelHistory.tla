--------------------------- MODULE MCModelHistory ---------------------------
(***************************************************************************)
(* Tests of three or four chunks over a provider with and without jitter;   *)
(* the tiers are a few of the defaults', on the scale of these tests.       *)
(***************************************************************************)
EXTENDS ModelHistory

MCThresholds == [
    uptime                   |-> [limits |-> <<100, 90, 50, 0>>, higherIsBetter |-> TRUE],
    ttft                     |-> [limits |-> <<4, 10, 30, 0>>, higherIsBetter |-> FALSE],
    tps                      |-> [limits |-> <<200, 100, 40, 0>>, higherIsBetter |-> TRUE],
    stall_count              |-> [limits |-> <<1, 2, 3, 0>>, higherIsBetter |-> FALSE],
    effective_itl_tail_ratio |-> [limits |-> <<1, 2, 4, 0>>, higherIsBetter |-> FALSE],
    chunk_token_ratio        |-> [limits |-> <<2, 3, 4, 0>>, higherIsBetter |-> FALSE],
    burst_arrival_pct        |-> [limits |-> <<10, 40, 60, 0>>, higherIsBetter |-> FALSE]]
MCWeights == [stall_count |-> 2, effective_itl_tail_ratio |-> 1, chunk_token_ratio |-> 1,
              burst_arrival_pct |-> 0, ttft_ms |-> 1, tps |-> 1]
MCTrendLimits == [m \in {"tps", "ttft_ms", "stall_count", "raw_p99_itl_ms", "effective_itl_tail_ratio",
                         "chunk_token_ratio", "consistency_score", "speed_score", "available",
                         "reliability_score"} |-> Whole(5)]

Quick == [type |-> "benchmark", anthropic |-> FALSE, override |-> 0,
          perChunk |-> <<1, 1, 2, 1>>, gaps |-> <<4, 8, 4>>, answers |-> 4, reasons |-> 0,
          first |-> 5, total |-> 30, connect |-> Whole(1), tls |-> Whole(2), batched |-> 0,
          usage |-> [output |-> 5, reasoning |-> Absent], source |-> "final_usage", late |-> FALSE]
StallsApart == [Quick EXCEPT !.gaps = <<40, 4, 60>>, !.first = 20]
Batched   == [Quick EXCEPT !.perChunk = <<3, 3, 3, 4>>, !.gaps = <<0, 20, 0>>, !.usage.output = 13,
                           !.connect = None, !.tls = None, !.batched = 4]
Slow      == [Quick EXCEPT !.gaps = <<4, 40, 30>>, !.tls = Whole(4), !.first = 50, !.usage.output = 90, !.usage.reasoning = 2]
AtOnce    == [Quick EXCEPT !.gaps = <<0, 0, 0>>, !.tls = Whole(4), !.anthropic = TRUE, !.source = "message_start",
                           !.usage.output = 1]
\* Gaps of 1.04 ms a token: the p99 is rounded before it is compared with the median.
\* It ends with an error.
Even      == [Quick EXCEPT !.perChunk = <<1, 25, 25, 25>>, !.gaps = <<26, 26, 26>>, !.usage.output = 76,
                           !.override = 100, !.answers = 76, !.late = TRUE]
HealthTest == [Quick EXCEPT !.type = "health", !.perChunk = <<1, 1>>, !.gaps = <<3>>]

MCSamples == [n \in 0 .. 3 |->
    CASE n = 0 -> {Quick, Batched}
      [] n = 1 -> {StallsApart, AtOnce}
      [] n = 2 -> {Slow, Even}
      [] OTHER -> {HealthTest}]

MCFailures == [n \in 0 .. 3 |->
    CASE n = 0 -> {[type |-> "health", rtt |-> None, retry |-> FALSE]}
      [] n = 1 -> {[type |-> "benchmark", rtt |-> Whole(9), retry |-> TRUE]}
      [] OTHER -> {}]
=============================================================================
