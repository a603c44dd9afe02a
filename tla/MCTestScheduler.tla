--------------------------- MODULE MCTestScheduler ---------------------------
(***************************************************************************)
(* Small instances of TestScheduler: one provider with two models and one  *)
(* with a single model.                                                    *)
(***************************************************************************)
EXTENDS TestScheduler

MCModels    == {"a1", "a2", "b1"}
MCProviders == {"A", "B"}
MCProviderOf == [m \in MCModels |-> IF m = "b1" THEN "B" ELSE "A"]
MCRank == [m \in MCModels |-> CASE m = "a1" -> 1 [] m = "a2" -> 2 [] m = "b1" -> 3]

\* Two models of one provider, for the runs in which time matters.
TwoModels     == {"a1", "a2"}
TwoProviderOf == [m \in TwoModels |-> "A"]
TwoRank       == [m \in TwoModels |-> IF m = "a1" THEN 1 ELSE 2]

\* The two models under two providers.
SplitProviderOf == [m \in TwoModels |-> IF m = "a1" THEN "A" ELSE "B"]

Conf(reg, max, cap, stag) ==
    [registry |-> reg, maxConcurrent |-> max,
     capacity |-> [p \in Providers |-> cap], stagger |-> stag]

\* One configuration that never changes.
Steady  == {Conf(Models, 2, 1, FALSE)}
Staggered == {Conf(Models, 2, 2, TRUE)}

\* Reloads that lower or raise the limits and remove or add a model.
Reloaded == {Conf(Models, 2, 2, FALSE), Conf(Models, 2, 1, FALSE),
             Conf(Models \ {"a1"}, 1, 1, FALSE)}

\* Due or not due is all that matters when time is unbounded.
UnitInterval == [k \in Kinds |-> 1]

\* Intervals long enough for the load, in seconds.
MCInterval == [k \in Kinds |-> IF k = "health" THEN 3 ELSE 5]
=============================================================================
