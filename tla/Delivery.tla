------------------------------- MODULE Delivery -------------------------------
(***************************************************************************)
(* How a result becomes a notification: the event a status transition       *)
(* amounts to, BroadcastBatcher, which gathers results per model and tells  *)
(* subscribers when it flushes, the metric (TPS/TTFT) transitions that the  *)
(* task of a test announces itself, and notify_status_change with its        *)
(* cooldowns, whose push is awaited in a thread.                            *)
(*                                                                         *)
(* One tick is a unit in which both cooldowns are measured.  One metric is  *)
(* modelled; the code treats the two alike.  What a single subscriber's     *)
(* preferences filter out is left out, as are the connections.              *)
(***************************************************************************)
EXTENDS Integers, FiniteSets, Sequences

CONSTANTS
    Models,
    Cooldown,         \* _STATUS_NOTIF_COOLDOWN_SECS in ticks
    MetricCooldown,   \* _METRIC_NOTIF_COOLDOWN_SECS in ticks
    WorstTier,        \* tiers are 0 .. WorstTier
    DegradedTier,     \* effective_degraded_tier
    Failures          \* whether a dispatch may raise

ASSUME DeliveryAssumption ==
    /\ Cooldown \in Nat \ {0}
    /\ MetricCooldown \in Nat \ {0}
    /\ WorstTier \in Nat
    /\ DegradedTier \in 1 .. WorstTier
    /\ Failures \in BOOLEAN

Statuses == {"unknown", "online", "degraded", "error"}
Tiers    == 0 .. WorstTier
Changes  == {"none", "degraded", "offline", "recovered"}

\* An entry of _pending: the event to announce, with the status it leads to.
Entry  == [changed : Changes \cup {"absent"}, new : Statuses]
Absent == [changed |-> "absent", new |-> "unknown"]
Queued(entry) == entry.changed \notin {"absent", "none"}

\* A notification on its way: what it says, or nothing.
Events  == Changes \cup {"degraded_metric", "recovered_metric"}
Notice  == [event : Events, model : Models, new : Statuses]
NoNotice(m) == [event |-> "none", model |-> m, new |-> "unknown"]

VARIABLES
    status,       \* the status of each model in model_cache
    tier,         \* tier of its last successful final benchmark
    pending,      \* _pending of BroadcastBatcher
    flush,        \* the flush: "idle", "broadcast" or "notify"
    batch,        \* what the flush took and has not announced
    sending,      \* the notice the flush awaits
    orphan,       \* the notice of a cancelled flush, still in its thread
    metric,       \* the metric notice the test of each model awaits
    quiet,        \* ticks since _STATUS_NOTIF_COOLDOWN was set
    metricQuiet,  \* ticks since _METRIC_NOTIF_COOLDOWN was set
    stopping,     \* the batcher is being stopped
    told,         \* history variable: the status subscribers know
    alarmed,      \* history variable: they know of a degraded metric
    muted         \* history variable: why they do not know the status

resultVars == <<status, tier, metricQuiet>>
flushVars  == <<pending, flush, batch, sending, orphan>>
toldVars   == <<told, alarmed, muted>>
vars == <<resultVars, flushVars, metric, quiet, stopping, toldVars>>

-----------------------------------------------------------------------------
(* Pure parts                                                               *)

\* _status_change_event.
StatusChange(old, new) ==
    CASE old = new \/ old = "unknown"       -> "none"
      [] old \in {"online", "degraded"} /\ new = "error" -> "offline"
      [] old = "online" /\ new = "degraded" -> "degraded"
      [] OTHER                              -> "recovered"

\* record_retry_async: a retry that degrades is announced as degraded.
RetryChange(old) ==
    IF old \in {"unknown", "degraded"} THEN "none" ELSE "degraded"

\* _detect_transition.
Transition(prev, current) ==
    CASE prev >= DegradedTier /\ current < DegradedTier -> "recovery"
      [] prev < DegradedTier /\ current >= DegradedTier -> "initial"
      [] prev >= DegradedTier /\ current > prev         -> "further"
      [] OTHER                                          -> "none"

\* Mutant of Merge: a later result replaces the whole entry.
MergeReplaces(entry, changed, new) == [changed |-> changed, new |-> new]

\* BroadcastBatcher.add: a result without a change keeps the change of an
\* earlier one.
Merge(entry, changed, new) ==
    IF changed = "none" /\ entry # Absent
    THEN entry
    ELSE [changed |-> changed, new |-> IF changed = "none" THEN "unknown" ELSE new]

\* Mutant of Exempt: the cooldown applies to every event.
ExemptNone(event) == event = "none"

\* The cooldown of notify_status_change does not apply to offline.
Exempt(event) == event = "offline"

Cooling(m, event) == ~Exempt(event) /\ quiet[m] < Cooldown

-----------------------------------------------------------------------------
(* Results                                                                  *)

\* Both recorders hand their result to _broadcast_result, which only adds it.
Add(m, changed, new) ==
    /\ status' = [status EXCEPT ![m] = new]
    /\ pending' = [pending EXCEPT ![m] = Merge(@, changed, new)]
    /\ told' = [told EXCEPT ![m] = IF status[m] = "unknown" THEN new ELSE @]

\* The test of a model goes on when the push it awaits has ended.
Testing(m) == ~stopping /\ metric[m].event = "none"

\* record_retry_async and its broadcast.
RetryResult(m) ==
    /\ Testing(m)
    /\ Add(m, RetryChange(status[m]), "degraded")
    /\ UNCHANGED <<tier, metricQuiet, flush, batch, sending, orphan, metric, quiet,
                   stopping, alarmed, muted>>

\* A final result that does not look at the metric: a health check, a failure,
\* or a result that changes the status (scheduler.py:394).
PlainResult(m, new) ==
    /\ Testing(m)
    /\ Add(m, StatusChange(status[m], new), new)
    /\ \/ UNCHANGED tier
       \/ /\ new # "error"
          /\ StatusChange(status[m], new) # "none"
          /\ \E t \in Tiers : tier' = [tier EXCEPT ![m] = t]
    /\ UNCHANGED <<metricQuiet, flush, batch, sending, orphan, metric, quiet,
                   stopping, alarmed, muted>>

\* _check_metric_degradation, then notify_status_change up to its push.
MetricResult(m, new, t) ==
    LET change == Transition(tier[m], t)
        rated == change = "initial" /\ metricQuiet[m] < MetricCooldown
        event == CASE change = "recovery" -> "recovered_metric"
                   [] change \in {"initial", "further"} /\ ~rated -> "degraded_metric"
                   [] OTHER -> "none"
        sent == event # "none" /\ ~Cooling(m, event)
    IN  /\ Testing(m)
        /\ new # "error"
        /\ StatusChange(status[m], new) = "none"
        /\ Add(m, "none", new)
        /\ tier' = [tier EXCEPT ![m] = t]
        /\ metricQuiet' = [metricQuiet EXCEPT ![m] =
                              IF change \in {"initial", "recovery"} /\ ~rated THEN 0 ELSE @]
        /\ quiet' = [quiet EXCEPT ![m] = IF sent THEN 0 ELSE @]
        /\ metric' = [metric EXCEPT ![m].event = IF sent THEN event ELSE "none"]
        /\ UNCHANGED <<flush, batch, sending, orphan, stopping, alarmed, muted>>

\* The push of a metric notice ends; then come webhooks, history, WebSocket.
MetricTold(m) ==
    /\ metric[m].event # "none"
    /\ alarmed' = [alarmed EXCEPT ![m] = metric[m].event = "degraded_metric"]
    /\ metric' = [metric EXCEPT ![m] = NoNotice(m)]
    /\ UNCHANGED <<resultVars, flushVars, quiet, stopping, told, muted>>

\* The exception that notify_status_change logs.
MetricFails(m) ==
    /\ Failures
    /\ metric[m].event # "none"
    /\ metric' = [metric EXCEPT ![m] = NoNotice(m)]
    /\ UNCHANGED <<resultVars, flushVars, quiet, stopping, toldVars>>

-----------------------------------------------------------------------------
(* The flush                                                                *)

Nothing == [m \in Models |-> Absent]

\* BroadcastBatcher.flush takes everything and awaits the result_batch.
BeginFlush ==
    /\ flush = "idle"
    /\ pending # Nothing
    /\ batch' = pending
    /\ pending' = Nothing
    /\ flush' = "broadcast"
    /\ UNCHANGED <<resultVars, sending, orphan, metric, quiet, stopping, toldVars>>

Broadcasted ==
    /\ flush = "broadcast"
    /\ flush' = "notify"
    /\ UNCHANGED <<resultVars, pending, batch, sending, orphan, metric, quiet,
                   stopping, toldVars>>

\* _dispatch_notifications takes the changes one by one: a notice begins its
\* push, or the cooldown ends it.
Announce(m) ==
    LET event == batch[m].changed
        cooling == Cooling(m, event)
    IN  /\ flush = "notify"
        /\ sending.event = "none"
        /\ Queued(batch[m])
        /\ batch' = [batch EXCEPT ![m] = Absent]
        /\ sending' = IF cooling THEN sending
                      ELSE [event |-> event, model |-> m, new |-> batch[m].new]
        /\ quiet' = [quiet EXCEPT ![m] = IF cooling \/ Exempt(event) THEN @ ELSE 0]
        /\ muted' = [muted EXCEPT ![m] = IF cooling THEN "cooldown" ELSE @]
        /\ UNCHANGED <<resultVars, pending, flush, orphan, metric, stopping, told, alarmed>>

\* The push has reached the subscribers.
Told ==
    /\ sending.event # "none"
    /\ told' = [told EXCEPT ![sending.model] = sending.new]
    /\ muted' = [muted EXCEPT ![sending.model] = "no"]
    /\ sending' = NoNotice(sending.model)
    /\ UNCHANGED <<resultVars, pending, flush, batch, orphan, metric, quiet, stopping,
                   alarmed>>

Fails ==
    /\ Failures
    /\ sending.event # "none"
    /\ muted' = [muted EXCEPT ![sending.model] = "failed"]
    /\ sending' = NoNotice(sending.model)
    /\ UNCHANGED <<resultVars, pending, flush, batch, orphan, metric, quiet, stopping,
                   told, alarmed>>

EndFlush ==
    /\ flush = "notify"
    /\ sending.event = "none"
    /\ \A m \in Models : ~Queued(batch[m])
    /\ flush' = "idle"
    /\ batch' = Nothing
    /\ UNCHANGED <<resultVars, pending, sending, orphan, metric, quiet, stopping, toldVars>>

\* PeriodicBatcher.stop, when no test runs any more: the cancelled loop drops
\* what its flush had taken, the push it awaits goes on in its thread, and stop
\* flushes what is pending.
BeginStop ==
    /\ ~stopping
    /\ stopping' = TRUE
    /\ muted' = [m \in Models |->
                    IF ~Queued(batch[m]) /\ (sending.event = "none" \/ sending.model # m)
                    THEN muted[m] ELSE "stopped"]
    /\ orphan' = sending
    /\ sending' = NoNotice(sending.model)
    /\ batch' = Nothing
    /\ flush' = "idle"
    /\ UNCHANGED <<resultVars, pending, metric, quiet, told, alarmed>>

OrphanTold ==
    /\ orphan.event # "none"
    /\ told' = [told EXCEPT ![orphan.model] = orphan.new]
    /\ muted' = [muted EXCEPT ![orphan.model] = "stopped"]
    /\ orphan' = NoNotice(orphan.model)
    /\ UNCHANGED <<resultVars, pending, flush, batch, sending, metric, quiet, stopping,
                   alarmed>>

\* Time passes.
Tick ==
    /\ \E m \in Models : quiet[m] < Cooldown \/ metricQuiet[m] < MetricCooldown
    /\ quiet' = [m \in Models |-> IF quiet[m] < Cooldown THEN quiet[m] + 1 ELSE Cooldown]
    /\ metricQuiet' = [m \in Models |->
                          IF metricQuiet[m] < MetricCooldown THEN metricQuiet[m] + 1
                          ELSE MetricCooldown]
    /\ UNCHANGED <<status, tier, flushVars, metric, stopping, toldVars>>

-----------------------------------------------------------------------------
Init ==
    /\ status = [m \in Models |-> "unknown"]
    /\ tier = [m \in Models |-> 0]
    /\ pending = Nothing
    /\ flush = "idle"
    /\ batch = Nothing
    /\ \E m \in Models : sending = NoNotice(m)
    /\ orphan = sending
    /\ metric = [m \in Models |-> NoNotice(m)]
    /\ quiet = [m \in Models |-> Cooldown]
    /\ metricQuiet = [m \in Models |-> MetricCooldown]
    /\ stopping = FALSE
    /\ told = status
    /\ alarmed = [m \in Models |-> FALSE]
    /\ muted = [m \in Models |-> "no"]

ResultStep(m) ==
    \/ RetryResult(m)
    \/ \E new \in Statuses \ {"unknown"} : PlainResult(m, new)
    \/ \E new \in {"online", "degraded"}, t \in Tiers : MetricResult(m, new, t)

MetricSent(m) == MetricTold(m) \/ MetricFails(m)
Sent == Told \/ Fails \/ OrphanTold
FlushStep == BeginFlush \/ Broadcasted \/ (\E m \in Models : Announce(m)) \/ EndFlush

Next ==
    \/ \E m \in Models : ResultStep(m) \/ MetricSent(m)
    \/ FlushStep
    \/ Sent
    \/ BeginStop
    \/ Tick

\* The loop's interval passes and each push has a timeout: flushes and pushes
\* go on, and so does time.
Fairness ==
    /\ WF_vars(FlushStep)
    /\ WF_vars(Sent)
    /\ \A m \in Models : WF_vars(MetricSent(m))
    /\ WF_vars(Tick)

Spec == Init /\ [][Next]_vars /\ Fairness

-----------------------------------------------------------------------------
(* Properties                                                               *)

\* Every variable has its type (model_cache, _pending, the two cooldown tables).
TypeOK ==
    /\ status \in [Models -> Statuses]
    /\ tier \in [Models -> Tiers]
    /\ pending \in [Models -> Entry]
    /\ flush \in {"idle", "broadcast", "notify"}
    /\ batch \in [Models -> Entry]
    /\ sending \in Notice
    /\ orphan \in Notice
    /\ metric \in [Models -> Notice]
    /\ quiet \in [Models -> 0 .. Cooldown]
    /\ metricQuiet \in [Models -> 0 .. MetricCooldown]
    /\ stopping \in BOOLEAN
    /\ told \in [Models -> Statuses]
    /\ alarmed \in [Models -> BOOLEAN]
    /\ muted \in [Models -> {"no", "cooldown", "failed", "stopped"}]

\* No status change gets lost on its way: the last notice that is queued,
\* taken or being pushed is about the status the model has, and without one
\* subscribers know that status, unless a cooldown, a failure or the end of the
\* batcher kept the last notice from them (BroadcastBatcher.add and flush).
ToldOrOwed ==
    \A m \in Models :
        LET carried == sending.event # "none" /\ sending.model = m
            taken   == Queued(batch[m])
            waiting == Queued(pending[m])
        IN  /\ waiting => pending[m].new = status[m]
            /\ ~waiting /\ taken => batch[m].new = status[m]
            /\ ~waiting /\ ~taken /\ carried => sending.new = status[m]
            /\ ~waiting /\ ~taken /\ ~carried => told[m] = status[m] \/ muted[m] # "no"

\* The announcements of a model that are on their way, in the order in which they go out.
Carried(m) == IF sending.event # "none" /\ sending.model = m THEN <<sending.new>> ELSE <<>>
Taken(m)   == IF Queued(batch[m]) THEN <<batch[m].new>> ELSE <<>>
Waiting(m) == IF Queued(pending[m]) THEN <<pending[m].new>> ELSE <<>>
Line(m)    == Carried(m) \o Taken(m) \o Waiting(m)

\* BroadcastBatcher and notify_status_change implement the abstract channel of
\* announcements: changes of a model are announced in their order, each once and
\* none that was not, whichever are merged, rated or fail, and however many models
\* share a flush; only the push of a cancelled flush may come late.
Channel == INSTANCE Announcements WITH
    Unknown <- "unknown",
    current <- status,
    queue   <- [m \in Models |-> Line(m)],
    heard   <- told,
    missed  <- [m \in Models |-> muted[m] # "no"],
    strays  <- IF orphan.event = "none" THEN {}
               ELSE {[model |-> orphan.model, status |-> orphan.new]},
    open    <- ~stopping

ImplementsChannel == Channel!ChannelSpec

\* An outage is announced, whatever was announced before: a model that stays
\* offline is known to be, unless the dispatch raises or the program ends.
OfflineAnnounced ==
    \A m \in Models :
        status[m] = "error" ~>
            \/ told[m] = "error"
            \/ status[m] # "error"
            \/ muted[m] \in {"failed", "stopped"}

\* "On status change (offline, degraded, recovered), server sends push"
\* (DEPLOYMENT.md:263): who was told of an outage is told of its end.
RecoveryAnnounced ==
    \A m \in Models :
        told[m] = "error" /\ status[m] = "online" ~>
            \/ told[m] # "error"
            \/ status[m] # "online"
            \/ muted[m] \in {"failed", "stopped"}

\* "further and recovery transitions always fire" (notifications.py:288): who
\* was told of a degraded metric is told when it has recovered.
MetricRecoveryFires ==
    \A m \in Models :
        alarmed[m] /\ tier[m] < DegradedTier ~>
            \/ ~alarmed[m]
            \/ tier[m] >= DegradedTier
            \/ stopping
=============================================================================
