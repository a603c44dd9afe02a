---------------------------- MODULE TestScheduler ----------------------------
(***************************************************************************)
(* The dispatch loop of src/backend/scheduler.py and the life of the tests *)
(* it starts.                                                              *)
(*                                                                         *)
(* One asyncio event loop runs every coroutine, so a step of this module   *)
(* is the code between two awaits.  scheduler() wakes on a timer or on     *)
(* _wake_event, computes what is due, adds each model it picks to one of   *)
(* the four running_* sets, creates a task for it and goes back to sleep.  *)
(* A health check or a benchmark then goes through the global and the      *)
(* provider semaphore, makes one or several attempts, and leaves the       *)
(* running sets in its finally block; a probe or an audit takes no         *)
(* semaphore.  Meanwhile config.reload_config may replace the registry and *)
(* the limits and throw the semaphores away, and the archiving code may    *)
(* archive models.                                                         *)
(*                                                                         *)
(* Wall-clock epochs are modelled by ages: age[m][k] counts the seconds    *)
(* since last_<k>_epoch of model m, up to AgeCap, and is Never when that   *)
(* epoch is None.                                                          *)
(***************************************************************************)
EXTENDS Integers, Sequences, FiniteSets

CONSTANTS
    Models,          \* every model key the configuration ever names
    Providers,       \* every provider name
    ProviderOf,      \* [Models -> Providers], parse_model_key(mk)[0]
    Rank,            \* [Models -> Nat], the order of the registry
    Configs,         \* the configurations models.yaml and app.yaml may hold
    MaxReloads,      \* bound: hot reloads in one behaviour
    Kinds,           \* the test types whose "enabled" flag is set
    AuditAvailable,  \* an enabled audit suite has its binary installed
    Interval,        \* [Kinds -> Nat \ {0}], seconds between two tests
    AgeCap,          \* bound: ages saturate here
    TotalAttempts,   \* 1 + max_retries
    TestTicks,       \* bound: seconds one attempt may take when Timely
    Timely,          \* time does not pass while the event loop has work
    InternalErrors,  \* a test may end in an exception that is_internal_error
    Archivable,      \* the models that may be archived or unarchived
    MaxLate          \* HealthOnTime: how late a health check may be

AllKinds == {"health", "benchmark", "probe", "audit"}

\* The order of the four loops of _dispatch_due.
Priority == [health |-> 1, benchmark |-> 2, probe |-> 3, audit |-> 4]

Tests == Models \X Kinds

Never == AgeCap + 1
Ages  == 0 .. Never

\* A test is created (the task exists and has not run), waits for a
\* semaphore, is in its attempt loop, or has its outcome and is being
\* persisted and broadcast; "none" is no test.
Phases == {"none", "created", "waitGlobal", "waitProvider", "testing", "closing"}

NoPending == "nothing"
Semaphored == {"health", "benchmark"} \cap Kinds

\* scheduler() with nothing to wait for polls after 5.0 s while tests run.
IdlePoll == 5

Config == [registry : SUBSET Models, maxConcurrent : Nat \ {0},
           capacity : [Providers -> Nat \ {0}], stagger : BOOLEAN]

ASSUME SchedulerAssumption ==
    /\ IsFiniteSet(Models)
    /\ ProviderOf \in [Models -> Providers]
    /\ Rank \in [Models -> Nat]
    /\ Configs \subseteq Config
    /\ MaxReloads \in Nat
    /\ Kinds \subseteq AllKinds
    /\ "benchmark" \in Kinds
    /\ AuditAvailable \in BOOLEAN
    /\ Interval \in [Kinds -> Nat \ {0}]
    /\ AgeCap \in Nat
    /\ \A k \in Kinds : Interval[k] <= AgeCap
    /\ TotalAttempts \in Nat \ {0}
    /\ TestTicks \in Nat \ {0}
    /\ Timely \in BOOLEAN
    /\ InternalErrors \in BOOLEAN
    /\ Archivable \subseteq Models
    /\ MaxLate \in Nat

VARIABLES
    configs,    \* every configuration loaded so far; the last one is current
    known,      \* the models with an entry in model_cache
    offline,    \* the models whose cached status is "error"
    age,        \* [Models -> [Kinds -> Ages]]
    pending,    \* [Models -> Semaphored \cup {NoPending}], _pending_retry
    archived,   \* _archived_model_keys
    watcher,    \* "idle", or "applying" while apply_db_changes runs
    resetKeys,  \* the reset_epoch keys of the reload being applied
    running,    \* [Kinds -> SUBSET Models], the running_* sets
    phase,      \* [Tests -> Phases]
    gsem,       \* [Tests -> Nat], generation of the global semaphore used
    psem,       \* [Tests -> Nat], generation of the provider semaphore used
    attempt,    \* [Tests -> Nat], attempts already recorded as retries
    elapsed,    \* [Tests -> 0 .. TestTicks], seconds in this attempt
    pc,         \* where scheduler() is
    und,        \* the "undispatched" list of this cycle
    due,        \* [Kinds -> SUBSET Models], the due lists of this cycle
    timer,      \* seconds left of the wait_for timeout
    wake        \* _wake_event.is_set()

testVars  == <<phase, gsem, psem, attempt, elapsed>>
cacheVars == <<known, offline, age, pending>>
confVars  == <<configs, archived, watcher, resetKeys>>
loopVars  == <<pc, und, due, timer>>
vars == <<confVars, cacheVars, running, testVars, loopVars, wake>>

-----------------------------------------------------------------------------
(***************************************************************************)
(* Configuration, running sets and semaphores                              *)
(***************************************************************************)
Gen == Len(configs)          \* one generation of semaphores per reload
Cfg == configs[Len(configs)]

Running == UNION {running[k] : k \in Kinds}

InFlight(p) == {m \in Running : ProviderOf[m] = p}

HoldsGlobal(g) ==
    {t \in Tests : gsem[t] = g
                   /\ phase[t] \in {"waitProvider", "testing", "closing"}}

HoldsProvider(p, g) ==
    {t \in Tests : ProviderOf[t[1]] = p /\ psem[t] = g
                   /\ phase[t] \in {"testing", "closing"}}

\* The semaphore of a generation was created from the limits of that
\* generation's configuration, and its holders keep it after a reload.
GlobalFree(g) == Cardinality(HoldsGlobal(g)) < configs[g].maxConcurrent

ProviderFree(p, g) ==
    Cardinality(HoldsProvider(p, g)) < configs[g].capacity[p]

-----------------------------------------------------------------------------
(***************************************************************************)
(* What is due                                                             *)
(***************************************************************************)
\* Mutant: an offline model is given every test.
AllowsAnyStatus(m, k) == TRUE

\* state.test_type_allows_status: an offline model only gets health checks.
AllowsStatus(m, k) == m \notin offline \/ k = "health"

Undispatched == Cfg.registry \ (Running \cup archived)

IsDue(m, k) ==
    /\ AllowsStatus(m, k)
    /\ pending[m] = k \/ age[m][k] >= Interval[k]

MostOverdue(D) ==
    {x \in D : \A y \in D : age[y]["benchmark"] <= age[x]["benchmark"]}

\* Mutant: the turn of a provider whose benchmarks run is not finished first.
StaggerNextOverdue(l) ==
    LET D == {m \in l : IsDue(m, "benchmark")}
    IN  CASE ~Cfg.stagger -> {Providers}
          [] Cfg.stagger /\ D = {} -> {Providers}
          [] Cfg.stagger /\ D # {} -> {{ProviderOf[m]} : m \in MostOverdue(D)}

\* What _stagger_allowed_provider, given the list l, may let the benchmarks
\* be restricted to: the provider whose benchmarks are running, else one with
\* a most overdue benchmark, else (its None) no restriction.
StaggerChoices(l) ==
    LET D == {m \in l : IsDue(m, "benchmark")}
        R == running["benchmark"]
    IN  CASE ~Cfg.stagger -> {Providers}
          [] Cfg.stagger /\ R # {} -> {{ProviderOf[m]} : m \in R}
          [] Cfg.stagger /\ R = {} /\ D # {} ->
                {{ProviderOf[m]} : m \in MostOverdue(D)}
          [] Cfg.stagger /\ R = {} /\ D = {} -> {Providers}

\* _due_tests, once the stagger filter allows the providers of allowed.
DueTests(k, l, allowed) ==
    {m \in l : IsDue(m, k) /\ (k = "benchmark" => ProviderOf[m] \in allowed)}

\* The due lists _dispatch_due builds; audits also ask audit_available().
Dispatchable(k) == k = "audit" => AuditAvailable

\* _next_due_in: only an epoch that is set gives a wait, an overdue one 0.
Wait(m, k) == IF age[m][k] >= Interval[k] THEN 0 ELSE Interval[k] - age[m][k]

Waits(k, allowed) ==
    LET W == {Wait(m, k) : m \in {x \in und :
                 /\ AllowsStatus(x, k)
                 /\ age[x][k] # Never
                 /\ k = "benchmark" => ProviderOf[x] \in allowed}}
    IN  IF W # {} THEN W
        ELSE {IF Running # {} THEN IdlePoll ELSE Interval[k]}

\* The soonest wait over all enabled types, as the set that holds it.
SoonestDue(allowed) ==
    LET W == UNION {Waits(k, allowed) : k \in Kinds}
    IN  {w \in W : \A v \in W : w <= v}

\* Mutant: the floor of 1 s while tests run is missing.
SleepTimeWithoutFloor(w) == w

SleepTime(w) == IF Running # {} /\ w < 1 THEN 1 ELSE w

-----------------------------------------------------------------------------
(***************************************************************************)
(* The loop of scheduler()                                                 *)
(***************************************************************************)
\* Top of the loop, after apply_auto_archive returned: the undispatched list
\* and the due lists are computed once and used by the whole dispatch.
BeginCycle ==
    /\ pc \in {"cycle", "spin"}
    /\ pc' = "dispatching"
    /\ und' = Undispatched
    /\ \E allowed \in StaggerChoices(Undispatched) :
          due' = [k \in Kinds |-> IF Dispatchable(k)
                                  THEN DueTests(k, Undispatched, allowed)
                                  ELSE {}]
    /\ UNCHANGED <<confVars, cacheVars, running, testVars, timer, wake>>

\* Mutant of Eligible: no look at the provider.
EligibleAnyProvider(m, k) ==
    /\ m \in due[k]
    /\ m \notin Running
    /\ Cardinality(Running) < Cfg.maxConcurrent

\* What the next turn of a dispatch loop takes: global slots are left, the
\* model runs no test and its provider has a free slot.
Eligible(m, k) ==
    /\ m \in due[k]
    /\ m \notin Running
    /\ Cardinality(Running) < Cfg.maxConcurrent
    /\ Cardinality(InFlight(ProviderOf[m])) < Cfg.capacity[ProviderOf[m]]

Before(m1, k1, m2, k2) ==
    \/ Priority[k1] < Priority[k2]
    \/ k1 = k2 /\ Rank[m1] < Rank[m2]

\* One turn of the four loops of _dispatch_due that finds a free slot.  The
\* loops never await, so no other action is enabled while pc = "dispatching".
Dispatch(m, k) ==
    /\ pc = "dispatching"
    /\ Eligible(m, k)
    /\ \A m2 \in Models, k2 \in Kinds :
          Before(m2, k2, m, k) => ~Eligible(m2, k2)
    /\ running' = [running EXCEPT ![k] = @ \cup {m}]
    /\ phase' = [phase EXCEPT ![<<m, k>>] = "created"]
    /\ UNCHANGED <<confVars, cacheVars, gsem, psem, attempt, elapsed,
                   loopVars, wake>>

\* End of _dispatch_due and computation of sleep_time.  A sleep time of 0
\* skips the wait: the loop goes round without an await ("spin").
EndDispatch ==
    /\ pc = "dispatching"
    /\ \A m \in Models, k \in Kinds : ~Eligible(m, k)
    /\ \E allowed \in StaggerChoices(und) : \E w \in SoonestDue(allowed) :
          /\ timer' = SleepTime(w)
          /\ pc' = IF SleepTime(w) > 0 THEN "sleeping" ELSE "spin"
    /\ und' = {}
    /\ due' = [k \in Kinds |-> {}]
    /\ UNCHANGED <<confVars, cacheVars, running, testVars, wake>>

\* wait_for(_wake_event.wait(), timeout) returns or times out, and the event
\* is cleared in both cases.
WakeUp ==
    /\ pc = "sleeping"
    /\ wake \/ timer = 0
    /\ pc' = "cycle"
    /\ wake' = FALSE
    /\ UNCHANGED <<confVars, cacheVars, running, testVars, und, due, timer>>

SchedulerStep == BeginCycle \/ EndDispatch \/ WakeUp
                 \/ \E m \in Models, k \in Kinds : Dispatch(m, k)

\* The event loop runs another coroutine: scheduler() is at an await.
Awaiting == pc \in {"sleeping", "cycle"}

-----------------------------------------------------------------------------
(***************************************************************************)
(* run_test, _run_probe_managed and _run_audit_managed                     *)
(***************************************************************************)
\* Mutant of Leave: the health set is forgotten.
LeaveHealthMarked(m, k) ==
    /\ running' = [running EXCEPT ![k] = IF k = "health" THEN @ ELSE @ \ {m}]
    /\ phase' = [phase EXCEPT ![<<m, k>>] = "none"]
    /\ gsem' = [gsem EXCEPT ![<<m, k>>] = 0]
    /\ psem' = [psem EXCEPT ![<<m, k>>] = 0]
    /\ attempt' = [attempt EXCEPT ![<<m, k>>] = 0]
    /\ elapsed' = [elapsed EXCEPT ![<<m, k>>] = 0]
    /\ wake' = TRUE

\* The finally blocks.  run_test discards the model from both of its sets.
Leave(m, k) ==
    /\ running' = [j \in Kinds |->
          IF j = k \/ {j, k} \subseteq Semaphored
          THEN running[j] \ {m} ELSE running[j]]
    /\ phase' = [phase EXCEPT ![<<m, k>>] = "none"]
    /\ gsem' = [gsem EXCEPT ![<<m, k>>] = 0]
    /\ psem' = [psem EXCEPT ![<<m, k>>] = 0]
    /\ attempt' = [attempt EXCEPT ![<<m, k>>] = 0]
    /\ elapsed' = [elapsed EXCEPT ![<<m, k>>] = 0]
    /\ wake' = TRUE

\* The generation of the global semaphore whose permit the test can take now.
CanTakeGlobal(t, g) ==
    \/ phase[t] = "created" /\ g = Gen /\ GlobalFree(g)
    \/ phase[t] = "waitGlobal" /\ g = gsem[t] /\ GlobalFree(g)

QueueOnGlobal(m, k) ==
    /\ k \in Semaphored
    /\ phase[<<m, k>>] = "created"
    /\ ~GlobalFree(Gen)
    /\ phase' = [phase EXCEPT ![<<m, k>>] = "waitGlobal"]
    /\ gsem' = [gsem EXCEPT ![<<m, k>>] = Gen]
    /\ UNCHANGED <<confVars, cacheVars, running, psem, attempt, elapsed,
                   loopVars, wake>>

\* The provider is looked up under the global permit; a model the reload took
\* away ends its test there.
ProviderGone(m, k) ==
    /\ k \in Semaphored
    /\ \E g \in 1 .. Gen : CanTakeGlobal(<<m, k>>, g)
    /\ m \notin Cfg.registry
    /\ Leave(m, k)
    /\ UNCHANGED <<confVars, cacheVars, loopVars>>

QueueOnProvider(m, k) ==
    /\ k \in Semaphored
    /\ m \in Cfg.registry
    /\ ~ProviderFree(ProviderOf[m], Gen)
    /\ \E g \in 1 .. Gen :
          /\ CanTakeGlobal(<<m, k>>, g)
          /\ gsem' = [gsem EXCEPT ![<<m, k>>] = g]
    /\ psem' = [psem EXCEPT ![<<m, k>>] = Gen]
    /\ phase' = [phase EXCEPT ![<<m, k>>] = "waitProvider"]
    /\ UNCHANGED <<confVars, cacheVars, running, attempt, elapsed,
                   loopVars, wake>>

\* Both permits are held: ensure_model, the pending-retry flag is consumed,
\* and the attempt to resume from is read back (any attempt below the total).
BeginAttempts(m, k) ==
    /\ known' = known \cup {m}
    /\ pending' = [pending EXCEPT ![m] = NoPending]
    /\ phase' = [phase EXCEPT ![<<m, k>>] = "testing"]
    /\ \E skip \in 0 .. TotalAttempts - 1 :
          attempt' = [attempt EXCEPT ![<<m, k>>] = skip]
    /\ UNCHANGED <<confVars, offline, age, running, elapsed, loopVars, wake>>

TakeBothPermits(m, k) ==
    /\ k \in Semaphored
    /\ m \in Cfg.registry
    /\ ProviderFree(ProviderOf[m], Gen)
    /\ \E g \in 1 .. Gen :
          /\ CanTakeGlobal(<<m, k>>, g)
          /\ gsem' = [gsem EXCEPT ![<<m, k>>] = g]
    /\ psem' = [psem EXCEPT ![<<m, k>>] = Gen]
    /\ BeginAttempts(m, k)

TakeProviderPermit(m, k) ==
    /\ phase[<<m, k>>] = "waitProvider"
    /\ ProviderFree(ProviderOf[m], psem[<<m, k>>])
    /\ BeginAttempts(m, k)
    /\ UNCHANGED <<gsem, psem>>

\* A probe or an audit runs without permits, and does nothing for a model
\* that is not in model_cache yet.
BeginProbeOrAudit(m, k) ==
    /\ k \notin Semaphored
    /\ phase[<<m, k>>] = "created"
    /\ m \in known
    /\ phase' = [phase EXCEPT ![<<m, k>>] = "testing"]
    /\ UNCHANGED <<confVars, cacheVars, running, gsem, psem, attempt,
                   elapsed, loopVars, wake>>

NotInCache(m, k) ==
    /\ k \notin Semaphored
    /\ phase[<<m, k>>] = "created"
    /\ m \notin known
    /\ Leave(m, k)
    /\ UNCHANGED <<confVars, cacheVars, loopVars>>

\* Mutant: a health check does not move its epoch.
RecordedBenchmark(m, k) ==
    IF m \in known /\ k # "health" THEN [age EXCEPT ![m][k] = 0] ELSE age

\* The epoch of a recorded result is now; nothing is recorded for a model
\* that a reload dropped from model_cache.
Recorded(m, k) == IF m \in known THEN [age EXCEPT ![m][k] = 0] ELSE age

\* record_retry_async after an attempt that _should_retry: the model becomes
\* degraded, so it is no longer in status "error".
Retry(m, k) ==
    /\ k \in Semaphored
    /\ phase[<<m, k>>] = "testing"
    /\ attempt[<<m, k>>] < TotalAttempts - 1
    /\ attempt' = [attempt EXCEPT ![<<m, k>>] = @ + 1]
    /\ elapsed' = [elapsed EXCEPT ![<<m, k>>] = 0]
    /\ age' = Recorded(m, k)
    /\ offline' = offline \ {m}
    /\ UNCHANGED <<confVars, known, pending, running, phase, gsem, psem, loopVars,
                   wake>>

\* The end of the attempt loop as seen by the other coroutines: the cache has
\* the outcome, and the task awaits the database, the broadcast and the
\* notifications while it is still in its running set.
Outcome(m, k) ==
    /\ phase[<<m, k>>] = "testing"
    /\ phase' = [phase EXCEPT ![<<m, k>>] = "closing"]
    /\ UNCHANGED <<confVars, known, pending, running, attempt, elapsed, loopVars,
                   wake>>

\* An exception leaves the semaphore blocks before it is handled.
DropPermits(m, k) ==
    /\ gsem' = [gsem EXCEPT ![<<m, k>>] = 0]
    /\ psem' = [psem EXCEPT ![<<m, k>>] = 0]

\* record_result_async with the final outcome, under the permits, or for an
\* exception that means the endpoint is unavailable, without them.
FinishTest(m, k, available) ==
    /\ k \in Semaphored
    /\ Outcome(m, k)
    /\ age' = Recorded(m, k)
    /\ offline' = IF available \/ m \notin known THEN offline \ {m}
                                                 ELSE offline \cup {m}
    /\ \/ UNCHANGED <<gsem, psem>>
       \/ ~available /\ DropPermits(m, k)

FinishProbeOrAudit(m, k) ==
    /\ k \notin Semaphored
    /\ Outcome(m, k)
    /\ age' = Recorded(m, k)
    /\ UNCHANGED <<offline, gsem, psem>>

\* An exception is_internal_error says is not the model's fault, and an audit
\* without a result, leave no record and no epoch.  (A probe sets its epoch.)
FinishUnrecorded(m, k) ==
    /\ InternalErrors
    /\ k # "probe"
    /\ Outcome(m, k)
    /\ DropPermits(m, k)
    /\ UNCHANGED <<age, offline>>

\* The finally blocks, after the last await of the test.
Close(m, k) ==
    /\ phase[<<m, k>>] = "closing"
    /\ Leave(m, k)
    /\ UNCHANGED <<confVars, cacheVars, loopVars>>

TestStep(m, k) ==
    /\ Awaiting
    /\ \/ QueueOnGlobal(m, k)
       \/ ProviderGone(m, k)
       \/ QueueOnProvider(m, k)
       \/ TakeBothPermits(m, k)
       \/ TakeProviderPermit(m, k)
       \/ BeginProbeOrAudit(m, k)
       \/ NotInCache(m, k)
       \/ Retry(m, k)
       \/ \E available \in BOOLEAN : FinishTest(m, k, available)
       \/ FinishProbeOrAudit(m, k)
       \/ FinishUnrecorded(m, k)
       \/ Close(m, k)

-----------------------------------------------------------------------------
(***************************************************************************)
(* The rest of the program, and time                                       *)
(***************************************************************************)
\* reload_config: the registry and the limits change, the semaphores are
\* dropped (the generation grows) and entries of removed models leave the
\* cache.  config_watcher applies one reload at a time.
Reload(c, reset) ==
    /\ Awaiting
    /\ watcher = "idle"
    /\ Gen <= MaxReloads
    /\ configs' = Append(configs, c)
    /\ known' = known \cap c.registry
    /\ offline' = offline \cap c.registry
    /\ pending' = [m \in Models |->
                      IF m \in c.registry THEN pending[m] ELSE NoPending]
    /\ age' = [m \in Models |->
                  IF m \in c.registry THEN age[m] ELSE [k \in Kinds |-> Never]]
    /\ watcher' = "applying"
    /\ resetKeys' = reset \cap c.registry
    /\ UNCHANGED <<archived, running, testVars, loopVars, wake>>

\* The end of apply_db_changes and of config_watcher's turn: reset_epoch
\* directives clear the epochs and the scheduler is woken.
ReloadApplied ==
    /\ Awaiting
    /\ watcher = "applying"
    /\ age' = [m \in Models |->
                  IF m \in resetKeys THEN [k \in Kinds |-> Never] ELSE age[m]]
    /\ watcher' = "idle"
    /\ resetKeys' = {}
    /\ wake' = TRUE
    /\ UNCHANGED <<configs, archived, known, offline, pending, running, testVars,
                   loopVars>>

\* apply_auto_archive and apply_db_changes, seen from here, change the set of
\* archived models at any await.
ChangeArchived(S) ==
    /\ Awaiting
    /\ archived' = S
    /\ archived' # archived
    /\ UNCHANGED <<configs, watcher, resetKeys, cacheVars, running, testVars,
                   loopVars, wake>>

\* A test whose task can make progress without waiting for the network.
ReadyToRun(m, k) ==
    \/ phase[<<m, k>>] \in {"created", "closing"}
    \/ phase[<<m, k>>] = "waitGlobal" /\ GlobalFree(gsem[<<m, k>>])
    \/ phase[<<m, k>>] = "waitProvider"
          /\ ProviderFree(ProviderOf[m], psem[<<m, k>>])

\* A second passes.  Timely is the assumption that the event loop's own work
\* takes no time and that an attempt ends within TestTicks seconds.
Tick ==
    /\ pc # "dispatching"
    /\ Timely =>
          /\ pc = "sleeping" /\ ~wake /\ timer > 0 /\ watcher = "idle"
          /\ \A m \in Models, k \in Kinds :
                /\ ~ReadyToRun(m, k)
                /\ phase[<<m, k>>] = "testing" => elapsed[<<m, k>>] < TestTicks
    /\ age' = [m \in Models |-> [k \in Kinds |->
                  IF age[m][k] < AgeCap THEN age[m][k] + 1 ELSE age[m][k]]]
    /\ timer' = IF timer > 0 THEN timer - 1 ELSE 0
    /\ elapsed' = [t \in Tests |->
                      IF Timely /\ phase[t] = "testing" /\ elapsed[t] < TestTicks
                      THEN elapsed[t] + 1 ELSE elapsed[t]]
    /\ UNCHANGED <<confVars, known, offline, pending, running, phase, gsem, psem,
                   attempt, pc, und, due, wake>>

-----------------------------------------------------------------------------
\* _startup: one cache entry per registry model.  A model may come back with
\* its last tests just done or long ago, offline, or with an interrupted
\* retry cycle of a type whose last record is then recent.
Init ==
    /\ \E c \in Configs : configs = <<c>>
    /\ known = Cfg.registry
    /\ offline \in SUBSET known
    /\ age \in [Models -> [Kinds -> {0, Never}]]
    /\ \A m \in Models \ known : age[m] = [k \in Kinds |-> Never]
    /\ pending \in [Models -> Semaphored \cup {NoPending}]
    /\ \A m \in Models : pending[m] # NoPending =>
          m \in known \ offline /\ age[m][pending[m]] = 0
    /\ archived = {}
    /\ watcher = "idle"
    /\ resetKeys = {}
    /\ running = [k \in Kinds |-> {}]
    /\ phase = [t \in Tests |-> "none"]
    /\ gsem = [t \in Tests |-> 0]
    /\ psem = [t \in Tests |-> 0]
    /\ attempt = [t \in Tests |-> 0]
    /\ elapsed = [t \in Tests |-> 0]
    /\ pc = "cycle"
    /\ und = {}
    /\ due = [k \in Kinds |-> {}]
    /\ timer = 0
    /\ wake = FALSE

Next ==
    \/ SchedulerStep
    \/ \E m \in Models, k \in Kinds : TestStep(m, k)
    \/ \E c \in Configs, reset \in SUBSET Models : Reload(c, reset)
    \/ ReloadApplied
    \/ \E S \in SUBSET Archivable : ChangeArchived(S)
    \/ Tick

Spec == Init /\ [][Next]_vars

\* The event loop runs every ready callback: the scheduler's loop, and each
\* task.  A test in its attempt loop ends because attempts are bounded and
\* streams time out.
Fairness ==
    /\ WF_vars(SchedulerStep)
    /\ \A m \in Models, k \in Kinds : WF_vars(TestStep(m, k))
    /\ WF_vars(ReloadApplied)
    /\ WF_vars(Tick)

FairSpec == Spec /\ Fairness

-----------------------------------------------------------------------------
(***************************************************************************)
(* Properties                                                              *)
(***************************************************************************)
\* Every variable keeps its type; in particular no attempt is counted beyond
\* the last one and no test refers to a semaphore that was never created.
TypeOK ==
    /\ configs \in Seq(Configs) /\ configs # <<>>
    /\ known \subseteq Models
    /\ offline \subseteq known
    /\ age \in [Models -> [Kinds -> Ages]]
    /\ pending \in [Models -> Semaphored \cup {NoPending}]
    /\ archived \subseteq Models
    /\ watcher \in {"idle", "applying"}
    /\ resetKeys \subseteq Models
    /\ running \in [Kinds -> SUBSET Models]
    /\ phase \in [Tests -> Phases]
    /\ gsem \in [Tests -> 0 .. Gen]
    /\ psem \in [Tests -> 0 .. Gen]
    /\ attempt \in [Tests -> 0 .. TotalAttempts - 1]
    /\ elapsed \in [Tests -> 0 .. TestTicks]
    /\ pc \in {"cycle", "spin", "dispatching", "sleeping"}
    /\ und \subseteq Models
    /\ due \in [Kinds -> SUBSET Models]
    /\ timer \in Nat
    /\ wake \in BOOLEAN

\* The running_* sets, which the scheduler trusts for every decision, list
\* exactly the models that have a live test task of that type: no early
\* return of a test leaves its model behind, and no test's finally block
\* takes away the mark of another test.
RunningSetsAreTasks ==
    \A m \in Models, k \in Kinds : m \in running[k] <=> phase[<<m, k>>] # "none"

\* A model never has two tests at once, whatever their types: a health check
\* and a benchmark of one model would disturb each other's measurement, and
\* run_test's finally block, which discards from both sets, relies on it.
OneTestPerModel ==
    \A m \in Models, j, k \in Kinds :
        phase[<<m, j>>] # "none" /\ phase[<<m, k>>] # "none" => j = k

\* Both, which every decision of the dispatcher rests on.
RunningSetsSound == RunningSetsAreTasks /\ OneTestPerModel

\* The tests of a provider in flight, of all four types together, never
\* exceed the largest concurrent_models it has been given, and likewise for
\* max_concurrent_tests, however often the semaphores are replaced by a
\* reload and whichever semaphore a test still holds.
InFlightBounded ==
    /\ \A p \in Providers : \E i \in 1 .. Gen :
          Cardinality(InFlight(p)) <= configs[i].capacity[p]
    /\ \E i \in 1 .. Gen : Cardinality(Running) <= configs[i].maxConcurrent

\* While the limits have not been reloaded, greedy dispatch keeps the
\* semaphores from ever making a test wait: the scheduler's docstring gives
\* "to prevent semaphore queue buildup" as the reason for its bookkeeping.
NoSemaphoreQueue ==
    Gen = 1 => \A t \in Tests : phase[t] \notin {"waitGlobal", "waitProvider"}

\* With stagger on (and never toggled), all benchmarks in flight belong to
\* one provider, across any interleaving of cycles, finishes and reloads.
StaggerOneProvider ==
    (\A i \in 1 .. Gen : configs[i].stagger) =>
        \A m, n \in running["benchmark"] : ProviderOf[m] = ProviderOf[n]

\* An offline model is only ever being health-checked: no other test that
\* was dispatched while the model was up still has attempts to make when its
\* status becomes "error".
OfflineOnlyHealth ==
    \A m \in offline, k \in Kinds \ {"health"} :
        phase[<<m, k>>] \in {"none", "closing"}

\* A cycle of the loop always reaches its wait: whatever _next_due_in says
\* is due now has been dispatched or something is running.  Otherwise the
\* loop would go round without an await and starve every other coroutine.
SchedulerSleeps == pc # "spin"

\* A test is only started by the dispatch loop, within the limits that hold
\* at that moment, even when a reload has just lowered them below what is in
\* flight.
StartsWithinLimits ==
    [][ /\ \A p \in Providers : InFlight(p)' \subseteq InFlight(p)
              \/ Cardinality(InFlight(p)') <= Cfg'.capacity[p]
        /\ Running' \subseteq Running
              \/ Cardinality(Running') <= Cfg'.maxConcurrent ]_vars

\* main.py logs of an interrupted retry cycle "pending retry detected ...
\* will resume": the flag that makes the model due again is only consumed by
\* a test of the interrupted type (or dropped with the model itself).
PendingRetryResumed ==
    [][ \A m \in Models : pending[m] # NoPending /\ m \in known' =>
            \/ pending'[m] = pending[m]
            \/ phase'[<<m, pending[m]>>] = "testing" ]_vars

\* With timely tests a health check is never more than MaxLate seconds late,
\* even when the provider has no spare capacity: the wait computed by
\* _next_due_in is short enough, a finished test wakes the loop, and health
\* checks go before the other types.
HealthOnTime ==
    \A m \in Cfg.registry \ archived :
        age[m]["health"] # Never => age[m]["health"] <= Interval["health"] + MaxLate

\* The model waits for a test of this type: it is due and may be tested.
Waiting(m, k) ==
    /\ m \in Cfg.registry \ archived
    /\ Dispatchable(k)
    /\ IsDue(m, k)

\* Every due test is eventually started, unless the model goes offline,
\* is archived or removed: no provider, type or model is starved by others.
DueIsServed ==
    \A m \in Models, k \in Kinds :
        Waiting(m, k) ~> (m \in running[k] \/ ~Waiting(m, k))

=============================================================================
