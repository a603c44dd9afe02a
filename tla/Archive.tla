------------------------------ MODULE Archive --------------------------------
(***************************************************************************)
(* Archiving of models: apply_auto_archive (src/backend/scheduler.py),     *)
(* which archives what has been offline too long, apply_db_changes         *)
(* (src/backend/config.py), which carries out the "archived" directives of *)
(* models.yaml, and the two places they share: _archived_model_keys in     *)
(* memory and the archived/archived_by columns of model_state.             *)
(*                                                                         *)
(* Both are coroutines that run their SQLite calls in worker threads, so   *)
(* every database call is a step of its own and the other coroutine runs   *)
(* in between.  Only archived models are no longer tested; a test that is  *)
(* in flight when its model is archived still ends and records its result. *)
(***************************************************************************)
EXTENDS Integers, FiniteSets

CONSTANTS
    Models,       \* the registry, which does not change here
    AutoEnabled,  \* the values auto_archive.enabled may have
    Threshold,    \* auto_archive.offline_duration, in ticks
    MaxReloads,   \* bound: config reloads
    MaxRestarts,  \* bound: restarts of the server
    MaxFailures   \* bound: database calls that raise

ASSUME ArchiveAssumption ==
    /\ AutoEnabled \subseteq BOOLEAN
    /\ Threshold \in Nat \ {0}
    /\ MaxReloads \in Nat
    /\ MaxRestarts \in Nat
    /\ MaxFailures \in Nat

\* models.yaml: "archived" of a model, and without it "auto_archive: false".
Directives == {"true", "false", "absent", "exempt"}
Sources    == {"no", "manual", "auto"}      \* not archived, or archived_by
Statuses   == {"online", "degraded", "error"}

\* degraded_since is None, or so many ticks ago.
NoTime        == -1
DegradedTimes == {NoTime} \cup 0 .. Threshold

VARIABLES
    auto,       \* auto_archive.enabled, which does not change here
    directive,  \* [Models -> Directives]
    memory,     \* [Models -> Sources], _archived_model_keys
    database,   \* [Models -> Sources], model_state.archived_by
    status,     \* [Models -> Statuses]
    since,      \* [Models -> DegradedTimes], degraded_since
    offline,    \* [Models -> 0 .. Threshold], how long status has been "error"
    testing,    \* the models with a test in flight
    autoPc,     \* where apply_auto_archive is
    newly,      \* its newly_archived
    watchPc,    \* where apply_db_changes is
    current,    \* its "current", and later "loaded"
    booting,    \* the scheduler has not been started yet
    torn,       \* history variable, since the last reload or start began: whose mark
                \* could not be saved, or was not yet saved when the reload read the
                \* marks; all models if the reload itself failed
    late,       \* history variable, since then: whose mark was saved when its
                \* "archived: false" had been carried out
    reloads, restarts, failures

modelVars == <<status, since, offline, testing>>
autoVars  == <<autoPc, newly>>
watchVars == <<watchPc, current>>
bounds    == <<reloads, restarts, failures>>
ledger    == <<torn, late, bounds>>
vars == <<auto, directive, memory, database, modelVars, autoVars, watchVars, booting,
          ledger>>

\* set_archived: the rows of S get this archived_by.
SetArchived(S, source) ==
    database' = [m \in Models |-> IF m \in S THEN source ELSE database[m]]

Exempt(m) == directive[m] \in {"false", "exempt"}

\* What apply_auto_archive archives.  It goes provider by provider, but what
\* it marks of a provider are its offline models in either branch.
ToArchive == {m \in Models :
                /\ memory[m] = "no"
                /\ ~Exempt(m)
                /\ status[m] = "error" /\ since[m] = Threshold}

\* prune_trailing_failures and _sync_cache_after_prune: without its trailing
\* failures a model has the status of its last success, and degraded_since is
\* cleared; a model that never succeeded is left untouched.
Prune(S) ==
    /\ \E success \in SUBSET S, degraded \in SUBSET S :
          /\ status' = [m \in Models |->
                IF m \notin success THEN status[m]
                ELSE IF m \in degraded THEN "degraded" ELSE "online"]
          /\ since' = [m \in Models |-> IF m \in success THEN NoTime ELSE since[m]]
          /\ offline' = [m \in Models |-> IF m \in success THEN 0 ELSE offline[m]]
    /\ UNCHANGED testing

-----------------------------------------------------------------------------
(***************************************************************************)
(* apply_auto_archive, at the top of every scheduler cycle                 *)
(***************************************************************************)
\* The part before the first await: offline models are marked in memory.
Mark ==
    /\ auto
    /\ ~booting
    /\ autoPc = "idle"
    /\ ToArchive # {}
    /\ memory' = [m \in Models |-> IF m \in ToArchive THEN "auto" ELSE memory[m]]
    /\ newly' = ToArchive
    /\ autoPc' = "saving"
    /\ UNCHANGED <<auto, directive, database, modelVars, watchVars, booting, ledger>>

\* set_archived in a worker thread.
Save ==
    /\ autoPc = "saving"
    /\ SetArchived(newly, "auto")
    /\ autoPc' = "pruning"
    /\ torn' = IF watchPc = "publish" THEN torn \cup newly ELSE torn
    /\ late' = IF watchPc \in {"prune", "reload"}
               THEN late \cup {m \in newly : directive[m] = "false"} ELSE late
    /\ UNCHANGED <<auto, directive, memory, modelVars, newly, watchVars, booting, bounds>>

PruneNewly ==
    /\ autoPc = "pruning"
    /\ Prune(newly)
    /\ autoPc' = "idle"
    /\ newly' = {}
    /\ UNCHANGED <<auto, directive, memory, database, watchVars, booting, ledger>>

\* A database call raises: the scheduler's loop logs it and goes on.  What was
\* not saved stays marked in memory, until a reload or a restart.
AutoFails ==
    /\ failures < MaxFailures
    /\ autoPc # "idle"
    /\ autoPc' = "idle"
    /\ newly' = {}
    /\ failures' = failures + 1
    /\ torn' = IF autoPc = "saving" /\ watchPc = "idle" THEN torn \cup newly ELSE torn
    /\ UNCHANGED <<auto, directive, memory, database, modelVars, watchVars, booting, late,
                   reloads, restarts>>

-----------------------------------------------------------------------------
(***************************************************************************)
(* reload_config and apply_db_changes, one at a time                       *)
(***************************************************************************)
ReloadConfig(d) ==
    /\ reloads < MaxReloads
    /\ ~booting
    /\ watchPc = "idle"
    /\ directive' = d
    /\ reloads' = reloads + 1
    /\ watchPc' = "load"
    /\ torn' = {} /\ late' = {}
    /\ UNCHANGED <<auto, memory, database, modelVars, autoVars, current, booting,
                   restarts, failures>>

Directed(d) == {m \in Models : directive[m] = d}
Undirected  == Directed("absent") \cup Directed("exempt")

\* Mutant: the archived models are looked up in memory.
LoadFromMemory ==
    /\ watchPc = "load"
    /\ current' = memory
    /\ watchPc' = "clear"
    /\ UNCHANGED <<auto, directive, memory, database, modelVars, autoVars, booting, ledger>>

Load ==
    /\ watchPc = "load"
    /\ current' = database
    /\ watchPc' = "clear"
    /\ UNCHANGED <<auto, directive, memory, database, modelVars, autoVars, booting, ledger>>

\* Mutant: a reload clears every archive that has no directive any more.
ClearAllStale ==
    /\ watchPc = "clear"
    /\ SetArchived({m \in Undirected : current[m] # "no"}, "no")
    /\ watchPc' = "archive"
    /\ UNCHANGED <<auto, directive, memory, modelVars, autoVars, current, booting, ledger>>

\* stale_manual: the directive of a manual archive is gone.
ClearStaleManual ==
    /\ watchPc = "clear"
    /\ SetArchived({m \in Undirected : current[m] = "manual"}, "no")
    /\ watchPc' = "archive"
    /\ UNCHANGED <<auto, directive, memory, modelVars, autoVars, current, booting, ledger>>

ArchiveDirected ==
    /\ watchPc = "archive"
    /\ SetArchived(Directed("true"), "manual")
    /\ watchPc' = "unarchive"
    /\ UNCHANGED <<auto, directive, memory, modelVars, autoVars, current, booting, ledger>>

UnarchiveDirected ==
    /\ watchPc = "unarchive"
    /\ SetArchived(Directed("false"), "no")
    /\ watchPc' = "prune"
    /\ UNCHANGED <<auto, directive, memory, modelVars, autoVars, current, booting, ledger>>

\* Only the models that were not archived before are pruned.
PruneDirected ==
    /\ watchPc = "prune"
    /\ Prune({m \in Directed("true") : current[m] = "no"})
    /\ watchPc' = "reload"
    /\ UNCHANGED <<auto, directive, memory, database, autoVars, current, booting, ledger>>

LoadAgain ==
    /\ watchPc = "reload"
    /\ current' = database
    /\ watchPc' = "publish"
    /\ UNCHANGED <<auto, directive, memory, database, modelVars, autoVars, booting, ledger>>

\* At startup model_cache is filled only now, from the database; degraded_since
\* becomes the time of the last benchmark of a model that is not online.
FillCache ==
    /\ booting' = FALSE
    /\ IF booting
       THEN \E t \in [Models -> 0 .. Threshold] :
               since' = [m \in Models |-> IF status[m] = "online" THEN NoTime ELSE t[m]]
       ELSE UNCHANGED since

\* Mutant: _archived_model_keys is not cleared before the update.
PublishAdding ==
    /\ watchPc = "publish"
    /\ memory' = [m \in Models |-> IF current[m] = "no" THEN memory[m] ELSE current[m]]
    /\ watchPc' = "idle"
    /\ current' = [m \in Models |-> "no"]
    /\ FillCache
    /\ torn' = IF autoPc = "saving" THEN torn \cup newly ELSE torn
    /\ UNCHANGED <<auto, directive, database, status, offline, testing, autoVars, late, bounds>>

\* _archived_model_keys.clear() and update(loaded).
Publish ==
    /\ watchPc = "publish"
    /\ memory' = current
    /\ watchPc' = "idle"
    /\ current' = [m \in Models |-> "no"]
    /\ FillCache
    /\ torn' = IF autoPc = "saving" THEN torn \cup newly ELSE torn
    /\ UNCHANGED <<auto, directive, database, status, offline, testing, autoVars, late, bounds>>

\* "DB sync failed during config reload": the rest is skipped.  After the second
\* load nothing can fail.
WatchFails ==
    /\ failures < MaxFailures
    /\ watchPc \notin {"idle", "publish"}
    /\ watchPc' = "idle"
    /\ current' = [m \in Models |-> "no"]
    /\ failures' = failures + 1
    /\ torn' = Models
    /\ FillCache
    /\ UNCHANGED <<auto, directive, memory, database, status, offline, testing, autoVars,
                   late, reloads, restarts>>

-----------------------------------------------------------------------------
(***************************************************************************)
(* Tests, time and restarts                                                *)
(***************************************************************************)
StartTest(m) ==
    /\ ~booting
    /\ memory[m] = "no"
    /\ testing' = testing \cup {m}
    /\ UNCHANGED <<auto, directive, memory, database, status, since, offline, autoVars,
                   watchVars, booting, ledger>>

\* Mutant: the start of an outage that begins as a degradation is not kept.
TrackErrorsOnly(m, new) ==
    IF new = "error" /\ status[m] = "online" THEN 0
    ELSE IF new = "online" THEN NoTime ELSE since[m]

\* _track_degraded_since.
TrackSince(m, new) ==
    IF new # "online" /\ status[m] = "online" THEN 0
    ELSE IF new = "online" THEN NoTime ELSE since[m]

\* record_result_async, or record_retry_async, at the end of an attempt.
EndTest(m, new) ==
    /\ m \in testing
    /\ testing' = testing \ {m}
    /\ status' = [status EXCEPT ![m] = new]
    /\ since' = [since EXCEPT ![m] = TrackSince(m, new)]
    /\ offline' = [offline EXCEPT ![m] = IF new = "error" THEN @ ELSE 0]
    /\ UNCHANGED <<auto, directive, memory, database, autoVars, watchVars, booting, ledger>>

Older(t) == IF t \in 0 .. Threshold - 1 THEN t + 1 ELSE t

PassTime ==
    /\ since' = [m \in Models |-> Older(since[m])]
    /\ offline' = [m \in Models |->
                      IF status[m] = "error" THEN Older(offline[m]) ELSE 0]
    /\ UNCHANGED <<auto, directive, memory, database, status, testing, autoVars, watchVars,
                   booting, ledger>>

\* The server stops at any point and starts again, with any models.yaml.
Restart(d) ==
    /\ restarts < MaxRestarts
    /\ restarts' = restarts + 1
    /\ directive' = d
    /\ memory' = [m \in Models |-> "no"]
    /\ since' = [m \in Models |-> NoTime]
    /\ testing' = {}
    /\ autoPc' = "idle"
    /\ newly' = {}
    /\ watchPc' = "load"
    /\ booting' = TRUE
    /\ current' = [m \in Models |-> "no"]
    /\ torn' = {} /\ late' = {}
    /\ UNCHANGED <<auto, database, status, offline, reloads, failures>>

-----------------------------------------------------------------------------
Init ==
    /\ auto \in AutoEnabled
    /\ directive \in [Models -> Directives]
    /\ memory = [m \in Models |-> "no"]
    /\ database = [m \in Models |-> "no"]
    /\ status = [m \in Models |-> "online"]
    /\ since = [m \in Models |-> NoTime]
    /\ offline = [m \in Models |-> 0]
    /\ testing = {}
    /\ autoPc = "idle"
    /\ newly = {}
    /\ watchPc = "load"
    /\ current = [m \in Models |-> "no"]
    /\ booting = TRUE
    /\ torn = {} /\ late = {}
    /\ reloads = 0
    /\ restarts = 0
    /\ failures = 0

AutoStep == Mark \/ Save \/ PruneNewly \/ AutoFails

WatchStep == \/ Load \/ ClearStaleManual \/ ArchiveDirected \/ UnarchiveDirected
             \/ PruneDirected \/ LoadAgain \/ Publish \/ WatchFails

Next ==
    \/ AutoStep
    \/ WatchStep
    \/ \E d \in [Models -> Directives] : ReloadConfig(d) \/ Restart(d)
    \/ \E m \in Models : StartTest(m) \/ \E new \in Statuses : EndTest(m, new)
    \/ PassTime

Spec == Init /\ [][Next]_vars

\* The scheduler comes round, worker threads return and time passes.
Fairness == WF_vars(AutoStep) /\ WF_vars(WatchStep) /\ WF_vars(PassTime)

FairSpec == Spec /\ Fairness

-----------------------------------------------------------------------------
\* Every variable keeps its type; in particular an archived model always has a
\* source.
TypeOK ==
    /\ auto \in AutoEnabled
    /\ directive \in [Models -> Directives]
    /\ memory \in [Models -> Sources]
    /\ database \in [Models -> Sources]
    /\ status \in [Models -> Statuses]
    /\ since \in [Models -> DegradedTimes]
    /\ offline \in [Models -> 0 .. Threshold]
    /\ testing \subseteq Models
    /\ autoPc \in {"idle", "saving", "pruning"}
    /\ newly \subseteq Models
    /\ watchPc \in {"idle", "load", "clear", "archive", "unarchive", "prune",
                    "reload", "publish"}
    /\ current \in [Models -> Sources]
    /\ booting \in BOOLEAN
    /\ torn \subseteq Models /\ late \subseteq Models
    /\ reloads \in 0 .. MaxReloads
    /\ restarts \in 0 .. MaxRestarts
    /\ failures \in 0 .. MaxFailures

Settled == autoPc = "idle" /\ watchPc = "idle"

\* Between two operations memory and database agree on what is archived and by
\* whom, so that what is tested is what the next start would test.  The models
\* in torn are excepted until the next reload or start, which makes them agree
\* again unless it tears them itself: reloads beside apply_auto_archive, failing
\* calls and restarts change nothing for any other model.
MemoryIsDatabase ==
    Settled => \A m \in Models \ torn : memory[m] = database[m]

\* Whatever is marked as archived automatically is "persisted ... so it survives
\* server restarts and config reloads".  Violated: see the README.
MarksAreSaved ==
    Settled => \A m \in Models : memory[m] = "auto" => database[m] = "auto"

\* What was archived automatically stays archived in memory: an archive "survives
\* server restarts and config reloads".
AutoArchiveSurvives ==
    Settled => \A m \in Models : database[m] = "auto" => memory[m] # "no"

\* Once a reload or a start has finished, models.yaml holds: "archived: true"
\* leaves the model archived, "archived: false" leaves it unarchived, and a
\* model whose directive is gone is not archived manually any more.  Excepted are
\* the models in torn, and in late, until the next reload or start: there an
\* automatic archive came too late for the directive.
DirectivesHold ==
    Settled =>
        \A m \in Models \ (torn \cup late) :
            /\ directive[m] = "true" => memory[m] # "no" /\ database[m] # "no"
            /\ directive[m] = "false" => memory[m] = "no" /\ database[m] = "no"
            /\ m \in Undirected => memory[m] # "manual" /\ database[m] # "manual"

\* "archived: false" is the escape hatch: it unarchives a model "(any source)",
\* whatever auto-archiving was doing meanwhile.
FalseUnarchives ==
    Settled => \A m \in Directed("false") : memory[m] = "no" /\ database[m] = "no"

\* An archive that is automatic when a reload or a start reads it is undone
\* only by a directive for that model, whatever else happens during the reload.
AutoArchivePersists ==
    [][ \A m \in Models : database[m] = "auto" /\ database'[m] # "auto" =>
            m \notin Undirected \/ current[m] = "manual" ]_vars

\* "Auto-archive after this much continuous offline (error status)."
ArchivedAfterOffline ==
    [][ \A m \in Models : autoPc = "idle" /\ m \in newly' => offline[m] = Threshold ]_vars

\* A model that stays offline is eventually archived, unless it is exempt.
OfflineIsArchived ==
    \A m \in Models :
        auto /\ status[m] = "error" /\ ~Exempt(m)
            ~> \/ memory[m] # "no"
               \/ status[m] # "error"
               \/ Exempt(m)

\* The same as long as no reload has unarchived a model.
OutageIsArchived ==
    \A m \in Models :
        auto /\ status[m] = "error" /\ ~Exempt(m)
            ~> \/ memory[m] # "no"
               \/ status[m] # "error"
               \/ Exempt(m)
               \/ reloads > 0

=============================================================================
