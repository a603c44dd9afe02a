----------------------------- MODULE ModelRecord -----------------------------
(***************************************************************************)
(* What the program knows of a model: the entry of model_cache that every   *)
(* record updates, the rows of test_results and the row of model_state that *)
(* the write batcher stores a little later, the pruning of trailing         *)
(* failures when a model is archived, retention, and what startup derives   *)
(* from the rows.                                                           *)
(*                                                                         *)
(* The batcher is used through its promise (DurableLog, here without lost   *)
(* flushes): what is buffered becomes durable later, rows and state         *)
(* together, or is lost by a crash.                                         *)
(***************************************************************************)
EXTENDS Integers, Sequences, FiniteSets, SequencesExt

CONSTANTS
    Models,
    TotalAttempts,   \* 1 + max_retries
    MaxRecords,      \* bound on records of all models
    MaxPrunes,       \* bound on prunes
    MaxCrashes,      \* bound on crashes
    MaxCutoff        \* bound on the cutoff of a retention run; none below 2

ASSUME RecordAssumption ==
    /\ TotalAttempts \in Nat \ {0}
    /\ MaxRecords \in Nat
    /\ MaxPrunes \in Nat
    /\ MaxCrashes \in Nat
    /\ MaxCutoff \in Nat

Kinds    == {"health", "benchmark"}
Outcomes == {"ok", "degraded", "failed"}
Statuses == {"unknown", "online", "degraded", "error"}
Sources  == Kinds \cup {"none"}      \* degraded_source
Final    == 0                        \* retry_attempt of a final result

\* A row of test_results; at is its ts_epoch.
Row   == [kind : Kinds, outcome : Outcomes, retry : 0 .. TotalAttempts - 1,
          at : 1 .. MaxRecords]
\* What model_state and the cache have in common.
State == [status : Statuses, source : Sources, tests : 0 .. MaxRecords,
          successes : 0 .. MaxRecords]
Fresh == [status |-> "unknown", source |-> "none", tests |-> 0, successes |-> 0]

Idle == [kind |-> "none", attempt |-> 0]      \* no test runs
Test == {Idle} \cup [kind : Kinds, attempt : 0 .. TotalAttempts - 1]

Quiet == [stage |-> "idle", by |-> "none", upTo |-> 0, found |-> Fresh]
Prune == [stage : {"idle", "due", "sync", "load"}, by : {"none", "auto", "directive"},
          upTo : 0 .. MaxRecords, found : State]

VARIABLES
    memory,     \* the state part of each entry of model_cache
    history,    \* recent_history of each entry
    cycle,      \* the test of each model and its next attempt
    buffer,     \* the rows of each model in the write batcher
    latest,     \* the state_kwargs of the last of them
    rows,       \* test_results of each model, in the order of ts_epoch
    state,      \* model_state
    archived,   \* _archived_model_keys
    pruning,    \* prune_trailing_failures of each model: where its thread is
    clock, prunes, crashes,
    integrity   \* history variable: "whole" until rows of the model are
                \* deleted, "torn" while they were deleted beside a record

testVars  == <<memory, history, cycle, clock>>
storeVars == <<buffer, latest, rows, state>>
pruneVars == <<archived, pruning, prunes>>
vars == <<testVars, storeVars, pruneVars, crashes, integrity>>

-----------------------------------------------------------------------------
(* Pure parts                                                               *)

\* Mutant of Derive: a health check does not look at who owns the degradation.
DeriveAlone(s, r) ==
    CASE r.retry # Final \/ r.outcome = "degraded" ->
            [status |-> "degraded", source |-> r.kind]
      [] r.retry = Final /\ r.outcome = "failed" -> [status |-> "error", source |-> "none"]
      [] OTHER -> [status |-> "online", source |-> "none"]

\* _derive_status_from_result: s is what the model was, r the record.
Derive(s, r) ==
    LET benchmarkOwns == s.source = "benchmark" /\ r.kind = "health"
        owner == IF benchmarkOwns THEN "benchmark" ELSE r.kind
    IN  CASE r.retry # Final -> [status |-> "degraded", source |-> owner]
          [] r.retry = Final /\ r.outcome = "failed" ->
                [status |-> "error",
                 source |-> IF benchmarkOwns THEN "benchmark" ELSE "none"]
          [] r.retry = Final /\ r.outcome # "failed"
             /\ (r.outcome = "degraded" \/ benchmarkOwns) ->
                [status |-> "degraded", source |-> owner]
          [] OTHER -> [status |-> "online", source |-> "none"]

Unknown == [status |-> "unknown", source |-> "none"]

\* The replay of reconcile_model_state and _recompute_model_state.
Replay(seq) ==
    LET after[n \in 0 .. Len(seq)] ==
            IF n = 0 THEN Unknown ELSE Derive(after[n - 1], seq[n])
    IN  after[Len(seq)]

Succeeded(r) == r.outcome # "failed"      \* available = 1 AND success = 1
IsFinal(r)   == r.retry = Final

\* _recompute_model_state: the counts are over all rows, retries included.
Recompute(seq) ==
    LET s == Replay(seq)
    IN  [status |-> s.status, source |-> s.source,
         tests |-> Len(seq),
         successes |-> Cardinality({i \in DOMAIN seq : Succeeded(seq[i])})]

\* MAX(ts_epoch) of the successful rows, which are in the order of ts_epoch.
IsLastSuccess(seq, n) ==
    Succeeded(seq[n]) /\ \A j \in n + 1 .. Len(seq) : ~Succeeded(seq[j])

\* The records up to a time, in a history that is in the order of ts_epoch.
UpTo(seq, ts) == SubSeq(seq, 1, Cardinality({i \in DOMAIN seq : seq[i].at <= ts}))

Stored(m) == rows[m] \o buffer[m]

-----------------------------------------------------------------------------
(* Tests                                                                    *)

\* get_resume_attempt: the last retry after the last final result of the kind.
ResumeAttempt(seq, k) ==
    LET ofKind == SelectSeq(seq, LAMBDA r : r.kind = k)
        finals == SelectSeq(ofKind, IsFinal)
        lastFinal == IF finals = <<>> THEN 0 ELSE Last(finals).at
        retries == {r.retry : r \in {x \in Range(ofKind) :
                                        ~IsFinal(x) /\ x.at > lastFinal}}
    IN  IF retries = {} THEN 0
        ELSE CHOOSE n \in retries : \A o \in retries : o <= n

\* A test begins.  It resumes an interrupted cycle unless that is older than
\* the interval of its kind.
Begin(m, k) ==
    /\ cycle[m] = Idle
    /\ m \notin archived
    /\ clock < MaxRecords
    /\ \E skip \in {0, ResumeAttempt(rows[m], k)} :
          cycle' = [cycle EXCEPT ![m] =
                       [kind |-> k,
                        attempt |-> IF skip \in 1 .. TotalAttempts - 1 THEN skip ELSE 0]]
    /\ UNCHANGED <<memory, history, clock, storeVars, pruneVars, crashes, integrity>>

\* What both recorders do: history and status in memory, the record with the
\* state for the batcher, no await in between.
Enter(m, row, counted) ==
    LET s == Derive(memory[m], row)
        entry == [status |-> s.status, source |-> s.source,
                  tests |-> memory[m].tests + (IF counted THEN 1 ELSE 0),
                  successes |-> memory[m].successes
                                + (IF counted /\ Succeeded(row) THEN 1 ELSE 0)]
    IN  /\ memory' = [memory EXCEPT ![m] = entry]
        /\ history' = [history EXCEPT ![m] = Append(@, row)]
        /\ buffer' = [buffer EXCEPT ![m] = Append(@, row)]
        /\ latest' = [latest EXCEPT ![m] = entry]
        /\ clock' = row.at
        /\ integrity' = IF pruning[m].stage = "sync"
                        THEN [integrity EXCEPT ![m] = "torn"] ELSE integrity

\* record_retry_async: a failed or degraded attempt that is not the last.
Retry(m, outcome) ==
    /\ cycle[m] # Idle
    /\ outcome # "ok"
    /\ cycle[m].attempt < TotalAttempts - 1
    /\ clock < MaxRecords
    /\ Enter(m, [kind |-> cycle[m].kind, outcome |-> outcome,
                 retry |-> cycle[m].attempt + 1, at |-> clock + 1], FALSE)
    /\ cycle' = [cycle EXCEPT ![m].attempt = @ + 1]
    /\ UNCHANGED <<rows, state, pruneVars, crashes>>

\* record_result_async: the last attempt, a success, an HTTP 4xx failure, a
\* benchmark whose success is degraded afterwards (critical_tier), or, when the
\* program shuts down between two attempts, the previous result as a final one.
Finish(m, outcome) ==
    /\ cycle[m] # Idle
    /\ outcome = "degraded" /\ cycle[m].kind = "health"
          => cycle[m].attempt > 0 \/ TotalAttempts = 1
    /\ clock < MaxRecords
    /\ Enter(m, [kind |-> cycle[m].kind, outcome |-> outcome, retry |-> Final,
                 at |-> clock + 1], TRUE)
    /\ cycle' = [cycle EXCEPT ![m] = Idle]
    /\ UNCHANGED <<rows, state, pruneVars, crashes>>

\* A test that ends without a record: an internal error or a cancellation.
Interrupt(m) ==
    /\ cycle[m] # Idle
    /\ cycle' = [cycle EXCEPT ![m] = Idle]
    /\ UNCHANGED <<memory, history, clock, storeVars, pruneVars, crashes, integrity>>

-----------------------------------------------------------------------------
(* The database                                                             *)

\* A flush of the batcher: all rows and, per model, the last state.
Flush ==
    /\ \E m \in Models : buffer[m] # <<>>
    /\ rows' = [m \in Models |-> Stored(m)]
    /\ state' = [m \in Models |-> IF buffer[m] = <<>> THEN state[m] ELSE latest[m]]
    /\ buffer' = [m \in Models |-> <<>>]
    /\ latest' = [m \in Models |-> Fresh]
    /\ UNCHANGED <<testVars, pruneVars, crashes, integrity>>

\* apply_auto_archive: the mark, then a prune in a thread.
AutoArchive(m) ==
    /\ m \notin archived
    /\ memory[m].status = "error"
    /\ pruning[m] = Quiet
    /\ prunes < MaxPrunes
    /\ archived' = archived \cup {m}
    /\ pruning' = [pruning EXCEPT ![m].stage = "due", ![m].by = "auto"]
    /\ prunes' = prunes + 1
    /\ UNCHANGED <<testVars, storeVars, crashes, integrity>>

\* apply_db_changes prunes newly archived models before it loads the marks
\* that keep their tests from beginning.
DirectiveArchive(m) ==
    /\ m \notin archived
    /\ pruning[m] = Quiet
    /\ prunes < MaxPrunes
    /\ pruning' = [pruning EXCEPT ![m].stage = "due", ![m].by = "directive"]
    /\ prunes' = prunes + 1
    /\ UNCHANGED <<testVars, storeVars, archived, crashes, integrity>>

LoadMarks(m) ==
    /\ pruning[m].stage = "load"
    /\ archived' = archived \cup {m}
    /\ pruning' = [pruning EXCEPT ![m] = Quiet]
    /\ UNCHANGED <<testVars, storeVars, prunes, crashes, integrity>>

\* A reload loads the marks without the model.
Unarchive(m) ==
    /\ m \in archived
    /\ archived' = archived \ {m}
    /\ UNCHANGED <<testVars, storeVars, pruning, prunes, crashes, integrity>>

\* After the prune, a directive still loads the marks.
AfterPrune(m) ==
    IF pruning[m].by = "directive" THEN [Quiet EXCEPT !.stage = "load"] ELSE Quiet

\* What a prune does to the rows and the state of a model, and what it found.
Delete(m, kept, ts) ==
    /\ rows' = [rows EXCEPT ![m] = kept]
    /\ state' = [state EXCEPT ![m] = Recompute(kept)]
    /\ pruning' = [pruning EXCEPT ![m] =
                      [@ EXCEPT !.stage = "sync", !.upTo = ts, !.found = Recompute(kept)]]
    /\ integrity' = [integrity EXCEPT ![m] =
                        IF buffer[m] # <<>> \/ @ = "torn" THEN "torn" ELSE "pruned"]
    /\ UNCHANGED <<testVars, buffer, latest, archived, prunes, crashes>>

\* Mutant of PruneRows: a degraded success does not count as one.
PruneFromLastClean(m) ==
    /\ pruning[m].stage = "due"
    /\ \E n \in DOMAIN rows[m] :
          /\ n < Len(rows[m])
          /\ rows[m][n].outcome = "ok"
          /\ \A j \in n + 1 .. Len(rows[m]) : rows[m][j].outcome # "ok"
          /\ Delete(m, SubSeq(rows[m], 1, n), rows[m][n].at)

\* prune_trailing_failures under the write lock: the rows after the last
\* success go, the state is recomputed.
PruneRows(m) ==
    /\ pruning[m].stage = "due"
    /\ \E n \in DOMAIN rows[m] :
          /\ IsLastSuccess(rows[m], n)
          /\ n < Len(rows[m])
          /\ Delete(m, SubSeq(rows[m], 1, n), rows[m][n].at)

\* Without a success, or with nothing after it, nothing is pruned.
PruneNothing(m) ==
    /\ pruning[m].stage = "due"
    /\ \A n \in DOMAIN rows[m] : IsLastSuccess(rows[m], n) => n = Len(rows[m])
    /\ pruning' = [pruning EXCEPT ![m] = AfterPrune(m)]
    /\ UNCHANGED <<testVars, storeVars, archived, prunes, crashes, integrity>>

\* Mutant of SyncCache: recent_history keeps the pruned records.
SyncCounters(m) ==
    /\ pruning[m].stage = "sync"
    /\ memory' = [memory EXCEPT ![m] = pruning[m].found]
    /\ pruning' = [pruning EXCEPT ![m] = AfterPrune(m)]
    /\ UNCHANGED <<history, cycle, clock, storeVars, archived, prunes, crashes, integrity>>

\* _sync_cache_after_prune, after the lock was released.
SyncCache(m) ==
    /\ pruning[m].stage = "sync"
    /\ memory' = [memory EXCEPT ![m] = pruning[m].found]
    /\ history' = [history EXCEPT ![m] = UpTo(@, pruning[m].upTo)]
    /\ pruning' = [pruning EXCEPT ![m] = AfterPrune(m)]
    /\ UNCHANGED <<cycle, clock, storeVars, archived, prunes, crashes, integrity>>

\* delete_old_results: everything before a cutoff that is older than whatever
\* is still buffered.
DeleteOld(cutoff) ==
    LET Old(seq) == {i \in DOMAIN seq : seq[i].at < cutoff}
        Rest(seq) == SubSeq(seq, Cardinality(Old(seq)) + 1, Len(seq))
    IN  /\ \A m \in Models : \A i \in DOMAIN buffer[m] : cutoff <= buffer[m][i].at
        /\ \E m \in Models : Old(rows[m]) # {}
        /\ rows' = [m \in Models |-> Rest(rows[m])]
        /\ integrity' = [m \in Models |->
                            IF Old(rows[m]) = {} THEN integrity[m] ELSE "torn"]
        /\ UNCHANGED <<testVars, buffer, latest, state, pruneVars, crashes>>

\* Mutant of Reconciled: the stored status is taken as it is.
Unreconciled(m) == state[m]

\* reconcile_model_state replays the rows; the counters stay as stored.
Reconciled(m) ==
    [state[m] EXCEPT !.status = Replay(rows[m]).status,
                     !.source = Replay(rows[m]).source]

\* The process dies and starts again: what was buffered is gone, the state is
\* reconciled and the cache is loaded from the database.  The marks of models
\* that were being archived may have been stored or not.
Restart ==
    /\ crashes < MaxCrashes
    /\ crashes' = crashes + 1
    /\ state' = [m \in Models |-> Reconciled(m)]
    /\ memory' = state'
    /\ history' = rows
    /\ cycle' = [m \in Models |-> Idle]
    /\ buffer' = [m \in Models |-> <<>>]
    /\ latest' = [m \in Models |-> Fresh]
    /\ \E marked \in SUBSET {m \in Models : pruning[m] # Quiet} :
          archived' = {m \in archived : pruning[m] = Quiet} \cup marked
    /\ pruning' = [m \in Models |-> Quiet]
    /\ integrity' = [m \in Models |->
                        IF integrity[m] = "torn" THEN "pruned" ELSE integrity[m]]
    /\ UNCHANGED <<clock, rows, prunes>>

-----------------------------------------------------------------------------
Init ==
    /\ memory = [m \in Models |-> Fresh]
    /\ history = [m \in Models |-> <<>>]
    /\ cycle = [m \in Models |-> Idle]
    /\ buffer = [m \in Models |-> <<>>]
    /\ latest = [m \in Models |-> Fresh]
    /\ rows = [m \in Models |-> <<>>]
    /\ state = [m \in Models |-> Fresh]
    /\ archived = {}
    /\ pruning = [m \in Models |-> Quiet]
    /\ clock = 0
    /\ prunes = 0
    /\ crashes = 0
    /\ integrity = [m \in Models |-> "whole"]

TestStep(m) ==
    \/ \E k \in Kinds : Begin(m, k)
    \/ \E o \in Outcomes : Retry(m, o) \/ Finish(m, o)
    \/ Interrupt(m)

ArchiveStep(m) ==
    \/ AutoArchive(m) \/ DirectiveArchive(m) \/ LoadMarks(m) \/ Unarchive(m)
    \/ PruneRows(m) \/ PruneNothing(m) \/ SyncCache(m)

Next ==
    \/ \E m \in Models : TestStep(m) \/ ArchiveStep(m)
    \/ Flush
    \/ \E cutoff \in 2 .. MaxCutoff : DeleteOld(cutoff)
    \/ Restart

Spec == Init /\ [][Next]_vars

-----------------------------------------------------------------------------
(* Properties                                                               *)

\* Every variable has its type (model_cache, test_results, model_state and the
\* stages of prune_trailing_failures).
TypeOK ==
    /\ memory \in [Models -> State]
    /\ history \in [Models -> Seq(Row)]
    /\ cycle \in [Models -> Test]
    /\ buffer \in [Models -> Seq(Row)]
    /\ latest \in [Models -> State]
    /\ rows \in [Models -> Seq(Row)]
    /\ state \in [Models -> State]
    /\ archived \subseteq Models
    /\ pruning \in [Models -> Prune]
    /\ clock \in 0 .. MaxRecords
    /\ prunes \in 0 .. MaxPrunes
    /\ crashes \in 0 .. MaxCrashes
    /\ integrity \in [Models -> {"whole", "pruned", "torn"}]

\* What a restart would derive from the rows is what the running program
\* derived record by record: status and owner of the degradation in memory are
\* the replay of the stored and the buffered rows, also across crashes and
\* prunes, unless a prune met a buffered record or retention cut the rows.
StatusIsReplay ==
    \A m \in Models :
        integrity[m] # "torn" /\ pruning[m].stage # "sync" =>
            Replay(Stored(m)) = [status |-> memory[m].status,
                                 source |-> memory[m].source]

Finals(seq)    == {i \in DOMAIN seq : IsFinal(seq[i])}
Successes(seq) == {i \in Finals(seq) : Succeeded(seq[i])}

\* total_tests and total_success of record_result_async count the final results
\* that are stored or buffered, and crashes do not change that.
CountersCount ==
    \A m \in Models :
        integrity[m] = "whole" =>
            /\ memory[m].tests = Cardinality(Finals(Stored(m)))
            /\ memory[m].successes = Cardinality(Successes(Stored(m)))

\* Both: what record_result_async keeps is what reconcile_model_state finds.
ReplayAgrees == StatusIsReplay /\ CountersCount

\* When nothing of a model is buffered, model_state and recent_history agree
\* with the entry in memory, after records, prunes and restarts alike.
DatabaseAgrees ==
    \A m \in Models :
        /\ integrity[m] # "torn"
        /\ pruning[m].stage # "sync"
        /\ buffer[m] = <<>>
        => state[m] = memory[m] /\ history[m] = rows[m]

\* The comment of prune_trailing_failures (db.py:652) says that the cache is
\* synced safely since archived models have no concurrent writers: with nothing
\* buffered and no prune under way, memory and database agree on the model.
PruneIsSafe ==
    \A m \in Models :
        /\ pruning[m] = Quiet
        /\ buffer[m] = <<>>
        => state[m] = memory[m]

\* "so unarchiving later shows correct data immediately" (db.py:621-622): after a
\* prune the counters are those of the results that are left.
PrunedCountersCount ==
    \A m \in Models :
        integrity[m] = "pruned" /\ pruning[m].stage # "sync" =>
            memory[m].tests = Cardinality(Finals(Stored(m)))

\* No health result clears a degradation that a benchmark found: the owner
\* changes only with a benchmark's result, a prune or a restart.
HealthKeepsOwner ==
    [][\A m \in Models :
          /\ memory[m].source = "benchmark"
          /\ Len(buffer'[m]) > Len(buffer[m])
          /\ Last(buffer'[m]).kind = "health"
          => memory'[m].source = "benchmark" /\ memory'[m].status # "online"]_vars

\* Pruning takes only failures, and only those after the last success.
PruneKeepsSuccesses ==
    [][\A m \in Models : pruning'[m] # pruning[m] =>
          \A i \in DOMAIN rows[m] : rows[m][i] \notin Range(rows'[m]) =>
             \A j \in DOMAIN rows[m] : j >= i => rows[m][j].outcome = "failed"]_vars
=============================================================================
