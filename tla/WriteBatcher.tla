---------------------------- MODULE WriteBatcher -----------------------------
(***************************************************************************)
(* WriteBatcher of src/backend/db.py: test results are added to a buffer   *)
(* and flushed to SQLite by a periodic loop, by a task that the result     *)
(* which fills the buffer starts, and by stop() at shutdown.               *)
(*                                                                         *)
(* A flush takes the buffer, hands it to a worker thread and awaits it, so *)
(* several batches may be on their way at once; the threads take           *)
(* _write_lock in any order.  All writers share one SQLite connection:     *)
(* what a failed batch has already executed stays in the open transaction  *)
(* until somebody commits it, as the code never rolls back.                *)
(*                                                                         *)
(* Results are numbered in the order in which they are added.  A row of    *)
(* test_results is the number of its result, and a row of model_state the  *)
(* number of the result whose state_kwargs were upserted last (0: none).   *)
(***************************************************************************)
EXTENDS Integers, Sequences, FiniteSets, Functions

CONSTANTS
    Models,       \* model keys
    MaxResults,   \* bound: results added in one behaviour
    MaxBuffer,    \* _max_buffer
    Triggered,    \* bound: the flush tasks of full buffers, at most at once
    MaxFailures,  \* bound: flushes that fail
    OtherWriters, \* other code commits on the same connection
    MayStop,      \* the program may be shut down
    MaxCrashes    \* bound: crashes, each followed by a restart

Loop == "loop"   \* the task of _flush_loop
Stop == "stop"   \* the flush() that stop() calls
Flushers == Triggered \cup {Loop, Stop}

ASSUME BatcherAssumption ==
    /\ MaxResults \in Nat
    /\ MaxBuffer \in Nat \ {0}
    /\ {Loop, Stop} \cap Triggered = {}
    /\ MaxFailures \in Nat
    /\ OtherWriters \in BOOLEAN
    /\ MayStop \in BOOLEAN
    /\ MaxCrashes \in Nat

\* A flush is scheduled (its task has not run), has a batch in a worker
\* thread, or has the thread's result and waits to be resumed.  The batch of a
\* cancelled flush is an orphan: its thread runs on, nobody reads the result.
Stages == {"idle", "scheduled", "writing", "written", "failed", "orphan"}

VARIABLES
    added,     \* Seq(Models): the model of each result added so far
    rows,      \* _rows, the buffer
    batch,     \* [Flushers -> Seq(Nat)], the local "batch" of each flush
    stage,     \* [Flushers -> Stages]
    txnTable,  \* rows inserted by the open transaction
    txnState,  \* model_state as the open transaction sees it
    table,     \* test_results, committed
    state,     \* model_state, committed
    process,   \* "running", "stopping" once stop() is called, or "closed"
    failures,
    crashes

bufferVars == <<added, rows>>
flushVars  == <<batch, stage>>
dbVars     == <<txnTable, txnState, table, state>>
boundVars  == <<failures, crashes>>
vars == <<bufferVars, flushVars, dbVars, process, boundVars>>

Results == 1 .. Len(added)

\* upsert_model_state for each element of b, in order.
Upsert(s, b) ==
    [m \in Models |->
        LET I == {i \in DOMAIN b : added[b[i]] = m}
        IN  IF I = {} THEN s[m] ELSE b[CHOOSE i \in I : \A j \in I : j <= i]]

-----------------------------------------------------------------------------
\* add(), called by _persist_record: the result that fills the buffer also
\* starts a flush task.
Add(m) ==
    /\ process = "running"
    /\ Len(added) < MaxResults
    /\ added' = Append(added, m)
    /\ rows' = Append(rows, Len(added) + 1)
    /\ IF Len(rows) + 1 >= MaxBuffer
       THEN \E f \in Triggered :
               /\ stage[f] = "idle"
               /\ stage' = [stage EXCEPT ![f] = "scheduled"]
       ELSE UNCHANGED stage
    /\ UNCHANGED <<batch, dbVars, process, boundVars>>

\* The first part of flush(), up to its await: an empty buffer ends it.
Capture(f) ==
    /\ process # "closed"
    /\ \/ f = Loop /\ stage[f] = "idle" /\ process = "running" /\ rows # <<>>
       \/ stage[f] = "scheduled"
    /\ batch' = [batch EXCEPT ![f] = rows]
    /\ rows' = <<>>
    /\ stage' = [stage EXCEPT ![f] = IF rows = <<>> THEN "idle" ELSE "writing"]
    /\ UNCHANGED <<added, dbVars, process, boundVars>>

InThread(f) == stage[f] \in {"writing", "orphan"}

\* What the flush does when its thread has returned: nobody waits for an
\* orphan.
Return(f, result) ==
    IF stage[f] = "orphan"
    THEN /\ stage' = [stage EXCEPT ![f] = "idle"]
         /\ batch' = [batch EXCEPT ![f] = <<>>]
    ELSE /\ stage' = [stage EXCEPT ![f] = result]
         /\ UNCHANGED batch

\* Mutant of WriteBatch: the newest result of the batch is upserted first.
UpsertReversed(f) ==
    /\ InThread(f)
    /\ process # "closed"
    /\ table' = table \o txnTable \o batch[f]
    /\ state' = Upsert(txnState, [i \in DOMAIN batch[f] |->
                                     batch[f][Len(batch[f]) + 1 - i]])
    /\ txnTable' = <<>>
    /\ txnState' = state'
    /\ Return(f, "written")
    /\ UNCHANGED <<bufferVars, process, boundVars>>

\* _flush_batch succeeds, under _write_lock; its commit is also the commit of
\* whatever was left in the open transaction.
WriteBatch(f) ==
    /\ InThread(f)
    /\ process # "closed"
    /\ table' = table \o txnTable \o batch[f]
    /\ state' = Upsert(txnState, batch[f])
    /\ txnTable' = <<>>
    /\ txnState' = Upsert(txnState, batch[f])
    /\ Return(f, "written")
    /\ UNCHANGED <<bufferVars, process, boundVars>>

\* _flush_batch fails after i inserts and, if those were all, j upserts; or
\* SQLite itself has rolled the transaction back.
WriteFails(f) ==
    /\ InThread(f)
    /\ process # "closed"
    /\ failures < MaxFailures
    /\ failures' = failures + 1
    /\ \/ \E i \in 0 .. Len(batch[f]), j \in 0 .. Len(batch[f]) :
             /\ j > 0 => i = Len(batch[f])
             /\ txnTable' = txnTable \o SubSeq(batch[f], 1, i)
             /\ txnState' = Upsert(txnState, SubSeq(batch[f], 1, j))
       \/ /\ txnTable' = <<>>
          /\ txnState' = state
    /\ Return(f, "failed")
    /\ UNCHANGED <<bufferVars, table, state, process, crashes>>

\* A thread that comes after close() finds no connection.
WriteClosed(f) ==
    /\ InThread(f)
    /\ process = "closed"
    /\ Return(f, "failed")
    /\ UNCHANGED <<bufferVars, dbVars, process, boundVars>>

\* Mutant: the rows of a failed flush are not put back.
DropFailed(f) ==
    /\ stage[f] = "failed"
    /\ batch' = [batch EXCEPT ![f] = <<>>]
    /\ stage' = [stage EXCEPT ![f] = "idle"]
    /\ UNCHANGED <<bufferVars, dbVars, process, boundVars>>

\* flush() resumed with a failure: the rows go back, behind newer ones.
Requeue(f) ==
    /\ stage[f] = "failed"
    /\ rows' = rows \o batch[f]
    /\ batch' = [batch EXCEPT ![f] = <<>>]
    /\ stage' = [stage EXCEPT ![f] = "idle"]
    /\ UNCHANGED <<added, dbVars, process, boundVars>>

Flushed(f) ==
    /\ stage[f] = "written"
    /\ batch' = [batch EXCEPT ![f] = <<>>]
    /\ stage' = [stage EXCEPT ![f] = "idle"]
    /\ UNCHANGED <<bufferVars, dbVars, process, boundVars>>

\* set_archived, insert_probe_result, ... commit on the same connection.
OtherCommit ==
    /\ OtherWriters
    /\ process # "closed"
    /\ table' = table \o txnTable
    /\ state' = txnState
    /\ txnTable' = <<>>
    /\ UNCHANGED <<bufferVars, flushVars, txnState, process, boundVars>>

-----------------------------------------------------------------------------
\* stop(): the loop is cancelled wherever it awaits, then stop() flushes.  A
\* thread that has begun goes on as an orphan; one still queued never runs.
BeginStop ==
    /\ MayStop
    /\ process = "running"
    /\ process' = "stopping"
    /\ \E begun \in BOOLEAN :
          LET orphan == stage[Loop] = "writing" /\ begun
          IN  /\ stage' = [stage EXCEPT ![Loop] = IF orphan THEN "orphan" ELSE "idle",
                                        ![Stop] = "scheduled"]
              /\ batch' = [batch EXCEPT ![Loop] = IF orphan THEN @ ELSE <<>>]
    /\ UNCHANGED <<bufferVars, dbVars, boundVars>>

\* The rest of _shutdown: db.close() waits neither for the flush tasks nor for
\* their threads, and the open transaction is not committed.
Close ==
    /\ process = "stopping"
    /\ stage[Stop] = "idle"
    /\ process' = "closed"
    /\ txnTable' = <<>>
    /\ txnState' = state
    /\ UNCHANGED <<bufferVars, flushVars, table, state, boundVars>>

\* The process dies and is started again; only what is committed is left.
Crash ==
    /\ crashes < MaxCrashes
    /\ crashes' = crashes + 1
    /\ rows' = <<>>
    /\ batch' = [f \in Flushers |-> <<>>]
    /\ stage' = [f \in Flushers |-> "idle"]
    /\ txnTable' = <<>>
    /\ txnState' = state
    /\ process' = "running"
    /\ UNCHANGED <<added, table, state, failures>>

-----------------------------------------------------------------------------
Init ==
    /\ added = <<>>
    /\ rows = <<>>
    /\ batch = [f \in Flushers |-> <<>>]
    /\ stage = [f \in Flushers |-> "idle"]
    /\ txnTable = <<>>
    /\ txnState = [m \in Models |-> 0]
    /\ table = <<>>
    /\ state = [m \in Models |-> 0]
    /\ process = "running"
    /\ failures = 0
    /\ crashes = 0

FlushStep(f) ==
    \/ Capture(f)
    \/ WriteBatch(f)
    \/ WriteFails(f)
    \/ WriteClosed(f)
    \/ Requeue(f)
    \/ Flushed(f)

Next ==
    \/ \E m \in Models : Add(m)
    \/ \E f \in Flushers : FlushStep(f)
    \/ OtherCommit
    \/ BeginStop
    \/ Close
    \/ Crash

Spec == Init /\ [][Next]_vars

\* The loop's sleep ends, threads run and ready tasks are resumed.
Fairness == \A f \in Flushers : WF_vars(FlushStep(f))

FairSpec == Spec /\ Fairness

-----------------------------------------------------------------------------
InFlight == UNION {Range(batch[f]) : f \in Flushers}

\* The buffer, the batches, the open transaction and the tables only ever refer
\* to results that were added.
TypeOK ==
    /\ added \in Seq(Models)
    /\ rows \in Seq(Results)
    /\ batch \in [Flushers -> Seq(Results)]
    /\ stage \in [Flushers -> Stages]
    /\ txnTable \in Seq(Results)
    /\ txnState \in [Models -> 0 .. Len(added)]
    /\ table \in Seq(Results)
    /\ state \in [Models -> 0 .. Len(added)]
    /\ process \in {"running", "stopping", "closed"}
    /\ failures \in 0 .. MaxFailures
    /\ crashes \in 0 .. MaxCrashes

\* Until the process stops or crashes, every result ever added is in the
\* buffer, in a flush or committed, whatever fails and however flushes overlap.
NothingLost ==
    process = "running" /\ crashes = 0 =>
        Results \subseteq Range(rows) \cup InFlight \cup Range(table)

\* While no flush has failed, the committed database never holds results of a
\* model without a model_state row that is at least as new as one of them: a
\* reader between two commits, and a restart after a crash, find both halves of
\* a result or none.
RowsComeWithState ==
    failures = 0 =>
        \A i \in DOMAIN table : state[added[table[i]]] \in Range(table)

\* "flushes them in a single transaction": a result is stored once, even if its
\* flush failed and was repeated.
StoredOnce ==
    \A i, j \in DOMAIN table : table[i] = table[j] => i = j

\* While no flush has failed every result is stored once, whatever flushes
\* overlap, are cancelled or are cut short by a crash.
OverlapsStoreOnce == failures = 0 => StoredOnce

Drained == rows = <<>> /\ InFlight = {}

\* "Only the SQLite persistence is deferred": when nothing is left to flush,
\* model_state is what model_cache became with the last result of the model.
LatestStateStored ==
    Drained /\ process = "running" /\ crashes = 0 =>
        \A m \in Models : \A r \in Results : added[r] = m => r <= state[m]

\* The same while no flush has failed and the buffer has never filled, so that
\* the loop's flushes come one after the other.
LoopStoresLatestState ==
    failures = 0 /\ Len(added) < MaxBuffer => LatestStateStored

\* Rows and states go to the database together, once, and in their order.
StoreIsOrdered == RowsComeWithState /\ OverlapsStoreOnce /\ LoopStoresLatestState

\* stop() flushes what is left: an orderly shutdown in which no write failed
\* loses no result.
OrderlyShutdownKeepsAll ==
    process = "closed" /\ failures = 0 /\ crashes = 0 =>
        Results \subseteq Range(table)

\* Every result becomes durable unless the process ends, because failed
\* flushes are retried.
EventuallyDurable ==
    \A r \in 1 .. MaxResults :
        r \in Results ~> (r \in Range(table) \/ process # "running" \/ crashes > 0)

\* The batcher implements the abstract log of results.
Log == INSTANCE DurableLog WITH
    count   <- Len(added),
    pending <- (Range(rows) \cup InFlight \cup Range(txnTable)) \ Range(table),
    durable <- Range(table),
    up      <- process = "running"

ImplementsLog == Log!LogSpec

=============================================================================
