------------------------------ MODULE Dashboard ------------------------------
(***************************************************************************)
(* The cached responses of the dashboard: /api/metrics, rebuilt under a     *)
(* lock from the entries of the models, and /api/providers, rebuilt without *)
(* one from the registry and the database.  The event loop changes the      *)
(* entries and announces changes by invalidating a page; a rebuild reads    *)
(* them one at a time in a worker thread meanwhile.                         *)
(*                                                                         *)
(* What a page shows of a fact (the entry of a model, the registry, the     *)
(* titles of the providers) is the revision of the fact that was read.      *)
(***************************************************************************)
EXTENDS Integers, Sequences, FiniteSets

CONSTANTS
    Models,
    Registry, Titles,   \* the facts of /api/providers: in memory, in the database
    Requests,           \* the requests of all clients
    None,
    MaxChanges          \* bound: changes of facts in a behaviour

Facts == Models \cup {Registry, Titles}
Pages == {"metrics", "providers"}
Kinds == {"full", "filtered", "providers"}

ASSUME DashboardAssumption ==
    /\ Registry \notin Models /\ Titles \notin Models /\ Registry # Titles
    /\ None \notin Facts
    /\ MaxChanges \in Nat

PageOf(kind)  == IF kind = "providers" THEN "providers" ELSE "metrics"
FactsOf(page) == IF page = "providers" THEN {Registry, Titles} ELSE Models

VARIABLES
    rev,        \* fact -> its revision
    told,       \* page -> the revisions when it was last invalidated
    data,       \* page -> the revisions its cached response shows
    filled,     \* the pages with a cached response
    dirty, version,
    history,    \* model -> the revision of its recent_history
    scores,     \* model -> _scores_version, and the cached scores with their version
    archiving,  \* where apply_auto_archive stands: None, or the model it archives
    pruned,     \* its thread has pruned the history of that model
    fetch,      \* the favicon task: it runs, has stored a title, or does neither
    queue,      \* _metrics_rebuild_lock: its holder and those who wait for it
    req,
    changes

facts  == <<rev, history, scores>>
cache  == <<data, filled, dirty, version>>
tasks  == <<archiving, pruned, fetch>>
vars   == <<facts, told, cache, tasks, queue, req, changes>>

NoRead == [f \in Facts |-> 0]
NoCalc == [model |-> None, history |-> 0]
NotYet == [pc |-> "idle", kind |-> "full", floor |-> NoRead, start |-> 0, todo |-> {},
           got |-> NoRead, calc |-> NoCalc]

Init ==
    /\ rev = NoRead
    /\ told = [p \in Pages |-> NoRead]
    /\ data = [p \in Pages |-> NoRead]
    /\ filled = {}
    /\ dirty = [p \in Pages |-> TRUE]
    /\ version = [p \in Pages |-> 0]
    /\ history = [m \in Models |-> 0]
    /\ scores = [m \in Models |-> [version |-> 0, cached |-> FALSE, of |-> 0, at |-> -1]]
    /\ archiving = None
    /\ pruned = FALSE
    /\ fetch = "idle"
    /\ queue = <<>>
    /\ req = [r \in Requests |-> NotYet]
    /\ changes = 0

----------------------------------------------------------------------------
(* Changes of the facts.                                                   *)

Changed(fs) ==
    /\ changes < MaxChanges
    /\ changes' = changes + 1
    /\ rev' = [f \in Facts |-> IF f \in fs THEN rev[f] + 1 ELSE rev[f]]

\* The revisions of the facts a page is about.
Restricted(page, r) == [f \in Facts |-> IF f \in FactsOf(page) THEN r[f] ELSE 0]

\* invalidate_metrics_cache and invalidate_providers_cache.
Invalidate(ps) ==
    /\ dirty' = [p \in Pages |-> p \in ps \/ dirty[p]]
    /\ version' = [p \in Pages |-> IF p \in ps THEN version[p] + 1 ELSE version[p]]
    /\ told' = [p \in Pages |-> IF p \in ps THEN Restricted(p, rev') ELSE told[p]]
    /\ UNCHANGED <<data, filled>>

Quiet == UNCHANGED <<told, cache>>

\* _append_history: the list, the version of the scores, and no cached scores.
NewHistory(ms) ==
    /\ history' = [m \in Models |-> IF m \in ms THEN history[m] + 1 ELSE history[m]]
    /\ scores' = [m \in Models |-> IF m \in ms
                     THEN [scores[m] EXCEPT !.version = @ + 1, !.cached = FALSE] ELSE scores[m]]

\* record_result_async or record_retry_async, up to where it awaits the database.
Recorded(m) ==
    /\ Changed({m})
    /\ NewHistory({m})
    /\ Invalidate({"metrics"})
    /\ UNCHANGED <<tasks, queue, req>>

\* A test, an audit or a probe begins or ends: a flag or a result in the entry.
Flagged(m) ==
    /\ Changed({m})
    /\ Invalidate({"metrics"})
    /\ UNCHANGED <<history, scores, tasks, queue, req>>

\* reload_config, with a new history window or not.
Reloaded(window) ==
    /\ Changed(Models \cup {Registry})
    /\ NewHistory(IF window THEN Models ELSE {})
    /\ Invalidate(Pages)
    /\ UNCHANGED <<tasks, queue, req>>

\* apply_db_changes has read the archived models back from the database.
ArchiveRead ==
    /\ Changed(Models \cup {Registry})
    /\ Invalidate(Pages)
    /\ UNCHANGED <<history, scores, tasks, queue, req>>

\* apply_auto_archive marks a model, waits for two threads, and announces it.
ArchiveBegins(m) ==
    /\ archiving = None
    /\ Changed({m, Registry})
    /\ Quiet
    /\ archiving' = m
    /\ pruned' = FALSE
    /\ UNCHANGED <<history, scores, fetch, queue, req>>

\* prune_trailing_failures changes the entry in its thread, unannounced.
ArchivePruned ==
    /\ archiving # None /\ ~pruned
    /\ Changed({archiving})
    /\ NewHistory({archiving})
    /\ Quiet
    /\ pruned' = TRUE
    /\ UNCHANGED <<archiving, fetch, queue, req>>

ArchiveEnds ==
    /\ archiving # None
    /\ archiving' = None
    /\ pruned' = FALSE
    /\ UNCHANGED <<rev, changes>>
    /\ Invalidate(Pages)
    /\ UNCHANGED <<history, scores, fetch, queue, req>>

\* A thread of the favicon task stores a title; the task announces it afterwards,
\* unless start_favicon_fetch cancels the task in between.
TitleStored ==
    /\ fetch = "idle"
    /\ Changed({Titles})
    /\ Quiet
    /\ fetch' = "stored"
    /\ UNCHANGED <<history, scores, archiving, pruned, queue, req>>

TitleAnnounced ==
    /\ fetch = "stored"
    /\ fetch' = "idle"
    /\ UNCHANGED <<rev, changes>>
    /\ Invalidate({"providers"})
    /\ UNCHANGED <<history, scores, archiving, pruned, queue, req>>

FetchCancelled ==
    /\ fetch = "stored"
    /\ fetch' = "idle"
    /\ Quiet
    /\ UNCHANGED <<facts, archiving, pruned, queue, req, changes>>

----------------------------------------------------------------------------
(* Requests.                                                               *)

Fresh(page) == page \in filled /\ ~dirty[page]

Answered(r, got) ==
    [NotYet EXCEPT !.pc = "done", !.kind = req[r].kind, !.floor = req[r].floor, !.got = got]

Building(r, kind, floor) ==
    [NotYet EXCEPT !.pc = "building", !.kind = kind, !.floor = floor,
                   !.start = version[PageOf(kind)], !.todo = FactsOf(PageOf(kind))]

\* get_metrics or list_providers is called: a fresh page is the answer, also of a
\* filtered request; otherwise a full request goes for the lock.
Arrive(r, kind) ==
    LET page == PageOf(kind)
        here == [NotYet EXCEPT !.kind = kind, !.floor = told[page]]
    IN  /\ req[r].pc = "idle"
        /\ \/ /\ Fresh(page)
              /\ req' = [req EXCEPT ![r] = [here EXCEPT !.pc = "done", !.got = data[page]]]
              /\ UNCHANGED queue
           \/ /\ ~Fresh(page)
              /\ kind = "full"
              /\ req' = [req EXCEPT ![r] = [here EXCEPT !.pc = "waiting"]]
              /\ queue' = Append(queue, r)
           \/ /\ ~Fresh(page)
              /\ kind # "full"
              /\ req' = [req EXCEPT ![r] = Building(r, kind, told[page])]
              /\ UNCHANGED queue
        /\ UNCHANGED <<facts, told, cache, tasks, changes>>

\* Mutant of StillStale: whoever gets the lock takes what the holder before it left.
StillStaleIfEmpty == "metrics" \notin filled

\* The second look at the cache, by the request that now holds the lock.
StillStale == ~Fresh("metrics")

\* Mutant of HasLock: no lock; every request that finds the page stale rebuilds it.
HasLockAlways(r) == \E i \in DOMAIN queue : queue[i] = r

\* _metrics_rebuild_lock is held by the one that asked for it first.
HasLock(r) == queue # <<>> /\ r = Head(queue)

Acquire(r) ==
    /\ req[r].pc = "waiting" /\ HasLock(r)
    /\ \/ /\ StillStale
          /\ req' = [req EXCEPT ![r] = Building(r, "full", req[r].floor)]
          /\ UNCHANGED queue
       \/ /\ ~StillStale
          /\ req' = [req EXCEPT ![r] = Answered(r, data["metrics"])]
          /\ queue' = Tail(queue)
    /\ UNCHANGED <<facts, told, cache, tasks, changes>>

\* cached_range_scores finds scores of this version.
CacheHit(m) == scores[m].cached /\ scores[m].at = scores[m].version

\* The order in which a thread reads: that of the dictionary.
NextFact(todo) == CHOOSE f \in todo : TRUE

\* What the request is when it has read f.
WithFact(r, f) == [req[r] EXCEPT !.todo = req[r].todo \ {f},
                                 !.got = [req[r].got EXCEPT ![f] = rev[f]], !.calc = NoCalc]

\* The thread of r reads one fact; of a model, the entry with its cached scores.
Read(r, f) ==
    /\ req[r].pc = "building" /\ req[r].todo # {} /\ req[r].calc = NoCalc
    /\ f = NextFact(req[r].todo)
    /\ f \in Models => CacheHit(f)
    /\ req' = [req EXCEPT ![r] = WithFact(r, f)]
    /\ UNCHANGED <<facts, told, cache, tasks, queue, changes>>

\* It finds none: it takes the history and computes,
Compute(r, m) ==
    /\ req[r].pc = "building" /\ req[r].todo # {} /\ req[r].calc = NoCalc
    /\ m = NextFact(req[r].todo) /\ ~CacheHit(m)
    /\ req' = [req EXCEPT ![r] = [req[r] EXCEPT !.calc = [model |-> m, history |-> history[m]]]]
    /\ UNCHANGED <<facts, told, cache, tasks, queue, changes>>

\* and keeps the scores under the version the entry has by then.
Computed(r) ==
    LET m == req[r].calc.model IN
    /\ req[r].pc = "building" /\ req[r].calc # NoCalc
    /\ scores' = [scores EXCEPT ![m] = [@ EXCEPT !.cached = TRUE, !.of = req[r].calc.history,
                                                 !.at = scores[m].version]]
    /\ req' = [req EXCEPT ![r] = WithFact(r, m)]
    /\ UNCHANGED <<rev, history, told, cache, tasks, queue, changes>>

\* Mutant of DirtyAfter: a finished rebuild makes its page fresh.
DirtyAfterNever(r, page) == FALSE

\* What a rebuild leaves in dirty: was the page invalidated since it began?
DirtyAfter(r, page) == version[page] # req[r].start

\* Mutant of Release: the lock stays with a request whose rebuild raised.
ReleaseOnSuccess(r) ==
    queue' = IF req[r].kind = "full" /\ req'[r].pc = "done" THEN Tail(queue) ELSE queue

\* Leaving `async with _metrics_rebuild_lock`, whichever way; only a full request
\* is in it.
Release(r) == queue' = IF req[r].kind = "full" THEN Tail(queue) ELSE queue

\* The handler resumes with the finished response; a filtered one is not cached.
Built(r) ==
    LET page == PageOf(req[r].kind) IN
    /\ req[r].pc = "building" /\ req[r].todo = {}
    /\ IF req[r].kind = "filtered" THEN UNCHANGED <<data, filled, dirty>>
       ELSE /\ data' = [data EXCEPT ![page] = req[r].got]
            /\ filled' = filled \cup {page}
            /\ dirty' = [dirty EXCEPT ![page] = DirtyAfter(r, page)]
    /\ req' = [req EXCEPT ![r] = Answered(r, req[r].got)]
    /\ Release(r)
    /\ UNCHANGED <<facts, told, version, tasks, changes>>

\* The thread raises: the request fails, and the page stays as it was.
BuildFails(r) ==
    /\ req[r].pc = "building" /\ req[r].todo # {}
    /\ req' = [req EXCEPT ![r] = [NotYet EXCEPT !.pc = "failed"]]
    /\ Release(r)
    /\ UNCHANGED <<facts, told, cache, tasks, changes>>

Next ==
    \/ \E m \in Models : Recorded(m) \/ Flagged(m) \/ ArchiveBegins(m)
    \/ \E window \in BOOLEAN : Reloaded(window)
    \/ ArchiveRead \/ ArchivePruned \/ ArchiveEnds
    \/ TitleStored \/ TitleAnnounced \/ FetchCancelled
    \/ \E r \in Requests, kind \in Kinds : Arrive(r, kind)
    \/ \E r \in Requests : Acquire(r) \/ Computed(r) \/ Built(r) \/ BuildFails(r)
    \/ \E r \in Requests, f \in Facts : Read(r, f)
    \/ \E r \in Requests, m \in Models : Compute(r, m)

Spec == Init /\ [][Next]_vars

----------------------------------------------------------------------------
(* Properties.                                                             *)

RequestType ==
    [pc : {"idle", "waiting", "building", "done", "failed"}, kind : Kinds,
     floor : [Facts -> Nat], start : Nat, todo : SUBSET Facts,
     got : [Facts -> Nat], calc : [model : Models, history : Nat] \cup {NoCalc}]

\* Every variable holds a value of its kind.
TypeOK ==
    /\ rev \in [Facts -> Nat]
    /\ told \in [Pages -> [Facts -> Nat]] /\ data \in [Pages -> [Facts -> Nat]]
    /\ filled \subseteq Pages /\ dirty \in [Pages -> BOOLEAN] /\ version \in [Pages -> Nat]
    /\ history \in [Models -> Nat]
    /\ scores \in [Models -> [version : Nat, cached : BOOLEAN, of : Nat, at : Nat \cup {-1}]]
    /\ archiving \in Models \cup {None} /\ pruned \in BOOLEAN /\ fetch \in {"idle", "stored"}
    /\ queue \in Seq(Requests)
    /\ req \in [Requests -> RequestType]
    /\ changes \in 0 .. MaxChanges

\* A page that is not dirty shows every change announced so far, although rebuilds
\* run in threads while changes are made (get_metrics, list_providers).
CleanIsCurrent ==
    \A p \in Pages : Fresh(p) => \A f \in FactsOf(p) : data[p][f] >= told[p][f]

\* An answer shows every change announced before its request arrived, whether it
\* came from the cache, from a rebuild it waited for, or from one of its own.
AnswersAreFresh ==
    \A r \in Requests : req[r].pc = "done" =>
        \A f \in FactsOf(PageOf(req[r].kind)) : req[r].got[f] >= req[r].floor[f]

\* The lock keeps the metrics from going back: no cached response is replaced by
\* one that read some entry earlier.
MetricsMoveForward == [][\A m \in Models : data["metrics"][m] <= data'["metrics"][m]]_data

\* The same of the providers, which are rebuilt without a lock.
ProvidersMoveForward ==
    [][\A f \in {Registry, Titles} : data["providers"][f] <= data'["providers"][f]]_data

\* Cached scores with the version of the entry are those of its history
\* (cached_range_scores).
ScoresAreCurrent == \A m \in Models : CacheHit(m) => scores[m].of = history[m]

\* A stored title is on the page, or the page is dirty, or its task will say so.
TitlesAreShown ==
    Fresh("providers") /\ fetch = "idle" => data["providers"][Titles] = rev[Titles]

\* The lock is never left behind: who waits for it is queued once, and the first in
\* the queue waits or rebuilds, also after rebuilds that failed.
LockMovesOn ==
    /\ \A i \in DOMAIN queue :
          /\ req[queue[i]].kind = "full"
          /\ req[queue[i]].pc \in IF i = 1 THEN {"waiting", "building"} ELSE {"waiting"}
          /\ \A j \in DOMAIN queue : queue[i] = queue[j] => i = j
    /\ \A r \in Requests : (req[r].kind = "full" /\ req[r].pc \in {"waiting", "building"})
                              => \E i \in DOMAIN queue : queue[i] = r
=============================================================================
