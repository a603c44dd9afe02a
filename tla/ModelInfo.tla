------------------------------ MODULE ModelInfo ------------------------------
(***************************************************************************)
(* What is known of the models: facts (a description, a license, the        *)
(* quantization, capabilities) collected from the APIs of the providers,    *)
(* from the model hub and from probes, kept in memory (model_info_cache)    *)
(* and in the table model_info.  The fetch of everything, the fetch for     *)
(* models a reload added and a probe run as tasks of one event loop; each   *)
(* writes to the database in a worker thread and to memory when it resumes. *)
(*                                                                         *)
(* An info is a function from the fields it knows to their values.          *)
(***************************************************************************)
EXTENDS Integers, Sequences, FiniteSets

CONSTANTS
    Order,          \* the models models.yaml may list, in its order
    Provider,       \* model -> its provider
    Base,           \* model -> the hub key of its full name
    Fallbacks,      \* model -> the hub keys of its shortened names, longest first
    Yaml,           \* model -> the info models.yaml gives of it
    Catalogs,       \* provider -> what its endpoints may answer
    HubInfos,       \* base -> what the hub may answer of it
    ProbeInfos,     \* model -> what a probe may find out
    HubFields, SharedFields, BoolFields,
    Length,         \* description -> how long it is
    Placeholders,   \* the descriptions that only link to a page
    Reloads,        \* the registries a reload may bring
    MaxEvents       \* bound: reloads, probes and restarts of a behaviour

Models    == {Order[i] : i \in 1..Len(Order)}
Providers == {Provider[m] : m \in Models}
Bases     == {Base[m] : m \in Models}
Nothing   == << >>

ASSUME ModelInfoAssumption ==
    /\ Len(Order) \in Nat
    /\ \A i, j \in 1..Len(Order) : Order[i] = Order[j] => i = j
    /\ \A i \in 1..Len(Order) : Len(Fallbacks[Order[i]]) \in Nat
    /\ \A i \in 1..Len(Order) : \A c \in Catalogs[Provider[Order[i]]] : Len(c.lists) \in Nat
    /\ Reloads \subseteq SUBSET Models
    /\ MaxEvents \in Nat

VARIABLES
    registry,   \* the models that are configured
    db,         \* model -> its row in model_info
    mem,        \* model -> its info in model_info_cache
    task,       \* where each task stands
    orphan,     \* the write a worker thread still makes for a cancelled task
    hub,        \* _hf_canonical_cache: base -> what the hub answered of it
    reload,     \* where apply_db_changes stands, and the models it found added
    dropped,    \* the models removed since the process started
    quiet,      \* nobody but the full fetch has changed a description since it shares them
    events

vars == <<registry, db, mem, task, orphan, hub, reload, dropped, quiet, events>>

Tasks == {"all", "new", "probe"}
NoWrite == [model |-> "none", info |-> Nothing, over |-> FALSE]
NoBest  == [base |-> "none", model |-> "none", text |-> "none"]
Off == [at |-> "off", entries |-> {}, done |-> 0, got |-> [m \in Models |-> Nothing],
        live |-> {}, best |-> NoBest, write |-> NoWrite, stored |-> FALSE]
NoReload == [pc |-> "off", added |-> {}]

Fetching == [Off EXCEPT !.at = "ask"]

(***************************************************************************)
(* Infos.                                                                   *)
(***************************************************************************)
Knows(info, f) == f \in DOMAIN info
Only(info, F)  == [f \in DOMAIN info \cap F |-> info[f]]
Above(a, b)    == [f \in DOMAIN a \cup DOMAIN b |-> IF Knows(a, f) THEN a[f] ELSE b[f]]

\* db.update_model_info: the values of an overwriting info replace the stored
\* ones; those of another fill the columns that are NULL, or a capability
\* that is stored as absent.
\* Mutant of UpdateRow: every info is written as that of a provider.
UpdateRowAlways(row, info, over) == Above(info, row)
UpdateRow(row, info, over) ==
    IF over THEN Above(info, row)
    ELSE Above(Only(info, {f \in BoolFields : Knows(row, f) /\ row[f] = "no"}), Above(row, info))

\* db.batch_sync_registry: the values of models.yaml replace the stored ones.
SyncRow(row, yaml) == Above(yaml, row)

\* _info_changed
InfoChanged(info, cached) == \E f \in DOMAIN info : ~Knows(cached, f) \/ info[f] # cached[f]

(***************************************************************************)
(* fetch_provider_models.  A catalog holds what the endpoints of a provider *)
(* answer: its lists in the order they are tried (an endpoint that fails    *)
(* lists nothing), the details it gives of listed models (model_info_url,   *)
(* /api/show), /models/{id} of any model, and the list at the api_url of a  *)
(* model.                                                                   *)
(***************************************************************************)
ListedBy(catalog, m) == {i \in 1..Len(catalog.lists) : m \in DOMAIN catalog.lists[i]}

FromLists(catalog, m) ==
    LET by == ListedBy(catalog, m)
    IN  IF by = {} THEN Nothing
        ELSE catalog.lists[CHOOSE i \in by : \A j \in by : i <= j][m]

Answer(answers, m) == IF m \in DOMAIN answers THEN answers[m] ELSE Nothing

ProviderInfo(catalog, m) ==
    LET detail == IF ListedBy(catalog, m) = {} THEN Nothing ELSE Answer(catalog.details, m)
        info   == Above(FromLists(catalog, m), Above(detail, Answer(catalog.single, m)))
    IN  IF info = Nothing THEN Answer(catalog.own, m) ELSE info

(***************************************************************************)
(* The loops of a fetch.  Each goes through the entries in order, skips     *)
(* those with nothing to write and awaits the write of the others; a loop   *)
(* and its successor run without an await in between.                       *)
(***************************************************************************)
Position(m) == CHOOSE i \in 1..Len(Order) : Order[i] = m

InOrder(M) == CHOOSE m \in M : \A n \in M : Position(m) <= Position(n)

Describes(info) == Knows(info, "description")

\* The member of a group with the longest description, the first of equals.
Longest(group, known) ==
    LET described == {m \in group : Describes(known[m])}
        size(m)   == Length[known[m]["description"]]
        best      == {m \in described : \A n \in described : size(n) <= size(m)}
    IN  IF described = {} THEN NoBest
        ELSE LET m == InOrder(best)
             IN  [base |-> Base[m], model |-> m, text |-> known[m]["description"]]

\* The rest of the facts of a source that a model without them may borrow; a
\* description replaces a shorter placeholder too.
\* Mutant of Borrowed: it goes to models with a placeholder only.
BorrowedOver(source, text, info) ==
    [f \in {f \in DOMAIN source \cap SharedFields :
              IF f = "description"
              THEN Describes(info) /\ info[f] \in Placeholders /\ Length[text] > Length[info[f]]
              ELSE ~Knows(info, f)} |-> source[f]]
Borrowed(source, text, info) ==
    [f \in {f \in DOMAIN source \cap SharedFields :
              \/ ~Knows(info, f)
              \/ /\ f = "description"
                 /\ info[f] \in Placeholders
                 /\ Length[text] > Length[info[f]]} |-> source[f]]

\* The write loop of fetch_all_model_info and of fetch_model_info_for_keys.
ToWrite(t, k, m, known) ==
    IF t = "all" /\ known[m] # Nothing /\ ~InfoChanged(k.got[m], known[m])
    THEN Nothing ELSE k.got[m]

\* _enrich_hf: what was cached of the model when the hub was asked is the live
\* entry, or an empty one that nobody fills when there was no entry.
ToFill(k, m, known) ==
    LET cached == IF m \in k.live THEN known[m] ELSE Nothing
    IN  Only(k.got[m], HubFields \ DOMAIN cached)

\* _share_hf_descriptions, first loop: the source of a group is chosen when
\* the loop reaches the group.
Source(k, base, known) ==
    IF k.at = "share" /\ k.best.base = base THEN k.best
    ELSE Longest({m \in k.entries : Base[m] = base}, known)

ToShare(k, m, known) ==
    LET best == Source(k, Base[m], known)
    IN  IF best.model \in {"none", m} THEN Nothing
        ELSE Borrowed(known[best.model], best.text, known[m])

\* Second loop: the first shortened name whose group has something to lend.
ToBorrow(k, m, known) ==
    LET loan(i) == LET best == Longest({n \in k.entries : Base[n] = Fallbacks[m][i]}, known)
                   IN  IF best = NoBest THEN Nothing
                       ELSE Borrowed(known[best.model], best.text, known[m])
        lenders == {i \in 1..Len(Fallbacks[m]) : loan(i) # Nothing}
    IN  IF lenders = {} THEN Nothing
        ELSE loan(CHOOSE i \in lenders : \A j \in lenders : i <= j)

Put(t, k, loop, m, known) ==
    CASE loop = "write"  -> ToWrite(t, k, m, known)
      [] loop = "fill"   -> ToFill(k, m, known)
      [] loop = "share"  -> ToShare(k, m, known)
      [] loop = "borrow" -> ToBorrow(k, m, known)

\* The order of a loop: sharing goes group by group.
Turn(loop, m) ==
    IF loop = "share"
    THEN Len(Order) * Position(InOrder({n \in Models : Base[n] = Base[m]})) + Position(m)
    ELSE Position(m)

\* The full fetch goes through the registry itself; the groups of the models
\* are those of the registry when it begins to share.
Grouped(t, k) ==
    IF k.at # "fill" THEN k
    ELSE [Off EXCEPT !.at = "fill", !.entries = IF t = "all" THEN registry ELSE k.entries]

\* The models task k still writes for in a loop, when `done` turns are over.
Pending(t, k, loop, done, known) ==
    {m \in IF t = "all" /\ loop \in {"write", "borrow"} THEN registry ELSE k.entries :
        Turn(loop, m) > done /\ Put(t, k, loop, m, known) # Nothing}

\* A fetch that is done with the providers asks the hub; it has looked up what
\* is cached of each entry when it does.
AskHub(t, k, known) ==
    LET entries == IF t = "all" THEN registry ELSE k.entries
    IN  [Off EXCEPT !.at = "hub", !.entries = entries,
                    !.live = {m \in entries : known[m] # Nothing}]

Rest == [write |-> <<"write">>, fill |-> <<"fill", "share", "borrow">>,
         share |-> <<"share", "borrow">>, borrow |-> <<"borrow">>]

\* Task k of a fetch after an await, when memory is `known`: its next write, in
\* this loop or a later one, or the question to the hub, or its end.
Proceed(t, k, known) ==
    LET loops   == Rest[k.at]
        as(i)   == IF loops[i] = "fill" THEN k ELSE Grouped(t, k)
        left(i) == Pending(t, as(i), loops[i], IF i = 1 THEN k.done ELSE 0, known)
        open    == {i \in 1..Len(loops) : left(i) # {}}
    IN  IF open = {} THEN IF k.at = "write" THEN AskHub(t, k, known) ELSE Off
        ELSE LET i    == CHOOSE i \in open : \A j \in open : i <= j
                 loop == loops[i]
                 m    == CHOOSE m \in left(i) : \A n \in left(i) : Turn(loop, m) <= Turn(loop, n)
             IN  [as(i) EXCEPT !.at = loop, !.done = Turn(loop, m),
                           !.best = IF loop = "share" THEN Source(as(i), Base[m], known) ELSE NoBest,
                           !.write = [model |-> m, info |-> Put(t, as(i), loop, m, known),
                                      over |-> loop = "write"],
                           !.stored = FALSE]

(***************************************************************************)
(* The steps of the tasks.                                                  *)
(***************************************************************************)
Event == events < MaxEvents /\ events' = events + 1

Become(t, k) == task' = [task EXCEPT ![t] = k]

\* fetch_model_info_for_keys: the models nothing is cached of but capabilities.
Unknown(M) == {m \in M : DOMAIN mem[m] \subseteq BoolFields}

StartNew(added) ==
    LET k == [Off EXCEPT !.entries = added, !.live = Unknown(added)]
    IN  Become("new", IF k.live = {} THEN AskHub("new", k, mem) ELSE [k EXCEPT !.at = "ask"])

\* start_model_info_fetch: a fetch that still runs is cancelled; the thread
\* that writes for it is not, unless it has not begun.
StartAll ==
    LET k == task["all"]
    IN  /\ Become("all", Fetching)
        /\ IF k.write = NoWrite \/ k.stored THEN orphan' = orphan
           ELSE orphan' \in {orphan, orphan \cup {k.write}}

\* The answers of the providers, of which any may fail.
Answers(t) ==
    LET k     == task[t]
        asked == IF t = "all" THEN registry ELSE k.live
    IN  /\ k.at = "ask"
        /\ \E catalog \in [Providers -> UNION {Catalogs[p] : p \in Providers}] :
              /\ \A p \in Providers : catalog[p] \in Catalogs[p]
              /\ \E got \in {[m \in Models |->
                     IF m \in asked THEN ProviderInfo(catalog[Provider[m]], m) ELSE Nothing]} :
                 Become(t, Proceed(t, [k EXCEPT !.at = "write", !.got = got], mem))
        /\ UNCHANGED <<registry, db, mem, orphan, hub, reload, dropped, quiet, events>>

\* _fetch_hf_for_model of every entry: the hub is asked for the bases of the
\* models that lack a fact, and its answers are kept.
HubAnswers(t) ==
    LET k     == task[t]
        needs == {m \in k.entries :
                    HubFields \ DOMAIN (IF m \in k.live THEN mem[m] ELSE Nothing) # {}}
        asked == {Base[m] : m \in needs}
    IN  /\ k.at = "hub"
        /\ \E answer \in [Bases -> UNION {HubInfos[b] \cup {hub[b]} : b \in Bases}] :
              /\ \A b \in Bases :
                    IF b \notin asked \/ hub[b] # Nothing THEN answer[b] = hub[b] ELSE answer[b] \in HubInfos[b]
              /\ hub' = answer
              /\ \E got \in {[m \in Models |-> IF m \in needs THEN answer[Base[m]] ELSE Nothing]} :
                 Become(t, Proceed(t, [k EXCEPT !.at = "fill", !.got = got], mem))
        /\ quiet' = IF t = "all" THEN TRUE ELSE quiet
        /\ UNCHANGED <<registry, db, mem, orphan, reload, dropped, events>>

\* A worker thread commits the write of a task.
Commit(t) ==
    LET w == task[t].write
    IN  /\ w # NoWrite
        /\ ~task[t].stored
        /\ db' = [db EXCEPT ![w.model] = UpdateRow(@, w.info, w.over)]
        /\ task' = [task EXCEPT ![t].stored = TRUE]
        /\ UNCHANGED <<registry, mem, orphan, hub, reload, dropped, quiet, events>>

\* The task resumes: memory is updated, and the loop goes on.
Resume(t) ==
    LET k == task[t]
        w == k.write
    IN  /\ k.stored
        /\ \E known \in {[mem EXCEPT ![w.model] = Above(w.info, @)]} :
              /\ mem' = known
              /\ Become(t, IF t = "probe" THEN Off
                           ELSE Proceed(t, [k EXCEPT !.write = NoWrite, !.stored = FALSE], known))
        /\ quiet' = (quiet /\ (t # "all" => ~Describes(w.info)))
        /\ UNCHANGED <<registry, db, orphan, hub, reload, dropped, events>>

\* _run_probe_managed: what a probe found out goes where the fetches write.
\* Mutant of Probed: memory is updated before the database.
ProbedEarly(m, info) ==
    /\ task["probe"].at = "off"
    /\ Event
    /\ mem' = [mem EXCEPT ![m] = Above(info, @)]
    /\ Become("probe", [Off EXCEPT !.at = "probe",
                                   !.write = [model |-> m, info |-> info, over |-> TRUE]])
    /\ UNCHANGED <<registry, db, orphan, hub, reload, dropped, quiet>>
Probed(m, info) ==
    /\ task["probe"].at = "off"
    /\ Event
    /\ Become("probe", [Off EXCEPT !.at = "probe",
                                   !.write = [model |-> m, info |-> info, over |-> TRUE]])
    /\ UNCHANGED <<registry, db, mem, orphan, hub, reload, dropped, quiet>>

OrphanCommits(w) ==
    /\ orphan' = orphan \ {w}
    /\ db' = [db EXCEPT ![w.model] = UpdateRow(@, w.info, w.over)]
    /\ UNCHANGED <<registry, mem, task, hub, reload, dropped, quiet, events>>

(***************************************************************************)
(* Reload (the config watcher) and restart.                                 *)
(***************************************************************************)
ReloadBegins(models) ==
    /\ reload = NoReload
    /\ Event
    /\ registry' = models
    /\ dropped' = dropped \cup (registry \ models)
    /\ hub' = IF models = registry THEN hub ELSE [b \in Bases |-> Nothing]
    /\ reload' = [pc |-> "purge", added |-> models \ registry]
    /\ quiet' = FALSE
    /\ UNCHANGED <<db, mem, task, orphan>>

\* db.delete_removed_entries
Purged(rows) == [m \in Models |-> IF m \in registry THEN rows[m] ELSE Nothing]

\* db.batch_sync_registry
Synced(rows) == [m \in Models |-> IF m \in registry THEN SyncRow(rows[m], Yaml[m]) ELSE rows[m]]

ReloadPurges ==
    /\ reload.pc = "purge"
    /\ db' = Purged(db)
    /\ reload' = [reload EXCEPT !.pc = "sync"]
    /\ UNCHANGED <<registry, mem, task, orphan, hub, dropped, quiet, events>>

ReloadSyncs ==
    /\ reload.pc = "sync"
    /\ db' = Synced(db)
    /\ reload' = [reload EXCEPT !.pc = "new"]
    /\ UNCHANGED <<registry, mem, task, orphan, hub, dropped, quiet, events>>

\* Bound: one fetch for added models at a time.
ReloadFetchesNew ==
    /\ reload.pc = "new"
    /\ IF reload.added = {} THEN UNCHANGED task
       ELSE task["new"].at = "off" /\ StartNew(reload.added)
    /\ reload' = [reload EXCEPT !.pc = "all"]
    /\ UNCHANGED <<registry, db, mem, orphan, hub, dropped, quiet, events>>

ReloadFetchesAll ==
    /\ reload.pc = "all"
    /\ StartAll
    /\ reload' = NoReload
    /\ UNCHANGED <<registry, db, mem, hub, dropped, quiet, events>>

Started == [all |-> Fetching, new |-> Off, probe |-> Off]

\* The process ends anywhere; startup purges and syncs, loads, and fetches.
Restart ==
    /\ Event
    /\ db' = Synced(Purged(db))
    /\ mem' = Synced(Purged(db))
    /\ task' = Started
    /\ orphan' = {}
    /\ hub' = [b \in Bases |-> Nothing]
    /\ reload' = NoReload
    /\ dropped' = {}
    /\ quiet' = FALSE
    /\ UNCHANGED registry

Init ==
    /\ registry \in Reloads
    /\ db = Synced([m \in Models |-> Nothing])
    /\ mem = db
    /\ task = Started
    /\ orphan = {}
    /\ hub = [b \in Bases |-> Nothing]
    /\ reload = NoReload
    /\ dropped = {}
    /\ quiet = FALSE
    /\ events = 0

FetchStep(t) == Answers(t) \/ HubAnswers(t) \/ Commit(t) \/ Resume(t)
ReloadStep   == ReloadPurges \/ ReloadSyncs \/ ReloadFetchesNew \/ ReloadFetchesAll

Next ==
    \/ \E t \in Tasks : FetchStep(t)
    \/ \E m \in registry : \E info \in ProbeInfos[m] : Probed(m, info)
    \/ \E w \in orphan : OrphanCommits(w)
    \/ \E models \in Reloads : ReloadBegins(models)
    \/ ReloadStep
    \/ Restart

Spec == Init /\ [][Next]_vars

-----------------------------------------------------------------------------
(***************************************************************************)
(* Properties.                                                              *)
(***************************************************************************)
\* What is shown of a model is stored: whatever memory knows of a model that
\* was not removed since the process started, the row of the model knows too,
\* so that no crash, and no cancelled fetch, makes a fact disappear.
NothingShownIsLost ==
    \A m \in Models \ dropped : DOMAIN mem[m] \subseteq DOMAIN db[m]

\* What models.yaml, the provider of a model and its probes say of it.
OwnInfos(m) ==
    {Yaml[m]} \cup ProbeInfos[m]
    \cup UNION {{Answer(a, m) : a \in {c.details, c.single, c.own} \cup {c.lists[i] : i \in 1..Len(c.lists)}} :
                c \in Catalogs[Provider[m]]}
OwnValues(m, f) == {info[f] : info \in {i \in OwnInfos(m) : Knows(i, f)}}

\* update_model_info, "overwrite=False: only fills NULL columns (HuggingFace -
\* supplementary)": a stored value is only replaced by what models.yaml, the
\* provider or a probe says of that model, never by what the hub says or by what was
\* borrowed from another model, whichever tasks write meanwhile.
StoredFactsStand ==
    [][\A m \in Models : \A f \in DOMAIN db[m] \cap DOMAIN db'[m] :
          db'[m][f] # db[m][f] =>
              \/ db'[m][f] \in OwnValues(m, f)
              \/ f \in BoolFields /\ db[m][f] = "no"]_vars

\* _share_hf_descriptions: when a full fetch ends that nobody interfered with,
\* no model is without a description while one of its group, or of the group
\* of a shortened name, has one; and none keeps a placeholder shorter than the
\* description of another of its group.
Lenders(m) == {n \in registry : Base[n] = Base[m] \/ \E i \in 1..Len(Fallbacks[m]) : Fallbacks[m][i] = Base[n]}
DescriptionsAreShared ==
    \A m \in registry : \A n \in Lenders(m) : Describes(mem[n]) =>
        /\ Describes(mem[m])
        /\ Base[n] = Base[m] /\ mem[m]["description"] \in Placeholders
              => Length[mem[m]["description"]] >= Length[mem[n]["description"]]
FetchShares ==
    [][task["all"].at # "off" /\ task'["all"].at = "off" /\ quiet => DescriptionsAreShared']_vars

\* The first requirement, for removed models too: a model that a reload
\* removes and another adds again has an entry in memory, so that neither
\* fetch writes its facts to the new row.
Settled == reload = NoReload /\ \A t \in Tasks : task[t].at = "off"
StoredAlways == Settled => \A m \in registry : DOMAIN mem[m] \subseteq DOMAIN db[m]

\* batch_sync_registry, "these take precedence over API-fetched values".
YamlStands ==
    reload = NoReload => \A m \in registry : Only(mem[m], DOMAIN Yaml[m]) = Yaml[m]

HubValues(f) == {h[f] : h \in {h \in UNION {HubInfos[b] : b \in Bases} : Knows(h, f)}}

\* _enrich_hf, "filling only missing fields": neither does memory replace a
\* value by what the hub says.
ShownFactsStand ==
    [][\A m \in Models : \A f \in DOMAIN mem[m] \cap DOMAIN mem'[m] \cap HubFields :
          mem'[m][f] # mem[m][f] /\ f # "description" => mem'[m][f] \notin HubValues(f)]_vars
=============================================================================
