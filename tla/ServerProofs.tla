----------------------------- MODULE ServerProofs -----------------------------
(***************************************************************************)
(* Proofs about what browsers get from the server: Dashboard, its cached   *)
(* pages, and Connections, its WebSockets, for any number of models,       *)
(* requests, changes, clients, broadcasts, limits and reloads.             *)
(*                                                                         *)
(* A clean page shows every announced change, an answer every change that  *)
(* was announced before its request, and rebuilds under the lock never     *)
(* take the metrics back.  Nothing is left of a connection whose handler   *)
(* has ended, nobody who stays listed misses a broadcast, and the limit is *)
(* kept.                                                                   *)
(***************************************************************************)
EXTENDS Dashboard, Connections, FiniteSetTheorems, TLAPS

\* The types the proofs need: those of the revisions, of the pages and of requests.
PageType ==
    /\ rev \in [Facts -> Nat]
    /\ told \in [Pages -> [Facts -> Nat]] /\ data \in [Pages -> [Facts -> Nat]]
    /\ version \in [Pages -> Nat]
    /\ dirty \in [Pages -> BOOLEAN]
    /\ history \in [Models -> Nat]
    /\ req \in [Requests -> RequestType]
    /\ queue \in Seq(Requests)

\* No page shows, and nobody is told of, a revision that there is not.
NothingAhead ==
    \A p \in Pages : \A f \in FactsOf(p) : told[p][f] <= rev[f] /\ data[p][f] <= rev[f]

\* What a rebuild has read is no older than its request, no older than the page it
\* will replace if it holds the lock, and current if nothing was announced since.
Honest(r) ==
    LET p == PageOf(req[r].kind) IN
    /\ req[r].pc = "waiting" =>
          req[r].kind = "full" /\ \A f \in FactsOf(p) : req[r].floor[f] <= told[p][f]
    /\ req[r].pc = "building" =>
          /\ req[r].start <= version[p]
          /\ \A f \in FactsOf(p) : req[r].floor[f] <= rev[f]
          /\ \A f \in FactsOf(p) \ req[r].todo :
                /\ req[r].floor[f] <= req[r].got[f] /\ req[r].got[f] <= rev[f]
                /\ req[r].start = version[p] => told[p][f] <= req[r].got[f]
                /\ req[r].kind = "full" => data["metrics"][f] <= req[r].got[f]
    /\ req[r].pc = "done" =>
          \A f \in FactsOf(p) : req[r].floor[f] <= req[r].got[f]

AllHonest == \A r \in Requests : Honest(r)

-----------------------------------------------------------------------------
(* The steps, as far as the pages can tell them apart                       *)

\* Facts change, and pages are invalidated or not.
FactStep ==
    /\ rev' \in [Facts -> Nat] /\ \A f \in Facts : rev[f] <= rev'[f]
    /\ history' \in [Models -> Nat]
    /\ UNCHANGED <<data, filled, queue, req>>
    /\ \/ UNCHANGED <<told, dirty, version>>
       \/ \E ps \in SUBSET Pages : Invalidate(ps)

LEMMA KindFacts ==
    /\ \A kind \in Kinds : PageOf(kind) \in Pages /\ FactsOf(PageOf(kind)) \subseteq Facts
    /\ \A p \in Pages : FactsOf(p) \subseteq Facts
    /\ PageOf("full") = "metrics" /\ PageOf("filtered") = "metrics"
    /\ PageOf("providers") = "providers"
    /\ FactsOf("metrics") = Models /\ FactsOf("providers") = {Registry, Titles}
BY DEF Kinds, Pages, PageOf, FactsOf, Facts

LEMMA ChangedFacts ==
    ASSUME PageType, NEW fs, Changed(fs)
    PROVE  rev' \in [Facts -> Nat] /\ \A f \in Facts : rev[f] <= rev'[f]
BY DEF PageType, Changed

\* The steps of the tasks that change facts are of this form.
LEMMA FactSteps ==
    ASSUME PageType,
           \/ \E m \in Models : Recorded(m) \/ Flagged(m) \/ ArchiveBegins(m)
           \/ \E window \in BOOLEAN : Reloaded(window)
           \/ ArchiveRead \/ ArchivePruned \/ ArchiveEnds
           \/ TitleStored \/ TitleAnnounced \/ FetchCancelled
    PROVE  FactStep
<1>1. ASSUME rev' = rev PROVE rev' \in [Facts -> Nat] /\ \A f \in Facts : rev[f] <= rev'[f]
  BY <1>1 DEF PageType
<1>2. ASSUME NEW ps \in SUBSET Pages, Invalidate(ps) PROVE UNCHANGED <<data, filled>>
  BY <1>2 DEF Invalidate
<1>3. history' \in [Models -> Nat]
  <2>1. ASSUME NEW ms, NewHistory(ms) PROVE history' \in [Models -> Nat]
    <3>1. history' = [m \in Models |-> IF m \in ms THEN history[m] + 1 ELSE history[m]]
      BY <2>1 DEF NewHistory
    <3> QED
      BY <3>1 DEF PageType
  <2>2. (\E ms : NewHistory(ms)) \/ UNCHANGED history
    BY DEF Recorded, Flagged, ArchiveBegins, Reloaded, ArchiveRead, ArchivePruned, ArchiveEnds,
           TitleStored, TitleAnnounced, FetchCancelled, facts
  <2> QED
    BY <2>1, <2>2 DEF PageType
<1>4. CASE \E m \in Models : Recorded(m) \/ Flagged(m) \/ ArchiveBegins(m)
  <2>1. PICK m \in Models : Recorded(m) \/ Flagged(m) \/ ArchiveBegins(m)
    BY <1>4
  <2>2. (\E fs : Changed(fs)) /\ UNCHANGED <<queue, req>> /\ (Quiet \/ Invalidate({"metrics"}))
    BY <2>1 DEF Recorded, Flagged, ArchiveBegins
  <2> QED
    BY <2>2, <1>2, <1>3, ChangedFacts DEF FactStep, Quiet, cache, Pages
<1>5. CASE (\E window \in BOOLEAN : Reloaded(window)) \/ ArchiveRead
  <2>1. (\E fs : Changed(fs)) /\ UNCHANGED <<queue, req>> /\ Invalidate(Pages)
    BY <1>5 DEF Reloaded, ArchiveRead
  <2> QED
    BY <2>1, <1>2, <1>3, ChangedFacts DEF FactStep
<1>6. CASE ArchivePruned \/ TitleStored
  <2>1. (\E fs : Changed(fs)) /\ UNCHANGED <<queue, req>> /\ Quiet
    BY <1>6 DEF ArchivePruned, TitleStored
  <2> QED
    BY <2>1, <1>3, ChangedFacts DEF FactStep, Quiet, cache
<1>7. CASE ArchiveEnds
  <2>1. UNCHANGED <<rev, queue, req>> /\ Invalidate(Pages)
    BY <1>7 DEF ArchiveEnds
  <2> QED
    BY <2>1, <1>1, <1>2, <1>3 DEF FactStep
<1>8. CASE TitleAnnounced
  <2>1. UNCHANGED <<rev, queue, req>> /\ Invalidate({"providers"})
    BY <1>8 DEF TitleAnnounced
  <2> QED
    BY <2>1, <1>1, <1>2, <1>3 DEF FactStep, Pages
<1>9. CASE FetchCancelled
  <2>1. UNCHANGED <<rev, queue, req>> /\ Quiet
    BY <1>9 DEF FetchCancelled, facts
  <2> QED
    BY <2>1, <1>1, <1>3 DEF FactStep, Quiet, cache
<1> QED
  BY <1>4, <1>5, <1>6, <1>7, <1>8, <1>9

\* What an invalidation does to each page (invalidate_metrics_cache,
\* invalidate_providers_cache).
LEMMA Invalidated ==
    ASSUME PageType, FactStep, NEW p \in Pages
    PROVE  /\ version[p] <= version'[p]
           /\ \/ /\ told'[p] = told[p] /\ (dirty'[p] <=> dirty[p])
              \/ /\ dirty'[p] /\ version'[p] # version[p]
                 /\ \A f \in FactsOf(p) : told'[p][f] = rev'[f]
<1>1. CASE UNCHANGED <<told, dirty, version>>
  BY <1>1 DEF PageType
<1>2. ASSUME NEW ps \in SUBSET Pages, Invalidate(ps)
      PROVE  /\ version[p] <= version'[p]
             /\ \/ /\ told'[p] = told[p] /\ (dirty'[p] <=> dirty[p])
                \/ /\ dirty'[p] /\ version'[p] # version[p]
                   /\ \A f \in FactsOf(p) : told'[p][f] = rev'[f]
  <2>1. /\ dirty'[p] <=> (p \in ps \/ dirty[p])
    BY <1>2, Zenon DEF Invalidate
  <2>2. version'[p] = IF p \in ps THEN version[p] + 1 ELSE version[p]
    BY <1>2 DEF Invalidate
  <2>3. told'[p] = IF p \in ps THEN Restricted(p, rev') ELSE told[p]
    BY <1>2 DEF Invalidate
  <2>4. \A f \in FactsOf(p) : Restricted(p, rev')[f] = rev'[f]
    BY KindFacts DEF Restricted
  <2>5. version[p] \in Nat
    BY DEF PageType
  <2>6. CASE p \in ps
    BY <2>1, <2>2, <2>3, <2>4, <2>5, <2>6
  <2>7. CASE p \notin ps
    BY <2>1, <2>2, <2>3, <2>5, <2>7
  <2> QED
    BY <2>6, <2>7
<1> QED
  BY <1>1, <1>2 DEF FactStep

-----------------------------------------------------------------------------
(* Requests as records                                                      *)

LEMMA NotYetType == NotYet \in RequestType /\ NotYet.pc = "idle"
BY DEF NotYet, RequestType, NoRead, NoCalc, Kinds

LEMMA BuildingFacts ==
    ASSUME PageType, NEW r \in Requests, NEW kind \in Kinds, NEW floor \in [Facts -> Nat]
    PROVE  LET q == Building(r, kind, floor) IN
           /\ q \in RequestType
           /\ q.pc = "building" /\ q.kind = kind /\ q.floor = floor
           /\ q.start = version[PageOf(kind)] /\ q.todo = FactsOf(PageOf(kind))
<1>1. version[PageOf(kind)] \in Nat /\ FactsOf(PageOf(kind)) \in SUBSET Facts
  BY KindFacts DEF PageType
<1> QED
  BY <1>1 DEF Building, NotYet, RequestType, NoRead, NoCalc

LEMMA AnsweredFacts ==
    ASSUME PageType, NEW r \in Requests, NEW shown \in [Facts -> Nat]
    PROVE  LET q == Answered(r, shown) IN
           /\ q \in RequestType
           /\ q.pc = "done" /\ q.kind = req[r].kind /\ q.floor = req[r].floor /\ q.got = shown
<1>1. req[r].kind \in Kinds /\ req[r].floor \in [Facts -> Nat]
  BY DEF PageType, RequestType
<1> QED
  BY <1>1 DEF Answered, NotYet, RequestType, NoRead, NoCalc

LEMMA ReadFacts ==
    ASSUME PageType, NEW r \in Requests, NEW f \in Facts
    PROVE  LET q == WithFact(r, f) IN
           /\ q \in RequestType
           /\ q.pc = req[r].pc /\ q.kind = req[r].kind /\ q.floor = req[r].floor
           /\ q.start = req[r].start /\ q.todo = req[r].todo \ {f}
           /\ q.got = [req[r].got EXCEPT ![f] = rev[f]]
<1>1. req[r] \in RequestType /\ rev[f] \in Nat
  BY DEF PageType
<1>2. [req[r].got EXCEPT ![f] = rev[f]] \in [Facts -> Nat]
  BY <1>1 DEF RequestType
<1> QED
  BY <1>1, <1>2 DEF WithFact, RequestType, NoCalc

LEMMA ComputingFacts ==
    ASSUME PageType, NEW r \in Requests, NEW m \in Models, NEW n \in Nat
    PROVE  LET q == [req[r] EXCEPT !.calc = [model |-> m, history |-> n]] IN
           /\ q \in RequestType
           /\ q.pc = req[r].pc /\ q.kind = req[r].kind /\ q.floor = req[r].floor
           /\ q.start = req[r].start /\ q.todo = req[r].todo /\ q.got = req[r].got
<1>1. req[r] \in RequestType
  BY DEF PageType
<1> QED
  BY <1>1 DEF RequestType

\* A request that arrives: answered at once, queued, or rebuilding.
LEMMA ArrivedFacts ==
    ASSUME PageType, NEW kind \in Kinds, NEW floor \in [Facts -> Nat], NEW shown \in [Facts -> Nat]
    PROVE  LET here == [NotYet EXCEPT !.kind = kind, !.floor = floor]
               q    == [here EXCEPT !.pc = "done", !.got = shown]
               w    == [here EXCEPT !.pc = "waiting"]
           IN  /\ q \in RequestType /\ q.pc = "done" /\ q.kind = kind /\ q.floor = floor
               /\ q.got = shown
               /\ w \in RequestType /\ w.pc = "waiting" /\ w.kind = kind /\ w.floor = floor
BY DEF NotYet, RequestType, NoRead, NoCalc

-----------------------------------------------------------------------------
(* Types                                                                    *)

LEMMA InitPage == Init => PageType
BY NotYetType, KindFacts DEF Init, PageType, NoRead

\* The request at the head of the queue is the one that rebuilds the metrics.
LEMMA BuilderHolds ==
    ASSUME LockMovesOn, PageType, NEW r \in Requests,
           req[r].kind = "full", req[r].pc = "building"
    PROVE  HasLock(r) /\ queue # <<>>
<1>1. PICK i \in DOMAIN queue : queue[i] = r
  BY DEF LockMovesOn
<1>2. i = 1
  BY <1>1 DEF LockMovesOn
<1> QED
  BY <1>1, <1>2 DEF PageType, HasLock

LEMMA NextPage == PageType /\ LockMovesOn /\ [Next]_vars => PageType'
<1> SUFFICES ASSUME PageType, LockMovesOn, [Next]_vars PROVE PageType'
  OBVIOUS
<1> USE DEF facts, cache, tasks
<1>1. ASSUME FactStep PROVE PageType'
  <2>1. \A p \in Pages : Restricted(p, rev') \in [Facts -> Nat]
    BY <1>1 DEF FactStep, Restricted
  <2>2. told' \in [Pages -> [Facts -> Nat]] /\ version' \in [Pages -> Nat]
    <3>1. CASE UNCHANGED <<told, dirty, version>>
      BY <3>1 DEF PageType
    <3>2. ASSUME NEW ps \in SUBSET Pages, Invalidate(ps)
          PROVE  told' \in [Pages -> [Facts -> Nat]] /\ version' \in [Pages -> Nat]
      <4>1. told' = [p \in Pages |-> IF p \in ps THEN Restricted(p, rev') ELSE told[p]]
        BY <3>2 DEF Invalidate
      <4>2. version' = [p \in Pages |-> IF p \in ps THEN version[p] + 1 ELSE version[p]]
        BY <3>2 DEF Invalidate
      <4> QED
        BY <2>1, <4>1, <4>2 DEF PageType
    <3> QED
      BY <1>1, <3>1, <3>2 DEF FactStep
  <2>3. dirty' \in [Pages -> BOOLEAN]
    <3>1. CASE UNCHANGED <<told, dirty, version>>
      BY <3>1 DEF PageType
    <3>2. ASSUME NEW ps \in SUBSET Pages, Invalidate(ps) PROVE dirty' \in [Pages -> BOOLEAN]
      <4>1. dirty' = [p \in Pages |-> p \in ps \/ dirty[p]]
        BY <3>2 DEF Invalidate
      <4>2. \A p \in Pages : (p \in ps \/ dirty[p]) \in BOOLEAN
        OBVIOUS
      <4> QED
        BY <4>1, <4>2, Zenon
    <3> QED
      BY <1>1, <3>1, <3>2 DEF FactStep
  <2> QED
    BY <1>1, <2>2, <2>3 DEF FactStep, PageType
<1>2. ASSUME NEW r \in Requests, NEW q \in RequestType, req' = [req EXCEPT ![r] = q],
             UNCHANGED <<rev, told, version, history>>,
             data' = data \/ data' = [data EXCEPT ![PageOf(req[r].kind)] = req[r].got],
             dirty' = dirty \/ dirty' = [dirty EXCEPT ![PageOf(req[r].kind)]
                                                   = DirtyAfter(r, PageOf(req[r].kind))],
             \/ queue' = queue \/ queue' = Append(queue, r)
             \/ queue # <<>> /\ queue' = Tail(queue)
      PROVE  PageType'
  <2>1. queue' \in Seq(Requests)
    <3>1. queue \in Seq(Requests)
      BY DEF PageType
    <3> QED
      BY <1>2, <3>1
  <2>2. data' \in [Pages -> [Facts -> Nat]]
    BY <1>2 DEF PageType, RequestType
  <2>3. dirty' \in [Pages -> BOOLEAN]
    <3>1. DirtyAfter(r, PageOf(req[r].kind)) \in BOOLEAN
      BY DEF DirtyAfter
    <3>2. dirty \in [Pages -> BOOLEAN]
      BY DEF PageType
    <3> QED
      BY <1>2, <3>1, <3>2, Zenon
  <2> QED
    BY <1>2, <2>1, <2>2, <2>3 DEF PageType
<1>3. ASSUME NEW r \in Requests, NEW kind \in Kinds, Arrive(r, kind) PROVE PageType'
  <2>1. told[PageOf(kind)] \in [Facts -> Nat] /\ data[PageOf(kind)] \in [Facts -> Nat]
    BY KindFacts DEF PageType
  <2>2. \E q \in RequestType : req' = [req EXCEPT ![r] = q]
    <3>1. [[NotYet EXCEPT !.kind = kind, !.floor = told[PageOf(kind)]]
                   EXCEPT !.pc = "done", !.got = data[PageOf(kind)]] \in RequestType
      BY <2>1 DEF NotYet, RequestType, NoRead, NoCalc
    <3>2. [[NotYet EXCEPT !.kind = kind, !.floor = told[PageOf(kind)]]
                   EXCEPT !.pc = "waiting"] \in RequestType
      BY <2>1 DEF NotYet, RequestType, NoRead, NoCalc
    <3>3. Building(r, kind, told[PageOf(kind)]) \in RequestType
      BY <2>1, BuildingFacts
    <3> QED
      BY <1>3, <3>1, <3>2, <3>3, Zenon DEF Arrive
  <2> QED
    BY <1>2, <1>3, <2>2 DEF Arrive
<1>4. ASSUME NEW r \in Requests, Acquire(r) PROVE PageType'
  <2>1. req[r].floor \in [Facts -> Nat] /\ data["metrics"] \in [Facts -> Nat] /\ "full" \in Kinds
    BY DEF PageType, RequestType, Pages, Kinds
  <2>2. \E q \in RequestType : req' = [req EXCEPT ![r] = q]
    BY <1>4, <2>1, AnsweredFacts, BuildingFacts DEF Acquire
  <2> QED
    BY <1>2, <1>4, <2>2 DEF Acquire, HasLock
<1>5. ASSUME NEW r \in Requests, NEW f \in Facts, Read(r, f) PROVE PageType'
  BY <1>2, <1>5, ReadFacts DEF Read
<1>6. ASSUME NEW r \in Requests, NEW m \in Models, Compute(r, m) PROVE PageType'
  <2>1. history[m] \in Nat
    BY DEF PageType
  <2> QED
    BY <1>2, <1>6, <2>1, ComputingFacts DEF Compute
<1>7. ASSUME NEW r \in Requests, Computed(r) PROVE PageType'
  <2>1. req[r].calc.model \in Models
    BY <1>7 DEF Computed, PageType, RequestType
  <2> QED
    BY <1>2, <1>7, <2>1, ReadFacts DEF Computed, Facts
<1>8. ASSUME NEW r \in Requests, Built(r) PROVE PageType'
  <2>1. req[r].got \in [Facts -> Nat]
    BY DEF PageType, RequestType
  <2>2. Answered(r, req[r].got) \in RequestType
    BY <2>1, AnsweredFacts
  <2>3. queue' = queue \/ (queue # <<>> /\ queue' = Tail(queue))
    BY <1>8, BuilderHolds DEF Built, Release
  <2>4. data' = data \/ data' = [data EXCEPT ![PageOf(req[r].kind)] = req[r].got]
    BY <1>8 DEF Built
  <2>5. dirty' = dirty \/ dirty' = [dirty EXCEPT ![PageOf(req[r].kind)]
                                                = DirtyAfter(r, PageOf(req[r].kind))]
    BY <1>8, Zenon DEF Built
  <2> QED
    BY <1>2, <1>8, <2>2, <2>3, <2>4, <2>5 DEF Built
<1>9. ASSUME NEW r \in Requests, BuildFails(r) PROVE PageType'
  <2>1. [NotYet EXCEPT !.pc = "failed"] \in RequestType
    BY NotYetType DEF RequestType
  <2>2. queue' = queue \/ (queue # <<>> /\ queue' = Tail(queue))
    BY <1>9, BuilderHolds DEF BuildFails, Release
  <2> QED
    BY <1>2, <1>9, <2>1, <2>2 DEF BuildFails
<1>10. CASE UNCHANGED vars
  BY <1>10 DEF vars, PageType
<1> QED
  BY <1>1, <1>3, <1>4, <1>5, <1>6, <1>7, <1>8, <1>9, <1>10, FactSteps DEF Next

-----------------------------------------------------------------------------
(* The lock                                                                 *)

\* A step that leaves the queue alone, and who is queued or builds.
LEMMA LockKept ==
    ASSUME LockMovesOn, PageType, UNCHANGED queue,
           \A r \in Requests :
              \/ req'[r].kind = req[r].kind /\ req'[r].pc = req[r].pc
              \/ /\ ~(req[r].kind = "full" /\ req[r].pc \in {"waiting", "building"})
                 /\ ~(req'[r].kind = "full" /\ req'[r].pc \in {"waiting", "building"})
    PROVE  LockMovesOn'
<1>1. \A i \in DOMAIN queue : queue[i] \in Requests
  BY DEF PageType
<1>2. \A i \in DOMAIN queue : req[queue[i]].kind = "full" /\ req[queue[i]].pc \in {"waiting", "building"}
  BY DEF LockMovesOn
<1>3. \A i \in DOMAIN queue : req'[queue[i]].kind = "full" /\ req'[queue[i]].pc = req[queue[i]].pc
  BY <1>1, <1>2
<1>4. \A r \in Requests : (req'[r].kind = "full" /\ req'[r].pc \in {"waiting", "building"})
          => req[r].kind = "full" /\ req[r].pc \in {"waiting", "building"}
  OBVIOUS
<1> QED
  BY <1>3, <1>4 DEF LockMovesOn

\* The holder leaves: the next in the queue holds the lock.
LEMMA LockPassed ==
    ASSUME LockMovesOn, PageType, NEW r \in Requests, NEW q, q.pc = "done" \/ q.pc = "failed",
           req' = [req EXCEPT ![r] = q],
           HasLock(r), queue' = Tail(queue)
    PROVE  LockMovesOn'
<1>1. /\ queue \in Seq(Requests) /\ queue' \in Seq(Requests)
      /\ Len(queue) \in Nat /\ Len(queue) >= 1
      /\ DOMAIN queue = 1 .. Len(queue)
      /\ DOMAIN queue' = 1 .. Len(queue) - 1
      /\ \A i \in DOMAIN queue' : queue'[i] = queue[i + 1]
      /\ queue[1] = r
  BY DEF PageType, HasLock
<1>2. \A i \in DOMAIN queue' : i + 1 \in DOMAIN queue /\ queue'[i] # r /\ queue'[i] \in Requests
  <2> SUFFICES ASSUME NEW i \in DOMAIN queue'
               PROVE  i + 1 \in DOMAIN queue /\ queue'[i] # r /\ queue'[i] \in Requests
    OBVIOUS
  <2>1. i + 1 \in DOMAIN queue /\ 1 \in DOMAIN queue /\ i + 1 # 1
    BY <1>1
  <2> QED
    BY <1>1, <2>1 DEF LockMovesOn
<1>3. req'[r] = q /\ \A s \in Requests \ {r} : req'[s] = req[s]
  BY DEF PageType
<1>4. \A i \in DOMAIN queue' :
          /\ req'[queue'[i]].kind = "full"
          /\ req'[queue'[i]].pc = "waiting"
          /\ \A j \in DOMAIN queue' : queue'[i] = queue'[j] => i = j
  <2> SUFFICES ASSUME NEW i \in DOMAIN queue'
               PROVE  /\ req'[queue'[i]].kind = "full"
                      /\ req'[queue'[i]].pc = "waiting"
                      /\ \A j \in DOMAIN queue' : queue'[i] = queue'[j] => i = j
    OBVIOUS
  <2>1. i + 1 \in DOMAIN queue /\ i + 1 # 1 /\ queue'[i] = queue[i + 1]
    BY <1>1, <1>2
  <2>2. req'[queue'[i]] = req[queue[i + 1]]
    BY <1>2, <1>3, <2>1
  <2>3. req[queue[i + 1]].kind = "full" /\ req[queue[i + 1]].pc = "waiting"
    BY <2>1 DEF LockMovesOn
  <2>4. \A j \in DOMAIN queue' : queue[i + 1] = queue[j + 1] => i + 1 = j + 1
    BY <1>2, <2>1 DEF LockMovesOn
  <2> QED
    BY <1>1, <2>1, <2>2, <2>3, <2>4
<1>5. ASSUME NEW s \in Requests, req'[s].kind = "full", req'[s].pc \in {"waiting", "building"}
      PROVE  \E i \in DOMAIN queue' : queue'[i] = s
  <2>1. s # r /\ req'[s] = req[s]
    BY <1>3, <1>5
  <2>2. PICK i \in DOMAIN queue : queue[i] = s
    BY <1>5, <2>1 DEF LockMovesOn
  <2>3. i - 1 \in DOMAIN queue' /\ queue'[i - 1] = s
    BY <1>1, <2>1, <2>2
  <2> QED
    BY <2>3
<1> QED
  BY <1>4, <1>5 DEF LockMovesOn

\* A request joins the queue at its end.
LEMMA LockJoined ==
    ASSUME LockMovesOn, PageType, NEW r \in Requests, NEW q,
           q.pc = "waiting", q.kind = "full", req[r].pc = "idle",
           req' = [req EXCEPT ![r] = q], queue' = Append(queue, r)
    PROVE  LockMovesOn'
<1>1. /\ queue \in Seq(Requests) /\ queue' \in Seq(Requests)
      /\ Len(queue) \in Nat
      /\ DOMAIN queue = 1 .. Len(queue)
      /\ DOMAIN queue' = 1 .. Len(queue) + 1
      /\ \A i \in DOMAIN queue : queue'[i] = queue[i] /\ queue[i] \in Requests
      /\ queue'[Len(queue) + 1] = r
  BY DEF PageType
<1>2. \A i \in DOMAIN queue : queue[i] # r
  BY DEF LockMovesOn
<1>3. req'[r] = q /\ \A s \in Requests \ {r} : req'[s] = req[s]
  BY DEF PageType
<1>4. \A i \in DOMAIN queue :
          /\ req'[queue'[i]].kind = "full"
          /\ req'[queue'[i]].pc \in IF i = 1 THEN {"waiting", "building"} ELSE {"waiting"}
          /\ \A j \in DOMAIN queue : queue'[i] = queue'[j] => i = j
  <2>1. \A i \in DOMAIN queue : req'[queue'[i]] = req[queue[i]]
    BY <1>1, <1>2, <1>3
  <2> QED
    BY <1>1, <2>1 DEF LockMovesOn
<1>5. \A i \in DOMAIN queue' : i \in DOMAIN queue \/ i = Len(queue) + 1
  BY <1>1
<1>6. \A i, j \in DOMAIN queue' : queue'[i] = queue'[j] => i = j
  BY <1>1, <1>2, <1>4, <1>5
<1>7. \A s \in Requests : (req'[s].kind = "full" /\ req'[s].pc \in {"waiting", "building"})
          => \E i \in DOMAIN queue' : queue'[i] = s
  <2> SUFFICES ASSUME NEW s \in Requests,
                      req'[s].kind = "full", req'[s].pc \in {"waiting", "building"}
               PROVE  \E i \in DOMAIN queue' : queue'[i] = s
    OBVIOUS
  <2>1. CASE s = r
    BY <1>1, <2>1
  <2>2. CASE s # r
    <3>1. PICK i \in DOMAIN queue : queue[i] = s
      BY <1>3, <2>2 DEF LockMovesOn
    <3> QED
      BY <1>1, <3>1
  <2> QED
    BY <2>1, <2>2
<1>8. \A i \in DOMAIN queue' :
          /\ req'[queue'[i]].kind = "full"
          /\ req'[queue'[i]].pc \in IF i = 1 THEN {"waiting", "building"} ELSE {"waiting"}
  BY <1>1, <1>3, <1>4, <1>5
<1> QED
  BY <1>6, <1>7, <1>8 DEF LockMovesOn

\* A step of a request that changes neither its place in the queue nor its kind.
LEMMA LockStays ==
    ASSUME LockMovesOn, PageType, NEW r \in Requests, NEW q, UNCHANGED queue,
           req' = [req EXCEPT ![r] = q],
           \/ q.kind = req[r].kind /\ q.pc = req[r].pc
           \/ /\ ~(req[r].kind = "full" /\ req[r].pc \in {"waiting", "building"})
              /\ ~(q.kind = "full" /\ q.pc \in {"waiting", "building"})
    PROVE  LockMovesOn'
<1>1. req'[r] = q /\ \A s \in Requests \ {r} : req'[s] = req[s]
  BY DEF PageType
<1> QED
  BY <1>1, LockKept

LEMMA NextLock == PageType /\ LockMovesOn /\ [Next]_vars => LockMovesOn'
<1> SUFFICES ASSUME PageType, LockMovesOn, [Next]_vars PROVE LockMovesOn'
  OBVIOUS
<1> USE DEF facts, cache, tasks
<1>1. CASE FactStep
  BY <1>1, LockKept DEF FactStep
<1>2. ASSUME NEW r \in Requests, NEW kind \in Kinds, Arrive(r, kind) PROVE LockMovesOn'
  <2> DEFINE here == [NotYet EXCEPT !.kind = kind, !.floor = told[PageOf(kind)]]
  <2>0. told[PageOf(kind)] \in [Facts -> Nat] /\ data[PageOf(kind)] \in [Facts -> Nat]
    BY KindFacts DEF PageType
  <2>1. CASE /\ req' = [req EXCEPT ![r] = [here EXCEPT !.pc = "done", !.got = data[PageOf(kind)]]]
             /\ UNCHANGED queue
    <3>1. [here EXCEPT !.pc = "done", !.got = data[PageOf(kind)]].pc = "done"
      BY DEF NotYet
    <3>2. req[r].pc = "idle"
      BY <1>2 DEF Arrive
    <3> QED
      BY <2>1, <3>1, <3>2, LockStays
  <2>2. CASE /\ kind = "full" /\ req' = [req EXCEPT ![r] = [here EXCEPT !.pc = "waiting"]]
             /\ queue' = Append(queue, r)
    <3>1. /\ [here EXCEPT !.pc = "waiting"].pc = "waiting"
          /\ [here EXCEPT !.pc = "waiting"].kind = "full"
      BY <2>2 DEF NotYet
    <3>2. req[r].pc = "idle"
      BY <1>2 DEF Arrive
    <3> QED
      BY <2>2, <3>1, <3>2, LockJoined
  <2>3. CASE /\ kind # "full" /\ req' = [req EXCEPT ![r] = Building(r, kind, told[PageOf(kind)])]
             /\ UNCHANGED queue
    <3>1. Building(r, kind, told[PageOf(kind)]).kind = kind
      BY <2>0, BuildingFacts
    <3>2. req[r].pc = "idle"
      BY <1>2 DEF Arrive
    <3> QED
      BY <2>3, <3>1, <3>2, LockStays
  <2> QED
    BY <1>2, <2>1, <2>2, <2>3, Zenon DEF Arrive
<1>3. ASSUME NEW r \in Requests, Acquire(r) PROVE LockMovesOn'
  <2>1. /\ req[r].floor \in [Facts -> Nat] /\ data["metrics"] \in [Facts -> Nat]
        /\ "full" \in Kinds
    BY DEF PageType, RequestType, Pages, Kinds
  <2>2. HasLock(r) /\ req[r].pc = "waiting"
    BY <1>3 DEF Acquire
  <2>3. queue # <<>> /\ r = Head(queue)
    BY <2>2 DEF HasLock
  <2>4. CASE req' = [req EXCEPT ![r] = Answered(r, data["metrics"])] /\ queue' = Tail(queue)
    <3>1. Answered(r, data["metrics"]).pc = "done"
      BY <2>1, AnsweredFacts
    <3> QED
      BY <2>2, <2>4, <3>1, LockPassed, Zenon
  <2>5. CASE req' = [req EXCEPT ![r] = Building(r, "full", req[r].floor)] /\ UNCHANGED queue
    <3> DEFINE q == Building(r, "full", req[r].floor)
    <3>1. q.pc = "building" /\ q.kind = "full"
      BY <2>1, BuildingFacts
    <3>0. req' = [req EXCEPT ![r] = q]
      BY <2>5
    <3> HIDE DEF q
    <3>2. /\ queue \in Seq(Requests) /\ DOMAIN queue = 1 .. Len(queue) /\ Len(queue) \in Nat
          /\ queue[1] = r /\ 1 \in DOMAIN queue
      BY <2>3 DEF PageType
    <3>3. req'[r] = q /\ \A s \in Requests \ {r} : req'[s] = req[s]
      BY <3>0 DEF PageType
    <3>4. \A i \in DOMAIN queue : queue[i] \in Requests /\ (i # 1 => queue[i] # r)
      BY <3>2 DEF LockMovesOn
    <3>5. req[r].kind = "full"
      BY <3>2 DEF LockMovesOn
    <3>6. \A i \in DOMAIN queue :
             /\ req'[queue[i]].kind = "full"
             /\ req'[queue[i]].pc \in IF i = 1 THEN {"waiting", "building"} ELSE {"waiting"}
      BY <3>1, <3>2, <3>3, <3>4 DEF LockMovesOn
    <3>7. \A s \in Requests : (req'[s].kind = "full" /\ req'[s].pc \in {"waiting", "building"})
             => req[s].kind = "full" /\ req[s].pc \in {"waiting", "building"}
      BY <2>2, <3>3, <3>5
    <3> QED
      BY <2>5, <3>6, <3>7 DEF LockMovesOn
  <2> QED
    BY <1>3, <2>4, <2>5, Zenon DEF Acquire
<1>4. ASSUME NEW r \in Requests, NEW f \in Facts, Read(r, f) PROVE LockMovesOn'
  <2>1. PICK q : q = WithFact(r, f)
    OBVIOUS
  <2>2. q.pc = req[r].pc /\ q.kind = req[r].kind
    BY <2>1, ReadFacts
  <2>3. req' = [req EXCEPT ![r] = q] /\ UNCHANGED queue
    BY <1>4, <2>1 DEF Read
  <2> QED
    BY <2>2, <2>3, LockStays
<1>5. ASSUME NEW r \in Requests, NEW m \in Models, Compute(r, m) PROVE LockMovesOn'
  <2>1. history[m] \in Nat
    BY DEF PageType
  <2> QED
    <3>1. PICK q : q = [req[r] EXCEPT !.calc = [model |-> m, history |-> history[m]]]
      OBVIOUS
    <3>2. q.pc = req[r].pc /\ q.kind = req[r].kind
      BY <2>1, <3>1, ComputingFacts
    <3>3. req' = [req EXCEPT ![r] = q] /\ UNCHANGED queue
      BY <1>5, <3>1, Zenon DEF Compute
    <3> QED
      BY <3>2, <3>3, LockStays
<1>6. ASSUME NEW r \in Requests, Computed(r) PROVE LockMovesOn'
  <2>1. req[r].calc.model \in Facts
    BY <1>6 DEF Computed, PageType, RequestType, Facts
  <2> QED
    <3>1. PICK q : q = WithFact(r, req[r].calc.model)
      OBVIOUS
    <3>2. q.pc = req[r].pc /\ q.kind = req[r].kind
      BY <2>1, <3>1, ReadFacts
    <3>3. req' = [req EXCEPT ![r] = q] /\ UNCHANGED queue
      BY <1>6, <3>1, Zenon DEF Computed
    <3> QED
      BY <3>2, <3>3, LockStays
<1>7. ASSUME NEW r \in Requests, NEW q, q.pc = "done" \/ q.pc = "failed", req[r].pc = "building",
             req' = [req EXCEPT ![r] = q], Release(r)
      PROVE  LockMovesOn'
  <2>1. CASE req[r].kind = "full"
    <3>1. HasLock(r)
      BY <1>7, <2>1, BuilderHolds
    <3>2. queue' = Tail(queue)
      BY <1>7, <2>1 DEF Release
    <3> QED
      BY <1>7, <3>1, <3>2, LockPassed, Zenon
  <2>2. CASE req[r].kind # "full"
    BY <1>7, <2>2, LockStays DEF Release
  <2> QED
    BY <2>1, <2>2
<1>8. ASSUME NEW r \in Requests, Built(r) PROVE LockMovesOn'
  <2>1. req[r].got \in [Facts -> Nat]
    BY DEF PageType, RequestType
  <2>2. Answered(r, req[r].got).pc = "done"
    BY <2>1, AnsweredFacts
  <2> QED
    <3>1. PICK q : q = Answered(r, req[r].got)
      OBVIOUS
    <3>2. q.pc = "done" /\ req[r].pc = "building"
      BY <1>8, <2>2, <3>1 DEF Built
    <3>3. req' = [req EXCEPT ![r] = q] /\ Release(r)
      BY <1>8, <3>1, Zenon DEF Built
    <3> QED
      BY <1>7, <3>2, <3>3, Zenon
<1>9. ASSUME NEW r \in Requests, BuildFails(r) PROVE LockMovesOn'
  <2>1. PICK q : q = [NotYet EXCEPT !.pc = "failed"]
    OBVIOUS
  <2>2. q.pc = "failed"
    BY <2>1 DEF NotYet
  <2>3. req' = [req EXCEPT ![r] = q] /\ Release(r) /\ req[r].pc = "building"
    BY <1>9, <2>1, Zenon DEF BuildFails
  <2> QED
    BY <1>7, <2>2, <2>3, Zenon
<1>10. CASE UNCHANGED vars
  BY <1>10, LockKept DEF vars
<1> QED
  BY <1>1, <1>2, <1>3, <1>4, <1>5, <1>6, <1>8, <1>9, <1>10, FactSteps DEF Next

LEMMA InitLock == Init => LockMovesOn
BY NotYetType DEF Init, LockMovesOn

\* However many requests find the page stale, and whether their rebuilds fail: the
\* lock goes from one to the next, and every waiting request is queued for it.
THEOREM LockMovesOnCorrect == Spec => []LockMovesOn
BY InitPage, InitLock, NextPage, NextLock, PTL DEF Spec

-----------------------------------------------------------------------------
(* What pages and answers show                                              *)

Current == NothingAhead /\ AllHonest /\ CleanIsCurrent

\* Revisions are numbers.
LEMMA Numbers ==
    ASSUME PageType, NEW p \in Pages, NEW f \in FactsOf(p), NEW r \in Requests
    PROVE  /\ rev[f] \in Nat /\ told[p][f] \in Nat /\ data[p][f] \in Nat
           /\ version[p] \in Nat
           /\ req[r].floor[f] \in Nat /\ req[r].got[f] \in Nat /\ req[r].start \in Nat
<1>1. f \in Facts
  BY KindFacts
<1>2. told[p] \in [Facts -> Nat] /\ data[p] \in [Facts -> Nat] /\ req[r] \in RequestType
  BY DEF PageType
<1> QED
  BY <1>1, <1>2 DEF PageType, RequestType

\* A change, announced or not, leaves no page clean that does not show what was
\* announced, and no rebuild with the version it has missed.
LEMMA FactsStayCurrent ==
    ASSUME PageType, Current, FactStep PROVE Current'
<1>1. ASSUME NEW p \in Pages, NEW f \in FactsOf(p)
      PROVE  /\ rev[f] <= rev'[f] /\ rev'[f] \in Nat
             /\ told[p][f] <= told'[p][f] /\ told'[p][f] <= rev'[f]
             /\ data'[p][f] = data[p][f] /\ data[p][f] <= rev'[f]
             /\ version'[p] = version[p] => told'[p][f] = told[p][f]
  <2>1. f \in Facts /\ told[p][f] <= rev[f] /\ data[p][f] <= rev[f]
    BY KindFacts DEF Current, NothingAhead
  <2>2. rev[f] \in Nat /\ told[p][f] \in Nat /\ data[p][f] \in Nat
    BY <2>1 DEF PageType
  <2>3. rev[f] <= rev'[f] /\ rev'[f] \in Nat /\ data' = data
    BY <2>1 DEF FactStep
  <2>4. \/ told'[p] = told[p]
        \/ version'[p] # version[p] /\ told'[p][f] = rev'[f]
    BY Invalidated
  <2>5. CASE told'[p] = told[p]
    BY <2>1, <2>2, <2>3, <2>5
  <2>6. CASE version'[p] # version[p] /\ told'[p][f] = rev'[f]
    BY <2>1, <2>2, <2>3, <2>6
  <2> QED
    BY <2>4, <2>5, <2>6
<1>2. NothingAhead'
  BY <1>1 DEF NothingAhead
<1>3. CleanIsCurrent'
  <2> SUFFICES ASSUME NEW p \in Pages, Fresh(p)', NEW f \in FactsOf(p)
               PROVE  data'[p][f] >= told'[p][f]
    BY DEF CleanIsCurrent
  <2>1. p \in filled' /\ ~dirty'[p] /\ filled' = filled
    BY DEF Fresh, FactStep
  <2>2. told'[p] = told[p] /\ ~dirty[p]
    BY <2>1, Invalidated
  <2> QED
    BY <1>1, <2>1, <2>2 DEF Current, CleanIsCurrent, Fresh
<1>4. AllHonest'
  <2> SUFFICES ASSUME NEW r \in Requests PROVE Honest(r)'
    BY DEF AllHonest
  <2>1. req' = req
    BY DEF FactStep
  <2> DEFINE p == PageOf(req[r].kind)
  <2>2. p \in Pages
    BY KindFacts DEF PageType, RequestType
  <2>3. req[r].start \in Nat /\ version[p] \in Nat /\ version[p] <= version'[p]
        /\ version'[p] \in Int
    <3>1. version[p] <= version'[p] /\ req[r].start \in Nat /\ version[p] \in Nat
      BY <2>2, Invalidated DEF PageType, RequestType
    <3>2. version'[p] = version[p] \/ version'[p] = version[p] + 1
      BY <2>2 DEF FactStep, Invalidate, PageType
    <3> QED
      BY <3>1, <3>2
  <2>4. ASSUME NEW f \in FactsOf(p)
        PROVE  /\ rev[f] \in Nat /\ told[p][f] \in Nat /\ req[r].floor[f] \in Nat
               /\ req[r].got[f] \in Nat
    BY <2>2, <2>4, Numbers
  <2>5. Honest(r)
    BY DEF Current, AllHonest
  <2>6. CASE req[r].pc = "waiting"
    <3>1. req[r].kind = "full" /\ \A f \in FactsOf(p) : req[r].floor[f] <= told[p][f]
      BY <2>5, <2>6 DEF Honest
    <3>2. ASSUME NEW f \in FactsOf(p) PROVE req[r].floor[f] <= told'[p][f]
      <4>1. told[p][f] <= told'[p][f] /\ rev'[f] \in Nat
        BY <1>1, <2>2
      <4>2. told'[p][f] \in Int
        BY <2>2, Invalidated, <2>4, <3>2, <4>1
      <4> QED
        BY <2>4, <3>1, <3>2, <4>1, <4>2
    <3> QED
      BY <2>1, <2>6, <3>1, <3>2 DEF Honest
  <2>7. CASE req[r].pc = "building"
    <3>1. \A f \in FactsOf(p) : req[r].floor[f] <= rev'[f]
      BY <1>1, <2>2, <2>4, <2>5, <2>7 DEF Honest
    <3>2. req[r].start = version'[p] => req[r].start = version[p] /\ version'[p] = version[p]
      BY <2>3, <2>5, <2>7 DEF Honest
    <3>3. \A f \in FactsOf(p) \ req[r].todo :
            /\ req[r].floor[f] <= req[r].got[f] /\ req[r].got[f] <= rev'[f]
            /\ req[r].start = version'[p] => told'[p][f] <= req[r].got[f]
            /\ req[r].kind = "full" => data["metrics"][f] <= req[r].got[f]
      BY <1>1, <2>2, <2>4, <2>5, <2>7, <3>2 DEF Honest
    <3>4. req[r].start <= version'[p]
      BY <2>3, <2>5, <2>7 DEF Honest
    <3> QED
      BY <2>1, <2>7, <3>1, <3>3, <3>4 DEF Honest, FactStep
  <2>8. CASE req[r].pc \notin {"waiting", "building"}
    BY <2>1, <2>5, <2>8 DEF Honest
  <2> QED
    BY <2>6, <2>7, <2>8
<1> QED
  BY <1>2, <1>3, <1>4 DEF Current

\* A request moves to q, and no page changes: all stay honest if q is.
LEMMA HonestStep ==
    ASSUME PageType, Current, NEW r \in Requests, NEW q, req' = [req EXCEPT ![r] = q],
           UNCHANGED <<rev, told, cache>>, Honest(r)'
    PROVE  Current'
<1>1. NothingAhead' /\ CleanIsCurrent'
  BY DEF Current, NothingAhead, CleanIsCurrent, Fresh, cache
<1>2. ASSUME NEW s \in Requests PROVE Honest(s)'
  <2>1. CASE s = r
    BY <2>1
  <2>2. CASE s # r
    <3>1. req'[s] = req[s]
      BY <2>2 DEF PageType
    <3> QED
      BY <3>1 DEF Current, AllHonest, Honest, cache
  <2> QED
    BY <2>1, <2>2
<1> QED
  BY <1>1, <1>2 DEF Current, AllHonest

\* A rebuild begins, by a request that nothing was announced to yet that is missing.
LEMMA HonestBuilding ==
    ASSUME PageType, Current, NEW r \in Requests, NEW kind \in Kinds,
           NEW floor \in [Facts -> Nat],
           \A f \in FactsOf(PageOf(kind)) : floor[f] <= told[PageOf(kind)][f],
           req' = [req EXCEPT ![r] = Building(r, kind, floor)],
           UNCHANGED <<rev, told, cache>>
    PROVE  Current'
<1> DEFINE p == PageOf(kind)
<1>1. PICK q : q = Building(r, kind, floor)
  OBVIOUS
<1>2. /\ q.pc = "building" /\ q.kind = kind /\ q.floor = floor
      /\ q.start = version[p] /\ q.todo = FactsOf(p)
  BY <1>1, BuildingFacts
<1>3. req' = [req EXCEPT ![r] = q] /\ req'[r] = q
  BY <1>1 DEF PageType
<1>4. p \in Pages /\ version[p] \in Nat
  BY KindFacts DEF PageType
<1>5. ASSUME NEW f \in FactsOf(p) PROVE floor[f] <= rev[f]
  <2>1. f \in Facts /\ told[p][f] <= rev[f] /\ floor[f] <= told[p][f]
    BY <1>4, KindFacts DEF Current, NothingAhead
  <2>2. rev[f] \in Nat /\ told[p][f] \in Nat /\ floor[f] \in Nat
    BY <1>4, <2>1 DEF PageType
  <2> QED
    BY <2>1, <2>2
<1>6. Honest(r)'
  <2>1. /\ req'[r].pc = "building" /\ PageOf(req'[r].kind) = p
        /\ req'[r].start <= version'[p] /\ req'[r].todo = FactsOf(p)
    BY <1>2, <1>3, <1>4 DEF cache
  <2>2. \A f \in FactsOf(p) : req'[r].floor[f] <= rev'[f]
    BY <1>2, <1>3, <1>5
  <2> QED
    BY <2>1, <2>2 DEF Honest
<1> QED
  BY <1>3, <1>6, HonestStep

\* An answer is given that is as new as the request asks for.
LEMMA HonestAnswer ==
    ASSUME PageType, Current, NEW r \in Requests, NEW q, req' = [req EXCEPT ![r] = q],
           q.pc = "done", \A f \in FactsOf(PageOf(q.kind)) : q.floor[f] <= q.got[f],
           UNCHANGED <<rev, told, cache>>
    PROVE  Current'
<1>1. req'[r] = q
  BY DEF PageType
<1>2. Honest(r)'
  BY <1>1 DEF Honest
<1> QED
  BY <1>2, HonestStep

\* A thread reads one more fact: it gets the latest revision.
LEMMA HonestRead ==
    ASSUME PageType, Current, NEW r \in Requests, NEW f \in Facts, req[r].pc = "building",
           req' = [req EXCEPT ![r] = WithFact(r, f)], UNCHANGED <<rev, told, cache>>
    PROVE  Current'
<1> DEFINE p == PageOf(req[r].kind)
<1>1. PICK q : q = WithFact(r, f)
  OBVIOUS
<1>2. /\ q.pc = "building" /\ q.kind = req[r].kind /\ q.floor = req[r].floor
      /\ q.start = req[r].start /\ q.todo = req[r].todo \ {f}
      /\ q.got = [req[r].got EXCEPT ![f] = rev[f]]
  BY <1>1, ReadFacts
<1>3. req' = [req EXCEPT ![r] = q] /\ req'[r] = q
  BY <1>1 DEF PageType
<1>4. p \in Pages /\ req[r].kind \in Kinds /\ req[r].got \in [Facts -> Nat]
  BY KindFacts DEF PageType, RequestType
<1>5. Honest(r)
  BY DEF Current, AllHonest
<1>6. ASSUME NEW g \in FactsOf(p) \ q.todo
      PROVE  /\ q.floor[g] <= q.got[g] /\ q.got[g] <= rev[g]
             /\ q.start = version[p] => told[p][g] <= q.got[g]
             /\ q.kind = "full" => data["metrics"][g] <= q.got[g]
  <2>1. g \in Facts
    BY <1>4, KindFacts
  <2>2. CASE g = f
    <3>1. q.got[g] = rev[g] /\ rev[g] \in Nat
      BY <1>2, <1>4, <2>1, <2>2 DEF PageType
    <3>2. told[p][g] <= rev[g] /\ data[p][g] <= rev[g]
      BY <1>4 DEF Current, NothingAhead
    <3>3. q.kind = "full" => p = "metrics"
      BY <1>2, KindFacts
    <3>4. q.floor[g] <= rev[g]
      BY <1>2, <1>5 DEF Honest
    <3> QED
      BY <3>1, <3>2, <3>3, <3>4
  <2>3. CASE g # f
    <3>1. q.got[g] = req[r].got[g] /\ g \in FactsOf(p) \ req[r].todo
      BY <1>2, <1>4, <2>1, <2>3
    <3> QED
      BY <1>2, <1>5, <3>1 DEF Honest
  <2> QED
    BY <2>2, <2>3
<1>7. Honest(r)'
  <2>1. q.start <= version[p] /\ \A g \in FactsOf(p) : q.floor[g] <= rev[g]
    BY <1>2, <1>5 DEF Honest
  <2>2. UNCHANGED <<rev, told, data, version>>
    BY DEF cache
  <2> HIDE DEF p
  <2>3. PageOf(req'[r].kind) = p
    BY <1>2, <1>3 DEF p
  <2> QED
    BY <1>2, <1>3, <1>6, <2>1, <2>2, <2>3 DEF Honest
<1> QED
  BY <1>3, <1>7, HonestStep

\* A finished rebuild becomes the page, clean if nothing was announced meanwhile;
\* the rebuilds that go on are not of this page, or do not hold the lock.
LEMMA HonestBuilt ==
    ASSUME PageType, LockMovesOn, Current, NEW r \in Requests, Built(r)
    PROVE  /\ Current'
           /\ \A m \in Models : data["metrics"][m] <= data'["metrics"][m]
<1> DEFINE p == PageOf(req[r].kind)
<1>1. PICK q : q = Answered(r, req[r].got)
  OBVIOUS
<1>2. p \in Pages /\ req[r].kind \in Kinds /\ req[r].got \in [Facts -> Nat]
  BY KindFacts DEF PageType, RequestType
<1>3. /\ q.pc = "done" /\ q.kind = req[r].kind /\ q.floor = req[r].floor
      /\ q.got = req[r].got
  BY <1>1, <1>2, AnsweredFacts
<1>4. /\ req' = [req EXCEPT ![r] = q] /\ UNCHANGED <<rev, told, version>>
      /\ req[r].pc = "building" /\ req[r].todo = {}
  BY <1>1 DEF Built, facts
<1>5. Honest(r)
  BY DEF Current, AllHonest
<1>6. \A f \in FactsOf(p) :
          /\ req[r].floor[f] <= req[r].got[f] /\ req[r].got[f] <= rev[f]
          /\ req[r].start = version[p] => told[p][f] <= req[r].got[f]
          /\ req[r].kind = "full" => data["metrics"][f] <= req[r].got[f]
  BY <1>4, <1>5 DEF Honest
<1>7. CASE req[r].kind = "filtered"
  <2>1. UNCHANGED <<rev, told, cache>>
    BY <1>4, <1>7 DEF Built, cache
  <2>2. \A f \in FactsOf(PageOf(q.kind)) : q.floor[f] <= q.got[f]
    BY <1>3, <1>6
  <2>3. \A m \in Models : data["metrics"][m] \in Nat
    BY DEF PageType, Pages, Facts
  <2>4. Current'
    BY <1>3, <1>4, <2>1, <2>2, HonestAnswer
  <2>5. \A m \in Models : data["metrics"][m] <= data'["metrics"][m]
    BY <2>1, <2>3 DEF cache
  <2> QED
    BY <2>4, <2>5
<1>8. CASE req[r].kind # "filtered"
  <2>1. /\ data' = [data EXCEPT ![p] = req[r].got]
        /\ filled' = filled \cup {p}
        /\ dirty' = [dirty EXCEPT ![p] = DirtyAfter(r, p)]
    BY <1>8 DEF Built
  <2>2. data'[p] = req[r].got /\ \A o \in Pages \ {p} : data'[o] = data[o]
    BY <1>2, <2>1 DEF PageType
  <2>3. /\ dirty'[p] <=> DirtyAfter(r, p)
        /\ \A o \in Pages \ {p} : dirty'[o] <=> dirty[o]
    <3>1. dirty \in [Pages -> BOOLEAN]
      BY DEF PageType
    <3> QED
      BY <1>2, <2>1, <3>1, Zenon
  <2> HIDE DEF p
  <2>4. NothingAhead'
    <3> SUFFICES ASSUME NEW o \in Pages, NEW f \in FactsOf(o)
                 PROVE  told'[o][f] <= rev'[f] /\ data'[o][f] <= rev'[f]
      BY DEF NothingAhead
    <3>1. told[o][f] <= rev[f] /\ data[o][f] <= rev[f]
      BY DEF Current, NothingAhead
    <3>2. CASE o = p
      BY <1>4, <1>6, <2>2, <3>1, <3>2
    <3>3. CASE o # p
      BY <1>4, <2>2, <3>1, <3>3
    <3> QED
      BY <3>2, <3>3
  <2>5. CleanIsCurrent'
    <3> SUFFICES ASSUME NEW o \in Pages, Fresh(o)', NEW f \in FactsOf(o)
                 PROVE  data'[o][f] >= told'[o][f]
      BY DEF CleanIsCurrent
    <3>0. told[o][f] \in Nat /\ req[r].got[f] \in Nat
      BY Numbers
    <3>1. CASE o = p
      <4>1. version[p] = req[r].start
        BY <2>3, <3>1 DEF Fresh, DirtyAfter
      <4>2. told[p][f] <= req[r].got[f]
        BY <1>6, <3>1, <4>1
      <4> QED
        BY <1>4, <2>2, <3>0, <3>1, <4>2
    <3>2. CASE o # p
      <4>1. Fresh(o)
        BY <2>1, <2>3, <3>2 DEF Fresh
      <4> QED
        BY <1>4, <2>2, <3>2, <4>1 DEF Current, CleanIsCurrent
    <3> QED
      BY <3>1, <3>2
  <2>6. AllHonest'
    <3> SUFFICES ASSUME NEW s \in Requests PROVE Honest(s)'
      BY DEF AllHonest
    <3>1. CASE s = r
      <4>1. req'[s] = q
        BY <1>4, <3>1 DEF PageType
      <4>2. q.pc = "done" /\ \A f \in FactsOf(PageOf(q.kind)) : q.floor[f] <= q.got[f]
        BY <1>3, <1>6 DEF p
      <4> QED
        BY <4>1, <4>2 DEF Honest
    <3>2. CASE s # r
      <4>1. req'[s] = req[s]
        BY <1>4, <3>2 DEF PageType
      <4>2. \/ data'["metrics"] = data["metrics"]
            \/ ~(req[s].kind = "full" /\ req[s].pc = "building")
        <5>1. CASE req[r].kind = "full"
          <6>1. HasLock(r)
            BY <1>4, <5>1, BuilderHolds
          <6> QED
            BY <3>2, <6>1, BuilderHolds DEF HasLock
        <5>2. CASE req[r].kind = "providers"
          BY <2>2, <5>2, KindFacts DEF p, Pages
        <5> QED
          BY <1>2, <1>8, <5>1, <5>2 DEF Kinds
      <4>3. Honest(s)
        BY DEF Current, AllHonest
      <4> QED
        BY <1>4, <4>1, <4>2, <4>3 DEF Honest
    <3> QED
      BY <3>1, <3>2
  <2>7. \A m \in Models : data["metrics"][m] <= data'["metrics"][m]
    <3> SUFFICES ASSUME NEW m \in Models PROVE data["metrics"][m] <= data'["metrics"][m]
      OBVIOUS
    <3>1. "metrics" \in Pages /\ data["metrics"][m] \in Nat
      BY DEF PageType, Pages, Facts
    <3>2. CASE req[r].kind = "full"
      BY <1>6, <2>2, <3>2, KindFacts DEF p
    <3>3. CASE req[r].kind = "providers"
      <4>1. p # "metrics"
        BY <3>3, KindFacts DEF p
      <4> QED
        BY <2>2, <3>1, <4>1
    <3> QED
      BY <1>2, <1>8, <3>2, <3>3 DEF Kinds
  <2> QED
    BY <2>4, <2>5, <2>6, <2>7 DEF Current
<1> QED
  BY <1>7, <1>8

LEMMA NextCurrent ==
    ASSUME PageType, LockMovesOn, Current, [Next]_vars
    PROVE  Current' /\ [\A m \in Models : data["metrics"][m] <= data'["metrics"][m]]_data
<1> USE DEF facts, cache
<1>1. CASE FactStep
  BY <1>1, FactsStayCurrent DEF FactStep
<1>2. ASSUME NEW r \in Requests, NEW kind \in Kinds, Arrive(r, kind)
      PROVE  Current' /\ UNCHANGED data
  <2> DEFINE p == PageOf(kind)
             here == [NotYet EXCEPT !.kind = kind, !.floor = told[p]]
  <2>0. /\ p \in Pages /\ told[p] \in [Facts -> Nat] /\ data[p] \in [Facts -> Nat]
        /\ UNCHANGED <<rev, told, cache>>
    BY <1>2, KindFacts DEF PageType, Arrive
  <2>1. \A f \in FactsOf(p) : told[p][f] <= told[p][f]
    BY <2>0, KindFacts
  <2>2. CASE Fresh(p) /\ req' = [req EXCEPT ![r] = [here EXCEPT !.pc = "done", !.got = data[p]]]
    <3>1. PICK q : q = [here EXCEPT !.pc = "done", !.got = data[p]]
      OBVIOUS
    <3>2. q.pc = "done" /\ q.kind = kind /\ q.floor = told[p] /\ q.got = data[p]
      BY <3>1 DEF NotYet
    <3>3. \A f \in FactsOf(p) : told[p][f] <= data[p][f]
      BY <2>0, <2>2, KindFacts DEF Current, CleanIsCurrent
    <3> QED
      BY <2>0, <2>2, <3>1, <3>2, <3>3, HonestAnswer
  <2>3. CASE kind = "full" /\ req' = [req EXCEPT ![r] = [here EXCEPT !.pc = "waiting"]]
    <3>1. PICK q : q = [here EXCEPT !.pc = "waiting"]
      OBVIOUS
    <3>2. q.pc = "waiting" /\ q.kind = "full" /\ q.floor = told[p]
      BY <2>3, <3>1 DEF NotYet
    <3>3. req' = [req EXCEPT ![r] = q] /\ req'[r] = q
      BY <2>3, <3>1 DEF PageType
    <3>4. Honest(r)'
      BY <2>0, <2>1, <2>3, <3>2, <3>3 DEF Honest
    <3> QED
      BY <2>0, <3>3, <3>4, HonestStep
  <2>4. CASE req' = [req EXCEPT ![r] = Building(r, kind, told[p])]
    BY <2>0, <2>1, <2>4, HonestBuilding
  <2>5. UNCHANGED data
    BY <2>0
  <2> QED
    BY <1>2, <2>2, <2>3, <2>4, <2>5, Zenon DEF Arrive
<1>3. ASSUME NEW r \in Requests, Acquire(r) PROVE Current' /\ UNCHANGED data
  <2>1. /\ req[r].floor \in [Facts -> Nat] /\ data["metrics"] \in [Facts -> Nat]
        /\ "full" \in Kinds /\ "metrics" \in Pages
    BY DEF PageType, RequestType, Pages, Kinds
  <2>2. UNCHANGED <<rev, told, cache>> /\ req[r].pc = "waiting"
    BY <1>3 DEF Acquire
  <2>3. /\ req[r].kind = "full"
        /\ \A f \in FactsOf("metrics") : req[r].floor[f] <= told["metrics"][f]
    BY <2>2, KindFacts DEF Current, AllHonest, Honest
  <2>4. CASE req' = [req EXCEPT ![r] = Building(r, "full", req[r].floor)]
    BY <2>1, <2>2, <2>3, <2>4, KindFacts, HonestBuilding
  <2>5. CASE ~StillStale /\ req' = [req EXCEPT ![r] = Answered(r, data["metrics"])]
    <3>1. PICK q : q = Answered(r, data["metrics"])
      OBVIOUS
    <3>2. q.pc = "done" /\ q.kind = "full" /\ q.floor = req[r].floor /\ q.got = data["metrics"]
      BY <2>1, <2>3, <3>1, AnsweredFacts
    <3>3. \A f \in FactsOf("metrics") : q.floor[f] <= q.got[f]
      <4> SUFFICES ASSUME NEW f \in FactsOf("metrics") PROVE q.floor[f] <= q.got[f]
        OBVIOUS
      <4>1. data["metrics"][f] >= told["metrics"][f]
        BY <2>1, <2>5 DEF StillStale, Current, CleanIsCurrent
      <4>2. told["metrics"][f] \in Nat /\ data["metrics"][f] \in Nat /\ req[r].floor[f] \in Nat
        BY <2>1, Numbers
      <4> QED
        BY <2>3, <3>2, <4>1, <4>2
    <3> QED
      BY <2>2, <2>5, <3>1, <3>2, <3>3, KindFacts, HonestAnswer
  <2> QED
    BY <1>3, <2>2, <2>4, <2>5, Zenon DEF Acquire
<1>4. ASSUME NEW r \in Requests, NEW f \in Facts, Read(r, f) PROVE Current' /\ UNCHANGED data
  BY <1>4, HonestRead DEF Read
<1>5. ASSUME NEW r \in Requests, NEW m \in Models, Compute(r, m)
      PROVE  Current' /\ UNCHANGED data
  <2>1. PICK q : q = [req[r] EXCEPT !.calc = [model |-> m, history |-> history[m]]]
    OBVIOUS
  <2>2. history[m] \in Nat
    BY DEF PageType
  <2>3. /\ q.pc = req[r].pc /\ q.kind = req[r].kind /\ q.floor = req[r].floor
        /\ q.start = req[r].start /\ q.todo = req[r].todo /\ q.got = req[r].got
    BY <2>1, <2>2, ComputingFacts
  <2>4. req' = [req EXCEPT ![r] = q] /\ UNCHANGED <<rev, told, cache>>
    BY <1>5, <2>1, Zenon DEF Compute
  <2>5. req'[r] = q
    BY <2>4 DEF PageType
  <2>6. Honest(r)'
    BY <2>3, <2>4, <2>5 DEF Current, AllHonest, Honest
  <2> QED
    BY <2>4, <2>6, HonestStep
<1>6. ASSUME NEW r \in Requests, Computed(r) PROVE Current' /\ UNCHANGED data
  <2>1. req[r].calc.model \in Facts
    BY <1>6 DEF Computed, PageType, RequestType, Facts
  <2>2. req' = [req EXCEPT ![r] = WithFact(r, req[r].calc.model)] /\ UNCHANGED <<rev, told, cache>>
        /\ req[r].pc = "building"
    BY <1>6, Zenon DEF Computed
  <2> QED
    BY <2>1, <2>2, HonestRead
<1>7. ASSUME NEW r \in Requests, BuildFails(r) PROVE Current' /\ UNCHANGED data
  <2>1. PICK q : q = [NotYet EXCEPT !.pc = "failed"]
    OBVIOUS
  <2>2. q.pc = "failed"
    BY <2>1 DEF NotYet
  <2>3. req' = [req EXCEPT ![r] = q] /\ UNCHANGED <<rev, told, cache>>
    BY <1>7, <2>1, Zenon DEF BuildFails
  <2>4. req'[r] = q
    BY <2>3 DEF PageType
  <2>5. Honest(r)'
    BY <2>2, <2>4 DEF Honest
  <2> QED
    BY <2>3, <2>5, HonestStep
<1>8. CASE UNCHANGED vars
  BY <1>8 DEF vars, Current, NothingAhead, AllHonest, Honest, CleanIsCurrent, Fresh
<1> QED
  BY <1>1, <1>2, <1>3, <1>4, <1>5, <1>6, <1>7, <1>8, FactSteps, HonestBuilt DEF Next

LEMMA InitCurrent == Init => Current
<1> SUFFICES ASSUME Init PROVE Current
  OBVIOUS
<1>1. \A p \in Pages : \A f \in FactsOf(p) : rev[f] = 0 /\ told[p][f] = 0 /\ data[p][f] = 0
  BY KindFacts DEF Init, NoRead
<1>2. \A r \in Requests : req[r].pc = "idle"
  BY NotYetType DEF Init
<1>3. filled = {}
  BY DEF Init
<1> QED
  BY <1>1, <1>2, <1>3 DEF Current, NothingAhead, AllHonest, Honest, CleanIsCurrent, Fresh

LEMMA AlwaysCurrent == Spec => [](PageType /\ LockMovesOn /\ Current)
<1>1. Init => PageType /\ LockMovesOn /\ Current
  BY InitPage, InitLock, InitCurrent
<1>2. PageType /\ LockMovesOn /\ Current /\ [Next]_vars => (PageType /\ LockMovesOn /\ Current)'
  BY NextPage, NextLock, NextCurrent
<1> QED
  BY <1>1, <1>2, PTL DEF Spec

\* However rebuilds in threads, changes and invalidations interleave, a page that is
\* not dirty shows every announced change.
THEOREM CleanIsCurrentCorrect == Spec => []CleanIsCurrent
BY AlwaysCurrent, PTL DEF Current

\* An answer shows what was announced before its request, wherever it came from.
THEOREM AnswersAreFreshCorrect == Spec => []AnswersAreFresh
<1>1. PageType /\ Current => AnswersAreFresh
  <2> SUFFICES ASSUME PageType, Current,
                      NEW r \in Requests, req[r].pc = "done", NEW f \in FactsOf(PageOf(req[r].kind))
               PROVE  req[r].got[f] >= req[r].floor[f]
    BY DEF AnswersAreFresh
  <2>1. PageOf(req[r].kind) \in Pages
    BY KindFacts DEF PageType, RequestType
  <2>2. req[r].floor[f] \in Nat /\ req[r].got[f] \in Nat
    BY <2>1, Numbers
  <2>3. req[r].floor[f] <= req[r].got[f]
    BY DEF Current, AllHonest, Honest
  <2> QED
    BY <2>2, <2>3
<1> QED
  BY <1>1, AlwaysCurrent, PTL

\* Rebuilds under the lock never take an entry of the metrics back.
THEOREM MetricsMoveForwardCorrect == Spec => MetricsMoveForward
<1>1. PageType /\ LockMovesOn /\ Current /\ [Next]_vars
        => [\A m \in Models : data["metrics"][m] <= data'["metrics"][m]]_data
  BY NextCurrent
<1> QED
  BY <1>1, AlwaysCurrent, PTL DEF Spec, MetricsMoveForward

-----------------------------------------------------------------------------
(* Connections                                                              *)

Listable == {"open", "leaving", "ended"}

\* A broadcast is for connections that have been listed; of these each is still to
\* be sent to, has been, was found dead, or is not listed and cannot be again.
Accounted ==
    \A b \in Broadcasts :
        /\ \A c \in missable[b] : pc[c] \in Listable
        /\ stage[b] = "sending" => \A c \in missable[b] :
              c \in pending[b] \/ b \in got[c] \/ c \in dead[b]
        /\ stage[b] = "done" => \A c \in missable[b] : b \in got[c] \/ c \notin conns

\* Whoever is in its handshake holds the lock, and there is room for it.
Room ==
    /\ IsFiniteSet(conns)
    /\ ConnectionsBounded
    /\ \A c \in Clients : pc[c] = "accepting" => Holds(c) /\ Cardinality(conns) < top

-----------------------------------------------------------------------------
(* Types                                                                    *)

LEMMA InitType == ConnInit => ConnTypeOK
BY ConnectionsAssumption DEF ConnInit, ConnTypeOK, NotBegun

\* Who has preferences after some are dropped (disconnect).
LEMMA PrefsDomain == \A cs : DOMAIN WithoutPrefs(cs) = DOMAIN prefs \ cs
BY DEF WithoutPrefs

\* Preferences stay a function to BOOLEAN (disconnect, sync_prefs).
LEMMA PrefsType ==
    ASSUME DOMAIN prefs \subseteq Clients /\ prefs \in [DOMAIN prefs -> BOOLEAN], NEW cs
    PROVE  WithoutPrefs(cs) \in [DOMAIN WithoutPrefs(cs) -> BOOLEAN]
BY DEF WithoutPrefs

\* The part of ConnTypeOK that is about preferences, and the rest.
PrefsOK == DOMAIN prefs \subseteq Clients /\ prefs \in [DOMAIN prefs -> BOOLEAN]

RestOK ==
    /\ limit \in Limits /\ top \in Limits /\ limit <= top /\ reloads \in 0 .. MaxReloads
    /\ conns \subseteq Clients
    /\ lock \in Seq(Clients)
    /\ pc \in [Clients -> {"new", "connecting", "accepting", "open", "leaving", "ended"}]
    /\ socket \in [Clients -> {"up", "stalled", "closed"}]
    /\ stage \in [Broadcasts -> {"none", "sending", "done"}]
    /\ pending \in [Broadcasts -> SUBSET Clients] /\ dead \in [Broadcasts -> SUBSET Clients]
    /\ missable \in [Broadcasts -> SUBSET Clients]
    /\ got \in [Clients -> SUBSET Broadcasts]
    /\ closing \in [begun : BOOLEAN, rest : SUBSET Clients]

LEMMA NextRest == RestOK /\ [ConnNext]_connVars => RestOK'
<1> SUFFICES ASSUME RestOK, [ConnNext]_connVars PROVE RestOK'
  OBVIOUS
<1> USE DEF config, manager, broadcast
<1>1. ASSUME NEW c \in Clients, NEW allowed \in BOOLEAN, Open(c, allowed) PROVE RestOK'
  <2>1. lock' \in Seq(Clients)
    <3>1. lock' = lock \/ lock' = Append(lock, c)
      BY <1>1 DEF Open
    <3>2. lock \in Seq(Clients)
      BY DEF RestOK
    <3> QED
      BY <3>1, <3>2
  <2>2. pc' \in [Clients -> {"new", "connecting", "accepting", "open", "leaving", "ended"}]
    BY <1>1 DEF Open, Ends, RestOK
  <2>3. socket' \in [Clients -> {"up", "stalled", "closed"}]
    <3>1. UNCHANGED socket \/ Close(c)
      BY <1>1 DEF Open, Ends
    <3> QED
      BY <3>1 DEF Close, RestOK
  <2> QED
    BY <1>1, <2>1, <2>2, <2>3 DEF Open, RestOK
<1>2. ASSUME NEW c \in Clients, Admit(c) PROVE RestOK'
  <2>1. lock' \in Seq(Clients)
    <3>1. lock' = lock \/ (lock # <<>> /\ lock' = Tail(lock))
      BY <1>2 DEF Admit, KeepLock, Holds
    <3>2. lock \in Seq(Clients)
      BY DEF RestOK
    <3> QED
      BY <3>1, <3>2
  <2>2. pc' \in [Clients -> {"new", "connecting", "accepting", "open", "leaving", "ended"}]
    BY <1>2 DEF Admit, Ends, RestOK
  <2>3. socket' \in [Clients -> {"up", "stalled", "closed"}]
    <3>1. UNCHANGED socket \/ Close(c)
      BY <1>2 DEF Admit, Ends
    <3> QED
      BY <3>1 DEF Close, RestOK
  <2> QED
    BY <1>2, <2>1, <2>2, <2>3 DEF Admit, RestOK
<1>3. ASSUME NEW c \in Clients, Accept(c) PROVE RestOK'
  <2>1. lock' \in Seq(Clients)
    BY <1>3 DEF Accept, FreeLock, Holds, RestOK
  <2> QED
    BY <1>3, <2>1 DEF Accept, Ends, Close, RestOK
<1>4. ASSUME NEW c \in Clients, Oversized(c) \/ Received(c) PROVE RestOK'
  BY <1>4 DEF Oversized, Received, Close, RestOK
<1>5. ASSUME NEW c \in Clients, Leave(c) PROVE RestOK'
  <2>1. conns' = conns \ {c}
    BY <1>5 DEF Leave, Unlist, Disconnect
  <2> QED
    BY <1>5, <2>1 DEF Leave, Ends, Close, RestOK
<1>6. ASSUME NEW c \in Clients, Stall(c) \/ GoAway(c) \/ CloseOne(c) PROVE RestOK'
  BY <1>6 DEF Stall, GoAway, CloseOne, Close, RestOK
<1>7. ASSUME NEW c \in Clients, NEW wants \in BOOLEAN, SetPrefs(c, wants) PROVE RestOK'
  BY <1>7 DEF SetPrefs, RestOK
<1>8. ASSUME NEW b \in Broadcasts, Broadcast(b) PROVE RestOK'
  BY <1>8 DEF Broadcast, RestOK
<1>9. ASSUME NEW b \in Broadcasts, Finish(b) PROVE RestOK'
  <2>1. conns' = conns \ dead[b]
    BY <1>9 DEF Finish, Disconnect
  <2> QED
    BY <1>9, <2>1 DEF Finish, RestOK
<1>10. ASSUME NEW b \in Broadcasts, NEW c \in Clients, Send(b, c) PROVE RestOK'
  BY <1>10 DEF Send, MaySend, FoundDead, RestOK
<1>11. CASE CloseAll
  BY <1>11 DEF CloseAll, RestOK
<1>12. ASSUME NEW new \in Limits, Reload(new) PROVE RestOK'
  BY <1>12, ConnectionsAssumption DEF Reload, RestOK
<1>13. CASE UNCHANGED connVars
  BY <1>13 DEF connVars, RestOK
<1> QED
  BY <1>1, <1>2, <1>3, <1>4, <1>5, <1>6, <1>7, <1>8, <1>9, <1>10, <1>11, <1>12, <1>13
     DEF ConnNext

\* Preferences are set one at a time and dropped for sets of connections.
LEMMA NextPrefs == PrefsOK /\ [ConnNext]_connVars => PrefsOK'
<1> SUFFICES ASSUME PrefsOK, [ConnNext]_connVars PROVE PrefsOK'
  OBVIOUS
<1>1. ASSUME UNCHANGED prefs PROVE PrefsOK'
  BY <1>1 DEF PrefsOK
<1>2. ASSUME NEW cs, prefs' = WithoutPrefs(cs) PROVE PrefsOK'
  BY <1>2, PrefsType, PrefsDomain DEF PrefsOK
<1>3. ASSUME NEW c \in Clients, NEW wants \in BOOLEAN, SetPrefs(c, wants) PROVE PrefsOK'
  BY <1>3 DEF SetPrefs, PrefsOK
<1>4. CASE \/ \E c \in Clients : Leave(c)
           \/ \E b \in Broadcasts : Finish(b)
           \/ CloseAll
  BY <1>2, <1>4, Zenon DEF Leave, Unlist, Finish, Disconnect, CloseAll
<1>5. CASE \/ \E c \in Clients, allowed \in BOOLEAN : Open(c, allowed)
           \/ \E c \in Clients : Admit(c) \/ Accept(c) \/ Oversized(c) \/ Received(c)
           \/ \E c \in Clients : Stall(c) \/ GoAway(c) \/ CloseOne(c)
           \/ \E b \in Broadcasts : Broadcast(b) \/ \E c \in Clients : Send(b, c)
           \/ \E new \in Limits : Reload(new)
           \/ UNCHANGED connVars
  <2>1. UNCHANGED prefs
    BY <1>5 DEF manager, connVars, Open, Admit, Accept, Oversized, Received, Stall, GoAway,
                CloseOne, Broadcast, Send, Reload
  <2> QED
    BY <1>1, <2>1
<1> QED
  BY <1>3, <1>4, <1>5 DEF ConnNext

LEMMA NextType == ConnTypeOK /\ [ConnNext]_connVars => ConnTypeOK'
<1> SUFFICES ASSUME PrefsOK, RestOK, [ConnNext]_connVars PROVE PrefsOK' /\ RestOK'
  BY DEF ConnTypeOK, PrefsOK, RestOK
<1> QED
  BY NextRest, NextPrefs

\* Every variable has its type, for every number of clients and broadcasts.
THEOREM ConnectionsTypeCorrect == ConnSpec => []ConnTypeOK
BY InitType, NextType, PTL DEF ConnSpec

-----------------------------------------------------------------------------
(* Handlers and what they leave                                             *)

\* No step lists a connection, or keeps preferences of one, whose handler is not
\* in the part that ends with unlisting it (connect, disconnect, sync_prefs).
LEMMA NextLeaves == ConnTypeOK /\ NothingLeftBehind /\ [ConnNext]_connVars => NothingLeftBehind'
<1> SUFFICES ASSUME ConnTypeOK, NothingLeftBehind, [ConnNext]_connVars PROVE NothingLeftBehind'
  OBVIOUS
<1> USE DEF config, manager, broadcast
<1>1. ASSUME NEW c \in Clients, NEW allowed \in BOOLEAN, Open(c, allowed)
      PROVE  NothingLeftBehind'
  BY <1>1 DEF Open, Ends, ConnTypeOK, NothingLeftBehind
<1>2. ASSUME NEW c \in Clients, Admit(c) PROVE NothingLeftBehind'
  BY <1>2 DEF Admit, Ends, ConnTypeOK, NothingLeftBehind
<1>3. ASSUME NEW c \in Clients, Accept(c) PROVE NothingLeftBehind'
  BY <1>3 DEF Accept, Ends, ConnTypeOK, NothingLeftBehind
<1>4. ASSUME NEW c \in Clients, Oversized(c) \/ Received(c) PROVE NothingLeftBehind'
  BY <1>4 DEF Oversized, Received, ConnTypeOK, NothingLeftBehind
<1>5. ASSUME NEW c \in Clients, Leave(c) PROVE NothingLeftBehind'
  <2>1. conns' = conns \ {c} /\ DOMAIN prefs' = DOMAIN prefs \ {c}
    BY <1>5, PrefsDomain DEF Leave, Unlist, Disconnect
  <2> QED
    BY <1>5, <2>1 DEF Leave, Ends, ConnTypeOK, NothingLeftBehind
<1>6. ASSUME NEW c \in Clients, Stall(c) \/ GoAway(c) \/ CloseOne(c) PROVE NothingLeftBehind'
  BY <1>6 DEF Stall, GoAway, CloseOne, NothingLeftBehind
<1>7. ASSUME NEW c \in Clients, NEW wants \in BOOLEAN, SetPrefs(c, wants)
      PROVE  NothingLeftBehind'
  BY <1>7 DEF SetPrefs, NothingLeftBehind
<1>8. ASSUME NEW b \in Broadcasts, Finish(b) PROVE NothingLeftBehind'
  BY <1>8, PrefsDomain DEF Finish, Disconnect, NothingLeftBehind
<1>9. CASE CloseAll
  BY <1>9, PrefsDomain DEF CloseAll, NothingLeftBehind
<1>10. CASE \/ \E b \in Broadcasts : Broadcast(b) \/ \E c \in Clients : Send(b, c)
            \/ \E new \in Limits : Reload(new)
            \/ UNCHANGED connVars
  BY <1>10 DEF Broadcast, Send, Reload, connVars, NothingLeftBehind
<1> QED
  BY <1>1, <1>2, <1>3, <1>4, <1>5, <1>6, <1>7, <1>8, <1>9, <1>10 DEF ConnNext

\* When a handler has ended, its connection is not listed and no preferences of it
\* are kept, whichever of the handler, a broadcast and the shutdown unlisted it.
THEOREM NothingLeftBehindCorrect == ConnSpec => []NothingLeftBehind
<1>1. ConnInit => NothingLeftBehind
  BY DEF ConnInit, NothingLeftBehind
<1> QED
  BY <1>1, InitType, NextType, NextLeaves, PTL DEF ConnSpec

-----------------------------------------------------------------------------
(* Broadcasts                                                               *)

LEMMA NextAccounted ==
    ConnTypeOK /\ NothingLeftBehind /\ Accounted /\ [ConnNext]_connVars => Accounted'
<1> SUFFICES ASSUME ConnTypeOK, NothingLeftBehind, Accounted, [ConnNext]_connVars PROVE Accounted'
  OBVIOUS
<1> USE DEF config, manager, broadcast
<1>1. ASSUME NEW c \in Clients, NEW allowed \in BOOLEAN, Open(c, allowed) PROVE Accounted'
  <2>1. /\ UNCHANGED <<stage, missable, pending, got, dead, conns>>
        /\ \A d \in Clients : pc[d] \in Listable => pc'[d] = pc[d]
    BY <1>1 DEF Open, Ends, ConnTypeOK, Listable
  <2> QED
    BY <2>1 DEF Accounted, ConnTypeOK
<1>2. ASSUME NEW c \in Clients, Admit(c) PROVE Accounted'
  <2>1. /\ UNCHANGED <<stage, missable, pending, got, dead, conns>>
        /\ \A d \in Clients : pc[d] \in Listable => pc'[d] = pc[d]
    BY <1>2 DEF Admit, Ends, ConnTypeOK, Listable
  <2> QED
    BY <2>1 DEF Accounted, ConnTypeOK
<1>3. ASSUME NEW c \in Clients, Accept(c) PROVE Accounted'
  <2>1. /\ UNCHANGED <<stage, missable, pending, got, dead>>
        /\ conns' \subseteq conns \cup {c} /\ pc[c] \notin Listable
        /\ \A d \in Clients : pc[d] \in Listable => pc'[d] = pc[d]
    BY <1>3 DEF Accept, Ends, ConnTypeOK, Listable
  <2> QED
    BY <2>1 DEF Accounted, ConnTypeOK
<1>4. ASSUME NEW c \in Clients, Oversized(c) \/ Received(c) \/ Leave(c) PROVE Accounted'
  <2>1. /\ UNCHANGED <<stage, missable, pending, got, dead>>
        /\ conns' \subseteq conns
        /\ \A d \in Clients : pc[d] \in Listable => pc'[d] \in Listable
    BY <1>4 DEF Oversized, Received, Leave, Ends, Unlist, Disconnect, ConnTypeOK, Listable
  <2> QED
    BY <2>1 DEF Accounted, ConnTypeOK
<1>5. ASSUME NEW b \in Broadcasts, Broadcast(b) PROVE Accounted'
  <2>1. UNCHANGED <<dead, got, pc, conns>>
    BY <1>5 DEF Broadcast
  <2>2. \A a \in Broadcasts \ {b} :
            stage'[a] = stage[a] /\ pending'[a] = pending[a] /\ missable'[a] = missable[a]
    BY <1>5 DEF Broadcast, ConnTypeOK
  <2>3. /\ missable'[b] = pending'[b] /\ missable'[b] \subseteq conns
        /\ stage'[b] = "done" => missable'[b] = {}
    BY <1>5 DEF Broadcast, ConnTypeOK
  <2>4. \A c \in missable'[b] : pc'[c] \in Listable
    BY <2>1, <2>3 DEF NothingLeftBehind, Listable
  <2> QED
    BY <2>1, <2>2, <2>3, <2>4 DEF Accounted, ConnTypeOK
<1>6. ASSUME NEW b \in Broadcasts, NEW c \in Clients, Send(b, c) PROVE Accounted'
  <2>1. UNCHANGED <<stage, missable, pc, conns>> /\ stage[b] = "sending"
    BY <1>6 DEF Send
  <2>2. \A a \in Broadcasts \ {b} : pending'[a] = pending[a] /\ dead'[a] = dead[a]
    BY <1>6 DEF Send, FoundDead, ConnTypeOK
  <2>3. \A a \in Broadcasts, d \in Clients : a \in got[d] => a \in got'[d]
    <3>1. got' = got \/ got' = [got EXCEPT ![c] = @ \cup {b}]
      BY <1>6 DEF Send
    <3> QED
      BY <3>1 DEF ConnTypeOK
  <2>4. /\ pending'[b] = pending[b] \ {c} /\ dead[b] \subseteq dead'[b]
        /\ b \in got'[c] \/ c \in dead'[b]
    BY <1>6 DEF Send, FoundDead, ConnTypeOK
  <2> QED
    BY <2>1, <2>2, <2>3, <2>4 DEF Accounted, ConnTypeOK
<1>7. ASSUME NEW b \in Broadcasts, Finish(b) PROVE Accounted'
  <2>1. /\ UNCHANGED <<missable, pc, got, pending, dead>>
        /\ conns' = conns \ dead[b]
        /\ stage[b] = "sending" /\ pending[b] = {}
        /\ \A a \in Broadcasts \ {b} : stage'[a] = stage[a]
        /\ stage'[b] = "done"
    BY <1>7 DEF Finish, Disconnect, ConnTypeOK
  <2> QED
    BY <2>1 DEF Accounted, ConnTypeOK
<1>8. CASE \/ \E c \in Clients : Stall(c) \/ GoAway(c) \/ CloseOne(c)
           \/ \E c \in Clients, wants \in BOOLEAN : SetPrefs(c, wants)
           \/ CloseAll
           \/ \E new \in Limits : Reload(new)
           \/ UNCHANGED connVars
  <2>1. UNCHANGED <<stage, missable, pending, got, dead, pc>> /\ conns' \subseteq conns
    BY <1>8 DEF Stall, GoAway, CloseOne, SetPrefs, CloseAll, Reload, connVars
  <2> QED
    BY <2>1 DEF Accounted
<1> QED
  BY <1>1, <1>2, <1>3, <1>4, <1>5, <1>6, <1>7, <1>8 DEF ConnNext

\* Whoever a broadcast was for has received it when it is done, or is not listed any
\* more, whatever connects, stalls and leaves while it is sent (broadcast).
THEOREM NobodyMissesCorrect == ConnSpec => []NobodyMissesSilently
<1>1. ConnInit => NothingLeftBehind /\ Accounted
  BY DEF ConnInit, NothingLeftBehind, Accounted
<1>2. Accounted => NobodyMissesSilently
  BY DEF Accounted, NobodyMissesSilently
<1> QED
  BY <1>1, <1>2, InitType, NextType, NextLeaves, NextAccounted, PTL DEF ConnSpec

-----------------------------------------------------------------------------
(* The limit                                                                *)

\* Only one client can be in its handshake, and none while another is refused.
LEMMA OneHandshake ==
    ASSUME Room, NEW c \in Clients, NEW d \in Clients, Holds(c), pc[d] = "accepting"
    PROVE  d = c
BY DEF Room, Holds

LEMMA NextRoom == ConnTypeOK /\ Room /\ [ConnNext]_connVars => Room'
<1> SUFFICES ASSUME ConnTypeOK, Room, [ConnNext]_connVars PROVE Room'
  OBVIOUS
<1> USE DEF config, manager, broadcast
<1>0. limit <= top /\ limit \in Nat /\ top \in Nat /\ Cardinality(conns) \in Nat
  BY ConnectionsAssumption, FS_CardinalityType DEF ConnTypeOK, Room
<1>1. ASSUME NEW c \in Clients, NEW allowed \in BOOLEAN, Open(c, allowed) PROVE Room'
  <2>1. UNCHANGED <<conns, top>>
    BY <1>1 DEF Open
  <2>2. \A d \in Clients : pc'[d] = "accepting" => pc[d] = "accepting"
    BY <1>1 DEF Open, Ends, ConnTypeOK
  <2>3. lock # <<>> => lock' # <<>> /\ Head(lock') = Head(lock)
    <3>1. lock' = lock \/ lock' = Append(lock, c)
      BY <1>1 DEF Open
    <3>2. lock \in Seq(Clients)
      BY DEF ConnTypeOK
    <3> QED
      BY <3>1, <3>2
  <2> QED
    BY <2>1, <2>2, <2>3 DEF Room, ConnectionsBounded, Holds
<1>2. ASSUME NEW c \in Clients, Admit(c) PROVE Room'
  <2>1. UNCHANGED <<conns, top>> /\ Holds(c) /\ pc[c] = "connecting"
    BY <1>2 DEF Admit
  <2>2. \A d \in Clients : pc[d] # "accepting"
    BY <2>1, OneHandshake
  <2>3. CASE Cardinality(conns) >= limit /\ Ends(c)
    BY <2>1, <2>2, <2>3 DEF Ends, Room, ConnectionsBounded, ConnTypeOK
  <2>4. CASE /\ Cardinality(conns) < limit
             /\ pc' = [pc EXCEPT ![c] = "accepting"] /\ KeepLock(c)
    <3>1. lock' = lock /\ Cardinality(conns') < top'
      BY <1>0, <2>1, <2>4 DEF KeepLock
    <3>2. \A d \in Clients : pc'[d] = "accepting" => d = c
      BY <2>2, <2>4 DEF ConnTypeOK
    <3> QED
      BY <2>1, <3>1, <3>2 DEF Room, ConnectionsBounded, Holds
  <2> QED
    BY <1>2, <2>3, <2>4 DEF Admit
<1>3. ASSUME NEW c \in Clients, Accept(c) PROVE Room'
  <2>1. pc[c] = "accepting" /\ UNCHANGED top
    BY <1>3 DEF Accept
  <2>2. Holds(c) /\ Cardinality(conns) < top
    BY <2>1 DEF Room
  <2>3. \A d \in Clients : pc'[d] # "accepting"
    BY <1>3, <2>2, OneHandshake DEF Accept, Ends, ConnTypeOK
  <2>4. IsFiniteSet(conns') /\ Cardinality(conns') <= Cardinality(conns) + 1
    <3>1. conns' = conns \/ conns' = conns \cup {c}
      BY <1>3 DEF Accept
    <3> QED
      BY <1>0, <3>1, FS_AddElement DEF Room
  <2>5. Cardinality(conns') \in Nat
    BY <2>4, FS_CardinalityType
  <2> QED
    BY <1>0, <2>1, <2>2, <2>3, <2>4, <2>5 DEF Room, ConnectionsBounded
<1>4. ASSUME conns' \subseteq conns, UNCHANGED <<top, lock>>,
             \A d \in Clients : pc'[d] = "accepting" => pc[d] = "accepting"
      PROVE  Room'
  <2>1. /\ IsFiniteSet(conns') /\ Cardinality(conns') <= Cardinality(conns)
        /\ Cardinality(conns') \in Nat
    <3>1. IsFiniteSet(conns) /\ conns' \in SUBSET conns
      BY <1>4 DEF Room
    <3>2. IsFiniteSet(conns') /\ Cardinality(conns') <= Cardinality(conns)
      BY <3>1, FS_Subset
    <3> QED
      BY <3>2, FS_CardinalityType
  <2> QED
    BY <1>0, <1>4, <2>1 DEF Room, ConnectionsBounded, Holds
<1>5. ASSUME NEW c \in Clients,
             \/ Oversized(c) \/ Received(c) \/ Leave(c)
             \/ Stall(c) \/ GoAway(c) \/ CloseOne(c)
      PROVE  Room'
  <2>1. conns' \subseteq conns /\ UNCHANGED <<top, lock>>
    BY <1>5 DEF Oversized, Received, Leave, Unlist, Disconnect, Stall, GoAway, CloseOne
  <2>2. \A d \in Clients : pc'[d] = "accepting" => pc[d] = "accepting"
    BY <1>5 DEF Oversized, Received, Leave, Ends, Stall, GoAway, CloseOne, ConnTypeOK
  <2> QED
    BY <1>4, <2>1, <2>2
<1>6. CASE \/ \E c \in Clients, wants \in BOOLEAN : SetPrefs(c, wants)
           \/ \E b \in Broadcasts : Broadcast(b) \/ Finish(b)
           \/ \E b \in Broadcasts, c \in Clients : Send(b, c)
           \/ CloseAll
           \/ UNCHANGED connVars
  <2>1. conns' \subseteq conns /\ UNCHANGED <<top, lock, pc>>
    BY <1>6 DEF SetPrefs, Broadcast, Finish, Disconnect, Send, CloseAll, connVars
  <2> QED
    BY <1>4, <2>1
<1>7. ASSUME NEW new \in Limits, Reload(new) PROVE Room'
  <2>1. UNCHANGED <<conns, lock, pc>> /\ top <= top' /\ top' \in Nat
    BY <1>0, <1>7, ConnectionsAssumption DEF Reload
  <2> QED
    BY <1>0, <2>1 DEF Room, ConnectionsBounded, Holds
<1> QED
  BY <1>1, <1>2, <1>3, <1>5, <1>6, <1>7 DEF ConnNext

\* The limit holds although the handshake between looking at the number of
\* connections and adding one suspends connect: the lock is kept meanwhile.
THEOREM ConnectionsBoundedCorrect == ConnSpec => []ConnectionsBounded
<1>1. ConnInit => Room
  <2> SUFFICES ASSUME ConnInit PROVE Room
    OBVIOUS
  <2>1. conns = {} /\ top \in Nat /\ \A c \in Clients : pc[c] = "new"
    BY ConnectionsAssumption DEF ConnInit
  <2> QED
    BY <2>1, FS_EmptySet DEF Room, ConnectionsBounded
<1>2. Room => ConnectionsBounded
  BY DEF Room
<1> QED
  BY <1>1, <1>2, InitType, NextType, NextRoom, PTL DEF ConnSpec
=============================================================================
