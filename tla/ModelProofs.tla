------------------------------ MODULE ModelProofs ------------------------------
(***************************************************************************)
(* Proofs about ModelInfo, for any models, providers, answers, reloads,    *)
(* probes and restarts: what is shown of a model is stored, and a stored   *)
(* fact is only replaced by one of its own sources.                        *)
(***************************************************************************)
EXTENDS ModelInfo, FiniteSetTheorems, SequenceTheorems, WellFoundedInduction, TLAPS

Ats == {"off", "ask", "write", "hub", "fill", "share", "borrow", "probe"}

\* A task has the fields of a task.
TaskShape(k) ==
    /\ DOMAIN k = {"at", "entries", "done", "got", "live", "best", "write", "stored"}
    /\ k.at \in Ats
    /\ k.stored \in BOOLEAN

Loops == {"write", "fill", "share", "borrow"}

Shape ==
    /\ registry \subseteq Models /\ dropped \subseteq Models
    /\ db = [m \in Models |-> db[m]] /\ mem = [m \in Models |-> mem[m]]
    /\ task = [t \in Tasks |-> task[t]]
    /\ \A t \in Tasks : TaskShape(task[t])
    /\ task["probe"].at \in {"off", "probe"}
    /\ DOMAIN reload = {"pc", "added"}

\* The models there have been since the process started: tasks and reloads deal
\* with these only.
Listed == registry \cup dropped

Addressed ==
    /\ reload.added \subseteq Listed
    /\ \A t \in Tasks :
          /\ task[t].entries \subseteq Listed
          /\ task[t].write = NoWrite \/ task[t].write.model \in Listed
          /\ task[t].stored => task[t].write # NoWrite
          /\ t # "probe" /\ task[t].write # NoWrite => task[t].at \in Loops

\* What a task has stored and memory does not show yet is in the row, unless the
\* model was removed; of a model that was never there nothing is shown.
Backed ==
    /\ NothingShownIsLost
    /\ \A t \in Tasks :
          task[t].stored /\ task[t].write.model \notin dropped =>
              DOMAIN task[t].write.info \subseteq DOMAIN db[task[t].write.model]
    /\ \A m \in Models \ Listed : DOMAIN mem[m] = {}

IInv == Shape /\ Addressed /\ Backed

\* What overwrites comes from a source of the model itself.
Owned(m, info) == \A f \in DOMAIN info : info[f] \in OwnValues(m, f)

Sourced ==
    /\ \A t \in Tasks :
          /\ task[t].write.over => Owned(task[t].write.model, task[t].write.info)
          /\ task[t].at = "write" => \A m \in Models : Owned(m, task[t].got[m])
    /\ \A w \in orphan : w.over => Owned(w.model, w.info)

-----------------------------------------------------------------------------
(* Lemmas about the loops of a fetch                                        *)

\* A least number of a set of naturals.
LEMMA LeastNumber ==
    ASSUME NEW T, T \subseteq Nat, T # {}
    PROVE  \E n \in T : \A k \in T : n <= k
<1> DEFINE R == OpToRel(<, Nat)
<1>1. IsWellFoundedOn(R, Nat)
  BY NatLessThanWellFounded
<1>2. \A k, n \in Nat : k < n => <<k, n>> \in R
  BY DEF OpToRel
<1> HIDE DEF R
<1>3. PICK n \in T : \A k \in T : ~(<<k, n>> \in R)
  BY <1>1, WFMin
<1>4. \A k \in T : k \in Nat /\ n \in Nat /\ ~(k < n)
  BY <1>2, <1>3
<1>5. \A k \in T : n <= k
  BY <1>4
<1> QED
  BY <1>5

\* Every model has its place in models.yaml.
LEMMA PositionFacts ==
    ASSUME NEW m \in Models
    PROVE  Position(m) \in 1 .. Len(Order) /\ Position(m) \in Nat /\ Order[Position(m)] = m
<1>1. PICK i \in 1 .. Len(Order) : Order[i] = m
  BY DEF Models
<1>2. Position(m) \in 1 .. Len(Order) /\ Order[Position(m)] = m
  BY <1>1 DEF Position
<1>3. Len(Order) \in Nat
  BY ModelInfoAssumption
<1> QED
  BY <1>2, <1>3

LEMMA InOrderFacts ==
    ASSUME NEW M, M \subseteq Models, M # {}
    PROVE  InOrder(M) \in M
<1>1. {Position(m) : m \in M} \subseteq Nat /\ {Position(m) : m \in M} # {}
  BY PositionFacts
<1>2. PICK p \in {Position(m) : m \in M} : \A q \in {Position(m) : m \in M} : p <= q
  BY <1>1, LeastNumber
<1>3. \E m \in M : \A n \in M : Position(m) <= Position(n)
  BY <1>2
<1> QED
  BY <1>3 DEF InOrder

LEMMA TurnType ==
    ASSUME NEW loop, NEW m \in Models
    PROVE  Turn(loop, m) \in Nat
<1>1. Position(m) \in Nat
  BY PositionFacts
<1>2. InOrder({n \in Models : Base[n] = Base[m]}) \in Models
  BY InOrderFacts
<1>3. Position(InOrder({n \in Models : Base[n] = Base[m]})) \in Nat
  BY <1>2, PositionFacts
<1>4. Len(Order) \in Nat
  BY ModelInfoAssumption
<1>5. \A a, b, c \in Nat : a * b + c \in Nat
  OBVIOUS
<1> QED
  BY <1>1, <1>3, <1>4, <1>5 DEF Turn

LEMMA FirstTurn ==
    ASSUME NEW loop, NEW M, M \subseteq Models, M # {}
    PROVE  \E m \in M : \A n \in M : Turn(loop, m) <= Turn(loop, n)
<1>1. {Turn(loop, m) : m \in M} \subseteq Nat /\ {Turn(loop, m) : m \in M} # {}
  BY TurnType
<1>2. PICK p \in {Turn(loop, m) : m \in M} : \A q \in {Turn(loop, m) : m \in M} : p <= q
  BY <1>1, LeastNumber
<1> QED
  BY <1>2

LEMMA RestFacts ==
    ASSUME NEW at \in Loops
    PROVE  /\ Len(Rest[at]) \in Nat
           /\ \A i \in 1 .. Len(Rest[at]) : Rest[at][i] \in Loops
           /\ \A i \in 1 .. Len(Rest[at]) : Rest[at][i] = "write" <=> at = "write"
<1> USE DEF Loops
<1>1. CASE at = "write"
  BY <1>1 DEF Rest
<1>2. CASE at = "fill"
  <2>1. Rest[at] = <<"fill", "share", "borrow">>
    BY <1>2 DEF Rest
  <2>2. \A i \in 1 .. 3 : i = 1 \/ i = 2 \/ i = 3
    OBVIOUS
  <2> QED
    BY <1>2, <2>1, <2>2
<1>3. CASE at = "share"
  <2>1. Rest[at] = <<"share", "borrow">>
    BY <1>3 DEF Rest
  <2>2. \A i \in 1 .. 2 : i = 1 \/ i = 2
    OBVIOUS
  <2> QED
    BY <1>3, <2>1, <2>2
<1>4. CASE at = "borrow"
  BY <1>4 DEF Rest
<1> QED
  BY <1>1, <1>2, <1>3, <1>4

\* Where a fetch goes after an await: its next write is for a model it deals with or
\* that is configured, and overwrites only with what a provider said.
Goes(q, k) ==
    /\ TaskShape(q) /\ ~q.stored
    /\ q.entries \subseteq k.entries \cup registry
    /\ q.write # NoWrite => q.write.model \in k.entries \cup registry /\ q.at \in Loops
    /\ q.write.over => k.at = "write" /\ q.write.info = k.got[q.write.model]
    /\ q.at = "write" => k.at = "write" /\ q.got = k.got

LEMMA OffFacts ==
    /\ TaskShape(Off) /\ ~Off.stored /\ Off.entries = {} /\ Off.write = NoWrite /\ Off.at = "off"
    /\ TaskShape(Fetching) /\ ~Fetching.stored /\ Fetching.entries = {}
    /\ Fetching.write = NoWrite /\ Fetching.at = "ask"
    /\ ~NoWrite.over
<1>1. ~NoWrite.over
  BY DEF NoWrite
<1>2. /\ TaskShape(Off) /\ ~Off.stored /\ Off.entries = {} /\ Off.write = NoWrite
      /\ Off.at = "off"
  BY DEF Off, TaskShape, Ats
<1>3. /\ TaskShape(Fetching) /\ ~Fetching.stored /\ Fetching.entries = {}
      /\ Fetching.write = NoWrite /\ Fetching.at = "ask"
  BY <1>2 DEF Fetching, TaskShape, Ats
<1> QED
  BY <1>1, <1>2, <1>3

LEMMA AskHubFacts ==
    ASSUME NEW t, NEW k, NEW known
    PROVE  Goes(AskHub(t, k, known), k) /\ AskHub(t, k, known).write = NoWrite
<1> DEFINE q == AskHub(t, k, known)
<1>1. /\ TaskShape(q) /\ ~q.stored /\ q.write = NoWrite /\ q.at = "hub"
      /\ q.entries = IF t = "all" THEN registry ELSE k.entries
  BY OffFacts DEF AskHub, TaskShape, Ats
<1> QED
  BY <1>1, OffFacts DEF Goes

LEMMA GroupedFacts ==
    ASSUME NEW t, NEW k, TaskShape(k)
    PROVE  /\ TaskShape(Grouped(t, k))
           /\ Grouped(t, k).entries \subseteq k.entries \cup registry
           /\ k.at # "fill" => Grouped(t, k) = k
<1>1. CASE k.at # "fill"
  BY <1>1 DEF Grouped
<1>2. CASE k.at = "fill"
  <2>1. /\ TaskShape(Grouped(t, k))
        /\ Grouped(t, k).entries = IF t = "all" THEN registry ELSE k.entries
    BY <1>2, OffFacts DEF Grouped, TaskShape, Ats
  <2> QED
    BY <1>2, <2>1
<1> QED
  BY <1>1, <1>2

LEMMA ProceedFacts ==
    ASSUME NEW t \in Tasks, NEW k, TaskShape(k), k.at \in Loops,
           k.entries \subseteq Models, registry \subseteq Models, NEW known
    PROVE  Goes(Proceed(t, k, known), k)
<1> DEFINE loops   == Rest[k.at]
           as(i)   == IF loops[i] = "fill" THEN k ELSE Grouped(t, k)
           left(i) == Pending(t, as(i), loops[i], IF i = 1 THEN k.done ELSE 0, known)
           open    == {i \in 1..Len(loops) : left(i) # {}}
           first   == CHOOSE i \in open : \A j \in open : i <= j
           loop    == loops[first]
           next    == CHOOSE m \in left(first) :
                          \A n \in left(first) : Turn(loop, m) <= Turn(loop, n)
           source  == IF loop = "share" THEN Source(as(first), Base[next], known) ELSE NoBest
           write   == [model |-> next, info |-> Put(t, as(first), loop, next, known),
                       over |-> loop = "write"]
           step    == [as(first) EXCEPT !.at = loop, !.done = Turn(loop, next), !.best = source,
                                        !.write = write, !.stored = FALSE]
<1>1. Proceed(t, k, known) =
        IF open = {} THEN IF k.at = "write" THEN AskHub(t, k, known) ELSE Off ELSE step
  BY DEF Proceed
<1>2. CASE open = {} /\ k.at = "write"
  BY <1>1, <1>2, AskHubFacts
<1>3. CASE open = {} /\ k.at # "write"
  BY <1>1, <1>3, OffFacts DEF Goes
<1>4. CASE open # {}
  <2>1. first \in open
    <3>1. open \subseteq Nat
      BY RestFacts
    <3>2. \E i \in open : \A j \in open : i <= j
      BY <1>4, <3>1, LeastNumber
    <3> QED
      BY <3>2
  <2>2. loop \in Loops /\ (loop = "write" <=> k.at = "write")
    BY <2>1, RestFacts
  <2>3. /\ TaskShape(as(first)) /\ as(first).entries \subseteq k.entries \cup registry
        /\ loop = "write" => as(first) = k
    BY <2>2, GroupedFacts
  <2>4. left(first) \subseteq as(first).entries \cup registry /\ left(first) # {}
    BY <2>1 DEF Pending
  <2>5. next \in left(first)
    <3>1. left(first) \subseteq Models
      BY <2>3, <2>4
    <3> HIDE DEF left, first, loop
    <3>2. \E m \in left(first) : \A n \in left(first) : Turn(loop, m) <= Turn(loop, n)
      BY <2>4, <3>1, FirstTurn
    <3> QED
      BY <3>2
  <2>6. loop = "write" => write.info = k.got[next]
    <3>1. Put(t, as(first), loop, next, known) # Nothing
      BY <2>5 DEF Pending
    <3>2. loop = "write" => Put(t, as(first), loop, next, known) = ToWrite(t, k, next, known)
      BY <2>3 DEF Put
    <3> QED
      BY <3>1, <3>2 DEF ToWrite
  <2>7. /\ TaskShape(step) /\ ~step.stored /\ step.at = loop /\ step.write = write
        /\ step.entries = as(first).entries /\ step.got = as(first).got
    <3> HIDE DEF as, loop, write, source, next, first
    <3> QED
      BY <2>2, <2>3 DEF TaskShape, Ats, Loops
  <2>8. next \in k.entries \cup registry
    BY <2>3, <2>4, <2>5
  <2>9. Proceed(t, k, known) = step
    BY <1>1, <1>4
  <2>10. step.write.model = next /\ (step.write.over <=> loop = "write")
         /\ step.write.info = write.info
    <3> HIDE DEF step, next, as, loop, first
    <3>1. write.model = next /\ (write.over <=> loop = "write")
      OBVIOUS
    <3>2. step.write = write
      BY <2>7
    <3> HIDE DEF write
    <3> QED
      BY <3>1, <3>2
  <2>11. Goes(step, k)
    <3> HIDE DEF step, next, as, loop, first, write
    <3> QED
      BY <2>2, <2>3, <2>6, <2>7, <2>8, <2>10 DEF Goes
  <2> HIDE DEF step
  <2> QED
    BY <2>9, <2>11
<1> QED
  BY <1>2, <1>3, <1>4

-----------------------------------------------------------------------------
(* Where the tasks stand                                                    *)

Placed == Shape /\ Addressed

\* A task of which only the fields of task[t] change.
LEMMA TaskStep ==
    ASSUME Placed, NEW t \in Tasks, NEW q, task' = [task EXCEPT ![t] = q],
           TaskShape(q), q.entries \subseteq Listed,
           q.write = NoWrite \/ q.write.model \in Listed,
           q.stored => q.write # NoWrite,
           t = "probe" => q.at \in {"off", "probe"},
           t # "probe" /\ q.write # NoWrite => q.at \in Loops,
           Listed \subseteq Listed', registry' \subseteq Models, dropped' \subseteq Models,
           db' = [m \in Models |-> db'[m]], mem' = [m \in Models |-> mem'[m]],
           DOMAIN reload' = {"pc", "added"}, reload'.added \subseteq Listed'
    PROVE  Placed'
<1>1. \A u \in Tasks : task'[u] = IF u = t THEN q ELSE task[u]
  BY DEF Placed, Shape
<1>2. task' = [u \in Tasks |-> task'[u]]
  BY DEF Placed, Shape
<1>3. "probe" \in Tasks
  BY DEF Tasks
<1>4. Shape'
  BY <1>1, <1>2, <1>3 DEF Placed, Shape
<1>5. Addressed'
  BY <1>1 DEF Placed, Addressed
<1> QED
  BY <1>4, <1>5 DEF Placed

\* What a task becomes that goes on.
LEMMA GoesStep ==
    ASSUME Placed, NEW t \in Tasks \ {"probe"}, NEW k, NEW known,
           TaskShape(k), k.at \in Loops, k.entries \subseteq Listed,
           task' = [task EXCEPT ![t] = Proceed(t, k, known)],
           UNCHANGED <<registry, db, reload, dropped>>,
           mem' = [m \in Models |-> mem'[m]]
    PROVE  Placed'
<1>1. k.entries \subseteq Models /\ registry \subseteq Models
  BY DEF Placed, Shape, Listed
<1>2. Goes(Proceed(t, k, known), k)
  BY <1>1, ProceedFacts
<1>3. /\ Listed' = Listed /\ registry \subseteq Listed
      /\ registry' \subseteq Models /\ dropped' \subseteq Models
      /\ db' = [m \in Models |-> db'[m]]
      /\ DOMAIN reload' = {"pc", "added"} /\ reload'.added \subseteq Listed'
  BY DEF Placed, Shape, Addressed, Listed
<1> DEFINE q == Proceed(t, k, known)
<1>4. /\ TaskShape(q) /\ q.entries \subseteq Listed
      /\ q.write = NoWrite \/ q.write.model \in Listed
      /\ q.stored => q.write # NoWrite
      /\ q.write # NoWrite => q.at \in Loops
  BY <1>2, <1>3 DEF Goes
<1>5. task' = [task EXCEPT ![t] = q] /\ Listed \subseteq Listed'
  BY <1>3
<1> HIDE DEF q
<1> QED
  BY <1>3, <1>4, <1>5, TaskStep

LEMMA AnswersPlaced ==
    ASSUME Placed, NEW t \in Tasks, Answers(t)
    PROVE  Placed'
<1> DEFINE k == task[t]
<1>1. PICK got : task' = [task EXCEPT ![t] = Proceed(t, [k EXCEPT !.at = "write", !.got = got], mem)]
  BY DEF Answers, Become
<1> DEFINE j == [k EXCEPT !.at = "write", !.got = got]
<1>2. TaskShape(j) /\ j.at \in Loops /\ j.entries \subseteq Listed
  BY DEF Placed, Shape, Addressed, TaskShape, Loops, Ats
<1>3. t # "probe"
  BY DEF Answers, Placed, Shape
<1>4. UNCHANGED <<registry, db, reload, dropped>> /\ mem' = [m \in Models |-> mem'[m]]
  BY DEF Answers, Placed, Shape
<1> HIDE DEF j
<1> QED
  BY <1>1, <1>2, <1>3, <1>4, GoesStep DEF j

LEMMA HubAnswersPlaced ==
    ASSUME Placed, NEW t \in Tasks, HubAnswers(t)
    PROVE  Placed'
<1> DEFINE k == task[t]
<1>1. PICK got : task' = [task EXCEPT ![t] = Proceed(t, [k EXCEPT !.at = "fill", !.got = got], mem)]
  BY DEF HubAnswers, Become
<1> DEFINE j == [k EXCEPT !.at = "fill", !.got = got]
<1>2. TaskShape(j) /\ j.at \in Loops /\ j.entries \subseteq Listed
  BY DEF Placed, Shape, Addressed, TaskShape, Loops, Ats
<1>3. t # "probe"
  BY DEF HubAnswers, Placed, Shape
<1>4. UNCHANGED <<registry, db, reload, dropped>> /\ mem' = [m \in Models |-> mem'[m]]
  BY DEF HubAnswers, Placed, Shape
<1> HIDE DEF j
<1> QED
  BY <1>1, <1>2, <1>3, <1>4, GoesStep DEF j

LEMMA CommitPlaced ==
    ASSUME Placed, NEW t \in Tasks, Commit(t)
    PROVE  Placed'
<1> DEFINE q == [task[t] EXCEPT !.stored = TRUE]
<1>1. task' = [task EXCEPT ![t] = q]
  BY DEF Commit
<1>2. /\ TaskShape(q) /\ q.entries = task[t].entries /\ q.write = task[t].write
      /\ q.at = task[t].at /\ q.write # NoWrite
  BY DEF Placed, Shape, TaskShape, Commit
<1>3. /\ UNCHANGED <<registry, mem, reload, dropped>> /\ db' = [m \in Models |-> db'[m]]
  BY DEF Commit, Placed, Shape
<1> HIDE DEF q
<1> QED
  BY <1>1, <1>2, <1>3, TaskStep DEF Placed, Shape, Addressed, Listed

LEMMA ResumePlaced ==
    ASSUME Placed, NEW t \in Tasks, Resume(t)
    PROVE  Placed'
<1> DEFINE k == task[t]
<1>1. PICK known : /\ mem' = known
                   /\ task' = [task EXCEPT ![t] = IF t = "probe" THEN Off
                              ELSE Proceed(t, [k EXCEPT !.write = NoWrite, !.stored = FALSE], known)]
  BY DEF Resume, Become
<1>2. UNCHANGED <<registry, db, reload, dropped>> /\ mem' = [m \in Models |-> mem'[m]]
  BY DEF Resume, Placed, Shape
<1>3. CASE t = "probe"
  BY <1>1, <1>2, <1>3, OffFacts, TaskStep DEF Placed, Shape, Addressed, Listed
<1>4. CASE t # "probe"
  <2> DEFINE j == [k EXCEPT !.write = NoWrite, !.stored = FALSE]
  <2>1. TaskShape(j) /\ j.at \in Loops /\ j.entries \subseteq Listed
    BY <1>4 DEF Resume, Placed, Shape, Addressed, TaskShape
  <2>2. task' = [task EXCEPT ![t] = Proceed(t, j, known)]
    BY <1>1, <1>4
  <2> HIDE DEF j
  <2> QED
    BY <1>2, <1>4, <2>1, <2>2, GoesStep
<1> QED
  BY <1>3, <1>4


\* Steps that leave the tasks alone.
LEMMA SamePlaced ==
    ASSUME Placed, UNCHANGED task,
           Listed \subseteq Listed', registry' \subseteq Models, dropped' \subseteq Models,
           db' = [m \in Models |-> db'[m]], mem' = [m \in Models |-> mem'[m]],
           DOMAIN reload' = {"pc", "added"}, reload'.added \subseteq Listed'
    PROVE  Placed'
<1>1. Shape'
  BY DEF Placed, Shape
<1>2. Addressed'
  BY DEF Placed, Addressed
<1> QED
  BY <1>1, <1>2 DEF Placed

LEMMA ReloadBeginsPlaced ==
    ASSUME Placed, NEW models \in Reloads, ReloadBegins(models)
    PROVE  Placed'
<1>1. models \subseteq Models
  BY ModelInfoAssumption
<1>2. /\ registry' = models /\ dropped' = dropped \cup (registry \ models)
      /\ reload' = [pc |-> "purge", added |-> models \ registry]
      /\ UNCHANGED <<db, mem, task>>
  BY DEF ReloadBegins
<1>3. /\ registry \subseteq Models /\ dropped \subseteq Models
      /\ db = [m \in Models |-> db[m]] /\ mem = [m \in Models |-> mem[m]]
  BY DEF Placed, Shape
<1> QED
  BY <1>1, <1>2, <1>3, SamePlaced DEF Listed

LEMMA ReloadPlaced ==
    ASSUME Placed, ReloadPurges \/ ReloadSyncs
    PROVE  Placed'
<1>1. /\ UNCHANGED <<registry, mem, task, dropped>>
      /\ db' = [m \in Models |-> db'[m]]
  BY DEF ReloadPurges, ReloadSyncs, Purged, Synced
<1>2. DOMAIN reload' = {"pc", "added"} /\ reload'.added = reload.added
  BY DEF Placed, Shape, ReloadPurges, ReloadSyncs
<1> QED
  BY <1>1, <1>2, SamePlaced DEF Placed, Shape, Addressed, Listed

LEMMA FetchesNewPlaced ==
    ASSUME Placed, ReloadFetchesNew
    PROVE  Placed'
<1>1. UNCHANGED <<registry, db, mem, dropped>> /\ reload' = [reload EXCEPT !.pc = "all"]
  BY DEF ReloadFetchesNew
<1>2. /\ DOMAIN reload' = {"pc", "added"} /\ reload'.added = reload.added
      /\ reload.added \subseteq Listed
  BY <1>1 DEF Placed, Shape, Addressed
<1>3. CASE reload.added = {}
  BY <1>1, <1>2, <1>3, SamePlaced DEF ReloadFetchesNew, Placed, Shape, Listed
<1>4. CASE reload.added # {}
  <2> DEFINE added == reload.added
             k == [Off EXCEPT !.entries = added, !.live = Unknown(added)]
             q == IF k.live = {} THEN AskHub("new", k, mem) ELSE [k EXCEPT !.at = "ask"]
  <2>1. task' = [task EXCEPT !["new"] = q]
    BY <1>4 DEF ReloadFetchesNew, StartNew, Become
  <2>2. TaskShape(k) /\ k.entries = added /\ k.write = NoWrite /\ ~k.stored
    BY OffFacts DEF TaskShape
  <2>3. TaskShape(q) /\ q.entries = added /\ q.write = NoWrite /\ ~q.stored
    <3>1. CASE k.live = {}
      <4>1. /\ TaskShape(AskHub("new", k, mem)) /\ ~AskHub("new", k, mem).stored
            /\ AskHub("new", k, mem).write = NoWrite
        BY AskHubFacts DEF Goes
      <4>2. AskHub("new", k, mem).entries = added
        <5> HIDE DEF k
        <5> QED
          BY <2>2, OffFacts DEF AskHub, TaskShape
      <4> QED
        BY <3>1, <4>1, <4>2
    <3>2. CASE k.live # {}
      <4> HIDE DEF k
      <4> QED
        BY <2>2, <3>2 DEF TaskShape, Ats
    <3> QED
      BY <3>1, <3>2
  <2>4. "new" \in Tasks
    BY DEF Tasks
  <2> HIDE DEF q, k
  <2> QED
    BY <1>1, <1>2, <2>1, <2>3, <2>4, TaskStep DEF Placed, Shape, Listed
<1> QED
  BY <1>3, <1>4

LEMMA FetchesAllPlaced ==
    ASSUME Placed, ReloadFetchesAll
    PROVE  Placed'
<1>1. /\ UNCHANGED <<registry, db, mem, dropped>> /\ reload' = NoReload
      /\ task' = [task EXCEPT !["all"] = Fetching]
  BY DEF ReloadFetchesAll, StartAll, Become
<1>2. DOMAIN reload' = {"pc", "added"} /\ reload'.added = {} /\ "all" \in Tasks
  BY <1>1 DEF NoReload, Tasks
<1> QED
  BY <1>1, <1>2, OffFacts, TaskStep DEF Placed, Shape, Listed

LEMMA ProbedPlaced ==
    ASSUME Placed, NEW m \in registry, NEW info, Probed(m, info)
    PROVE  Placed'
<1> DEFINE q == [Off EXCEPT !.at = "probe", !.write = [model |-> m, info |-> info, over |-> TRUE]]
<1>1. /\ UNCHANGED <<registry, db, mem, reload, dropped>> /\ "probe" \in Tasks
      /\ task' = [task EXCEPT !["probe"] = q]
  BY DEF Probed, Become, Tasks
<1>2. /\ TaskShape(q) /\ q.at = "probe" /\ q.entries = {} /\ ~q.stored
      /\ q.write = [model |-> m, info |-> info, over |-> TRUE]
  BY OffFacts DEF TaskShape, Ats
<1>3. q.write.model = m /\ m \in Listed
  BY <1>2 DEF Listed
<1> HIDE DEF q
<1> QED
  BY <1>1, <1>2, <1>3, TaskStep DEF Placed, Shape, Addressed, Listed

LEMMA StartedPlaced ==
    ASSUME registry' \subseteq Models, dropped' = {}, reload' = NoReload, task' = Started,
           db' = [m \in Models |-> db'[m]], mem' = [m \in Models |-> mem'[m]]
    PROVE  Placed'
<1>1. \A t \in Tasks : task'[t] \in {Fetching, Off}
  BY DEF Started, Tasks
<1>2. task' = [t \in Tasks |-> task'[t]] /\ task'["probe"] = Off
  BY DEF Started, Tasks
<1>3. Shape'
  BY <1>1, <1>2, OffFacts DEF Shape, NoReload
<1>4. Addressed'
  BY <1>1, OffFacts DEF Addressed, NoReload
<1> QED
  BY <1>3, <1>4 DEF Placed


LEMMA TablesTyped ==
    /\ \A tbl : Purged(tbl) = [m \in Models |-> Purged(tbl)[m]]
    /\ \A tbl : Synced(tbl) = [m \in Models |-> Synced(tbl)[m]]
BY DEF Purged, Synced

LEMMA InitPlaced == Init => Placed
<1> SUFFICES ASSUME Init PROVE Placed
  OBVIOUS
<1>1. \A t \in Tasks : task[t] \in {Fetching, Off}
  BY DEF Init, Started, Tasks
<1>2. task = [t \in Tasks |-> task[t]] /\ task["probe"] = Off
  BY DEF Init, Started, Tasks
<1>3. registry \subseteq Models
  BY ModelInfoAssumption DEF Init
<1>4. Shape
  BY <1>1, <1>2, <1>3, OffFacts, TablesTyped DEF Shape, NoReload, Init
<1>5. Addressed
  BY <1>1, OffFacts DEF Addressed, NoReload, Init
<1> QED
  BY <1>4, <1>5 DEF Placed

LEMMA NextPlaced == Placed /\ [Next]_vars => Placed'
<1> SUFFICES ASSUME Placed, [Next]_vars PROVE Placed'
  OBVIOUS
<1>1. ASSUME NEW t \in Tasks, FetchStep(t) PROVE Placed'
  BY <1>1, AnswersPlaced, HubAnswersPlaced, CommitPlaced, ResumePlaced DEF FetchStep
<1>2. ASSUME NEW m \in registry, NEW info \in ProbeInfos[m], Probed(m, info) PROVE Placed'
  BY <1>2, ProbedPlaced
<1>3. ASSUME NEW w \in orphan, OrphanCommits(w) PROVE Placed'
  <2>1. /\ UNCHANGED <<registry, mem, task, reload, dropped>>
        /\ db' = [m \in Models |-> db'[m]]
    BY <1>3 DEF OrphanCommits, Placed, Shape
  <2> QED
    BY <2>1, SamePlaced DEF Placed, Shape, Addressed, Listed
<1>4. ASSUME NEW models \in Reloads, ReloadBegins(models) PROVE Placed'
  BY <1>4, ReloadBeginsPlaced
<1>5. ASSUME ReloadStep PROVE Placed'
  BY <1>5, ReloadPlaced, FetchesNewPlaced, FetchesAllPlaced DEF ReloadStep
<1>6. ASSUME Restart PROVE Placed'
  <2>1. /\ registry' \subseteq Models /\ dropped' = {} /\ reload' = NoReload
        /\ task' = Started /\ db' = Synced(Purged(db)) /\ mem' = Synced(Purged(db))
    BY <1>6 DEF Restart, Placed, Shape
  <2> QED
    BY <2>1, TablesTyped, StartedPlaced
<1>7. CASE UNCHANGED vars
  BY <1>7 DEF vars, Placed, Shape, Addressed, Listed
<1> QED
  BY <1>1, <1>2, <1>3, <1>4, <1>5, <1>6, <1>7 DEF Next

-----------------------------------------------------------------------------
(* What is shown is stored                                                  *)

LEMMA AboveFacts ==
    ASSUME NEW a, NEW b
    PROVE  /\ DOMAIN Above(a, b) = DOMAIN a \cup DOMAIN b
           /\ \A f \in DOMAIN a : Above(a, b)[f] = a[f]
           /\ \A f \in DOMAIN b \ DOMAIN a : Above(a, b)[f] = b[f]
BY DEF Above, Knows

LEMMA AboveAt ==
    ASSUME NEW a, NEW b, NEW f \in DOMAIN a \cup DOMAIN b
    PROVE  Above(a, b)[f] = IF f \in DOMAIN a THEN a[f] ELSE b[f]
BY DEF Above, Knows

LEMMA UpdateRowDomain ==
    ASSUME NEW row, NEW info, NEW over
    PROVE  DOMAIN UpdateRow(row, info, over) = DOMAIN row \cup DOMAIN info
<1>1. CASE over
  BY <1>1, AboveFacts DEF UpdateRow
<1>2. CASE ~over
  <2> DEFINE part == Only(info, {f \in BoolFields : Knows(row, f) /\ row[f] = "no"})
  <2>1. DOMAIN part \subseteq DOMAIN info
    BY DEF Only
  <2>2. UpdateRow(row, info, over) = Above(part, Above(row, info))
    BY <1>2 DEF UpdateRow
  <2> HIDE DEF part
  <2>3. DOMAIN Above(row, info) = DOMAIN row \cup DOMAIN info
    BY AboveFacts
  <2>4. DOMAIN Above(part, Above(row, info)) = DOMAIN part \cup DOMAIN Above(row, info)
    BY AboveFacts
  <2> QED
    BY <2>1, <2>2, <2>3, <2>4
<1> QED
  BY <1>1, <1>2

\* A write to the table loses no field of any row.
LEMMA WriteGrows ==
    ASSUME Placed, NEW w, db' = [db EXCEPT ![w.model] = UpdateRow(@, w.info, w.over)]
    PROVE  /\ \A m \in Models : DOMAIN db[m] \subseteq DOMAIN db'[m]
           /\ w.model \in Models => DOMAIN w.info \subseteq DOMAIN db'[w.model]
<1>1. DOMAIN db = Models
  BY DEF Placed, Shape
<1> DEFINE row == UpdateRow(db[w.model], w.info, w.over)
<1>2. ASSUME NEW m \in Models
      PROVE  db'[m] = IF m = w.model THEN UpdateRow(db[m], w.info, w.over) ELSE db[m]
  <2>1. db' = [db EXCEPT ![w.model] = row]
    OBVIOUS
  <2> HIDE DEF row
  <2>2. db'[m] = IF m = w.model THEN row ELSE db[m]
    BY <1>1, <2>1
  <2> QED
    BY <2>2 DEF row
<1>3. \A m \in Models : DOMAIN UpdateRow(db[m], w.info, w.over) = DOMAIN db[m] \cup DOMAIN w.info
  BY UpdateRowDomain
<1> QED
  BY <1>2, <1>3

\* Rows that lose nothing, and tasks that are not past their write, keep what is
\* shown stored.
LEMMA GrowingBacked ==
    ASSUME Placed, Backed, UNCHANGED mem, dropped \subseteq dropped', Listed \subseteq Listed',
           \A m \in Models : m \in Listed /\ m \notin dropped => DOMAIN db[m] \subseteq DOMAIN db'[m],
           \A t \in Tasks : task'[t].stored =>
               task[t].stored /\ task'[t].write = task[t].write
    PROVE  Backed'
<1>1. NothingShownIsLost'
  <2> SUFFICES ASSUME NEW m \in Models, m \notin dropped'
               PROVE  DOMAIN mem[m] \subseteq DOMAIN db'[m]
    BY DEF NothingShownIsLost
  <2>1. CASE m \in Listed
    BY <2>1 DEF Backed, NothingShownIsLost
  <2>2. CASE m \notin Listed
    BY <2>2 DEF Backed
  <2> QED
    BY <2>1, <2>2
<1>2. ASSUME NEW t \in Tasks, task'[t].stored, task'[t].write.model \notin dropped'
      PROVE  DOMAIN task'[t].write.info \subseteq DOMAIN db'[task'[t].write.model]
  <2>1. task[t].stored /\ task'[t].write = task[t].write /\ task[t].write.model \notin dropped
    BY <1>2
  <2>2. task[t].write.model \in Listed /\ task[t].write.model \in Models
    BY <2>1 DEF Placed, Addressed, Shape, Listed
  <2>3. DOMAIN task[t].write.info \subseteq DOMAIN db[task[t].write.model]
    BY <2>1 DEF Backed
  <2> QED
    BY <2>1, <2>2, <2>3
<1>3. \A m \in Models \ Listed' : DOMAIN mem'[m] = {}
  BY DEF Backed
<1> QED
  BY <1>1, <1>2, <1>3 DEF Backed

LEMMA CommitBacked ==
    ASSUME Placed, Backed, NEW t \in Tasks, Commit(t)
    PROVE  Backed'
<1> DEFINE w == task[t].write
<1>1. /\ UNCHANGED <<registry, mem, dropped>> /\ w # NoWrite
      /\ db' = [db EXCEPT ![w.model] = UpdateRow(@, w.info, w.over)]
      /\ task' = [task EXCEPT ![t].stored = TRUE]
  BY DEF Commit
<1>2. /\ \A m \in Models : DOMAIN db[m] \subseteq DOMAIN db'[m]
      /\ w.model \in Models => DOMAIN w.info \subseteq DOMAIN db'[w.model]
  <2> HIDE DEF w
  <2> QED
    BY <1>1, WriteGrows
<1>3. NothingShownIsLost'
  BY <1>1, <1>2 DEF Backed, NothingShownIsLost
<1>4. ASSUME NEW u \in Tasks, task'[u].stored, task'[u].write.model \notin dropped'
      PROVE  DOMAIN task'[u].write.info \subseteq DOMAIN db'[task'[u].write.model]
  <2>1. task'[u].write = task[u].write /\ (u # t => task'[u] = task[u])
    BY <1>1 DEF Placed, Shape, TaskShape
  <2>2. CASE u = t
    <3>1. w.model \in Models
      BY <1>1 DEF Placed, Shape, Addressed, Listed
    <3> QED
      BY <1>2, <2>1, <2>2, <3>1
  <2>3. CASE u # t
    <3>1. task[u].stored /\ task[u].write.model \notin dropped
      BY <1>1, <1>4, <2>1, <2>3
    <3>2. task[u].write.model \in Models
      BY <3>1 DEF Placed, Shape, Addressed, Listed
    <3>3. DOMAIN task[u].write.info \subseteq DOMAIN db[task[u].write.model]
      BY <3>1 DEF Backed
    <3> QED
      BY <1>2, <2>1, <3>2, <3>3
  <2> QED
    BY <2>2, <2>3
<1>5. \A m \in Models \ Listed' : DOMAIN mem'[m] = {}
  BY <1>1 DEF Backed, Listed
<1> QED
  BY <1>3, <1>4, <1>5 DEF Backed

LEMMA ResumeBacked ==
    ASSUME Placed, Backed, NEW t \in Tasks, Resume(t)
    PROVE  Backed'
<1> DEFINE w == task[t].write
<1>1. /\ UNCHANGED <<registry, db, dropped>> /\ task[t].stored
      /\ mem' = [mem EXCEPT ![w.model] = Above(w.info, @)]
  BY DEF Resume
<1>2. w.model \in Listed
  BY <1>1 DEF Placed, Addressed
<1>3. \A m \in Models : m # w.model => mem'[m] = mem[m]
  BY <1>1 DEF Placed, Shape
<1>4. w.model \in Models /\ DOMAIN mem'[w.model] = DOMAIN w.info \cup DOMAIN mem[w.model]
  <2>1. w.model \in Models /\ DOMAIN mem = Models
    BY <1>2 DEF Placed, Shape, Listed
  <2>2. mem'[w.model] = Above(w.info, mem[w.model])
    BY <1>1, <2>1
  <2> HIDE DEF w
  <2>3. DOMAIN Above(w.info, mem[w.model]) = DOMAIN w.info \cup DOMAIN mem[w.model]
    BY AboveFacts
  <2> QED
    BY <2>1, <2>2, <2>3
<1>5. w.model \notin dropped => DOMAIN w.info \subseteq DOMAIN db[w.model]
  BY <1>1 DEF Backed
<1>6. NothingShownIsLost'
  <2> HIDE DEF w
  <2> QED
    BY <1>1, <1>3, <1>4, <1>5 DEF Backed, NothingShownIsLost
<1>7. ASSUME NEW u \in Tasks, task'[u].stored
      PROVE  task[u].stored /\ task'[u].write = task[u].write
  <2>1. u # t => task'[u] = task[u]
    BY DEF Resume, Become, Placed, Shape
  <2>2. ~task'[t].stored
    <3>1. PICK known : task'[t] = IF t = "probe" THEN Off
              ELSE Proceed(t, [task[t] EXCEPT !.write = NoWrite, !.stored = FALSE], known)
      BY DEF Resume, Become, Placed, Shape
    <3>2. CASE t = "probe"
      BY <3>1, <3>2, OffFacts
    <3>3. CASE t # "probe"
      <4> DEFINE j == [task[t] EXCEPT !.write = NoWrite, !.stored = FALSE]
      <4>1. TaskShape(j) /\ j.at \in Loops /\ j.entries \subseteq Models
        BY <1>1, <3>3 DEF Placed, Shape, Addressed, TaskShape, Listed
      <4>2. registry \subseteq Models /\ task'[t] = Proceed(t, j, known)
        BY <3>1, <3>3 DEF Placed, Shape
      <4> HIDE DEF j
      <4> QED
        BY <4>1, <4>2, ProceedFacts DEF Goes
    <3> QED
      BY <3>2, <3>3
  <2> QED
    BY <1>7, <2>1, <2>2
<1>8. \A u \in Tasks : task'[u].stored /\ task'[u].write.model \notin dropped' =>
          DOMAIN task'[u].write.info \subseteq DOMAIN db'[task'[u].write.model]
  BY <1>1, <1>7 DEF Backed
<1>9. \A m \in Models \ Listed' : DOMAIN mem'[m] = {}
  BY <1>1, <1>2, <1>3 DEF Backed, Listed
<1> QED
  BY <1>6, <1>8, <1>9 DEF Backed

\* A task that goes on to its next loop has stored nothing of it yet.
LEMMA BecomesBacked ==
    ASSUME Placed, Backed, NEW t \in Tasks, t # "probe",
           NEW j, TaskShape(j), j.at \in Loops, j.entries \subseteq Models,
           UNCHANGED <<registry, db, mem, dropped>>,
           task' = [task EXCEPT ![t] = Proceed(t, j, mem)]
    PROVE  Backed'
<1>1. registry \subseteq Models
  BY DEF Placed, Shape
<1>2. /\ task'[t] = Proceed(t, j, mem)
      /\ \A u \in Tasks : u # t => task'[u] = task[u]
  BY DEF Placed, Shape
<1>3. ~task'[t].stored
  BY <1>1, <1>2, ProceedFacts DEF Goes
<1>4. \A u \in Tasks : task'[u].stored => task[u].stored /\ task'[u].write = task[u].write
  BY <1>2, <1>3
<1> QED
  BY <1>4, GrowingBacked DEF Listed

\* The answers of the providers and of the hub leave a task before its write.
LEMMA AnswersBacked ==
    ASSUME Placed, Backed, NEW t \in Tasks, Answers(t) \/ HubAnswers(t)
    PROVE  Backed'
<1>1. UNCHANGED <<registry, db, mem, dropped>>
  BY DEF Answers, HubAnswers
<1>2. t # "probe"
  BY DEF Answers, HubAnswers, Placed, Shape
<1>3. CASE Answers(t)
  <2>1. PICK got : task' = [task EXCEPT ![t] = Proceed(t, [task[t] EXCEPT !.at = "write", !.got = got], mem)]
    BY <1>3 DEF Answers, Become
  <2> DEFINE j == [task[t] EXCEPT !.at = "write", !.got = got]
  <2>2. TaskShape(j) /\ j.at \in Loops /\ j.entries \subseteq Models
    BY DEF Placed, Shape, Addressed, TaskShape, Loops, Ats, Listed
  <2>3. task' = [task EXCEPT ![t] = Proceed(t, j, mem)]
    BY <2>1
  <2> HIDE DEF j
  <2> QED
    BY ONLY Placed, Backed, t \in Tasks, <1>1, <1>2, <2>2, <2>3, BecomesBacked
<1>4. CASE HubAnswers(t)
  <2>1. PICK got : task' = [task EXCEPT ![t] = Proceed(t, [task[t] EXCEPT !.at = "fill", !.got = got], mem)]
    BY <1>4 DEF HubAnswers, Become
  <2> DEFINE j == [task[t] EXCEPT !.at = "fill", !.got = got]
  <2>2. TaskShape(j) /\ j.at \in Loops /\ j.entries \subseteq Models
    BY DEF Placed, Shape, Addressed, TaskShape, Loops, Ats, Listed
  <2>3. task' = [task EXCEPT ![t] = Proceed(t, j, mem)]
    BY <2>1
  <2> HIDE DEF j
  <2> QED
    BY ONLY Placed, Backed, t \in Tasks, <1>1, <1>2, <2>2, <2>3, BecomesBacked
<1> QED
  BY <1>3, <1>4

LEMMA ReloadBacked ==
    ASSUME Placed, Backed, ReloadPurges \/ ReloadSyncs \/ ReloadFetchesNew \/ ReloadFetchesAll
    PROVE  Backed'
<1>1. UNCHANGED <<registry, mem, dropped>>
  BY DEF ReloadPurges, ReloadSyncs, ReloadFetchesNew, ReloadFetchesAll
<1>2. ASSUME NEW m \in Models, m \in Listed, m \notin dropped
      PROVE  DOMAIN db[m] \subseteq DOMAIN db'[m]
  <2>1. m \in registry
    BY <1>2 DEF Listed
  <2>2. CASE ReloadPurges
    BY <2>1, <2>2 DEF ReloadPurges, Purged
  <2>3. CASE ReloadSyncs
    <3>1. db'[m] = Above(Yaml[m], db[m])
      BY <2>1, <2>3 DEF ReloadSyncs, Synced, SyncRow
    <3>2. DOMAIN Above(Yaml[m], db[m]) = DOMAIN Yaml[m] \cup DOMAIN db[m]
      BY AboveFacts
    <3> QED
      BY <3>1, <3>2
  <2>4. CASE ReloadFetchesNew \/ ReloadFetchesAll
    BY <2>4 DEF ReloadFetchesNew, ReloadFetchesAll
  <2> QED
    BY <2>2, <2>3, <2>4
<1>3. ASSUME NEW u \in Tasks, task'[u].stored
      PROVE  task[u].stored /\ task'[u].write = task[u].write
  <2>1. CASE ReloadPurges \/ ReloadSyncs
    BY <1>3, <2>1 DEF ReloadPurges, ReloadSyncs
  <2>2. CASE ReloadFetchesAll
    <3>1. task'[u] = Fetching \/ task'[u] = task[u]
      BY <2>2 DEF ReloadFetchesAll, StartAll, Become, Placed, Shape
    <3> QED
      BY <1>3, <3>1, OffFacts
  <2>3. CASE ReloadFetchesNew
    <3> DEFINE k == [Off EXCEPT !.entries = reload.added, !.live = Unknown(reload.added)]
    <3>1. \/ task'[u] = task[u]
          \/ task'[u] = AskHub("new", k, mem)
          \/ task'[u] = [k EXCEPT !.at = "ask"]
      BY <2>3 DEF ReloadFetchesNew, StartNew, Become, Placed, Shape
    <3>2. ~[k EXCEPT !.at = "ask"].stored
      BY OffFacts DEF TaskShape
    <3> HIDE DEF k
    <3>3. ~AskHub("new", k, mem).stored
      BY AskHubFacts DEF Goes
    <3> QED
      BY <1>3, <3>1, <3>2, <3>3
  <2> QED
    BY <2>1, <2>2, <2>3
<1> QED
  BY <1>1, <1>2, <1>3, GrowingBacked DEF Listed

\* A process that starts shows what it loads.
LEMMA StartedBacked ==
    ASSUME NEW tbl, registry' \subseteq Models, dropped' = {}, task' = Started,
           \A m \in Models \ registry' : tbl[m] = Nothing,
           db' = [m \in Models |-> IF m \in registry' THEN SyncRow(tbl[m], Yaml[m]) ELSE tbl[m]],
           mem' = db'
    PROVE  Backed'
<1>1. NothingShownIsLost'
  BY DEF NothingShownIsLost
<1>2. \A t \in Tasks : ~task'[t].stored
  BY OffFacts DEF Started, Tasks
<1>3. DOMAIN Nothing = {}
  BY DEF Nothing
<1>4. \A m \in Models \ Listed' : DOMAIN mem'[m] = {}
  BY <1>3 DEF Listed
<1> QED
  BY <1>1, <1>2, <1>4 DEF Backed

LEMMA InitBacked == Init => Backed
<1> SUFFICES ASSUME Init PROVE Backed
  OBVIOUS
<1>1. NothingShownIsLost
  BY DEF Init, NothingShownIsLost
<1>2. \A t \in Tasks : ~task[t].stored
  BY OffFacts DEF Init, Started, Tasks
<1>3. DOMAIN Nothing = {}
  BY DEF Nothing
<1>4. \A m \in Models \ registry : mem[m] = Nothing
  BY DEF Init, Synced
<1>5. \A m \in Models \ Listed : DOMAIN mem[m] = {}
  BY <1>3, <1>4 DEF Listed
<1> QED
  BY <1>1, <1>2, <1>5 DEF Backed

LEMMA NextBacked == Placed /\ Backed /\ [Next]_vars => Backed'
<1> SUFFICES ASSUME Placed, Backed, [Next]_vars PROVE Backed'
  OBVIOUS
<1>1. ASSUME NEW t \in Tasks, FetchStep(t) PROVE Backed'
  BY <1>1, AnswersBacked, CommitBacked, ResumeBacked DEF FetchStep
<1>2. ASSUME NEW m \in registry, NEW info \in ProbeInfos[m], Probed(m, info) PROVE Backed'
  <2> DEFINE q == [Off EXCEPT !.at = "probe", !.write = [model |-> m, info |-> info, over |-> TRUE]]
  <2>1. UNCHANGED <<registry, db, mem, dropped>> /\ task' = [task EXCEPT !["probe"] = q]
    BY <1>2 DEF Probed, Become
  <2>2. ~q.stored
    BY OffFacts DEF TaskShape
  <2>3. \A u \in Tasks : task'[u] = q \/ task'[u] = task[u]
    BY <2>1 DEF Placed, Shape
  <2> HIDE DEF q
  <2> QED
    BY <2>1, <2>2, <2>3, GrowingBacked DEF Listed
<1>3. ASSUME NEW w \in orphan, OrphanCommits(w) PROVE Backed'
  <2>1. /\ UNCHANGED <<registry, mem, task, dropped>>
        /\ db' = [db EXCEPT ![w.model] = UpdateRow(@, w.info, w.over)]
    BY <1>3 DEF OrphanCommits
  <2>2. \A m \in Models : DOMAIN db[m] \subseteq DOMAIN db'[m]
    BY <2>1, WriteGrows
  <2> QED
    BY <2>1, <2>2, GrowingBacked DEF Listed
<1>4. ASSUME NEW models \in Reloads, ReloadBegins(models) PROVE Backed'
  <2>1. /\ UNCHANGED <<db, mem, task>>
        /\ registry' = models /\ dropped' = dropped \cup (registry \ models)
    BY <1>4 DEF ReloadBegins
  <2> QED
    BY <2>1, GrowingBacked DEF Listed
<1>5. ASSUME ReloadStep PROVE Backed'
  BY <1>5, ReloadBacked DEF ReloadStep
<1>6. ASSUME Restart PROVE Backed'
  <2> DEFINE tbl == Purged(db)
  <2>1. /\ registry' = registry /\ registry \subseteq Models /\ dropped' = {}
        /\ task' = Started /\ db' = Synced(tbl) /\ mem' = Synced(tbl)
    BY <1>6 DEF Restart, Placed, Shape
  <2>2. \A m \in Models \ registry : tbl[m] = Nothing
    BY DEF Purged
  <2> HIDE DEF tbl
  <2>3. db' = [m \in Models |-> IF m \in registry' THEN SyncRow(tbl[m], Yaml[m]) ELSE tbl[m]]
    BY <2>1 DEF Synced
  <2> QED
    BY <2>1, <2>2, <2>3, StartedBacked
<1>7. CASE UNCHANGED vars
  BY <1>7, GrowingBacked DEF vars, Listed
<1> QED
  BY <1>1, <1>2, <1>3, <1>4, <1>5, <1>6, <1>7 DEF Next

\* What is shown of a model that was not removed since the process started is in its
\* row, whatever the fetches, the probes, the orphaned threads, the reloads and the
\* restarts do: no crash and no cancelled fetch makes a fact disappear
\* (fetch_all_model_info, _run_probe_managed and _enrich_hf write the row first).
THEOREM NothingShownIsLostCorrect == Spec => []NothingShownIsLost
<1>1. Init => IInv
  BY InitPlaced, InitBacked DEF IInv, Placed
<1>2. IInv /\ [Next]_vars => IInv'
  BY NextPlaced, NextBacked DEF IInv, Placed
<1>3. IInv => NothingShownIsLost
  BY DEF IInv, Backed
<1> QED
  BY <1>1, <1>2, <1>3, PTL DEF Spec

-----------------------------------------------------------------------------
(* A stored fact is only replaced by one of its own sources                 *)

LEMMA OwnInfoOwned ==
    ASSUME NEW m, NEW info \in OwnInfos(m)
    PROVE  Owned(m, info)
BY DEF Owned, OwnValues, Knows

LEMMA NothingOwned ==
    ASSUME NEW m
    PROVE  Owned(m, Nothing)
BY DEF Owned, Nothing

LEMMA AboveOwned ==
    ASSUME NEW m, NEW a, NEW b, Owned(m, a), Owned(m, b)
    PROVE  Owned(m, Above(a, b))
<1>1. /\ DOMAIN Above(a, b) = DOMAIN a \cup DOMAIN b
      /\ \A f \in DOMAIN a : Above(a, b)[f] = a[f]
      /\ \A f \in DOMAIN b \ DOMAIN a : Above(a, b)[f] = b[f]
  BY AboveFacts
<1> QED
  BY <1>1 DEF Owned

LEMMA AnswerOwned ==
    ASSUME NEW m, NEW c \in Catalogs[Provider[m]],
           NEW a \in {c.details, c.single, c.own} \cup {c.lists[i] : i \in 1..Len(c.lists)}
    PROVE  Owned(m, Answer(a, m))
<1>1. Answer(a, m) \in OwnInfos(m)
  BY DEF OwnInfos
<1> QED
  BY <1>1, OwnInfoOwned

\* What a provider says of a model, wherever in its answers it says it.
LEMMA ProviderInfoOwned ==
    ASSUME NEW m \in Models, NEW c \in Catalogs[Provider[m]]
    PROVE  Owned(m, ProviderInfo(c, m))
<1> DEFINE lists  == FromLists(c, m)
           detail == IF ListedBy(c, m) = {} THEN Nothing ELSE Answer(c.details, m)
           single == Answer(c.single, m)
<1>1. Owned(m, lists)
  <2>1. CASE ListedBy(c, m) = {}
    BY <2>1, NothingOwned DEF FromLists
  <2>2. CASE ListedBy(c, m) # {}
    <3> DEFINE by == ListedBy(c, m)
               i  == CHOOSE i \in by : \A j \in by : i <= j
    <3>1. Len(c.lists) \in Nat
      BY ModelInfoAssumption DEF Models
    <3>2. by \subseteq Nat
      BY <3>1 DEF ListedBy
    <3>3. \E n \in by : \A j \in by : n <= j
      BY <2>2, <3>2, LeastNumber
    <3>4. i \in by
      BY <3>3
    <3>5. lists = c.lists[i][m]
      BY <2>2 DEF FromLists
    <3> HIDE DEF i
    <3>6. lists = Answer(c.lists[i], m) /\ i \in 1..Len(c.lists)
      BY <3>4, <3>5 DEF Answer, ListedBy
    <3> QED
      BY <3>6, AnswerOwned
  <2> QED
    BY <2>1, <2>2
<1>2. Owned(m, detail)
  BY NothingOwned, AnswerOwned
<1>3. Owned(m, single)
  BY AnswerOwned
<1>4. Owned(m, Answer(c.own, m))
  BY AnswerOwned
<1>5. ProviderInfo(c, m) = IF Above(lists, Above(detail, single)) = Nothing
                           THEN Answer(c.own, m) ELSE Above(lists, Above(detail, single))
  BY DEF ProviderInfo
<1> HIDE DEF lists, detail, single
<1>6. Owned(m, Above(detail, single))
  BY <1>2, <1>3, AboveOwned
<1>7. Owned(m, Above(lists, Above(detail, single)))
  BY <1>1, <1>6, AboveOwned
<1> QED
  BY <1>4, <1>5, <1>7

\* A task that goes on with what it got writes what it got.
LEMMA GoesSourced ==
    ASSUME NEW q, NEW k, Goes(q, k), k.entries \cup registry \subseteq Models,
           k.at = "write" => \A m \in Models : Owned(m, k.got[m])
    PROVE  /\ q.write.over => Owned(q.write.model, q.write.info)
           /\ q.at = "write" => \A m \in Models : Owned(m, q.got[m])
<1>1. ~NoWrite.over
  BY OffFacts
<1> QED
  BY <1>1 DEF Goes

\* Only task t changes, and nothing else is left to write.
LEMMA TaskSourced ==
    ASSUME Placed, Sourced, NEW t \in Tasks, NEW q, task' = [task EXCEPT ![t] = q],
           q.write.over => Owned(q.write.model, q.write.info),
           q.at = "write" => \A m \in Models : Owned(m, q.got[m]),
           orphan' \subseteq orphan \cup {task[t].write}
    PROVE  Sourced'
<1>1. \A u \in Tasks : task'[u] = IF u = t THEN q ELSE task[u]
  BY DEF Placed, Shape
<1>2. \A u \in Tasks :
          /\ task'[u].write.over => Owned(task'[u].write.model, task'[u].write.info)
          /\ task'[u].at = "write" => \A m \in Models : Owned(m, task'[u].got[m])
  BY <1>1 DEF Sourced
<1>3. \A w \in orphan' : w.over => Owned(w.model, w.info)
  BY DEF Sourced
<1> QED
  BY <1>2, <1>3 DEF Sourced

LEMMA AnswersSourced ==
    ASSUME Placed, Sourced, NEW t \in Tasks, Answers(t)
    PROVE  Sourced'
<1> DEFINE asked == IF t = "all" THEN registry ELSE task[t].live
<1>0. PICK catalog :
         /\ \A p \in Providers : catalog[p] \in Catalogs[p]
         /\ \E g \in {[m \in Models |->
                  IF m \in asked THEN ProviderInfo(catalog[Provider[m]], m) ELSE Nothing]} :
               task' = [task EXCEPT ![t] = Proceed(t, [task[t] EXCEPT !.at = "write", !.got = g], mem)]
  BY DEF Answers, Become
<1> DEFINE got == [m \in Models |->
                      IF m \in asked THEN ProviderInfo(catalog[Provider[m]], m) ELSE Nothing]
           j == [task[t] EXCEPT !.at = "write", !.got = got]
<1>1. /\ \A p \in Providers : catalog[p] \in Catalogs[p]
      /\ task' = [task EXCEPT ![t] = Proceed(t, j, mem)]
  BY <1>0
<1>2. ASSUME NEW m \in Models PROVE Owned(m, got[m])
  <2>1. catalog[Provider[m]] \in Catalogs[Provider[m]]
    BY <1>1 DEF Providers
  <2>2. Owned(m, ProviderInfo(catalog[Provider[m]], m))
    BY <2>1, ProviderInfoOwned
  <2> QED
    BY <2>2, NothingOwned
<1>3. TaskShape(j) /\ j.at \in Loops /\ j.entries \cup registry \subseteq Models /\ j.got = got
  BY DEF Placed, Shape, Addressed, TaskShape, Loops, Ats, Listed
<1>4. task' = [task EXCEPT ![t] = Proceed(t, j, mem)] /\ orphan' = orphan
  BY <1>1 DEF Answers
<1> HIDE DEF j, got
<1>5. Goes(Proceed(t, j, mem), j)
  BY <1>3, ProceedFacts
<1> DEFINE q == Proceed(t, j, mem)
<1>6. /\ q.write.over => Owned(q.write.model, q.write.info)
      /\ q.at = "write" => \A m \in Models : Owned(m, q.got[m])
  BY <1>2, <1>3, <1>5, GoesSourced
<1> HIDE DEF q
<1> QED
  BY <1>4, <1>6, TaskSourced DEF q

LEMMA HubAnswersSourced ==
    ASSUME Placed, Sourced, NEW t \in Tasks, HubAnswers(t)
    PROVE  Sourced'
<1>1. PICK got : task' = [task EXCEPT ![t] = Proceed(t, [task[t] EXCEPT !.at = "fill", !.got = got], mem)]
  BY DEF HubAnswers, Become
<1> DEFINE j == [task[t] EXCEPT !.at = "fill", !.got = got]
<1>2. TaskShape(j) /\ j.at = "fill" /\ j.at \in Loops /\ j.entries \cup registry \subseteq Models
  BY DEF Placed, Shape, Addressed, TaskShape, Loops, Ats, Listed
<1>3. task' = [task EXCEPT ![t] = Proceed(t, j, mem)] /\ orphan' = orphan
  BY <1>1 DEF HubAnswers
<1> HIDE DEF j
<1>4. Goes(Proceed(t, j, mem), j)
  BY <1>2, ProceedFacts
<1> DEFINE q == Proceed(t, j, mem)
<1>5. /\ q.write.over => Owned(q.write.model, q.write.info)
      /\ q.at = "write" => \A m \in Models : Owned(m, q.got[m])
  BY <1>2, <1>4, GoesSourced
<1> HIDE DEF q
<1> QED
  BY <1>3, <1>5, TaskSourced DEF q

LEMMA ResumeSourced ==
    ASSUME Placed, Sourced, NEW t \in Tasks, Resume(t)
    PROVE  Sourced'
<1>1. PICK known : task' = [task EXCEPT ![t] = IF t = "probe" THEN Off
                     ELSE Proceed(t, [task[t] EXCEPT !.write = NoWrite, !.stored = FALSE], known)]
  BY DEF Resume, Become
<1>2. orphan' = orphan
  BY DEF Resume
<1>3. CASE t = "probe"
  <2>1. task' = [task EXCEPT ![t] = Off]
    BY <1>1, <1>3
  <2> QED
    BY <1>2, <2>1, OffFacts, TaskSourced
<1>4. CASE t # "probe"
  <2> DEFINE j == [task[t] EXCEPT !.write = NoWrite, !.stored = FALSE]
  <2>1. /\ TaskShape(j) /\ j.at \in Loops /\ j.entries \cup registry \subseteq Models
        /\ j.at = task[t].at /\ j.got = task[t].got
    BY <1>4 DEF Resume, Placed, Shape, Addressed, TaskShape, Listed
  <2>2. task' = [task EXCEPT ![t] = Proceed(t, j, known)]
    BY <1>1, <1>4
  <2> HIDE DEF j
  <2>3. Goes(Proceed(t, j, known), j)
    BY <2>1, ProceedFacts
  <2>4. j.at = "write" => \A m \in Models : Owned(m, j.got[m])
    BY <2>1 DEF Sourced
  <2> DEFINE q == Proceed(t, j, known)
  <2>5. /\ q.write.over => Owned(q.write.model, q.write.info)
        /\ q.at = "write" => \A m \in Models : Owned(m, q.got[m])
    BY <2>1, <2>3, <2>4, GoesSourced
  <2> HIDE DEF q
  <2> QED
    BY <1>2, <2>2, <2>5, TaskSourced DEF q
<1> QED
  BY <1>3, <1>4

LEMMA CommitSourced ==
    ASSUME Placed, Sourced, NEW t \in Tasks, Commit(t)
    PROVE  Sourced'
<1> DEFINE q == [task[t] EXCEPT !.stored = TRUE]
<1>0. /\ q.write = task[t].write /\ q.at = task[t].at /\ q.got = task[t].got
      /\ task' = [task EXCEPT ![t] = q]
  BY DEF Commit, Placed, Shape, TaskShape
<1> HIDE DEF q
<1>1. \A u \in Tasks : /\ task'[u].write = task[u].write /\ task'[u].at = task[u].at
                        /\ task'[u].got = task[u].got
  BY <1>0 DEF Placed, Shape
<1>2. orphan' = orphan
  BY DEF Commit
<1> QED
  BY <1>1, <1>2 DEF Sourced

LEMMA ReloadSourced ==
    ASSUME Placed, Sourced, ReloadFetchesNew \/ ReloadFetchesAll
    PROVE  Sourced'
<1>1. CASE ReloadFetchesAll
  <2>1. task' = [task EXCEPT !["all"] = Fetching] /\ "all" \in Tasks
    BY <1>1 DEF ReloadFetchesAll, StartAll, Become, Tasks
  <2>2. orphan' \subseteq orphan \cup {task["all"].write}
    BY <1>1 DEF ReloadFetchesAll, StartAll
  <2> QED
    BY <2>1, <2>2, OffFacts, TaskSourced
<1>2. CASE ReloadFetchesNew
  <2> DEFINE k == [Off EXCEPT !.entries = reload.added, !.live = Unknown(reload.added)]
             q == IF k.live = {} THEN AskHub("new", k, mem) ELSE [k EXCEPT !.at = "ask"]
  <2>1. UNCHANGED <<task, orphan>> \/ (task' = [task EXCEPT !["new"] = q] /\ UNCHANGED orphan)
    BY <1>2 DEF ReloadFetchesNew, StartNew, Become
  <2>2. q.write = NoWrite /\ q.at # "write"
    <3>1. [k EXCEPT !.at = "ask"].write = NoWrite /\ [k EXCEPT !.at = "ask"].at = "ask"
      BY OffFacts DEF TaskShape
    <3>2. AskHub("new", k, mem).write = NoWrite /\ AskHub("new", k, mem).at = "hub"
      <4> HIDE DEF k
      <4> QED
        BY AskHubFacts, OffFacts DEF AskHub, TaskShape
    <3> HIDE DEF k
    <3> QED
      BY <3>1, <3>2
  <2>3. "new" \in Tasks /\ ~NoWrite.over
    BY OffFacts DEF Tasks
  <2>4. CASE UNCHANGED <<task, orphan>>
    BY <2>4 DEF Sourced
  <2> HIDE DEF q
  <2>5. CASE task' = [task EXCEPT !["new"] = q] /\ UNCHANGED orphan
    BY <2>2, <2>3, <2>5, TaskSourced
  <2> QED
    BY <2>1, <2>4, <2>5
<1> QED
  BY <1>1, <1>2

LEMMA ProbedSourced ==
    ASSUME Placed, Sourced, NEW m \in registry, NEW info \in ProbeInfos[m], Probed(m, info)
    PROVE  Sourced'
<1> DEFINE q == [Off EXCEPT !.at = "probe", !.write = [model |-> m, info |-> info, over |-> TRUE]]
<1>1. "probe" \in Tasks /\ task' = [task EXCEPT !["probe"] = q] /\ orphan' = orphan
  BY DEF Probed, Become, Tasks
<1>2. q.at = "probe" /\ q.write = [model |-> m, info |-> info, over |-> TRUE]
  BY OffFacts DEF TaskShape
<1>3. q.write.model = m /\ q.write.info = info
  BY <1>2
<1>4. Owned(m, info)
  BY OwnInfoOwned DEF OwnInfos
<1> HIDE DEF q
<1> QED
  BY <1>1, <1>2, <1>3, <1>4, TaskSourced

LEMMA NextSourced == Placed /\ Sourced /\ [Next]_vars => Sourced'
<1> SUFFICES ASSUME Placed, Sourced, [Next]_vars PROVE Sourced'
  OBVIOUS
<1>1. ASSUME NEW t \in Tasks, FetchStep(t) PROVE Sourced'
  BY <1>1, AnswersSourced, HubAnswersSourced, CommitSourced, ResumeSourced DEF FetchStep
<1>2. ASSUME NEW m \in registry, NEW info \in ProbeInfos[m], Probed(m, info) PROVE Sourced'
  BY <1>2, ProbedSourced
<1>3. ASSUME NEW w \in orphan, OrphanCommits(w) PROVE Sourced'
  BY <1>3 DEF OrphanCommits, Sourced
<1>4. ASSUME NEW models \in Reloads, ReloadBegins(models) PROVE Sourced'
  BY <1>4 DEF ReloadBegins, Sourced
<1>5. ASSUME ReloadStep PROVE Sourced'
  <2>1. CASE ReloadPurges \/ ReloadSyncs
    BY <2>1 DEF ReloadPurges, ReloadSyncs, Sourced
  <2> QED
    BY <1>5, <2>1, ReloadSourced DEF ReloadStep
<1>6. ASSUME Restart PROVE Sourced'
  <2>1. \A t \in Tasks : task'[t] \in {Fetching, Off}
    BY <1>6 DEF Restart, Started, Tasks
  <2>2. orphan' = {}
    BY <1>6 DEF Restart
  <2> QED
    BY <2>1, <2>2, OffFacts DEF Sourced
<1>7. CASE UNCHANGED vars
  BY <1>7 DEF vars, Sourced
<1> QED
  BY <1>1, <1>2, <1>3, <1>4, <1>5, <1>6, <1>7 DEF Next

LEMMA InitSourced == Init => Sourced
<1> SUFFICES ASSUME Init PROVE Sourced
  OBVIOUS
<1>1. \A t \in Tasks : task[t] \in {Fetching, Off}
  BY DEF Init, Started, Tasks
<1>2. orphan = {}
  BY DEF Init
<1> QED
  BY <1>1, <1>2, OffFacts DEF Sourced

\* One write to the table by a task or an orphaned thread.
LEMMA UpdateStands ==
    ASSUME NEW row, NEW w, NEW m, w.over => Owned(m, w.info),
           NEW f \in DOMAIN row \cap DOMAIN UpdateRow(row, w.info, w.over),
           UpdateRow(row, w.info, w.over)[f] # row[f]
    PROVE  \/ UpdateRow(row, w.info, w.over)[f] \in OwnValues(m, f)
           \/ f \in BoolFields /\ row[f] = "no"
<1> DEFINE info == w.info
           over == w.over
<1>1. CASE over
  <2>1. UpdateRow(row, info, over) = Above(info, row)
    BY <1>1 DEF UpdateRow
  <2>2. Above(info, row)[f] = IF f \in DOMAIN info THEN info[f] ELSE row[f]
    BY AboveAt
  <2> QED
    BY <1>1, <2>1, <2>2 DEF Owned
<1>2. CASE ~over
  <2> DEFINE part == Only(info, {g \in BoolFields : Knows(row, g) /\ row[g] = "no"})
             rest == Above(row, info)
  <2>1. UpdateRow(row, info, over) = Above(part, rest)
    BY <1>2 DEF UpdateRow
  <2>2. f \in DOMAIN part => f \in BoolFields /\ row[f] = "no"
    BY DEF Only
  <2>3. f \in DOMAIN rest /\ rest[f] = row[f]
    <3>1. DOMAIN Above(row, info) = DOMAIN row \cup DOMAIN info
      BY AboveFacts
    <3>2. Above(row, info)[f] = IF f \in DOMAIN row THEN row[f] ELSE info[f]
      BY AboveAt
    <3> QED
      BY <3>1, <3>2
  <2> HIDE DEF part, rest
  <2>4. Above(part, rest)[f] = IF f \in DOMAIN part THEN part[f] ELSE rest[f]
    BY <2>3, AboveAt
  <2> QED
    BY <2>1, <2>2, <2>3, <2>4
<1> QED
  BY <1>1, <1>2

\* The rows as a step leaves them.
Stands == \A m \in Models : \A f \in DOMAIN db[m] \cap DOMAIN db'[m] :
              db'[m][f] # db[m][f] =>
                  \/ db'[m][f] \in OwnValues(m, f)
                  \/ f \in BoolFields /\ db[m][f] = "no"

LEMMA WriteStands ==
    ASSUME Placed, NEW w, w.over => Owned(w.model, w.info),
           db' = [db EXCEPT ![w.model] = UpdateRow(@, w.info, w.over)]
    PROVE  Stands
<1>1. DOMAIN db = Models
  BY DEF Placed, Shape
<1> DEFINE row == UpdateRow(db[w.model], w.info, w.over)
<1> SUFFICES ASSUME NEW m \in Models, NEW f \in DOMAIN db[m] \cap DOMAIN db'[m],
                    db'[m][f] # db[m][f]
             PROVE  \/ db'[m][f] \in OwnValues(m, f)
                    \/ f \in BoolFields /\ db[m][f] = "no"
  BY DEF Stands
<1>2. db' = [db EXCEPT ![w.model] = row]
  OBVIOUS
<1> HIDE DEF row
<1>3. db'[m] = IF m = w.model THEN row ELSE db[m]
  BY <1>1, <1>2
<1>4. m = w.model /\ db'[m] = UpdateRow(db[m], w.info, w.over)
  BY <1>3 DEF row
<1>5. f \in DOMAIN db[m] \cap DOMAIN UpdateRow(db[m], w.info, w.over)
  BY <1>4
<1> HIDE DEF row
<1>6. \/ UpdateRow(db[m], w.info, w.over)[f] \in OwnValues(m, f)
      \/ f \in BoolFields /\ db[m][f] = "no"
  <2>1. w.over => Owned(m, w.info)
    BY <1>4
  <2>2. UpdateRow(db[m], w.info, w.over)[f] # db[m][f]
    BY <1>4
  <2> QED
    BY <1>5, <2>1, <2>2, UpdateStands
<1> QED
  BY <1>4, <1>6

\* Loading the registry purges rows whole, and what models.yaml says is the model's own.
LEMMA SyncStands ==
    ASSUME NEW m, NEW row, NEW f \in DOMAIN row \cap DOMAIN SyncRow(row, Yaml[m]),
           SyncRow(row, Yaml[m])[f] # row[f]
    PROVE  SyncRow(row, Yaml[m])[f] \in OwnValues(m, f)
<1>1. SyncRow(row, Yaml[m]) = Above(Yaml[m], row)
  BY DEF SyncRow
<1>2. Above(Yaml[m], row)[f] = IF f \in DOMAIN Yaml[m] THEN Yaml[m][f] ELSE row[f]
  BY AboveAt
<1>3. Owned(m, Yaml[m])
  BY OwnInfoOwned DEF OwnInfos
<1> QED
  BY <1>1, <1>2, <1>3 DEF Owned

LEMMA PurgeAndSyncStands ==
    ASSUME db' = Purged(db) \/ db' = Synced(db) \/ db' = Synced(Purged(db))
    PROVE  Stands
<1> SUFFICES ASSUME NEW m \in Models, NEW f \in DOMAIN db[m] \cap DOMAIN db'[m],
                    db'[m][f] # db[m][f]
             PROVE  db'[m][f] \in OwnValues(m, f)
  BY DEF Stands
<1>1. DOMAIN Nothing = {}
  BY DEF Nothing
<1>2. db'[m] = db[m] \/ db'[m] = Nothing \/ db'[m] = SyncRow(db[m], Yaml[m])
  BY DEF Purged, Synced
<1>3. db'[m] = SyncRow(db[m], Yaml[m])
  BY <1>1, <1>2
<1> QED
  BY <1>3, SyncStands

LEMMA NextStands == Placed /\ Sourced /\ [Next]_vars => Stands
<1> SUFFICES ASSUME Placed, Sourced, [Next]_vars PROVE Stands
  OBVIOUS
<1>1. CASE UNCHANGED db
  BY <1>1 DEF Stands
<1>2. ASSUME NEW t \in Tasks, FetchStep(t) PROVE Stands
  <2>1. CASE Commit(t)
    <3> DEFINE w == task[t].write
    <3>1. db' = [db EXCEPT ![w.model] = UpdateRow(@, w.info, w.over)]
      BY <2>1 DEF Commit
    <3>2. w.over => Owned(w.model, w.info)
      BY DEF Sourced
    <3> HIDE DEF w
    <3> QED
      BY <3>1, <3>2, WriteStands
  <2>2. CASE Answers(t) \/ HubAnswers(t) \/ Resume(t)
    BY <1>1, <2>2 DEF Answers, HubAnswers, Resume
  <2> QED
    BY <1>2, <2>1, <2>2 DEF FetchStep
<1>3. ASSUME NEW m \in registry, NEW info \in ProbeInfos[m], Probed(m, info) PROVE Stands
  BY <1>1, <1>3 DEF Probed
<1>4. ASSUME NEW w \in orphan, OrphanCommits(w) PROVE Stands
  BY <1>4, WriteStands DEF OrphanCommits, Sourced
<1>5. ASSUME NEW models \in Reloads, ReloadBegins(models) PROVE Stands
  BY <1>1, <1>5 DEF ReloadBegins
<1>6. ASSUME ReloadStep PROVE Stands
  BY <1>1, <1>6, PurgeAndSyncStands
     DEF ReloadStep, ReloadPurges, ReloadSyncs, ReloadFetchesNew, ReloadFetchesAll
<1>7. ASSUME Restart PROVE Stands
  BY <1>7, PurgeAndSyncStands DEF Restart
<1>8. CASE UNCHANGED vars
  BY <1>1, <1>8 DEF vars
<1> QED
  BY <1>2, <1>3, <1>4, <1>5, <1>6, <1>7, <1>8 DEF Next

\* update_model_info: whichever tasks and orphaned threads write to a row, in whatever
\* order, a stored value is only replaced by what models.yaml, the provider or a probe says
\* of that model, or is a capability that was stored as absent: neither the hub nor
\* another model's facts replace it.
THEOREM StoredFactsStandCorrect == Spec => StoredFactsStand
<1>1. Init => Placed /\ Sourced
  BY InitPlaced, InitSourced
<1>2. Placed /\ Sourced /\ [Next]_vars => (Placed /\ Sourced)'
  BY NextPlaced, NextSourced
<1>3. Placed /\ Sourced /\ [Next]_vars =>
        [\A m \in Models : \A f \in DOMAIN db[m] \cap DOMAIN db'[m] :
             db'[m][f] # db[m][f] =>
                 \/ db'[m][f] \in OwnValues(m, f)
                 \/ f \in BoolFields /\ db[m][f] = "no"]_vars
  BY NextStands DEF Stands
<1> QED
  BY <1>1, <1>2, <1>3, PTL DEF Spec, StoredFactsStand

=============================================================================
