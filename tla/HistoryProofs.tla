---------------------------- MODULE HistoryProofs ----------------------------
(***************************************************************************)
(* Proofs about what is kept of the tests of a model. Archive, for any     *)
(* models, threshold and number of reloads, restarts and failing database  *)
(* calls: where a model is archived, and what its directive says.          *)
(* ModelHistory, for any tests, windows and intervals: what memory has of  *)
(* the window, and the uptime, are those of the rows; the numbers of a     *)
(* record fit each other, its scores keep the order of its metrics and     *)
(* agree with their tiers, and charts and trends with both.                *)
(***************************************************************************)
EXTENDS Archive, ModelHistory, FiniteSetTheorems, SequenceTheorems,
        WellFoundedInduction, TLAPS

-----------------------------------------------------------------------------
(* Types and the reports of the archiving                                   *)

LEMMA PruneType ==
    ASSUME TypeOK, NEW S \in SUBSET Models, Prune(S)
    PROVE  /\ status' \in [Models -> Statuses]
           /\ since' \in [Models -> DegradedTimes]
           /\ offline' \in [Models -> 0 .. Threshold]
           /\ testing' \subseteq Models
<1>1. NoTime \in DegradedTimes /\ 0 \in 0 .. Threshold
  BY ArchiveAssumption DEF DegradedTimes, ArchiveAssumption
<1> QED
  BY <1>1 DEF Prune, TypeOK, Statuses

LEMMA FillCacheType ==
    ASSUME TypeOK, FillCache
    PROVE  booting' \in BOOLEAN /\ since' \in [Models -> DegradedTimes]
<1>1. CASE booting
  <2>1. PICK t \in [Models -> 0 .. Threshold] :
            since' = [m \in Models |-> IF status[m] = "online" THEN NoTime ELSE t[m]]
    BY <1>1 DEF FillCache
  <2> QED
    BY <2>1 DEF FillCache, DegradedTimes
<1>2. CASE ~booting
  BY <1>2 DEF FillCache, TypeOK
<1> QED
  BY <1>1, <1>2

LEMMA SetArchivedType ==
    ASSUME TypeOK, NEW S, NEW source \in Sources, SetArchived(S, source)
    PROVE  database' \in [Models -> Sources]
BY DEF SetArchived, TypeOK

\* apply_auto_archive keeps the types.
LEMMA AutoStepType ==
    ASSUME TypeOK, AutoStep
    PROVE  TypeOK'
<1> USE DEF ledger
<1>1. CASE Mark
  BY <1>1 DEF Mark, ToArchive, TypeOK, modelVars, watchVars, bounds, Sources
<1>2. CASE Save
  <2>1. database' \in [Models -> Sources]
    BY <1>2, SetArchivedType DEF Save, Sources
  <2> QED
    BY <1>2, <2>1 DEF Save, TypeOK, modelVars, watchVars, bounds
<1>3. CASE PruneNewly
  <2>1. Prune(newly) /\ newly \in SUBSET Models
    BY <1>3 DEF PruneNewly, TypeOK
  <2> QED
    BY <1>3, <2>1, PruneType DEF PruneNewly, TypeOK, watchVars, bounds
<1>4. CASE AutoFails
  BY <1>4, ArchiveAssumption
     DEF AutoFails, TypeOK, modelVars, watchVars, ArchiveAssumption
<1> QED
  BY <1>1, <1>2, <1>3, <1>4 DEF AutoStep

\* apply_db_changes keeps the types.
LEMMA WatchStepType ==
    ASSUME TypeOK, WatchStep
    PROVE  TypeOK'
<1> USE DEF modelVars, autoVars, bounds, ledger
<1>1. CASE Load \/ LoadAgain
  BY <1>1 DEF Load, LoadAgain, TypeOK
<1>2. CASE ClearStaleManual \/ UnarchiveDirected
  <2>1. database' \in [Models -> Sources]
    BY <1>2, SetArchivedType DEF ClearStaleManual, UnarchiveDirected, Sources
  <2> QED
    BY <1>2, <2>1 DEF ClearStaleManual, UnarchiveDirected, TypeOK
<1>3. CASE ArchiveDirected
  <2>1. database' \in [Models -> Sources]
    BY <1>3, SetArchivedType DEF ArchiveDirected, Sources
  <2> QED
    BY <1>3, <2>1 DEF ArchiveDirected, TypeOK
<1>4. CASE PruneDirected
  <2> DEFINE S == {m \in Directed("true") : current[m] = "no"}
  <2>1. Prune(S) /\ S \in SUBSET Models
    BY <1>4 DEF PruneDirected, Directed
  <2> QED
    BY <1>4, <2>1, PruneType DEF PruneDirected, TypeOK
<1>5. CASE Publish
  BY <1>5, FillCacheType DEF Publish, TypeOK, Sources
<1>6. CASE WatchFails
  BY <1>6, FillCacheType, ArchiveAssumption
     DEF WatchFails, TypeOK, Sources, ArchiveAssumption
<1> QED
  BY <1>1, <1>2, <1>3, <1>4, <1>5, <1>6 DEF WatchStep

\* Reloads, restarts, tests and the clock keep the types.
LEMMA EnvironmentType ==
    ASSUME TypeOK,
           \/ \E d \in [Models -> Directives] : ReloadConfig(d) \/ Restart(d)
           \/ \E m \in Models : StartTest(m) \/ \E new \in Statuses : EndTest(m, new)
           \/ PassTime
    PROVE  TypeOK'
<1> USE DEF modelVars, autoVars, watchVars, bounds, ledger
<1>1. /\ NoTime \in DegradedTimes /\ 0 \in DegradedTimes /\ 0 \in 0 .. Threshold
      /\ \A t \in DegradedTimes : Older(t) \in DegradedTimes
      /\ \A t \in 0 .. Threshold : Older(t) \in 0 .. Threshold
  BY ArchiveAssumption DEF DegradedTimes, NoTime, Older, ArchiveAssumption
<1>2. ASSUME NEW d \in [Models -> Directives], ReloadConfig(d)
      PROVE  TypeOK'
  BY <1>2, ArchiveAssumption DEF ReloadConfig, TypeOK, ArchiveAssumption
<1>3. ASSUME NEW d \in [Models -> Directives], Restart(d)
      PROVE  TypeOK'
  BY <1>1, <1>3, ArchiveAssumption DEF Restart, TypeOK, Sources, ArchiveAssumption
<1>4. ASSUME NEW m \in Models, StartTest(m)
      PROVE  TypeOK'
  BY <1>4 DEF StartTest, TypeOK
<1>5. ASSUME NEW m \in Models, NEW new \in Statuses, EndTest(m, new)
      PROVE  TypeOK'
  <2>1. TrackSince(m, new) \in DegradedTimes
    BY <1>1 DEF TrackSince, TypeOK
  <2> QED
    BY <1>1, <1>5, <2>1 DEF EndTest, TypeOK
<1>6. CASE PassTime
  <2>1. since' \in [Models -> DegradedTimes] /\ offline' \in [Models -> 0 .. Threshold]
    BY <1>1, <1>6 DEF PassTime, TypeOK
  <2> QED
    BY <1>6, <2>1 DEF PassTime, TypeOK
<1> QED
  BY <1>2, <1>3, <1>4, <1>5, <1>6

\* Every variable of the archiving protocol stays in its type.
THEOREM TypeCorrect == Spec => []TypeOK
<1>1. Init => TypeOK
  BY ArchiveAssumption
     DEF Init, TypeOK, Sources, Statuses, DegradedTimes, NoTime, ArchiveAssumption
<1>2. TypeOK /\ [Next]_vars => TypeOK'
  <2> SUFFICES ASSUME TypeOK, [Next]_vars PROVE TypeOK'
    OBVIOUS
  <2>1. CASE Next
    BY <2>1, AutoStepType, WatchStepType, EnvironmentType DEF Next
  <2>2. CASE UNCHANGED vars
    BY <2>2 DEF vars, modelVars, autoVars, watchVars, bounds, ledger, TypeOK
  <2> QED
    BY <2>1, <2>2
<1> QED
  BY <1>1, <1>2, PTL DEF Spec

-----------------------------------------------------------------------------
\* apply_db_changes undoes an automatic archive only if models.yaml has a
\* directive for the model or the archive was still manual when the reload
\* read it, for every interleaving with apply_auto_archive and with restarts.
THEOREM AutoArchivePersistsCorrect == Spec => AutoArchivePersists
<1> DEFINE Persists ==
        \A m \in Models : database[m] = "auto" /\ database'[m] # "auto" =>
            m \notin Undirected \/ current[m] = "manual"
<1>1. [Next]_vars => Persists
  <2> SUFFICES ASSUME [Next]_vars, NEW m \in Models,
                      database[m] = "auto", database'[m] # "auto"
               PROVE  m \notin Undirected \/ current[m] = "manual"
    OBVIOUS
  <2>1. database' # database
    OBVIOUS
  <2>2. Save \/ ClearStaleManual \/ ArchiveDirected \/ UnarchiveDirected
    BY <2>1 DEF Next, AutoStep, WatchStep, Mark, PruneNewly, AutoFails, Load,
                PruneDirected, LoadAgain, Publish, WatchFails, ReloadConfig, Restart,
                StartTest, EndTest, PassTime, vars
  <2>3. ~Save
    BY DEF Save, SetArchived
  <2>4. CASE ClearStaleManual
    BY <2>4 DEF ClearStaleManual, SetArchived, Directed
  <2>5. CASE ArchiveDirected
    BY <2>5 DEF ArchiveDirected, SetArchived, Directed, Undirected
  <2>6. CASE UnarchiveDirected
    BY <2>6 DEF UnarchiveDirected, SetArchived, Directed, Undirected
  <2> QED
    BY <2>2, <2>3, <2>4, <2>5, <2>6
<1> QED
  BY <1>1, PTL DEF Spec, AutoArchivePersists

-----------------------------------------------------------------------------
(* Memory, database and directives                                          *)

\* What apply_auto_archive has marked and not saved yet is all that memory is
\* ahead of the database.
Unsaved == [m \in Models |-> IF autoPc = "saving" /\ m \in newly THEN "auto" ELSE database[m]]

\* But for torn models, what a reload is about to publish is what the database
\* has, and afterwards memory is ahead of it only by what is still to be saved.
Synchronised ==
    /\ watchPc = "publish" => \A m \in Models \ torn : current[m] = database[m]
    /\ watchPc = "idle" => \A m \in Models \ torn : memory[m] = Unsaved[m]

\* The directives are carried out one after the other, and stay so: nothing but a
\* reload archives manually, and an automatic archive that is saved after its
\* model was unarchived is a late one, or one of a torn model.
Directing ==
    /\ watchPc = "clear" => \A m \in Models : database[m] = "manual" => current[m] = "manual"
    /\ watchPc \in {"archive", "unarchive", "prune", "reload", "publish", "idle"} =>
          \A m \in Models \ torn : m \in Undirected => database[m] # "manual"
    /\ watchPc \in {"unarchive", "prune", "reload", "publish", "idle"} =>
          \A m \in Models \ torn : directive[m] = "true" => database[m] # "no"
    /\ watchPc \in {"prune", "reload", "publish", "idle"} =>
          \A m \in Models \ (torn \cup late) : directive[m] = "false" => database[m] = "no"
    /\ watchPc = "idle" /\ autoPc = "saving" =>
          \A m \in newly \ (torn \cup late) : directive[m] # "false"

Consistent == TypeOK /\ Synchronised /\ Directing

LEMMA InitConsistent == Init => Consistent
<1> SUFFICES ASSUME Init PROVE Consistent
  OBVIOUS
<1>1. TypeOK
  BY ArchiveAssumption DEF Init, TypeOK, Sources, Statuses, DegradedTimes, NoTime
<1>2. Synchronised /\ Directing
  BY DEF Init, Synchronised, Directing
<1> QED
  BY <1>1, <1>2 DEF Consistent

\* What a step leaves alone when it belongs to neither coroutine.
Still == UNCHANGED <<directive, memory, database, autoPc, newly, watchPc, current, torn, late>>

LEMMA StillKeeps ==
    ASSUME Synchronised, Directing, Still
    PROVE  Synchronised' /\ Directing'
BY DEF Still, Synchronised, Directing, Unsaved, Undirected, Directed

\* apply_auto_archive, beside a reload at any of its steps.
LEMMA AutoStepConsistent ==
    ASSUME Consistent, AutoStep
    PROVE  Synchronised' /\ Directing'
<1> USE DEF Consistent, ledger, watchVars
<1>1. CASE Mark
  <2>1. Synchronised'
    BY <1>1 DEF Mark, Synchronised, Unsaved, ToArchive, TypeOK
  <2>2. Directing'
    BY <1>1 DEF Mark, Directing, ToArchive, Exempt, Undirected, Directed
  <2> QED
    BY <2>1, <2>2
<1>2. CASE Save
  <2>1. /\ watchPc' = watchPc /\ torn \subseteq torn' /\ late \subseteq late'
        /\ watchPc = "publish" => newly \subseteq torn'
        /\ watchPc \in {"prune", "reload"} =>
              \A m \in newly : directive[m] = "false" => m \in late'
        /\ UNCHANGED <<directive, memory, current, newly>>
    BY <1>2 DEF Save
  <2>2. autoPc = "saving" /\ autoPc' = "pruning"
        /\ database' = [m \in Models |-> IF m \in newly THEN "auto" ELSE database[m]]
    BY <1>2 DEF Save, SetArchived
  <2>3. Unsaved' = Unsaved
    BY <2>2 DEF Unsaved
  <2>4. Synchronised'
    BY <2>1, <2>2, <2>3 DEF Synchronised
  <2>5. Directing'
    BY <2>1, <2>2 DEF Directing, Undirected, Directed
  <2> QED
    BY <2>4, <2>5
<1>3. CASE PruneNewly
  <2>1. Unsaved' = Unsaved
    BY <1>3 DEF PruneNewly, Unsaved
  <2> QED
    BY <1>3, <2>1 DEF PruneNewly, Synchronised, Directing, Undirected, Directed
<1>4. CASE AutoFails
  <2>1. /\ torn \subseteq torn' /\ autoPc' = "idle"
        /\ autoPc = "saving" /\ watchPc = "idle" => newly \subseteq torn'
        /\ UNCHANGED <<directive, memory, database, watchPc, current, late>>
    BY <1>4 DEF AutoFails
  <2>2. Unsaved' = database
    BY <2>1 DEF Unsaved, TypeOK
  <2>3. watchPc = "idle" => \A m \in Models \ torn' : Unsaved[m] = database[m]
    BY <2>1 DEF Unsaved
  <2>4. Synchronised'
    BY <2>1, <2>2, <2>3 DEF Synchronised
  <2>5. Directing'
    BY <2>1 DEF Directing, Undirected, Directed
  <2> QED
    BY <2>4, <2>5
<1> QED
  BY <1>1, <1>2, <1>3, <1>4 DEF AutoStep

\* A step of a reload or a start, wherever apply_auto_archive is.
LEMMA WatchStepConsistent ==
    ASSUME Consistent, WatchStep
    PROVE  Synchronised' /\ Directing'
<1> USE DEF Consistent, ledger, autoVars
<1>1. CASE WatchFails
  BY <1>1 DEF WatchFails, TypeOK, Synchronised, Directing
<1>2. CASE Publish
  <2>1. /\ watchPc = "publish" /\ watchPc' = "idle" /\ torn \subseteq torn'
        /\ autoPc = "saving" => newly \subseteq torn'
        /\ memory' = current
        /\ UNCHANGED <<directive, database, autoPc, newly, late>>
    BY <1>2 DEF Publish
  <2>2. \A m \in Models \ torn' : Unsaved'[m] = database[m] /\ memory'[m] = database[m]
    BY <2>1 DEF Unsaved, Synchronised
  <2>3. Synchronised'
    BY <2>1, <2>2 DEF Synchronised
  <2>4. Directing'
    BY <2>1 DEF Directing, Undirected, Directed
  <2> QED
    BY <2>3, <2>4
<1>3. CASE Load \/ LoadAgain \/ PruneDirected
  <2>1. UNCHANGED <<directive, database, torn, late>> /\ watchPc' \in {"clear", "reload", "publish"}
        /\ (watchPc' \in {"clear", "publish"} => current' = database)
        /\ (watchPc' \in {"reload", "publish"} => watchPc \in {"prune", "reload"})
    BY <1>3 DEF Load, LoadAgain, PruneDirected
  <2> QED
    BY <2>1 DEF Synchronised, Directing, Undirected, Directed
<1>4. CASE ClearStaleManual
  <2>1. /\ watchPc = "clear" /\ watchPc' = "archive"
        /\ database' = [m \in Models |->
              IF m \in {n \in Undirected : current[n] = "manual"} THEN "no" ELSE database[m]]
        /\ UNCHANGED directive
    BY <1>4 DEF ClearStaleManual, SetArchived
  <2>2. \A m \in Undirected : database'[m] # "manual"
    BY <2>1 DEF Directing, Undirected, Directed
  <2>3. Undirected' = Undirected
    BY <2>1 DEF Undirected, Directed
  <2> QED
    BY <2>1, <2>2, <2>3 DEF Synchronised, Directing
<1>5. CASE ArchiveDirected
  BY <1>5 DEF ArchiveDirected, SetArchived, Undirected, Directed, Synchronised, Directing
<1>6. CASE UnarchiveDirected
  BY <1>6 DEF UnarchiveDirected, SetArchived, Undirected, Directed, Synchronised, Directing
<1> QED
  BY <1>1, <1>2, <1>3, <1>4, <1>5, <1>6 DEF WatchStep

LEMMA NextConsistent == Consistent /\ [Next]_vars => Consistent'
<1> SUFFICES ASSUME Consistent, [Next]_vars PROVE Consistent'
  OBVIOUS
<1> USE DEF Consistent
<1>1. TypeOK'
  BY AutoStepType, WatchStepType, EnvironmentType
     DEF Next, vars, modelVars, autoVars, watchVars, ledger, bounds, TypeOK
<1>2. Synchronised' /\ Directing'
  <2>1. CASE AutoStep
    BY <2>1, AutoStepConsistent
  <2>2. CASE WatchStep
    BY <2>2, WatchStepConsistent
  <2>3. ASSUME NEW d \in [Models -> Directives], ReloadConfig(d) \/ Restart(d)
        PROVE  Synchronised' /\ Directing'
    BY <2>3 DEF ReloadConfig, Restart, Synchronised, Directing
  <2>4. CASE \/ \E m \in Models : StartTest(m) \/ \E new \in Statuses : EndTest(m, new)
             \/ PassTime \/ UNCHANGED vars
    BY <2>4, StillKeeps
       DEF Still, StartTest, EndTest, PassTime, vars, autoVars, watchVars, ledger
  <2> QED
    BY <2>1, <2>2, <2>3, <2>4 DEF Next
<1> QED
  BY <1>1, <1>2

LEMMA Agreeing == Consistent => MemoryIsDatabase
BY DEF Consistent, TypeOK, Synchronised, Unsaved, MemoryIsDatabase, Settled

\* Between two operations memory and database agree on what is archived and by
\* whom, for every interleaving of apply_auto_archive with reloads, failing calls
\* and restarts, but for the models whose mark could not be saved, was not yet
\* saved when a reload read the marks, or that a failed reload left as they were; and
\* the next reload or start takes these up again.
THEOREM MemoryIsDatabaseCorrect == Spec => []MemoryIsDatabase
BY Agreeing, InitConsistent, NextConsistent, PTL DEF Spec

\* Once a start or a reload has finished, models.yaml holds in memory and in the
\* database, but for the same models and those whose automatic archive was saved
\* when the reload had carried out their directive.
THEOREM DirectivesHoldCorrect == Spec => []DirectivesHold
<1>1. Consistent => DirectivesHold
  <2> SUFFICES ASSUME Consistent, Settled, NEW m \in Models \ (torn \cup late)
               PROVE  /\ directive[m] = "true" => memory[m] # "no" /\ database[m] # "no"
                      /\ directive[m] = "false" => memory[m] = "no" /\ database[m] = "no"
                      /\ m \in Undirected => memory[m] # "manual" /\ database[m] # "manual"
    BY DEF DirectivesHold
  <2>1. memory[m] = database[m]
    BY Agreeing DEF MemoryIsDatabase
  <2> QED
    BY <2>1 DEF Consistent, Directing, Settled
<1> QED
  BY <1>1, InitConsistent, NextConsistent, PTL DEF Spec

-----------------------------------------------------------------------------
(* The cap                                                                  *)

\* A least number of a set of naturals.
LEMMA LeastNumber ==
    ASSUME NEW T, T \subseteq Nat, T # {}
    PROVE  \E n \in T : \A k \in T : n <= k
<1> DEFINE R == OpToRel(<, Nat)
<1>1. IsWellFoundedOn(R, Nat)
  BY NatLessThanWellFounded
<1>2. \A k, n \in Nat : k < n => <<k, n>> \in R
  BY DEF OpToRel
<1> HIDE DEF R
<1>3. PICK n \in T : \A k \in T : ~(<<k, n>> \in R)
  BY <1>1, WFMin
<1>4. \A k \in T : k \in Nat /\ n \in Nat /\ ~(k < n)
  BY <1>2, <1>3
<1>5. \A k \in T : n <= k
  BY <1>4
<1> QED
  BY <1>5

LEMMA QuotientGrows ==
    ASSUME NEW p \in Nat, NEW q \in Nat, NEW d \in Nat \ {0}, p <= q
    PROVE  p \div d \in Nat /\ p \div d <= q \div d
<1> DEFINE a == p \div d
           b == q \div d
<1>1. a \in Int /\ d * a <= p /\ p < d * a + d
  OBVIOUS
<1>2. b \in Int /\ d * b <= q /\ q < d * b + d
  OBVIOUS
<1> HIDE DEF a, b
<1>3. a <= b
  <2> SUFFICES ASSUME b + 1 <= a PROVE FALSE
    BY <1>1, <1>2
  <2>1. d * (b + 1) <= d * a
    BY <1>1, <1>2
  <2>2. d * (b + 1) = d * b + d
    BY <1>2
  <2> QED
    BY <1>1, <1>2, <2>1, <2>2
<1>4. a \in Nat
  <2> SUFFICES ASSUME a <= -1 PROVE FALSE
    BY <1>1
  <2>1. d * a <= d * (-1)
    BY <1>1
  <2>2. d * (-1) = -d
    OBVIOUS
  <2> QED
    BY <1>1, <2>1, <2>2
<1> QED
  BY <1>3, <1>4 DEF a, b

\* A wider window keeps no less (_effective_history_cap), and every window one record.
LEMMA CapGrows ==
    ASSUME NEW v \in Nat, NEW w \in Nat, v <= w
    PROVE  Cap(v) \in Nat \ {0} /\ Cap(w) \in Nat \ {0} /\ Cap(v) <= Cap(w)
<1> DEFINE s == HealthInterval + BenchmarkInterval
           p == (12 * v) * s
           q == (12 * w) * s
           d == (10 * HealthInterval) * BenchmarkInterval
<1>1. s \in Nat /\ HealthInterval \in Nat \ {0} /\ BenchmarkInterval \in Nat \ {0}
  BY HistoryAssumption
<1>2. 12 * v \in Nat /\ 12 * w \in Nat /\ 12 * v <= 12 * w /\ 10 * HealthInterval \in Nat \ {0}
  BY <1>1
<1>3. p \in Nat /\ q \in Nat /\ d \in Nat \ {0}
  <2> HIDE DEF s
  <2>1. \A x, y \in Nat : x * y \in Nat
    OBVIOUS
  <2>2. \A x, y \in Nat \ {0} : x * y \in Nat \ {0}
    OBVIOUS
  <2> QED
    BY <1>1, <1>2, <2>1, <2>2
<1>4. p <= q
  <2> HIDE DEF s
  <2>1. \A x, y, z \in Nat : x <= y => x * z <= y * z
    OBVIOUS
  <2> QED
    BY <1>1, <1>2, <2>1
<1>5. Cap(v) = Larger2(1, p \div d) /\ Cap(w) = Larger2(1, q \div d)
  BY DEF Cap
<1> HIDE DEF p, q, d
<1>6. p \div d \in Nat /\ q \div d \in Nat /\ p \div d <= q \div d
  BY <1>3, <1>4, QuotientGrows
<1> QED
  BY <1>5, <1>6 DEF Larger2

LEMMA LeastWindow ==
    ASSUME NEW w \in Windows
    PROVE  /\ Min(Windows) \in Windows /\ Min(Windows) \in Nat
           /\ Cap(Min(Windows)) \in Nat \ {0} /\ Cap(w) \in Nat \ {0}
           /\ Cap(Min(Windows)) <= Cap(w)
<1>1. Windows \subseteq Nat
  BY HistoryAssumption
<1>2. \E x \in Windows : \A y \in Windows : x <= y
  BY <1>1, LeastNumber
<1>3. Min(Windows) \in Windows /\ \A y \in Windows : Min(Windows) <= y
  BY <1>2 DEF Min
<1> QED
  BY <1>1, <1>3, CapGrows

-----------------------------------------------------------------------------
(* What is picked of a sequence                                             *)

LEMMA Induct ==
    ASSUME NEW S, 0 \in S, \A n \in Nat : n \in S => n + 1 \in S
    PROVE  Nat \subseteq S
<1> DEFINE T == {n \in Nat : n \notin S}
<1>1. ASSUME T # {} PROVE FALSE
  <2>1. PICK n \in T : \A k \in T : n <= k
    BY <1>1, LeastNumber
  <2>2. n \in Nat /\ n # 0 /\ n - 1 \in Nat /\ n - 1 \notin T
    BY <2>1
  <2>3. n - 1 \in S /\ (n - 1) + 1 = n
    BY <2>2
  <2> QED
    BY <2>1, <2>2, <2>3
<1> QED
  BY <1>1

\* The steps of Picked.
Picks(s, P, n, F) ==
    /\ F = [i \in 0 .. n |-> F[i]]
    /\ F[0] = <<>>
    /\ \A i \in 1 .. n : F[i] = IF i \in P THEN Append(F[i - 1], s[i]) ELSE F[i - 1]

Recursion(s, P, n, F) ==
    F = [i \in 0 .. n |-> IF i = 0 THEN <<>>
                          ELSE IF i \in P THEN Append(F[i - 1], s[i]) ELSE F[i - 1]]

LEMMA RecursionPicks ==
    ASSUME NEW s, NEW P, NEW n \in Nat, NEW F
    PROVE  Recursion(s, P, n, F) <=> Picks(s, P, n, F)
<1> DEFINE step(i) == IF i \in P THEN Append(F[i - 1], s[i]) ELSE F[i - 1]
           G == [i \in 0 .. n |-> IF i = 0 THEN <<>> ELSE step(i)]
<1>1. /\ G = [i \in 0 .. n |-> G[i]]
      /\ G[0] = <<>>
      /\ \A i \in 1 .. n : G[i] = step(i)
  OBVIOUS
<1>2. Recursion(s, P, n, F) <=> F = G
  BY DEF Recursion
<1> HIDE DEF G
<1>3. ASSUME F = G PROVE Picks(s, P, n, F)
  BY <1>1, <1>3 DEF Picks
<1>4. ASSUME Picks(s, P, n, F) PROVE F = G
  <2>1. \A i \in 0 .. n : F[i] = G[i]
    <3> SUFFICES ASSUME NEW i \in 0 .. n PROVE F[i] = G[i]
      OBVIOUS
    <3>1. i = 0 \/ i \in 1 .. n
      OBVIOUS
    <3> QED
      BY <1>1, <1>4, <3>1 DEF Picks
  <2> QED
    BY <1>1, <1>4, <2>1 DEF Picks
<1> QED
  BY <1>2, <1>3, <1>4

LEMMA PicksExist ==
    ASSUME NEW s, NEW P, NEW n \in Nat
    PROVE  \E F : Picks(s, P, n, F)
<1> DEFINE N == {k \in Nat : \E F : Picks(s, P, k, F)}
<1>1. 0 \in N
  <2> DEFINE F == [i \in 0 .. 0 |-> <<>>]
  <2>1. Picks(s, P, 0, F)
    BY DEF Picks
  <2> QED
    BY <2>1
<1>2. ASSUME NEW k \in Nat, k \in N PROVE k + 1 \in N
  <2>1. PICK F : Picks(s, P, k, F)
    BY <1>2
  <2> DEFINE x == IF k + 1 \in P THEN Append(F[k], s[k + 1]) ELSE F[k]
             G == [i \in 0 .. k + 1 |-> IF i = k + 1 THEN x ELSE F[i]]
  <2> HIDE DEF x
  <2>2. G = [i \in 0 .. k + 1 |-> G[i]] /\ G[0] = <<>>
    BY <2>1 DEF Picks
  <2>3. ASSUME NEW i \in 1 .. k + 1
        PROVE  G[i] = IF i \in P THEN Append(G[i - 1], s[i]) ELSE G[i - 1]
    <3>1. G[i - 1] = F[i - 1] /\ G[i] = IF i = k + 1 THEN x ELSE F[i]
      OBVIOUS
    <3>2. i # k + 1 => i \in 1 .. k
      OBVIOUS
    <3>3. i = k + 1 => i - 1 = k
      OBVIOUS
    <3> QED
      BY <2>1, <3>1, <3>2, <3>3 DEF Picks, x
  <2>4. Picks(s, P, k + 1, G)
    BY <2>2, <2>3 DEF Picks
  <2> QED
    BY <2>4
<1> HIDE DEF N
<1>3. Nat \subseteq N
  BY <1>1, <1>2, Induct
<1> QED
  BY <1>3 DEF N

LEMMA PickedPicks ==
    ASSUME NEW A, NEW s \in Seq(A), NEW P
    PROVE  \E F : Picks(s, P, Len(s), F) /\ Picked(s, P) = F[Len(s)]
<1>1. Len(s) \in Nat
  BY LenProperties
<1>2. \E F : Recursion(s, P, Len(s), F)
  BY <1>1, PicksExist, RecursionPicks
<1> DEFINE F == CHOOSE F : Recursion(s, P, Len(s), F)
<1>3. Recursion(s, P, Len(s), F)
  BY <1>2
<1>4. Picked(s, P) = F[Len(s)]
  BY DEF Picked, Recursion
<1> HIDE DEF F
<1>5. Picks(s, P, Len(s), F)
  BY <1>1, <1>3, RecursionPicks
<1> QED
  BY <1>4, <1>5

\* What is left of a sequence after its first k elements.
After(s, k) == SubSeq(s, k + 1, Len(s))

LEMMA AfterFacts ==
    ASSUME NEW A, NEW s \in Seq(A), NEW k \in 0 .. Len(s)
    PROVE  /\ After(s, k) \in Seq(A)
           /\ Len(After(s, k)) = Len(s) - k
           /\ DOMAIN After(s, k) = 1 .. Len(s) - k
           /\ \A i \in 1 .. Len(s) - k : After(s, k)[i] = s[i + k]
<1>1. Len(s) \in Nat /\ k \in Int /\ \A i \in k + 1 .. Len(s) : s[i] \in A
  BY LenProperties, ElementOfSeq
<1> DEFINE u == SubSeq(s, k + 1, Len(s))
<1>2. /\ u \in Seq(A)
      /\ Len(u) = IF k + 1 <= Len(s) THEN Len(s) - (k + 1) + 1 ELSE 0
      /\ \A i \in 1 .. Len(s) - (k + 1) + 1 : u[i] = s[(k + 1) + i - 1]
  BY <1>1, SubSeqProperties
<1>3. DOMAIN u = 1 .. Len(u)
  BY <1>2, LenProperties
<1> HIDE DEF u
<1>4. Len(u) = Len(s) - k
  BY <1>1, <1>2
<1>5. \A i \in 1 .. Len(s) - k : u[i] = s[i + k]
  BY <1>1, <1>2
<1> QED
  BY <1>2, <1>3, <1>4, <1>5 DEF After, u

LEMMA AfterAfter ==
    ASSUME NEW A, NEW s \in Seq(A), NEW k \in 0 .. Len(s), NEW j \in 0 .. Len(s) - k
    PROVE  After(After(s, k), j) = After(s, k + j)
<1> DEFINE u == After(s, k)
           v == After(u, j)
           z == After(s, k + j)
<1>1. Len(s) \in Nat
  BY LenProperties
<1>2. u \in Seq(A) /\ Len(u) = Len(s) - k /\ \A i \in 1 .. Len(s) - k : u[i] = s[i + k]
  BY AfterFacts
<1> HIDE DEF u
<1>3. j \in 0 .. Len(u) /\ k + j \in 0 .. Len(s)
  BY <1>1, <1>2
<1>4. v \in Seq(A) /\ Len(v) = Len(u) - j /\ \A i \in 1 .. Len(u) - j : v[i] = u[i + j]
  BY <1>2, <1>3, AfterFacts
<1>5. /\ z \in Seq(A) /\ Len(z) = Len(s) - (k + j)
      /\ \A i \in 1 .. Len(s) - (k + j) : z[i] = s[i + (k + j)]
  BY <1>3, AfterFacts
<1> HIDE DEF v, z
<1>6. Len(v) = Len(z)
  BY <1>1, <1>2, <1>4, <1>5
<1>7. ASSUME NEW i \in 1 .. Len(v) PROVE v[i] = z[i]
  <2>1. v[i] = u[i + j] /\ i + j \in 1 .. Len(s) - k /\ i \in 1 .. Len(s) - (k + j)
    BY <1>1, <1>2, <1>4
  <2>2. u[i + j] = s[(i + j) + k] /\ z[i] = s[i + (k + j)] /\ (i + j) + k = i + (k + j)
    BY <1>1, <1>2, <1>5, <2>1
  <2> QED
    BY <2>1, <2>2
<1>8. v = z
  BY <1>4, <1>5, <1>6, <1>7, SeqEqual
<1> QED
  BY <1>8 DEF u, v, z

LEMMA PickedAll ==
    ASSUME NEW A, NEW s \in Seq(A), NEW P, 1 .. Len(s) \subseteq P
    PROVE  Picked(s, P) = s
<1>1. Len(s) \in Nat
  BY LenProperties
<1>2. PICK F : Picks(s, P, Len(s), F) /\ Picked(s, P) = F[Len(s)]
  BY PickedPicks
<1> DEFINE S == {n \in Nat : n <= Len(s) => F[n] = SubSeq(s, 1, n)}
<1>3. 0 \in S
  BY <1>2, SubSeqEmpty DEF Picks
<1>4. ASSUME NEW n \in Nat, n \in S PROVE n + 1 \in S
  <2> SUFFICES ASSUME n + 1 <= Len(s) PROVE F[n + 1] = SubSeq(s, 1, n + 1)
    OBVIOUS
  <2>1. n + 1 \in 1 .. Len(s) /\ n \in 0 .. Len(s) /\ (n + 1) - 1 = n
    BY <1>1
  <2>2. F[n + 1] = Append(SubSeq(s, 1, n), s[n + 1])
    <3>1. n + 1 \in P /\ F[n] = SubSeq(s, 1, n)
      BY <1>1, <1>4, <2>1
    <3>2. F[n + 1] = IF n + 1 \in P THEN Append(F[n], s[n + 1]) ELSE F[n]
      BY <1>2, <2>1 DEF Picks
    <3> QED
      BY <3>1, <3>2
  <2> DEFINE u == SubSeq(s, 1, n)
             v == SubSeq(s, 1, n + 1)
             x == s[n + 1]
  <2>3. /\ u \in Seq(A) /\ Len(u) = n /\ \A i \in 1 .. n : u[i] = s[i]
        /\ v \in Seq(A) /\ Len(v) = n + 1 /\ \A i \in 1 .. n + 1 : v[i] = s[i]
        /\ x \in A
    <3>1. \A i \in 1 .. n + 1 : s[i] \in A
      BY <2>1, ElementOfSeq
    <3> QED
      BY <2>1, <3>1, SubSeqProperties
  <2> HIDE DEF u, v, x
  <2>4. /\ Append(u, x) \in Seq(A) /\ Len(Append(u, x)) = n + 1
        /\ \A i \in 1 .. n : Append(u, x)[i] = u[i]
        /\ Append(u, x)[n + 1] = x
    BY <2>3, AppendProperties
  <2>5. v[n + 1] = x /\ \A i \in 1 .. n : v[i] = u[i]
    <3>1. v[n + 1] = s[n + 1]
      BY <2>3
    <3> QED
      BY <2>3, <3>1 DEF x
  <2>6. \A i \in 1 .. n + 1 : Append(u, x)[i] = v[i]
    BY <2>4, <2>5
  <2>7. Append(u, x) = v
    BY <2>3, <2>4, <2>6, SeqEqual
  <2> QED
    BY <2>2, <2>7 DEF u, v, x
<1> HIDE DEF S
<1>5. Nat \subseteq S
  BY <1>3, <1>4, Induct
<1>6. F[Len(s)] = SubSeq(s, 1, Len(s))
  BY <1>1, <1>5 DEF S
<1> QED
  BY <1>2, <1>6, SubSeqFull

\* Where nothing is picked of the first elements, they do not matter.
LEMMA PickedLater ==
    ASSUME NEW A, NEW s \in Seq(A), NEW k \in 0 .. Len(s), NEW P, NEW Q,
           \A i \in 1 .. k : i \notin P,
           \A i \in 1 .. Len(s) - k : i \in Q <=> i + k \in P
    PROVE  Picked(After(s, k), Q) = Picked(s, P)
<1> DEFINE t == After(s, k)
<1>1. Len(s) \in Nat
  BY LenProperties
<1>2. t \in Seq(A) /\ Len(t) = Len(s) - k /\ \A i \in 1 .. Len(s) - k : t[i] = s[i + k]
  BY AfterFacts
<1> HIDE DEF t
<1>3. PICK F : Picks(s, P, Len(s), F) /\ Picked(s, P) = F[Len(s)]
  BY PickedPicks
<1>4. PICK G : Picks(t, Q, Len(t), G) /\ Picked(t, Q) = G[Len(t)]
  BY <1>2, PickedPicks
<1>5. F[k] = <<>>
  <2> DEFINE S == {n \in Nat : n <= k => F[n] = <<>>}
  <2>1. 0 \in S
    BY <1>3 DEF Picks
  <2>2. ASSUME NEW n \in Nat, n \in S PROVE n + 1 \in S
    <3> SUFFICES ASSUME n + 1 <= k PROVE F[n + 1] = <<>>
      OBVIOUS
    <3>1. n + 1 \in 1 .. Len(s) /\ n + 1 \notin P /\ (n + 1) - 1 = n /\ F[n] = <<>>
      BY <1>1, <2>2
    <3> QED
      BY <1>3, <3>1 DEF Picks
  <2> HIDE DEF S
  <2>3. Nat \subseteq S
    BY <2>1, <2>2, Induct
  <2> QED
    BY <2>3 DEF S
<1>6. F[Len(t) + k] = G[Len(t)]
  <2> DEFINE S == {n \in Nat : n <= Len(t) => F[n + k] = G[n]}
  <2>1. 0 \in S
    BY <1>4, <1>5 DEF Picks
  <2>2. ASSUME NEW n \in Nat, n \in S PROVE n + 1 \in S
    <3> SUFFICES ASSUME n + 1 <= Len(t) PROVE F[(n + 1) + k] = G[n + 1]
      OBVIOUS
    <3>1. /\ n + 1 \in 1 .. Len(t) /\ (n + 1) - 1 = n
          /\ (n + 1) + k \in 1 .. Len(s) /\ ((n + 1) + k) - 1 = n + k
          /\ n + 1 \in 1 .. Len(s) - k
      BY <1>1, <1>2
    <3>2. F[n + k] = G[n]
      BY <2>2, <3>1
    <3>3. F[(n + 1) + k] = IF (n + 1) + k \in P THEN Append(F[n + k], s[(n + 1) + k]) ELSE F[n + k]
      BY <1>3, <3>1 DEF Picks
    <3>4. G[n + 1] = IF n + 1 \in Q THEN Append(G[n], t[n + 1]) ELSE G[n]
      BY <1>4, <3>1 DEF Picks
    <3>5. t[n + 1] = s[(n + 1) + k] /\ (n + 1 \in Q <=> (n + 1) + k \in P)
      BY <1>2, <3>1
    <3> QED
      BY <3>2, <3>3, <3>4, <3>5
  <2> HIDE DEF S
  <2>3. Nat \subseteq S
    BY <2>1, <2>2, Induct
  <2>4. Len(t) \in Nat /\ Len(t) <= Len(t)
    BY <1>1, <1>2
  <2>5. Len(t) \in S
    BY <2>3, <2>4
  <2> QED
    BY <2>4, <2>5 DEF S
<1>7. Len(t) + k = Len(s)
  BY <1>1, <1>2
<1> QED
  BY <1>3, <1>4, <1>6, <1>7 DEF t

\* What is picked from one place on.
LEMMA PickedFrom ==
    ASSUME NEW A, NEW s \in Seq(A), NEW k \in 0 .. Len(s), NEW P,
           \A i \in 1 .. Len(s) : i \in P <=> i > k
    PROVE  Picked(s, P) = After(s, k)
<1> DEFINE t == After(s, k)
           Q == 1 .. Len(s) - k
<1>1. Len(s) \in Nat
  BY LenProperties
<1>2. t \in Seq(A) /\ Len(t) = Len(s) - k
  BY AfterFacts
<1>3. \A i \in 1 .. k : i \notin P
  BY <1>1
<1>4. \A i \in 1 .. Len(s) - k : i \in Q <=> i + k \in P
  BY <1>1
<1>5. 1 .. Len(t) \subseteq Q
  BY <1>2
<1> HIDE DEF t, Q
<1>6. Picked(t, Q) = t
  BY <1>2, <1>5, PickedAll
<1>7. Picked(After(s, k), Q) = Picked(s, P)
  BY <1>3, <1>4, PickedLater
<1> QED
  BY <1>6, <1>7 DEF t

-----------------------------------------------------------------------------
(* Records in the order of time                                             *)

IsSeq(s) == s \in Seq(Range(s))

\* The records up to t, in the order in which they were made.
Chronicle(s, t) ==
    /\ IsSeq(s)
    /\ \A i \in 1 .. Len(s) : s[i].at \in Nat /\ s[i].at <= t
    /\ \A i, j \in 1 .. Len(s) : i <= j => s[i].at <= s[j].at

\* h is the last part of s.
Ends(s, h) == Len(h) \in 0 .. Len(s) /\ h = After(s, Len(s) - Len(h))

\* h has those of the last n records that are not older than t.
Recalled(s, h, t, n) ==
    \A i \in 1 .. Len(s) : s[i].at >= t /\ Len(s) - i < n => Len(s) - i < Len(h)

LEMMA SeqIsSeq ==
    ASSUME NEW T, NEW s \in Seq(T)
    PROVE  IsSeq(s)
BY SeqOfRange DEF IsSeq

LEMMA AppendIsSeq ==
    ASSUME NEW s, NEW x, IsSeq(s)
    PROVE  /\ IsSeq(Append(s, x))
           /\ Len(s) \in Nat
           /\ Len(Append(s, x)) = Len(s) + 1
           /\ \A i \in 1 .. Len(s) : Append(s, x)[i] = s[i]
           /\ Append(s, x)[Len(s) + 1] = x
<1> DEFINE R == Range(s)
           T == R \cup {x}
<1>1. s \in Seq(R) /\ R \subseteq T /\ x \in T
  BY DEF IsSeq
<1> HIDE DEF R, T
<1>2. s \in Seq(T)
  BY <1>1, SeqMonotonic
<1>3. /\ Append(s, x) \in Seq(T) /\ Len(Append(s, x)) = Len(s) + 1
      /\ \A i \in 1 .. Len(s) : Append(s, x)[i] = s[i]
      /\ Append(s, x)[Len(s) + 1] = x
  BY <1>1, <1>2, AppendProperties
<1>4. Len(s) \in Nat
  BY <1>2, LenProperties
<1> QED
  BY <1>3, <1>4, SeqIsSeq

LEMMA ChronicleFacts ==
    ASSUME NEW s, NEW t, Chronicle(s, t)
    PROVE  /\ IsSeq(s) /\ s \in Seq(Range(s)) /\ Len(s) \in Nat /\ DOMAIN s = 1 .. Len(s)
           /\ \A i \in 1 .. Len(s) : s[i].at \in Nat
<1>1. s \in Seq(Range(s))
  BY DEF Chronicle, IsSeq
<1> QED
  BY <1>1, LenProperties DEF Chronicle

\* A time cuts the records in two.
LEMMA Cut ==
    ASSUME NEW s, NEW t, Chronicle(s, t), NEW u \in Int
    PROVE  \E o \in 0 .. Len(s) : \A i \in 1 .. Len(s) : s[i].at >= u <=> i > o
<1>1. Len(s) \in Nat /\ \A i \in 1 .. Len(s) : s[i].at \in Nat
  BY ChronicleFacts
<1> DEFINE Y == {i \in 1 .. Len(s) : s[i].at >= u}
<1>2. CASE Y = {}
  <2>1. \A i \in 1 .. Len(s) : s[i].at >= u <=> i > Len(s)
    BY <1>1, <1>2
  <2>2. Len(s) \in 0 .. Len(s)
    BY <1>1
  <2> QED
    BY <2>1, <2>2
<1>3. CASE Y # {}
  <2>1. PICK y \in Y : \A k \in Y : y <= k
    <3>1. Y \subseteq Nat
      BY <1>1
    <3> HIDE DEF Y
    <3> QED
      BY <1>3, <3>1, LeastNumber
  <2>2. y \in 1 .. Len(s) /\ s[y].at >= u /\ y - 1 \in 0 .. Len(s)
    BY <1>1, <2>1
  <2>3. ASSUME NEW i \in 1 .. Len(s) PROVE s[i].at >= u <=> i > y - 1
    <3>1. s[i].at >= u => y <= i
      BY <2>1
    <3>2. y <= i => s[y].at <= s[i].at
      BY <2>2 DEF Chronicle
    <3> QED
      BY <1>1, <2>2, <3>1, <3>2
  <2> QED
    BY <2>2, <2>3
<1> QED
  BY <1>2, <1>3

LEMMA AfterChronicle ==
    ASSUME NEW s, NEW t, Chronicle(s, t), NEW k \in 0 .. Len(s)
    PROVE  /\ Chronicle(After(s, k), t)
           /\ Ends(s, After(s, k)) /\ Len(After(s, k)) = Len(s) - k
           /\ \A i \in 1 .. Len(s) - k : After(s, k)[i] = s[i + k]
<1>1. s \in Seq(Range(s)) /\ Len(s) \in Nat /\ \A i \in 1 .. Len(s) : s[i].at \in Nat
  BY ChronicleFacts
<1> DEFINE u == After(s, k)
<1>2. u \in Seq(Range(s)) /\ Len(u) = Len(s) - k /\ \A i \in 1 .. Len(s) - k : u[i] = s[i + k]
  BY <1>1, AfterFacts
<1>3. Ends(s, u)
  <2>1. Len(u) \in 0 .. Len(s) /\ Len(s) - Len(u) = k
    BY <1>1, <1>2
  <2> QED
    BY <2>1 DEF Ends
<1> HIDE DEF u
<1>4. \A i \in 1 .. Len(u) : u[i] = s[i + k] /\ i + k \in 1 .. Len(s)
  BY <1>1, <1>2
<1>5. \A i \in 1 .. Len(u) : u[i].at \in Nat /\ u[i].at <= t
  BY <1>4 DEF Chronicle
<1>6. ASSUME NEW i \in 1 .. Len(u), NEW j \in 1 .. Len(u), i <= j PROVE u[i].at <= u[j].at
  <2>1. i + k <= j + k /\ i + k \in 1 .. Len(s) /\ j + k \in 1 .. Len(s)
    BY <1>1, <1>2, <1>6
  <2>2. s[i + k].at <= s[j + k].at
    BY <2>1 DEF Chronicle
  <2> QED
    BY <1>4, <2>2
<1>7. Chronicle(u, t)
  BY <1>2, <1>5, <1>6, SeqIsSeq DEF Chronicle
<1> QED
  BY <1>2, <1>3, <1>7 DEF u

\* The last n of what is left.
LEMMA LastOfAfter ==
    ASSUME NEW s, NEW t, Chronicle(s, t), NEW k \in 0 .. Len(s), NEW n \in Nat \ {0}
    PROVE  /\ Larger2(k, Len(s) - n) \in 0 .. Len(s)
           /\ LastOf(After(s, k), n) = After(s, Larger2(k, Len(s) - n))
<1> DEFINE u == After(s, k)
           j == Larger2(0, Len(u) - n)
<1>1. s \in Seq(Range(s)) /\ Len(s) \in Nat
  BY ChronicleFacts
<1>2. Len(u) = Len(s) - k
  BY AfterChronicle
<1>3. LastOf(u, n) = After(u, j)
  <2>1. Larger2(1, Len(u) - n + 1) = j + 1
    BY <1>1, <1>2 DEF Larger2
  <2> QED
    BY <2>1 DEF LastOf, After
<1> HIDE DEF u
<1>4. j \in 0 .. Len(s) - k /\ k + j = Larger2(k, Len(s) - n) /\ k + j \in 0 .. Len(s)
  BY <1>1, <1>2 DEF Larger2
<1> HIDE DEF j
<1>5. After(u, j) = After(s, k + j)
  BY <1>1, <1>4, AfterAfter DEF u
<1> QED
  BY <1>3, <1>4, <1>5 DEF u

\* Those of them that are not older than a time.
LEMMA PickedAfter ==
    ASSUME NEW s, NEW t, Chronicle(s, t), NEW k \in 0 .. Len(s), NEW o \in 0 .. Len(s),
           NEW u \in Int, \A i \in 1 .. Len(s) : s[i].at >= u <=> i > o
    PROVE  /\ Larger2(k, o) \in 0 .. Len(s)
           /\ Picked(After(s, k), Since(After(s, k), u)) = After(s, Larger2(k, o))
<1> DEFINE v == After(s, k)
           j == Larger2(0, o - k)
           P == Since(v, u)
<1>1. s \in Seq(Range(s)) /\ Len(s) \in Nat
  BY ChronicleFacts
<1>2. /\ v \in Seq(Range(s)) /\ Len(v) = Len(s) - k /\ DOMAIN v = 1 .. Len(s) - k
      /\ \A i \in 1 .. Len(s) - k : v[i] = s[i + k]
  BY <1>1, AfterFacts
<1> HIDE DEF v
<1>3. ASSUME NEW i \in 1 .. Len(v) PROVE i \in P <=> i > j
  <2>1. i + k \in 1 .. Len(s) /\ v[i] = s[i + k] /\ i \in DOMAIN v
    BY <1>1, <1>2
  <2>2. i \in P <=> s[i + k].at >= u
    BY <2>1 DEF Since
  <2>3. s[i + k].at >= u <=> i + k > o
    BY <2>1
  <2>4. i + k > o <=> i > j
    BY <1>1, <1>2 DEF Larger2
  <2> QED
    BY <2>2, <2>3, <2>4
<1>4. /\ j \in 0 .. Len(v) /\ j \in 0 .. Len(s) - k
      /\ k + j = Larger2(k, o) /\ k + j \in 0 .. Len(s)
  BY <1>1, <1>2 DEF Larger2
<1> HIDE DEF P, j
<1>5. Picked(v, P) = After(v, j)
  BY <1>2, <1>3, <1>4, PickedFrom
<1>6. After(v, j) = After(s, k + j)
  BY <1>1, <1>4, AfterAfter DEF v
<1> QED
  BY <1>4, <1>5, <1>6 DEF P, v

\* What a cap and a window leave of the last part of the records, and what of it
\* they cannot take away.
LEMMA CutBack ==
    ASSUME NEW s, NEW t \in Nat, Chronicle(s, t), NEW h, Ends(s, h), NEW n \in Nat \ {0}, NEW u \in Int
    PROVE  LET last == LastOf(h, n)
               k == Picked(last, Since(last, u))
           IN  /\ Ends(s, k) /\ Len(k) <= n
               /\ \A v \in Int, m \in Nat : v >= u /\ m <= n /\ Recalled(s, h, v, m) => Recalled(s, k, v, m)
<1> DEFINE a == Len(s) - Len(h)
           b == Larger2(a, Len(s) - n)
           last == LastOf(h, n)
           k == Picked(last, Since(last, u))
<1>1. Len(s) \in Nat /\ a \in 0 .. Len(s) /\ h = After(s, a) /\ Len(h) = Len(s) - a
  BY ChronicleFacts DEF Ends
<1> HIDE DEF a
<1>2. b \in 0 .. Len(s) /\ last = After(s, b)
  BY <1>1, LastOfAfter
<1>3. PICK o \in 0 .. Len(s) : \A i \in 1 .. Len(s) : s[i].at >= u <=> i > o
  BY Cut
<1> DEFINE c == Larger2(b, o)
<1>4. c \in 0 .. Len(s) /\ k = After(s, c)
  <2> HIDE DEF b, last
  <2> QED
    BY <1>2, <1>3, PickedAfter
<1>5. Ends(s, k) /\ Len(k) = Len(s) - c
  <2> HIDE DEF c, k
  <2> QED
    BY <1>4, AfterChronicle
<1> HIDE DEF k, last
<1>6. Len(k) <= n
  BY <1>1, <1>3, <1>5 DEF Larger2
<1>7. ASSUME NEW v \in Int, NEW m \in Nat, v >= u, m <= n, Recalled(s, h, v, m),
             NEW i \in 1 .. Len(s), s[i].at >= v, Len(s) - i < m
      PROVE  Len(s) - i < Len(k)
  <2>1. Len(s) - i < Len(h)
    BY <1>7 DEF Recalled
  <2>2. s[i].at \in Nat
    BY ChronicleFacts
  <2>3. i > o
    BY <1>3, <1>7, <2>2
  <2>4. i > a /\ i > Len(s) - n
    BY <1>1, <1>7, <2>1
  <2> QED
    BY <1>1, <1>3, <1>5, <2>3, <2>4 DEF Larger2
<1> QED
  BY <1>5, <1>6, <1>7 DEF k, last, Recalled

-----------------------------------------------------------------------------
(* What memory has of the records                                           *)

\* recent_history is the last part of test_results. It is no longer than the cap,
\* misses nothing of the window that the cap has room for, unless the window was
\* widened, and nothing that counts for the uptime under any window.
Remembered ==
    /\ now \in Nat /\ uptimeAt \in Nat
    /\ window \in Windows
    /\ Chronicle(rows, now)
    /\ Ends(rows, history)
    /\ Len(history) <= Cap(window)
    /\ grown \/ Recalled(rows, history, now - window, Cap(window))
    /\ Recalled(rows, history, now - UptimeWindow + 1, Cap(Min(Windows)))
    /\ UptimeAgrees

LEMMA WindowFacts ==
    ASSUME NEW w \in Windows
    PROVE  w \in Nat /\ UptimeWindow \in Nat /\ UptimeWindow <= w
BY HistoryAssumption

LEMMA InitRemembered == HistoryInit => Remembered
<1> SUFFICES ASSUME HistoryInit PROVE Remembered
  OBVIOUS
<1>1. /\ now = 0 /\ uptimeAt = 0 /\ window \in Windows /\ rows = <<>> /\ history = <<>>
      /\ uptime = None
  BY DEF HistoryInit
<1>2. <<>> \in Seq({}) /\ Len(<<>>) = 0
  BY EmptySeq
<1>3. Chronicle(rows, now) /\ Ends(rows, history)
  <2>1. IsSeq(rows)
    BY <1>1, <1>2, SeqIsSeq
  <2>2. After(rows, 0) = <<>>
    BY <1>1, <1>2, SubSeqEmpty DEF After
  <2> QED
    BY <1>1, <1>2, <2>1, <2>2 DEF Chronicle, Ends
<1>4. Recalled(rows, history, now - window, Cap(window))
      /\ Recalled(rows, history, now - UptimeWindow + 1, Cap(Min(Windows)))
  BY <1>1, <1>2 DEF Recalled
<1>5. UptimeAgrees
  <2> DEFINE P == Counted(<<>>, 0)
             x == <<>>
  <2>1. x \in Seq({}) /\ 1 .. Len(x) \subseteq P
    BY <1>2
  <2>2. Picked(x, P) = x
    <3> HIDE DEF x, P
    <3> QED
      BY ONLY <2>1, PickedAll
  <2> QED
    BY <1>1, <2>2 DEF UptimeAgrees, StoredUptime, Percent
<1>6. Len(history) <= Cap(window)
  BY <1>1, <1>2, LeastWindow
<1> QED
  BY <1>1, <1>3, <1>4, <1>5, <1>6 DEF Remembered

\* One record more, made now.
LEMMA OneMore ==
    ASSUME NEW s, NEW t \in Nat, NEW h, NEW r, Chronicle(s, t), Ends(s, h), r.at = t
    PROVE  /\ Chronicle(Append(s, r), t) /\ Ends(Append(s, r), Append(h, r))
           /\ Len(Append(h, r)) = Len(h) + 1
           /\ \A v \in Int, n \in Nat : Recalled(s, h, v, n) => Recalled(Append(s, r), Append(h, r), v, n)
<1> DEFINE a == Len(s) - Len(h)
           z == Append(s, r)
           k == Append(h, r)
           u == After(z, a)
<1>1. /\ IsSeq(s) /\ Len(s) \in Nat /\ a \in 0 .. Len(s) /\ h = After(s, a) /\ Len(h) = Len(s) - a
  BY ChronicleFacts DEF Ends
<1>2. /\ IsSeq(z) /\ Len(z) = Len(s) + 1 /\ \A i \in 1 .. Len(s) : z[i] = s[i]
      /\ z[Len(s) + 1] = r
  BY <1>1, AppendIsSeq
<1> HIDE DEF z
<1>3. Chronicle(z, t)
  <2>1. \A i \in 1 .. Len(z) : i \in 1 .. Len(s) \/ i = Len(s) + 1
    BY <1>1, <1>2
  <2>2. \A i \in 1 .. Len(z) : z[i].at \in Nat /\ z[i].at <= t
    BY <1>2, <2>1 DEF Chronicle
  <2>3. ASSUME NEW i \in 1 .. Len(z), NEW j \in 1 .. Len(z), i <= j PROVE z[i].at <= z[j].at
    <3>1. CASE j = Len(s) + 1
      BY <1>2, <2>2, <3>1
    <3>2. CASE j \in 1 .. Len(s)
      <4>1. i \in 1 .. Len(s)
        BY <1>1, <2>3, <3>2
      <4> QED
        BY <1>2, <2>3, <3>2, <4>1 DEF Chronicle
    <3> QED
      BY <2>1, <3>1, <3>2
  <2> QED
    BY <1>2, <2>2, <2>3 DEF Chronicle
<1> HIDE DEF a
<1>4. /\ IsSeq(h) /\ \A i \in 1 .. Len(h) : h[i] = s[i + a]
  <2>1. Chronicle(h, t) /\ \A i \in 1 .. Len(s) - a : h[i] = s[i + a]
    BY <1>1, AfterChronicle
  <2> QED
    BY <1>1, <2>1 DEF Chronicle
<1>5. /\ IsSeq(k) /\ Len(k) = Len(h) + 1 /\ \A i \in 1 .. Len(h) : k[i] = h[i]
      /\ k[Len(h) + 1] = r
  BY <1>4, AppendIsSeq
<1> HIDE DEF k
<1>6. a \in 0 .. Len(z) /\ Len(z) - Len(k) = a /\ Len(k) \in 0 .. Len(z)
  BY <1>1, <1>2, <1>5
<1>7. Chronicle(u, t) /\ Len(u) = Len(z) - a /\ \A i \in 1 .. Len(z) - a : u[i] = z[i + a]
  BY <1>3, <1>6, AfterChronicle
<1> HIDE DEF u
<1>8. ASSUME NEW i \in 1 .. Len(k) PROVE k[i] = u[i]
  <2>1. u[i] = z[i + a]
    BY <1>1, <1>2, <1>5, <1>6, <1>7
  <2>2. CASE i \in 1 .. Len(h)
    <3>1. i + a \in 1 .. Len(s)
      BY <1>1, <2>2
    <3> QED
      BY <1>2, <1>4, <1>5, <2>1, <2>2, <3>1
  <2>3. CASE i = Len(h) + 1
    <3>1. i + a = Len(s) + 1
      BY <1>1, <2>3
    <3> QED
      BY <1>2, <1>5, <2>1, <2>3, <3>1
  <2>4. Len(h) \in Nat
    BY <1>1
  <2>5. i \in 1 .. Len(h) \/ i = Len(h) + 1
    BY ONLY <1>5, <2>4, i \in 1 .. Len(k)
  <2> QED
    BY <2>2, <2>3, <2>5
<1>9. Ends(z, k)
  <2>1. k = [i \in 1 .. Len(k) |-> k[i]] /\ u = [i \in 1 .. Len(u) |-> u[i]]
    <3>1. k \in Seq(Range(k)) /\ u \in Seq(Range(u))
      BY <1>5, <1>7 DEF IsSeq, Chronicle
    <3> QED
      BY <3>1, LenProperties
  <2>2. Len(u) = Len(k)
    BY <1>1, <1>2, <1>5, <1>6, <1>7
  <2>3. k = u
    BY <1>8, <2>1, <2>2
  <2> QED
    BY <1>6, <2>3 DEF Ends, u
<1>10. ASSUME NEW v \in Int, NEW n \in Nat, Recalled(s, h, v, n),
              NEW i \in 1 .. Len(z), z[i].at >= v, Len(z) - i < n
       PROVE  Len(z) - i < Len(k)
  <2>1. CASE i \in 1 .. Len(s)
    <3>1. s[i].at >= v /\ Len(s) - i < n
      BY <1>1, <1>2, <1>10, <2>1
    <3>2. Len(s) - i < Len(h)
      BY <1>10, <2>1, <3>1 DEF Recalled
    <3> QED
      BY <1>1, <1>2, <1>5, <2>1, <3>2
  <2>2. CASE i = Len(s) + 1
    BY <1>1, <1>2, <1>5, <2>2
  <2> QED
    BY <1>1, <1>2, <2>1, <2>2
<1> QED
  BY <1>3, <1>5, <1>9, <1>10 DEF Recalled, z, k

\* Where memory has what counts, its uptime is that of the records.
LEMMA SameUptime ==
    ASSUME NEW s, NEW t \in Nat, Chronicle(s, t), NEW h, Ends(s, h), NEW n \in Nat,
           Recalled(s, h, t - UptimeWindow + 1, n),
           Cardinality(Since(s, t - UptimeWindow + 1)) <= n, UptimeWindow \in Nat
    PROVE  Picked(h, Counted(h, t)) = Picked(s, Counted(s, t))
<1> DEFINE a == Len(s) - Len(h)
           u == t - UptimeWindow + 1
           P == Counted(s, t)
           Q == Counted(h, t)
<1>1. /\ s \in Seq(Range(s)) /\ Len(s) \in Nat /\ DOMAIN s = 1 .. Len(s) /\ u \in Int
      /\ \A i \in 1 .. Len(s) : s[i].at \in Nat
  BY ChronicleFacts
<1>2. a \in 0 .. Len(s) /\ h = After(s, a) /\ Len(h) = Len(s) - a
  BY <1>1 DEF Ends
<1> HIDE DEF a
<1>3. /\ DOMAIN h = 1 .. Len(s) - a
      /\ \A i \in 1 .. Len(s) - a : h[i] = s[i + a]
  BY <1>1, <1>2, AfterFacts
<1>4. PICK o \in 0 .. Len(s) : \A i \in 1 .. Len(s) : s[i].at >= u <=> i > o
  BY <1>1, Cut
<1>5. Len(s) - o <= n
  <2>1. Since(s, u) = o + 1 .. Len(s)
    BY <1>1, <1>4 DEF Since
  <2>2. Cardinality(o + 1 .. Len(s)) = IF o + 1 > Len(s) THEN 0 ELSE Len(s) - (o + 1) + 1
    <3>1. o + 1 \in Int /\ Len(s) \in Int
      BY <1>1, <1>4
    <3> QED
      BY ONLY <3>1, FS_Interval
  <2>3. Cardinality(o + 1 .. Len(s)) <= n
    BY <2>1
  <2> QED
    BY <1>1, <1>4, <2>2, <2>3
<1>6. \A i \in 1 .. a : i \notin P
  <2> SUFFICES ASSUME NEW i \in 1 .. a, i \in P PROVE FALSE
    OBVIOUS
  <2>1. i \in 1 .. Len(s) /\ s[i].at \in Nat /\ s[i].at > t - UptimeWindow
    BY <1>1, <1>2 DEF Counted
  <2>2. s[i].at >= u /\ i > o
    BY <1>1, <1>4, <2>1
  <2>3. Len(s) - i < n
    BY <1>1, <1>4, <1>5, <2>1, <2>2
  <2>4. Len(s) - i < Len(h)
    BY <2>1, <2>2, <2>3 DEF Recalled
  <2> QED
    BY <1>1, <1>2, <2>4
<1>7. \A i \in 1 .. Len(s) - a : i \in Q <=> i + a \in P
  <2> SUFFICES ASSUME NEW i \in 1 .. Len(s) - a PROVE i \in Q <=> i + a \in P
    OBVIOUS
  <2>1. h[i] = s[i + a] /\ i \in DOMAIN h /\ i + a \in DOMAIN s
    BY <1>1, <1>2, <1>3
  <2> QED
    BY <2>1 DEF Counted
<1> HIDE DEF P, Q
<1> DEFINE A == Range(s)
<1> HIDE DEF A
<1>8. Picked(After(s, a), Q) = Picked(s, P)
  <2>1. s \in Seq(A) /\ a \in 0 .. Len(s)
    BY <1>1, <1>2 DEF A
  <2> QED
    BY ONLY <1>6, <1>7, <2>1, PickedLater
<1> QED
  BY <1>2, <1>8 DEF P, Q

\* _append_history: a record is kept with what was kept before it, and the uptime
\* computed from that is the one of the rows.
LEMMA EnterRemembered ==
    ASSUME Remembered, NEW x, NEW retry, Enter(x, retry), UNCHANGED <<now, window, grown>>
    PROVE  Remembered'
<1> DEFINE r == Record(x, retry)
           h == Append(history, r)
           n == Cap(window)
           u == now - window
           last == LastOf(h, n)
           k == Picked(last, Since(last, u))
<1>1. /\ rows' = Append(rows, r) /\ history' = Kept(h) /\ uptime' = UptimeOf(history')
      /\ uptimeAt' = now /\ r.at = now
  <2>1. r.at = now
    BY DEF Record
  <2> QED
    BY <2>1 DEF Enter
<1>2. /\ now \in Nat /\ window \in Windows /\ window \in Nat /\ u \in Int
      /\ UptimeWindow \in Nat /\ UptimeWindow <= window
      /\ n \in Nat \ {0} /\ Cap(Min(Windows)) \in Nat /\ Cap(Min(Windows)) <= n
  BY WindowFacts, LeastWindow DEF Remembered
<1> HIDE DEF r
<1>3. /\ Chronicle(rows', now) /\ Ends(rows', h) /\ Len(h) = Len(history) + 1
      /\ \A v \in Int, m \in Nat : Recalled(rows, history, v, m) => Recalled(rows', h, v, m)
  BY <1>1, <1>2, OneMore DEF Remembered
<1> HIDE DEF h
<1>4. /\ Ends(rows', k) /\ Len(k) <= n
      /\ \A v \in Int, m \in Nat : v >= u /\ m <= n /\ Recalled(rows', h, v, m) => Recalled(rows', k, v, m)
  <2> HIDE DEF n, u
  <2> QED
    BY <1>2, <1>3, CutBack
<1>5. Kept(h) = k
  <2> DEFINE a == Len(rows') - Len(h)
             b == Larger2(a, Len(rows') - n)
  <2>1. /\ a \in 0 .. Len(rows') /\ h = After(rows', a) /\ Len(rows') \in Nat
        /\ Len(h) = Len(rows') - a /\ Len(h) > 0
    <3>1. Len(history) \in Nat
      BY ChronicleFacts DEF Remembered, Ends
    <3>2. Len(rows') \in Nat
      BY <1>3, ChronicleFacts
    <3> QED
      BY <1>3, <3>1, <3>2 DEF Ends
  <2> HIDE DEF a
  <2>2. b \in 0 .. Len(rows') /\ last = After(rows', b) /\ b < Len(rows')
    <3>1. b \in 0 .. Len(rows') /\ last = After(rows', b)
      <4> HIDE DEF n
      <4> QED
        BY <1>2, <1>3, <2>1, LastOfAfter
    <3> QED
      BY <1>2, <2>1, <3>1 DEF Larger2
  <2> HIDE DEF b, last
  <2>3. Chronicle(last, now) /\ Len(last) = Len(rows') - b
    BY <1>3, <2>2, AfterChronicle
  <2>4. ASSUME ~(last[1].at < u) PROVE k = last
    <3>1. /\ last \in Seq(Range(last)) /\ DOMAIN last = 1 .. Len(last) /\ Len(last) \in Nat
          /\ \A i \in 1 .. Len(last) : last[i].at \in Nat
      BY <2>3, ChronicleFacts
    <3>2. ASSUME NEW i \in 1 .. Len(last) PROVE i \in Since(last, u)
      <4>1. 1 \in 1 .. Len(last) /\ 1 <= i
        BY <3>1
      <4>2. last[1].at <= last[i].at
        BY <2>3, <4>1 DEF Chronicle
      <4>3. last[i].at >= u
        BY <1>2, <2>4, <3>1, <4>1, <4>2
      <4> QED
        BY <3>1, <4>3 DEF Since
    <3> DEFINE P == Since(last, u)
               A == Range(last)
    <3>3. last \in Seq(A) /\ 1 .. Len(last) \subseteq P
      BY <3>1, <3>2
    <3> HIDE DEF P, A
    <3>4. Picked(last, P) = last
      BY ONLY <3>3, PickedAll
    <3> QED
      BY <3>4 DEF P
  <2>5. Kept(h) = IF last[1].at < u THEN Within(last) ELSE last
    BY DEF Kept, last
  <2>6. Within(last) = k
    BY DEF Within
  <2> QED
    BY <2>4, <2>5, <2>6
<1>6. history' = k
  BY <1>1, <1>5
<1> HIDE DEF k, last
<1>7. grown' \/ Recalled(rows', history', u, n)
  <2>1. grown \/ Recalled(rows', h, u, n)
    BY <1>2, <1>3 DEF Remembered
  <2>2. u >= u /\ n <= n
    BY <1>2
  <2>3. Recalled(rows', h, u, n) => Recalled(rows', k, u, n)
    BY <1>2, <1>4, <2>2
  <2> QED
    BY <1>6, <2>1, <2>3
<1> DEFINE v == now - UptimeWindow + 1
           m == Cap(Min(Windows))
<1>8. Recalled(rows', history', v, m)
  <2>1. v \in Int /\ v >= u /\ m \in Nat /\ m <= n
    BY <1>2
  <2>2. Recalled(rows', h, v, m)
    BY <1>3, <2>1 DEF Remembered
  <2> QED
    BY <1>4, <1>6, <2>1, <2>2
<1>9. UptimeAgrees'
  <2>1. ASSUME Cardinality(Since(rows', v)) <= m
        PROVE  UptimeOf(history') = Percent(Picked(rows', Counted(rows', now)))
    <3>1. Picked(history', Counted(history', now)) = Picked(rows', Counted(rows', now))
      <4>1. /\ Chronicle(rows', now) /\ Ends(rows', history') /\ m \in Nat /\ UptimeWindow \in Nat
            /\ Recalled(rows', history', now - UptimeWindow + 1, m) /\ now \in Nat
            /\ Cardinality(Since(rows', now - UptimeWindow + 1)) <= m
        BY <1>2, <1>3, <1>4, <1>6, <1>8, <2>1
      <4> HIDE DEF m
      <4> QED
        BY ONLY <4>1, SameUptime
    <3> QED
      BY <3>1 DEF UptimeOf
  <2>2. UptimeAgrees' <=> (Cardinality(Since(rows', uptimeAt' - UptimeWindow + 1)) <= m
                              => uptime' = Percent(Picked(rows', Counted(rows', uptimeAt'))))
    BY DEF UptimeAgrees, StoredUptime
  <2> QED
    BY <1>1, <2>1, <2>2
<1> QED
  BY <1>1, <1>2, <1>3, <1>4, <1>6, <1>7, <1>8, <1>9 DEF Remembered

LEMMA TickRemembered == Remembered /\ Tick => Remembered'
<1> SUFFICES ASSUME Remembered, Tick PROVE Remembered'
  OBVIOUS
<1>1. now' = now + 1 /\ UNCHANGED <<window, rows, history, uptime, uptimeAt, rtts, grown>>
  BY DEF Tick
<1>2. /\ now \in Nat /\ window \in Nat /\ UptimeWindow \in Nat
      /\ \A i \in 1 .. Len(rows) : rows[i].at \in Nat
  BY WindowFacts, ChronicleFacts DEF Remembered
<1>3. Chronicle(rows, now + 1)
  BY <1>2 DEF Remembered, Chronicle
<1>4. ASSUME NEW t \in Int, NEW n, Recalled(rows, history, t, n)
      PROVE  Recalled(rows, history, t + 1, n)
  BY <1>2, <1>4 DEF Recalled
<1>5. grown \/ Recalled(rows, history, (now - window) + 1, Cap(window))
  BY <1>2, <1>4 DEF Remembered
<1>6. Recalled(rows, history, (now - UptimeWindow + 1) + 1, Cap(Min(Windows)))
  BY <1>2, <1>4 DEF Remembered
<1>7. /\ (now + 1) - window = (now - window) + 1
      /\ (now + 1) - UptimeWindow + 1 = (now - UptimeWindow + 1) + 1
      /\ now + 1 \in Nat
  BY <1>2
<1>8. UptimeAgrees'
  BY <1>1 DEF Remembered, UptimeAgrees, StoredUptime, Counted, Since, Percent
<1> QED
  BY <1>1, <1>3, <1>5, <1>6, <1>7, <1>8 DEF Remembered

\* A reload with another window cuts the history to it (reload_config).
LEMMA ReloadRemembered ==
    ASSUME Remembered, NEW w \in Windows, Reload(w)
    PROVE  Remembered'
<1> DEFINE n == Cap(w)
           u == now - w
           last == LastOf(history, n)
           k == Picked(last, Since(last, u))
<1>1. /\ window' = w /\ grown' = (grown \/ w > window) /\ history' = k
      /\ UNCHANGED <<now, rows, uptime, uptimeAt, rtts>>
  BY DEF Reload
<1>2. /\ now \in Nat /\ window \in Nat /\ w \in Nat /\ u \in Int
      /\ UptimeWindow \in Nat /\ UptimeWindow <= w
      /\ n \in Nat \ {0} /\ Cap(Min(Windows)) \in Nat /\ Cap(Min(Windows)) <= n
  BY WindowFacts, LeastWindow DEF Remembered
<1>3. /\ Ends(rows, k) /\ Len(k) <= n
      /\ \A v \in Int, m \in Nat : v >= u /\ m <= n /\ Recalled(rows, history, v, m) => Recalled(rows, k, v, m)
  <2> HIDE DEF n, u
  <2> QED
    BY <1>2, CutBack DEF Remembered
<1> HIDE DEF k, last
<1>4. grown' \/ Recalled(rows, k, u, n)
  <2> SUFFICES ASSUME ~grown' PROVE Recalled(rows, k, u, n)
    OBVIOUS
  <2>1. ~grown /\ w <= window
    <3>1. ~(grown \/ w > window)
      BY <1>1, Zenon
    <3>2. ~grown /\ ~(w > window)
      BY <3>1
    <3> QED
      BY <1>2, <3>2
  <2>2. n <= Cap(window) /\ u >= now - window /\ Cap(window) \in Nat
    BY <1>2, <2>1, CapGrows
  <2>3. Recalled(rows, history, now - window, Cap(window))
    BY <2>1 DEF Remembered
  <2>4. \A i \in 1 .. Len(rows) : rows[i].at \in Nat
    BY ChronicleFacts DEF Remembered
  <2>5. Len(rows) \in Nat
    BY ChronicleFacts DEF Remembered
  <2>6. Recalled(rows, history, u, n)
    <3> SUFFICES ASSUME NEW i \in 1 .. Len(rows), rows[i].at >= u, Len(rows) - i < n
                 PROVE  Len(rows) - i < Len(history)
      BY DEF Recalled
    <3>1. rows[i].at >= now - window /\ Len(rows) - i < Cap(window)
      BY <1>2, <2>2, <2>4, <2>5
    <3> QED
      BY <2>3, <3>1 DEF Recalled
  <2> QED
    BY <1>2, <1>3, <2>6
<1>5. Recalled(rows, k, now - UptimeWindow + 1, Cap(Min(Windows)))
  <2>1. now - UptimeWindow + 1 \in Int /\ now - UptimeWindow + 1 >= u
    BY <1>2
  <2> QED
    BY <1>2, <1>3, <2>1 DEF Remembered
<1>6. UptimeAgrees'
  BY <1>1 DEF Remembered, UptimeAgrees, StoredUptime, Counted, Since, Percent
<1> QED
  BY <1>1, <1>2, <1>3, <1>4, <1>5, <1>6 DEF Remembered

\* What a restart loads.
LEMMA LoadedFacts ==
    ASSUME Remembered
    PROVE  \E o \in 0 .. Len(rows) :
             /\ \A i \in 1 .. Len(rows) : rows[i].at >= now - window <=> i > o
             /\ Larger2(o, Len(rows) - Cap(window)) \in 0 .. Len(rows)
             /\ Loaded = After(rows, Larger2(o, Len(rows) - Cap(window)))
<1> DEFINE u == now - window
           n == Cap(window)
<1>1. now \in Nat /\ u \in Int /\ n \in Nat \ {0} /\ Chronicle(rows, now)
  BY WindowFacts, LeastWindow DEF Remembered
<1>2. rows \in Seq(Range(rows)) /\ Len(rows) \in Nat
  BY <1>1, ChronicleFacts
<1> HIDE DEF u, n
<1>3. PICK o \in 0 .. Len(rows) : \A i \in 1 .. Len(rows) : rows[i].at >= u <=> i > o
  BY <1>1, Cut
<1>4. After(rows, 0) = rows /\ 0 \in 0 .. Len(rows) /\ Larger2(0, o) = o
  BY <1>2, <1>3, SubSeqFull DEF After, Larger2
<1>5. Picked(rows, Since(rows, u)) = After(rows, o)
  BY <1>1, <1>3, <1>4, PickedAfter
<1>6. /\ Larger2(o, Len(rows) - n) \in 0 .. Len(rows)
      /\ LastOf(After(rows, o), n) = After(rows, Larger2(o, Len(rows) - n))
  BY <1>1, <1>3, LastOfAfter
<1> QED
  BY <1>3, <1>5, <1>6 DEF Loaded, Within, u, n

LEMMA RestartRemembered == Remembered /\ HistoryRestart => Remembered'
<1> SUFFICES ASSUME Remembered, HistoryRestart PROVE Remembered'
  OBVIOUS
<1> DEFINE n == Cap(window)
<1>1. /\ history' = Loaded /\ uptime' = StoredUptime(now) /\ uptimeAt' = now /\ grown' = FALSE
      /\ UNCHANGED <<now, window, rows>>
  BY DEF HistoryRestart
<1>2. /\ now \in Nat /\ window \in Windows /\ window \in Nat /\ UptimeWindow \in Nat
      /\ UptimeWindow <= window /\ n \in Nat \ {0} /\ Cap(Min(Windows)) \in Nat
      /\ Cap(Min(Windows)) <= n /\ Chronicle(rows, now) /\ Len(rows) \in Nat
      /\ \A i \in 1 .. Len(rows) : rows[i].at \in Nat
  BY WindowFacts, LeastWindow, ChronicleFacts DEF Remembered
<1> HIDE DEF n
<1>3. PICK o \in 0 .. Len(rows) :
             /\ \A i \in 1 .. Len(rows) : rows[i].at >= now - window <=> i > o
             /\ Larger2(o, Len(rows) - n) \in 0 .. Len(rows)
             /\ Loaded = After(rows, Larger2(o, Len(rows) - n))
  BY LoadedFacts DEF n
<1> DEFINE c == Larger2(o, Len(rows) - n)
<1>4. c \in 0 .. Len(rows) /\ c >= Len(rows) - n /\ (c = o \/ c = Len(rows) - n)
  BY <1>2, <1>3 DEF Larger2
<1> HIDE DEF c
<1>5. Ends(rows, Loaded) /\ Len(Loaded) = Len(rows) - c /\ Len(Loaded) <= n
  <2>1. Loaded = After(rows, c)
    BY <1>3 DEF c
  <2>2. Ends(rows, Loaded) /\ Len(Loaded) = Len(rows) - c
    BY <1>2, <1>4, <2>1, AfterChronicle
  <2> QED
    BY <1>2, <1>4, <2>2
<1>6. ASSUME NEW v \in Int, NEW m \in Nat, v >= now - window, m <= n
      PROVE  Recalled(rows, Loaded, v, m)
  <2> SUFFICES ASSUME NEW i \in 1 .. Len(rows), rows[i].at >= v, Len(rows) - i < m
               PROVE  Len(rows) - i < Len(Loaded)
    BY DEF Recalled
  <2>1. i > o /\ i > Len(rows) - n
    BY <1>2, <1>3, <1>6
  <2> QED
    BY <1>2, <1>3, <1>4, <1>5, <2>1
<1>7. Recalled(rows, Loaded, now - window, n)
  BY <1>2, <1>6
<1>8. Recalled(rows, Loaded, now - UptimeWindow + 1, Cap(Min(Windows)))
  BY <1>2, <1>6
<1>9. UptimeAgrees'
  BY <1>1 DEF UptimeAgrees, StoredUptime, Counted, Since, Percent
<1> QED
  BY <1>1, <1>2, <1>5, <1>7, <1>8, <1>9 DEF Remembered, n

LEMMA NextRemembered == Remembered /\ [HistoryNext]_historyVars => Remembered'
<1> SUFFICES ASSUME Remembered, [HistoryNext]_historyVars PROVE Remembered'
  OBVIOUS
<1>1. ASSUME NEW t, Measure(t) PROVE Remembered'
  <2>1. UNCHANGED <<now, window, grown>> /\ Enter(ResultOf(t, Jitter(rtts')), FALSE)
    BY <1>1 DEF Measure
  <2> QED
    BY ONLY <2>1, Remembered, EnterRemembered
<1>2. ASSUME NEW type, NEW rtt, NEW retry, Fail(type, rtt, retry) PROVE Remembered'
  <2>1. UNCHANGED <<now, window, grown>> /\ Enter(FailedResult(type), retry)
    BY <1>2 DEF Fail
  <2> QED
    BY ONLY <2>1, Remembered, EnterRemembered
<1>3. CASE Tick
  BY <1>3, TickRemembered
<1>4. ASSUME NEW w \in Windows, Reload(w) PROVE Remembered'
  BY <1>4, ReloadRemembered
<1>5. CASE HistoryRestart
  BY <1>5, RestartRemembered
<1>6. CASE UNCHANGED historyVars
  <2>1. UNCHANGED <<now, window, rows, history, uptime, uptimeAt, grown>>
    BY <1>6 DEF historyVars
  <2>2. UptimeAgrees'
    BY <2>1 DEF Remembered, UptimeAgrees, StoredUptime, Counted, Since, Percent
  <2> QED
    BY <2>1, <2>2 DEF Remembered
<1> QED
  BY <1>1, <1>2, <1>3, <1>4, <1>5, <1>6 DEF HistoryNext

LEMMA AfterIsSuffix ==
    ASSUME NEW s, NEW t, Chronicle(s, t), NEW k \in 0 .. Len(s), NEW j \in k .. Len(s)
    PROVE  IsSuffix(After(s, j), After(s, k))
<1> DEFINE u == After(s, j)
           v == After(s, k)
           p == Reverse(u)
           q == Reverse(v)
<1>1. Len(s) \in Nat /\ j \in 0 .. Len(s)
  BY ChronicleFacts
<1>2. /\ Len(u) = Len(s) - j /\ \A i \in 1 .. Len(s) - j : u[i] = s[i + j]
      /\ Len(v) = Len(s) - k /\ \A i \in 1 .. Len(s) - k : v[i] = s[i + k]
  BY <1>1, AfterChronicle
<1> HIDE DEF u, v
<1>3. p = [i \in 1 .. Len(u) |-> u[(Len(u) - i) + 1]] /\ q = [i \in 1 .. Len(v) |-> v[(Len(v) - i) + 1]]
  BY DEF Reverse
<1>4. ASSUME NEW i \in 1 .. Len(u)
      PROVE  i \in 1 .. Len(v) /\ u[(Len(u) - i) + 1] = v[(Len(v) - i) + 1]
  <2>1. /\ (Len(u) - i) + 1 \in 1 .. Len(s) - j /\ (Len(v) - i) + 1 \in 1 .. Len(s) - k
        /\ ((Len(u) - i) + 1) + j = ((Len(v) - i) + 1) + k /\ i \in 1 .. Len(v)
    BY <1>1, <1>2
  <2>2. u[(Len(u) - i) + 1] = s[((Len(u) - i) + 1) + j]
    BY <1>2, <2>1
  <2>3. v[(Len(v) - i) + 1] = s[((Len(v) - i) + 1) + k]
    BY <1>2, <2>1
  <2> QED
    BY <2>1, <2>2, <2>3
<1>5. Len(p) = Len(u) /\ Len(q) = Len(v) /\ DOMAIN p = 1 .. Len(u) /\ DOMAIN q = 1 .. Len(v)
  <2>1. Len(u) \in Nat /\ Len(v) \in Nat
    BY <1>1, <1>2
  <2> QED
    BY <1>3, <2>1
<1>6. \A i \in 1 .. Len(u) : p[i] = q[i]
  BY <1>3, <1>4
<1> HIDE DEF p, q
<1>7. IsPrefix(p, q)
  BY <1>4, <1>5, <1>6 DEF IsPrefix
<1> QED
  BY <1>7 DEF IsSuffix, u, v, p, q

LEMMA RememberedAgrees == Remembered => MemoryAgrees
<1> SUFFICES ASSUME Remembered PROVE RestartAgrees
  BY DEF Remembered, MemoryAgrees
<1> DEFINE n == Cap(window)
           a == Len(rows) - Len(history)
<1>1. PICK o \in 0 .. Len(rows) :
             /\ \A i \in 1 .. Len(rows) : rows[i].at >= now - window <=> i > o
             /\ Larger2(o, Len(rows) - n) \in 0 .. Len(rows)
             /\ Loaded = After(rows, Larger2(o, Len(rows) - n))
  BY LoadedFacts
<1>2. /\ now \in Nat /\ window \in Nat /\ n \in Nat \ {0}
      /\ Chronicle(rows, now) /\ Len(rows) \in Nat
  BY WindowFacts, LeastWindow, ChronicleFacts DEF Remembered
<1>3. a \in 0 .. Len(rows) /\ history = After(rows, a) /\ a >= Len(rows) - n /\ Len(history) = Len(rows) - a
  BY <1>2 DEF Remembered, Ends
<1>4. grown \/ Recalled(rows, history, now - window, n)
  BY DEF Remembered
<1> HIDE DEF a, n
<1> DEFINE b == Larger2(a, o)
           c == Larger2(o, Len(rows) - n)
<1>5. b \in 0 .. Len(rows) /\ Within(history) = After(rows, b)
  <2> DEFINE u == now - window
  <2>1. u \in Int /\ \A i \in 1 .. Len(rows) : rows[i].at >= u <=> i > o
    BY <1>1, <1>2
  <2>2. Within(history) = Picked(After(rows, a), Since(After(rows, a), u))
    BY <1>3 DEF Within
  <2> HIDE DEF u
  <2> QED
    BY <1>2, <1>3, <2>1, <2>2, PickedAfter
<1>6. b \in c .. Len(rows) /\ c \in 0 .. Len(rows)
  BY <1>1, <1>2, <1>3, <1>5 DEF Larger2
<1>7. IsSuffix(Within(history), Loaded)
  <2> HIDE DEF b, c
  <2>1. IsSuffix(After(rows, b), After(rows, c)) /\ Loaded = After(rows, c)
    BY <1>1, <1>2, <1>6, AfterIsSuffix DEF c
  <2> QED
    BY <1>5, <2>1
<1>8. ASSUME Recalled(rows, history, now - window, n) PROVE b = c
  <2> SUFFICES ASSUME c + 1 <= a PROVE FALSE
    <3>1. c >= o /\ c >= Len(rows) - n /\ (c = o \/ c = Len(rows) - n) /\ c \in Int
      BY <1>1, <1>2 DEF Larger2
    <3>2. (b = a \/ b = o) /\ b >= a /\ b >= o /\ b \in Int
      BY <1>1, <1>3 DEF Larger2
    <3> HIDE DEF b, c
    <3> QED
      BY <1>1, <1>2, <1>3, <1>6, <3>1, <3>2
  <2> DEFINE i == c + 1
  <2>1. i \in 1 .. Len(rows) /\ i > o /\ Len(rows) - i < n
    BY <1>1, <1>2, <1>3 DEF Larger2
  <2>2. Len(rows) - i < Len(history)
    <3> HIDE DEF i
    <3> QED
      BY <1>1, <1>8, <2>1 DEF Recalled
  <2> QED
    BY <1>1, <1>2, <1>3, <1>6, <2>2
<1>9. ~grown => Within(history) = Loaded
  <2> HIDE DEF b, c
  <2>1. Loaded = After(rows, c)
    BY <1>1 DEF c
  <2>2. Recalled(rows, history, now - window, n) => Within(history) = Loaded
    BY <1>5, <1>8, <2>1
  <2> QED
    BY <1>4, <2>2
<1> QED
  BY <1>7, <1>9 DEF RestartAgrees

\* What memory has of the window is what a restart would load from the rows, and the
\* uptime it computed is the one of the rows, whatever caps, windows, reloads and
\* restarts there were (_append_history, reload_config, load_all_recent_history,
\* calc_uptime_pct).
THEOREM MemoryAgreesCorrect == HistorySpec => []MemoryAgrees
BY InitRemembered, NextRemembered, RememberedAgrees, PTL DEF HistorySpec


-----------------------------------------------------------------------------
(* Whole numbers                                                            *)

\* A positive factor keeps the order.
LEMMA MulOrder ==
    ASSUME NEW x \in Int, NEW y \in Int, NEW k \in Nat \ {0}
    PROVE  /\ x <= y <=> x * k <= y * k
           /\ x < y <=> x * k < y * k
           /\ x = y <=> x * k = y * k
OBVIOUS

LEMMA Products ==
    /\ \A x, y \in Int : x * y \in Int
    /\ \A x, y \in Nat : x * y \in Nat
    /\ \A x, y \in Nat \ {0} : x * y \in Nat \ {0}
OBVIOUS

\* What div and mod are.
LEMMA Division ==
    ASSUME NEW a \in Int, NEW d \in Nat \ {0}
    PROVE  a \div d \in Int /\ a % d \in Nat /\ a % d < d /\ a = d * (a \div d) + (a % d)
OBVIOUS

\* a / b <= c / d <= e / f
LEMMA CrossTrans ==
    ASSUME NEW a \in Int, NEW b \in Nat \ {0}, NEW c \in Int, NEW d \in Nat \ {0},
           NEW e \in Int, NEW f \in Nat \ {0}, a * d <= c * b, c * f <= e * d
    PROVE  /\ a * f <= e * b
           /\ a * d < c * b \/ c * f < e * d => a * f < e * b
<1>1. (a * d) * f <= (c * b) * f /\ (a * d < c * b => (a * d) * f < (c * b) * f)
  BY MulOrder
<1>2. (c * f) * b <= (e * d) * b /\ (c * f < e * d => (c * f) * b < (e * d) * b)
  BY MulOrder
<1>3. (a * f) * d <= (e * b) * d
  BY <1>1, <1>2
<1>4. a * d < c * b \/ c * f < e * d => (a * f) * d < (e * b) * d
  BY <1>1, <1>2
<1> QED
  BY <1>3, <1>4, MulOrder

-----------------------------------------------------------------------------
(* The greatest common divisor                                              *)

Divides(d, a) == \E k \in Nat : a = d * k
CommonDivisors(a, b) == {d \in Nat \ {0} : Divides(d, a) /\ Divides(d, b)}
Greatest(S) == CHOOSE g \in S : \A h \in S : h <= g

\* What divides b divides a exactly if it divides the rest of a by b.
LEMMA DivisorsOfRest ==
    ASSUME NEW a \in Nat, NEW b \in Nat \ {0}, NEW d \in Nat \ {0}, Divides(d, b)
    PROVE  Divides(d, a) <=> Divides(d, a % b)
<1> DEFINE q == a \div b
           r == a % b
<1>1. q \in Int /\ r \in Nat /\ a = b * q + r
  BY Division
<1>2. q \in Nat
  BY QuotientGrows
<1> HIDE DEF q, r
<1>3. PICK m \in Nat : b = d * m
  BY DEF Divides
<1>4. m * q \in Nat /\ b * q = d * (m * q)
  BY <1>2, <1>3
<1>5. ASSUME NEW k \in Nat, a = d * k PROVE Divides(d, r)
  <2>1. r = d * (k - m * q) /\ k - m * q \in Int
    BY <1>1, <1>4, <1>5
  <2>2. k - m * q >= 0
    <3> SUFFICES ASSUME k - m * q <= -1 PROVE FALSE
      BY <2>1
    <3>1. d * (k - m * q) <= -1
      BY <2>1, MulOrder
    <3> QED
      BY <1>1, <2>1, <3>1
  <2> QED
    BY <2>1, <2>2 DEF Divides
<1>6. ASSUME NEW k \in Nat, r = d * k PROVE Divides(d, a)
  <2>1. a = d * (k + m * q) /\ k + m * q \in Nat
    BY <1>1, <1>4, <1>6
  <2> QED
    BY <2>1 DEF Divides
<1> QED
  BY <1>5, <1>6 DEF Divides, r

\* The recursion that defines Gcd has a solution.
LEMMA GcdFn == \E f : f = [p \in Nat \X Nat |-> IF p[2] = 0 THEN p[1] ELSE f[<<p[2], p[1] % p[2]>>]]
<1> DEFINE w(a, b) == IF b = 0 THEN a ELSE Greatest(CommonDivisors(a, b))
           W == [p \in Nat \X Nat |-> w(p[1], p[2])]
<1>1. ASSUME NEW a \in Nat, NEW b \in Nat \ {0} PROVE w(a, b) = w(b, a % b)
  <2>1. a % b \in Nat
    BY Division
  <2>2. CommonDivisors(a, b) = CommonDivisors(b, a % b)
    BY DivisorsOfRest DEF CommonDivisors
  <2>3. CASE a % b = 0
    <3>1. Divides(b, 0) /\ Divides(b, b)
      <4>1. 0 = b * 0 /\ b = b * 1
        OBVIOUS
      <4> QED
        BY <4>1 DEF Divides
    <3>2. b \in CommonDivisors(a, b)
      BY <2>3, <3>1, DivisorsOfRest DEF CommonDivisors
    <3>3. ASSUME NEW h \in CommonDivisors(a, b) PROVE h \in Nat /\ h <= b
      <4>1. h \in Nat \ {0} /\ \E k \in Nat : b = h * k
        BY DEF CommonDivisors, Divides
      <4>2. PICK k \in Nat : b = h * k
        BY <4>1
      <4>3. k # 0
        BY <4>1, <4>2
      <4>4. 1 * h <= k * h
        BY <4>1, <4>3, MulOrder
      <4> QED
        BY <4>1, <4>2, <4>4
    <3>4. Greatest(CommonDivisors(a, b)) = b
      <4> DEFINE C == CommonDivisors(a, b)
      <4>1. Greatest(C) \in C /\ \A h \in C : h <= Greatest(C)
        BY <3>2, <3>3 DEF Greatest
      <4> QED
        BY <3>2, <3>3, <4>1
    <3> QED
      BY <2>3, <3>4
  <2>4. CASE a % b # 0
    BY <2>2, <2>4
  <2> QED
    BY <2>3, <2>4
<1> HIDE DEF w
<1>2. ASSUME NEW p \in Nat \X Nat
      PROVE  W[p] = IF p[2] = 0 THEN p[1] ELSE W[<<p[2], p[1] % p[2]>>]
  <2>1. p[1] \in Nat /\ p[2] \in Nat
    OBVIOUS
  <2>2. CASE p[2] = 0
    BY <2>1, <2>2 DEF w
  <2>3. CASE p[2] # 0
    <3>1. p[1] % p[2] \in Nat
      BY <2>1, <2>3, Division
    <3>2. <<p[2], p[1] % p[2]>> \in Nat \X Nat
      BY <2>1, <3>1
    <3>3. W[<<p[2], p[1] % p[2]>>] = w(p[2], p[1] % p[2])
      BY <3>2
    <3> QED
      BY <1>1, <2>1, <2>3, <3>3
  <2> QED
    BY <2>2, <2>3
<1>3. W = [p \in Nat \X Nat |-> IF p[2] = 0 THEN p[1] ELSE W[<<p[2], p[1] % p[2]>>]]
  BY <1>2
<1> QED
  BY <1>3

LEMMA GcdStep ==
    ASSUME NEW a \in Nat, NEW b \in Nat
    PROVE  Gcd[<<a, b>>] = IF b = 0 THEN a ELSE Gcd[<<b, a % b>>]
<1>1. Gcd = [p \in Nat \X Nat |-> IF p[2] = 0 THEN p[1] ELSE Gcd[<<p[2], p[1] % p[2]>>]]
  BY GcdFn DEF Gcd
<1> QED
  BY <1>1

\* The greatest common divisor divides both.
LEMMA GcdDivides ==
    ASSUME NEW a \in Nat, NEW b \in Nat, 0 < a \/ 0 < b
    PROVE  Gcd[<<a, b>>] \in Nat \ {0} /\ Divides(Gcd[<<a, b>>], a) /\ Divides(Gcd[<<a, b>>], b)
<1> DEFINE ok(x, y) == Gcd[<<x, y>>] \in Nat \ {0} /\ Divides(Gcd[<<x, y>>], x) /\ Divides(Gcd[<<x, y>>], y)
           T == {y \in Nat : \E x \in Nat : (0 < x \/ 0 < y) /\ ~ok(x, y)}
<1>1. ASSUME T # {} PROVE FALSE
  <2>1. PICK y \in T : \A z \in T : y <= z
    BY <1>1, LeastNumber
  <2>2. PICK x \in Nat : (0 < x \/ 0 < y) /\ ~ok(x, y)
    BY <2>1
  <2>3. CASE y = 0
    <3>1. x \in Nat \ {0}
      BY <2>2, <2>3
    <3>2. Gcd[<<x, 0>>] = x
      BY GcdStep
    <3>3. x = x * 1 /\ 0 = x * 0
      OBVIOUS
    <3>4. Divides(x, x) /\ Divides(x, 0)
      BY <3>3 DEF Divides
    <3> QED
      BY <2>2, <2>3, <3>1, <3>2, <3>4
  <2>4. CASE y # 0
    <3>1. y \in Nat \ {0} /\ x % y \in Nat /\ x % y < y
      BY <2>1, <2>4, Division
    <3>2. ok(y, x % y)
      BY <2>1, <3>1
    <3>3. Gcd[<<x, y>>] = Gcd[<<y, x % y>>]
      BY <3>1, GcdStep
    <3>4. Divides(Gcd[<<x, y>>], x)
      BY <3>1, <3>2, <3>3, DivisorsOfRest
    <3> QED
      BY <2>2, <3>2, <3>3, <3>4
  <2> QED
    BY <2>3, <2>4
<1> QED
  BY <1>1

-----------------------------------------------------------------------------
(* Fractions                                                                *)

\* z is a / b.
Equals(z, a, b) == z \in Fraction /\ z.n * b = a * z.d

LEMMA FractionFacts ==
    /\ \A x \in Fraction : x.n \in Int /\ x.d \in Nat \ {0} /\ x = [n |-> x.n, d |-> x.d] /\ x # None
    /\ \A a \in Int, b \in Nat \ {0} : [n |-> a, d |-> b] \in Fraction
    /\ \A a \in Int : Whole(a) \in Fraction /\ Whole(a).n = a /\ Whole(a).d = 1
    /\ Zero = Whole(0) /\ Zero \in Fraction /\ None \notin Fraction
BY DEF Fraction, None, Whole, Zero

\* A multiple of g is divided by g without a rest.
LEMMA Quotient ==
    ASSUME NEW g \in Nat \ {0}, NEW k \in Int
    PROVE  (g * k) \div g = k
<1> DEFINE q == (g * k) \div g
           r == (g * k) % g
<1>1. q \in Int /\ r \in Nat /\ r < g /\ g * k = g * q + r
  <2>1. g * k \in Int
    OBVIOUS
  <2> QED
    BY <2>1, Division
<1> HIDE DEF q, r
<1>2. g * (k - q) = r
  BY <1>1
<1>3. k - q <= 0
  <2> SUFFICES ASSUME 1 <= k - q PROVE FALSE
    BY <1>1
  <2>1. g <= g * (k - q)
    BY <1>1, MulOrder
  <2> QED
    BY <1>1, <1>2, <2>1
<1>4. k - q >= 0
  <2> SUFFICES ASSUME k - q <= -1 PROVE FALSE
    BY <1>1
  <2>1. g * (k - q) <= -1
    BY <1>1, MulOrder
  <2> QED
    BY <1>1, <1>2, <2>1
<1> QED
  BY <1>1, <1>3, <1>4 DEF q

\* Reducing a fraction does not change the number.
LEMMA FracEquals ==
    ASSUME NEW a \in Int, NEW b \in Nat \ {0}
    PROVE  Equals(Frac(a, b), a, b)
<1> DEFINE g == Gcd[<<Size(a), b>>]
<1>1. Size(a) \in Nat
  BY DEF Size
<1>2. g \in Nat \ {0} /\ Divides(g, Size(a)) /\ Divides(g, b)
  BY <1>1, GcdDivides
<1>3. Frac(a, b) = [n |-> a \div g, d |-> b \div g]
  BY DEF Frac
<1> HIDE DEF g
<1>4. PICK k \in Int : a = g * k
  <2>1. PICK k \in Nat : Size(a) = g * k
    BY <1>2 DEF Divides
  <2>2. a = g * k \/ a = g * (-k)
    BY <1>2, <2>1 DEF Size
  <2> QED
    BY <2>2
<1>5. PICK m \in Nat : b = g * m
  BY <1>2 DEF Divides
<1>6. m \in Nat \ {0}
  BY <1>2, <1>5
<1>7. a \div g = k /\ b \div g = m
  BY <1>2, <1>4, <1>5, Quotient
<1>8. Frac(a, b) = [n |-> k, d |-> m]
  BY <1>3, <1>7
<1>9. k * b = a * m
  BY <1>2, <1>4, <1>5, <1>6
<1> QED
  BY <1>6, <1>8, <1>9 DEF Equals, Fraction

\* The order over the least common denominator is the order by cross products.
LEMMA LessMeans ==
    ASSUME NEW x \in Fraction, NEW y \in Fraction
    PROVE  /\ Less(x, y) <=> x.n * y.d < y.n * x.d
           /\ AtMost(x, y) <=> x.n * y.d <= y.n * x.d
<1>1. ASSUME NEW u \in Fraction, NEW v \in Fraction
      PROVE  Less(u, v) <=> u.n * v.d < v.n * u.d
  <2> DEFINE g == Gcd[<<u.d, v.d>>]
  <2>1. u.n \in Int /\ v.n \in Int /\ u.d \in Nat \ {0} /\ v.d \in Nat \ {0}
    BY FractionFacts
  <2>2. g \in Nat \ {0} /\ Divides(g, u.d) /\ Divides(g, v.d)
    BY <2>1, GcdDivides
  <2>3. Less(u, v) <=> u.n * (v.d \div g) < v.n * (u.d \div g)
    BY DEF Less
  <2> HIDE DEF g
  <2>4. PICK k \in Nat : u.d = g * k
    BY <2>2 DEF Divides
  <2>5. PICK m \in Nat : v.d = g * m
    BY <2>2 DEF Divides
  <2>6. u.d \div g = k /\ v.d \div g = m
    BY <2>2, <2>4, <2>5, Quotient
  <2>7. u.n * m \in Int /\ v.n * k \in Int
    BY <2>1
  <2>8. u.n * m < v.n * k <=> (u.n * m) * g < (v.n * k) * g
    BY <2>2, <2>7, MulOrder
  <2>9. (u.n * m) * g = u.n * v.d /\ (v.n * k) * g = v.n * u.d
    BY <2>1, <2>2, <2>4, <2>5
  <2> QED
    BY <2>3, <2>6, <2>8, <2>9
<1>2. x.n * y.d \in Int /\ y.n * x.d \in Int
  BY FractionFacts
<1> QED
  BY <1>1, <1>2 DEF AtMost

\* a / b is (a g) / (b g).
LEMMA EqualsScaled ==
    ASSUME NEW z, NEW a \in Int, NEW b \in Nat \ {0}, Equals(z, a, b), NEW g \in Int
    PROVE  Equals(z, a * g, b * g)
<1>1. z.n \in Int /\ z.d \in Int /\ z.n * b = a * z.d
  BY FractionFacts DEF Equals
<1>2. z.n * (b * g) = (z.n * b) * g /\ (a * z.d) * g = (a * g) * z.d
  BY <1>1
<1>3. z.n * (b * g) = (a * g) * z.d
  BY <1>1, <1>2
<1> QED
  BY <1>3 DEF Equals

LEMMA EqualsItself ==
    ASSUME NEW x \in Fraction
    PROVE  Equals(x, x.n, x.d)
BY DEF Equals

\* a / b <= c / d, of the fractions that are these.
LEMMA EqualsOrder ==
    ASSUME NEW x, NEW a \in Int, NEW b \in Nat \ {0}, Equals(x, a, b),
           NEW y, NEW c \in Int, NEW d \in Nat \ {0}, Equals(y, c, d)
    PROVE  /\ AtMost(x, y) <=> a * d <= c * b
           /\ Less(x, y) <=> a * d < c * b
<1>1. /\ x.n \in Int /\ x.d \in Nat \ {0} /\ x.n * b = a * x.d
      /\ y.n \in Int /\ y.d \in Nat \ {0} /\ y.n * d = c * y.d
      /\ x \in Fraction /\ y \in Fraction
  BY FractionFacts DEF Equals
<1> DEFINE l == x.n * y.d
           r == y.n * x.d
<1>2. l \in Int /\ r \in Int /\ (AtMost(x, y) <=> l <= r) /\ (Less(x, y) <=> l < r)
  BY <1>1, LessMeans
<1>3. b * d \in Nat \ {0} /\ x.d * y.d \in Nat \ {0} /\ a * d \in Int /\ c * b \in Int
  BY <1>1, Products
<1>4. l * (b * d) = (a * d) * (x.d * y.d)
  <2>1. l * (b * d) = (x.n * b) * (y.d * d)
    BY <1>1
  <2>2. (a * x.d) * (y.d * d) = (a * d) * (x.d * y.d)
    BY <1>1
  <2> QED
    BY <1>1, <2>1, <2>2
<1>5. r * (b * d) = (c * b) * (x.d * y.d)
  <2>1. r * (b * d) = (y.n * d) * (x.d * b)
    BY <1>1
  <2>2. (c * y.d) * (x.d * b) = (c * b) * (x.d * y.d)
    BY <1>1
  <2> QED
    BY <1>1, <2>1, <2>2
<1> HIDE DEF l, r
<1>6. /\ l <= r <=> l * (b * d) <= r * (b * d)
      /\ l < r <=> l * (b * d) < r * (b * d)
  BY <1>2, <1>3, MulOrder
<1>7. /\ a * d <= c * b <=> (a * d) * (x.d * y.d) <= (c * b) * (x.d * y.d)
      /\ a * d < c * b <=> (a * d) * (x.d * y.d) < (c * b) * (x.d * y.d)
  BY <1>3, MulOrder
<1> QED
  BY <1>2, <1>4, <1>5, <1>6, <1>7

\* The order is total and transitive, and Smaller and Larger choose by it.
LEMMA OrderFacts ==
    /\ \A x \in Fraction : AtMost(x, x)
    /\ \A x, y \in Fraction : /\ Less(x, y) <=> ~AtMost(y, x)
                              /\ Less(x, y) => AtMost(x, y)
                              /\ Smaller(x, y) \in {x, y} /\ AtMost(Smaller(x, y), x) /\ AtMost(Smaller(x, y), y)
                              /\ Larger(x, y) \in {x, y} /\ AtMost(x, Larger(x, y)) /\ AtMost(y, Larger(x, y))
    /\ \A x, y, z \in Fraction : /\ AtMost(x, y) /\ AtMost(y, z) => AtMost(x, z)
                                 /\ Less(x, y) /\ AtMost(y, z) => Less(x, z)
                                 /\ AtMost(x, y) /\ Less(y, z) => Less(x, z)
<1>1. ASSUME NEW x \in Fraction, NEW y \in Fraction PROVE x.n * y.d \in Int /\ y.n * x.d \in Int
  BY FractionFacts
<1>2. ASSUME NEW x \in Fraction, NEW y \in Fraction
      PROVE  (Less(x, y) <=> ~AtMost(y, x)) /\ (Less(x, y) => AtMost(x, y)) /\ AtMost(x, x)
  BY <1>1, LessMeans
<1>3. ASSUME NEW x \in Fraction, NEW y \in Fraction
      PROVE  /\ Smaller(x, y) \in {x, y} /\ AtMost(Smaller(x, y), x) /\ AtMost(Smaller(x, y), y)
             /\ Larger(x, y) \in {x, y} /\ AtMost(x, Larger(x, y)) /\ AtMost(y, Larger(x, y))
  BY <1>2 DEF Smaller, Larger
<1>4. ASSUME NEW x \in Fraction, NEW y \in Fraction, NEW z \in Fraction, AtMost(x, y), AtMost(y, z)
      PROVE  AtMost(x, z) /\ (Less(x, y) \/ Less(y, z) => Less(x, z))
  <2>1. /\ x.n \in Int /\ y.n \in Int /\ z.n \in Int
        /\ x.d \in Nat \ {0} /\ y.d \in Nat \ {0} /\ z.d \in Nat \ {0}
    BY FractionFacts
  <2>2. x.n * y.d <= y.n * x.d /\ y.n * z.d <= z.n * y.d
    BY <1>4, LessMeans
  <2>3. /\ x.n * z.d <= z.n * x.d
        /\ x.n * y.d < y.n * x.d \/ y.n * z.d < z.n * y.d => x.n * z.d < z.n * x.d
    BY <2>1, <2>2, CrossTrans
  <2> QED
    BY <2>3, LessMeans
<1> QED
  BY <1>2, <1>3, <1>4

\* A sum over the least common denominator is the sum over any.
LEMMA PlusEquals ==
    ASSUME NEW x \in Fraction, NEW y \in Fraction
    PROVE  Equals(Plus(x, y), x.n * y.d + y.n * x.d, x.d * y.d)
<1> DEFINE g == Gcd[<<x.d, y.d>>]
<1>1. x.n \in Int /\ y.n \in Int /\ x.d \in Nat \ {0} /\ y.d \in Nat \ {0}
  BY FractionFacts
<1>2. g \in Nat \ {0} /\ Divides(g, x.d) /\ Divides(g, y.d)
  BY <1>1, GcdDivides
<1>3. Plus(x, y) = Frac(x.n * (y.d \div g) + y.n * (x.d \div g), (x.d \div g) * y.d)
  BY DEF Plus
<1> HIDE DEF g
<1>4. PICK k \in Nat : x.d = g * k
  BY <1>2 DEF Divides
<1>5. PICK m \in Nat : y.d = g * m
  BY <1>2 DEF Divides
<1>6. x.d \div g = k /\ y.d \div g = m /\ k \in Nat \ {0}
  BY <1>1, <1>2, <1>4, <1>5, Quotient
<1> DEFINE a == x.n * m + y.n * k
           b == k * y.d
<1>7. a \in Int /\ b \in Nat \ {0}
  BY <1>1, <1>6, Products
<1>8. Plus(x, y) = Frac(a, b)
  BY <1>3, <1>6
<1>9. a * g = x.n * y.d + y.n * x.d /\ b * g = x.d * y.d
  <2>1. a * g = x.n * (g * m) + y.n * (g * k) /\ b * g = (g * k) * y.d
    BY <1>1, <1>2
  <2> QED
    BY <1>4, <1>5, <2>1
<1> HIDE DEF a, b
<1>10. Equals(Plus(x, y), a * g, b * g)
  <2>1. Equals(Plus(x, y), a, b)
    BY <1>7, <1>8, FracEquals
  <2> QED
    BY <1>2, <1>7, <2>1, EqualsScaled
<1> QED
  BY <1>9, <1>10

LEMMA MinusEquals ==
    ASSUME NEW x \in Fraction, NEW y \in Fraction
    PROVE  Equals(Minus(x, y), x.n * y.d - y.n * x.d, x.d * y.d)
<1> DEFINE z == [y EXCEPT !.n = -@]
<1>1. x.n \in Int /\ y.n \in Int /\ x.d \in Nat \ {0} /\ y.d \in Nat \ {0}
  BY FractionFacts
<1>2. z \in Fraction /\ z.n = -y.n /\ z.d = y.d
  BY <1>1 DEF Fraction
<1>3. Minus(x, y) = Plus(x, z)
  BY DEF Minus
<1> HIDE DEF z
<1>4. Equals(Minus(x, y), x.n * z.d + z.n * x.d, x.d * z.d)
  BY <1>2, <1>3, PlusEquals
<1>5. x.n * z.d + z.n * x.d = x.n * y.d - y.n * x.d
  BY <1>1, <1>2
<1> QED
  BY <1>2, <1>4, <1>5

LEMMA TimesEquals ==
    ASSUME NEW x \in Fraction, NEW y \in Fraction
    PROVE  Equals(Times(x, y), x.n * y.n, x.d * y.d)
<1> DEFINE a == Frac(x.n, y.d)
           b == Frac(y.n, x.d)
<1>1. x.n \in Int /\ y.n \in Int /\ x.d \in Nat \ {0} /\ y.d \in Nat \ {0}
  BY FractionFacts
<1>2. Equals(a, x.n, y.d) /\ Equals(b, y.n, x.d)
  BY <1>1, FracEquals
<1>3. Times(x, y) = [n |-> a.n * b.n, d |-> a.d * b.d]
  BY DEF Times
<1> HIDE DEF a, b
<1>4. /\ a.n \in Int /\ b.n \in Int /\ a.d \in Nat \ {0} /\ b.d \in Nat \ {0}
      /\ a.n * y.d = x.n * a.d /\ b.n * x.d = y.n * b.d
  BY <1>2, FractionFacts DEF Equals
<1>5. a.n * b.n \in Int /\ a.d * b.d \in Nat \ {0}
  BY <1>4, Products
<1>6. (a.n * b.n) * (x.d * y.d) = (x.n * y.n) * (a.d * b.d)
  <2>1. (a.n * b.n) * (x.d * y.d) = (a.n * y.d) * (b.n * x.d)
    BY <1>1, <1>4
  <2>2. (x.n * a.d) * (y.n * b.d) = (x.n * y.n) * (a.d * b.d)
    BY <1>1, <1>4
  <2> QED
    BY <1>4, <2>1, <2>2
<1> QED
  BY <1>3, <1>5, <1>6, FractionFacts DEF Equals

LEMMA OverEquals ==
    ASSUME NEW x \in Fraction, NEW y \in Fraction, 0 < y.n
    PROVE  Equals(Over(x, y), x.n * y.d, x.d * y.n)
<1> DEFINE z == [n |-> y.d, d |-> y.n]
<1>1. y.n \in Int /\ y.d \in Nat \ {0}
  BY FractionFacts
<1>2. z \in Fraction /\ z.n = y.d /\ z.d = y.n
  BY <1>1 DEF Fraction
<1>3. Over(x, y) = Times(x, z)
  BY <1>1 DEF Over
<1> HIDE DEF z
<1> QED
  BY <1>2, <1>3, TimesEquals

LEMMA EqualsFacts ==
    ASSUME NEW x, NEW a \in Int, NEW b \in Nat \ {0}, Equals(x, a, b)
    PROVE  x \in Fraction /\ x.n \in Int /\ x.d \in Nat \ {0} /\ x.n * b = a * x.d
BY FractionFacts DEF Equals

\* n / e = p / D = q / m
LEMMA Cancel ==
    ASSUME NEW n \in Int, NEW e \in Nat \ {0}, NEW p \in Int, NEW D \in Nat \ {0},
           NEW q \in Int, NEW m \in Nat \ {0}, n * D = p * e, p * m = q * D
    PROVE  n * m = q * e
<1>1. (n * m) * D = (n * D) * m
  OBVIOUS
<1>2. (p * e) * m = (p * m) * e
  OBVIOUS
<1>3. (q * D) * e = (q * e) * D
  OBVIOUS
<1>4. (n * m) * D = (q * e) * D
  BY <1>1, <1>2, <1>3, Zenon
<1>5. n * m \in Int /\ q * e \in Int
  BY Products
<1> QED
  BY <1>4, <1>5, MulOrder

\* Sums and differences, however the numbers are written.
LEMMA PlusOf ==
    ASSUME NEW x, NEW a \in Int, NEW b \in Nat \ {0}, Equals(x, a, b),
           NEW y, NEW c \in Int, NEW d \in Nat \ {0}, Equals(y, c, d)
    PROVE  /\ Equals(Plus(x, y), a * d + c * b, b * d)
           /\ Equals(Minus(x, y), a * d - c * b, b * d)
<1>1. x \in Fraction /\ x.n \in Int /\ x.d \in Nat \ {0} /\ x.n * b = a * x.d
  BY EqualsFacts
<1>2. y \in Fraction /\ y.n \in Int /\ y.d \in Nat \ {0} /\ y.n * d = c * y.d
  BY EqualsFacts
<1> DEFINE D == x.d * y.d
<1>3. D \in Nat \ {0} /\ b * d \in Nat \ {0}
  BY <1>1, <1>2, Products
<1>4. /\ (x.n * y.d) * (b * d) = (a * d) * D
      /\ (y.n * x.d) * (b * d) = (c * b) * D
  <2>1. /\ (x.n * y.d) * (b * d) = (x.n * b) * (y.d * d)
        /\ (a * x.d) * (y.d * d) = (a * d) * (x.d * y.d)
        /\ (y.n * x.d) * (b * d) = (y.n * d) * (x.d * b)
        /\ (c * y.d) * (x.d * b) = (c * b) * (x.d * y.d)
    BY <1>1, <1>2
  <2> QED
    BY <1>1, <1>2, <2>1
<1>5. ASSUME NEW z, NEW p \in Int, NEW q \in Int, Equals(z, p, D), p * (b * d) = q * D
      PROVE  Equals(z, q, b * d)
  <2> HIDE DEF D
  <2>1. z \in Fraction /\ z.n \in Int /\ z.d \in Nat \ {0} /\ z.n * D = p * z.d
    BY <1>3, <1>5, EqualsFacts
  <2> DEFINE m == b * d
  <2>2. m \in Nat \ {0} /\ p * m = q * D
    BY <1>3, <1>5
  <2> HIDE DEF m
  <2>3. PICK n \in Int, e \in Nat \ {0} : n = z.n /\ e = z.d
    BY <2>1
  <2>4. n * D = p * e
    BY <2>1, <2>3
  <2>5. n * m = q * e
    BY <1>3, <2>2, <2>4, Cancel
  <2> QED
    BY <2>1, <2>3, <2>5 DEF m, Equals
<1>6. Equals(Plus(x, y), x.n * y.d + y.n * x.d, D) /\ Equals(Minus(x, y), x.n * y.d - y.n * x.d, D)
  BY <1>1, <1>2, PlusEquals, MinusEquals
<1> DEFINE l == x.n * y.d
           r == y.n * x.d
           u == a * d
           v == c * b
<1>7. l \in Int /\ r \in Int /\ u \in Int /\ v \in Int
  BY <1>1, <1>2
<1>8. l * (b * d) = u * D /\ r * (b * d) = v * D
  BY <1>4
<1>9. Equals(Plus(x, y), l + r, D) /\ Equals(Minus(x, y), l - r, D)
  BY <1>6
<1> HIDE DEF D, l, r, u, v
<1>10. (l + r) * (b * d) = (u + v) * D /\ (l - r) * (b * d) = (u - v) * D
  BY <1>3, <1>7, <1>8
<1>11. Equals(Plus(x, y), u + v, b * d) /\ Equals(Minus(x, y), u - v, b * d)
  BY <1>5, <1>7, <1>9, <1>10
<1> QED
  BY <1>11 DEF u, v

\* Products, however the numbers are written.
LEMMA TimesOf ==
    ASSUME NEW x, NEW a \in Int, NEW b \in Nat \ {0}, Equals(x, a, b),
           NEW y, NEW c \in Int, NEW d \in Nat \ {0}, Equals(y, c, d)
    PROVE  Equals(Times(x, y), a * c, b * d)
<1>1. x \in Fraction /\ x.n \in Int /\ x.d \in Nat \ {0} /\ x.n * b = a * x.d
  BY EqualsFacts
<1>2. y \in Fraction /\ y.n \in Int /\ y.d \in Nat \ {0} /\ y.n * d = c * y.d
  BY EqualsFacts
<1> DEFINE z == Times(x, y)
           D == x.d * y.d
           m == b * d
<1>3. Equals(z, x.n * y.n, D)
  BY <1>1, <1>2, TimesEquals
<1>4. x.n * y.n \in Int /\ D \in Nat \ {0} /\ m \in Nat \ {0} /\ a * c \in Int
  BY <1>1, <1>2, Products
<1>5. z \in Fraction /\ z.n \in Int /\ z.d \in Nat \ {0} /\ z.n * D = (x.n * y.n) * z.d
  <2> HIDE DEF z, D
  <2> QED
    BY <1>3, <1>4, EqualsFacts
<1>6. (x.n * y.n) * m = (a * c) * D
  <2>1. (x.n * y.n) * m = (x.n * b) * (y.n * d) /\ (a * x.d) * (c * y.d) = (a * c) * D
    BY <1>1, <1>2
  <2> QED
    BY <1>1, <1>2, <2>1
<1> DEFINE p == x.n * y.n
           q == a * c
<1>7. p \in Int /\ q \in Int /\ p * m = q * D /\ z.n * D = p * z.d
  BY <1>4, <1>5, <1>6
<1> HIDE DEF z, D, m, p, q
<1>8. PICK n \in Int, e \in Nat \ {0} : n = z.n /\ e = z.d
  BY <1>5
<1>9. n * D = p * e
  BY <1>7, <1>8
<1>10. n * m = q * e
  BY <1>4, <1>7, <1>9, Cancel
<1> QED
  BY <1>5, <1>8, <1>10 DEF Equals, z, m, q

\* Quotients, however the numbers are written.
LEMMA OverOf ==
    ASSUME NEW x, NEW a \in Int, NEW b \in Nat \ {0}, Equals(x, a, b),
           NEW y, NEW c \in Nat \ {0}, NEW d \in Nat \ {0}, Equals(y, c, d)
    PROVE  0 < y.n /\ Equals(Over(x, y), a * d, b * c)
<1>1. y \in Fraction /\ y.n \in Int /\ y.d \in Nat \ {0} /\ y.n * d = c * y.d
  BY EqualsFacts
<1>2. 0 < y.n
  <2> SUFFICES ASSUME y.n <= 0 PROVE FALSE
    BY <1>1
  <2>1. y.n * d <= 0 * d
    BY <1>1, MulOrder
  <2>2. c * y.d \in Nat \ {0}
    BY <1>1, Products
  <2> QED
    BY <1>1, <2>1, <2>2
<1> DEFINE z == [n |-> y.d, d |-> y.n]
<1>3. z \in Fraction /\ z.n = y.d /\ z.d = y.n
  BY <1>1, <1>2 DEF Fraction
<1>4. Over(x, y) = Times(x, z)
  BY <1>1, <1>2 DEF Over
<1>5. Equals(z, d, c)
  <2>1. y.d * c = d * y.n
    BY <1>1
  <2> QED
    BY <1>3, <2>1 DEF Equals
<1> HIDE DEF z
<1>6. Equals(Times(x, z), a * d, b * c)
  BY <1>5, TimesOf
<1> QED
  BY <1>2, <1>4, <1>6

\* What is computed of fractions is a fraction.
LEMMA Closed ==
    ASSUME NEW x \in Fraction, NEW y \in Fraction
    PROVE  /\ Plus(x, y) \in Fraction /\ Minus(x, y) \in Fraction /\ Times(x, y) \in Fraction
           /\ Smaller(x, y) \in Fraction /\ Larger(x, y) \in Fraction
           /\ 0 < y.n => Over(x, y) \in Fraction
<1>1. Smaller(x, y) \in Fraction /\ Larger(x, y) \in Fraction
  BY DEF Smaller, Larger
<1> QED
  BY <1>1, PlusEquals, MinusEquals, TimesEquals, OverEquals DEF Equals

LEMMA SignFacts ==
    ASSUME NEW x \in Fraction
    PROVE  /\ Less(Zero, x) <=> 0 < x.n
           /\ AtMost(Zero, x) <=> 0 <= x.n
           /\ AtMost(x, Zero) <=> x.n <= 0
           /\ Less(x, Zero) <=> x.n < 0
<1>1. Zero \in Fraction /\ Zero.n = 0 /\ Zero.d = 1 /\ x.n \in Int /\ x.d \in Nat \ {0}
  BY FractionFacts
<1>2. 0 * x.d = 0 /\ x.n * 1 = x.n
  BY <1>1
<1> QED
  BY <1>1, <1>2, LessMeans

LEMMA SignOf ==
    ASSUME NEW x, NEW a \in Int, NEW b \in Nat \ {0}, Equals(x, a, b)
    PROVE  /\ 0 < x.n <=> 0 < a
           /\ 0 <= x.n <=> 0 <= a
<1>1. x \in Fraction /\ x.n \in Int /\ x.d \in Nat \ {0} /\ x.n * b = a * x.d
  BY EqualsFacts
<1>2. (0 < x.n <=> 0 * b < x.n * b) /\ (0 <= x.n <=> 0 * b <= x.n * b)
  BY <1>1, MulOrder
<1>3. (0 < a <=> 0 * x.d < a * x.d) /\ (0 <= a <=> 0 * x.d <= a * x.d)
  BY <1>1, MulOrder
<1>4. 0 * b = 0 /\ 0 * x.d = 0
  BY <1>1
<1> QED
  BY <1>1, <1>2, <1>3, <1>4

LEMMA WholeFacts ==
    ASSUME NEW a \in Int, NEW b \in Int
    PROVE  /\ Whole(a) \in Fraction /\ Equals(Whole(a), a, 1) /\ (0 < a <=> 0 < Whole(a).n)
           /\ AtMost(Whole(a), Whole(b)) <=> a <= b
           /\ Less(Whole(a), Whole(b)) <=> a < b
<1>1. Whole(a) \in Fraction /\ Whole(a).n = a /\ Whole(a).d = 1
  BY FractionFacts
<1>2. Whole(b) \in Fraction /\ Whole(b).n = b /\ Whole(b).d = 1
  BY FractionFacts
<1> QED
  BY <1>1, <1>2, LessMeans DEF Equals

LEMMA MinusSign ==
    ASSUME NEW x \in Fraction, NEW y \in Fraction
    PROVE  /\ AtMost(x, y) <=> Minus(x, y).n <= 0
           /\ Less(x, y) <=> Minus(x, y).n < 0
           /\ AtMost(y, x) <=> 0 <= Minus(x, y).n
           /\ Less(y, x) <=> 0 < Minus(x, y).n
<1> DEFINE l == x.n * y.d
           r == y.n * x.d
           D == x.d * y.d
<1>1. l \in Int /\ r \in Int /\ D \in Nat \ {0}
  BY FractionFacts, Products
<1>2. Equals(Minus(x, y), l - r, D)
  BY MinusEquals
<1>3. /\ AtMost(x, y) <=> l <= r
      /\ Less(x, y) <=> l < r
      /\ AtMost(y, x) <=> r <= l
      /\ Less(y, x) <=> r < l
  BY LessMeans
<1> HIDE DEF l, r, D
<1>4. Minus(x, y).n \in Int
  BY <1>1, <1>2, EqualsFacts
<1> QED
  BY <1>1, <1>2, <1>3, <1>4, SignOf

LEMMA Ratio ==
    ASSUME NEW x \in Fraction
    PROVE  \E a \in Int, b \in Nat \ {0} : a = x.n /\ b = x.d /\ Equals(x, a, b)
BY EqualsItself, FractionFacts

\* a/b <= c/d and e/f <= g/h
LEMMA CrossSum ==
    ASSUME NEW a \in Int, NEW b \in Nat \ {0}, NEW c \in Int, NEW d \in Nat \ {0},
           NEW e \in Int, NEW f \in Nat \ {0}, NEW g \in Int, NEW h \in Nat \ {0},
           a * d <= c * b, e * h <= g * f
    PROVE  /\ (a * f + e * b) * (d * h) <= (c * h + g * d) * (b * f)
           /\ a * d < c * b \/ e * h < g * f => (a * f + e * b) * (d * h) < (c * h + g * d) * (b * f)
<1>1. f * h \in Nat \ {0} /\ b * d \in Nat \ {0} /\ a * d \in Int /\ c * b \in Int /\ e * h \in Int /\ g * f \in Int
  BY Products
<1>2. (a * d) * (f * h) <= (c * b) * (f * h) /\ (a * d < c * b => (a * d) * (f * h) < (c * b) * (f * h))
  BY <1>1, MulOrder
<1>3. (e * h) * (b * d) <= (g * f) * (b * d) /\ (e * h < g * f => (e * h) * (b * d) < (g * f) * (b * d))
  BY <1>1, MulOrder
<1>4. (a * f + e * b) * (d * h) = (a * d) * (f * h) + (e * h) * (b * d)
  <2>1. (a * f) * (d * h) = (a * d) * (f * h) /\ (e * b) * (d * h) = (e * h) * (b * d)
    OBVIOUS
  <2>2. (a * f + e * b) * (d * h) = (a * f) * (d * h) + (e * b) * (d * h)
    OBVIOUS
  <2> QED
    BY <2>1, <2>2
<1>5. (c * h + g * d) * (b * f) = (c * b) * (f * h) + (g * f) * (b * d)
  <2>1. (c * h) * (b * f) = (c * b) * (f * h) /\ (g * d) * (b * f) = (g * f) * (b * d)
    OBVIOUS
  <2>2. (c * h + g * d) * (b * f) = (c * h) * (b * f) + (g * d) * (b * f)
    OBVIOUS
  <2> QED
    BY <2>1, <2>2
<1> DEFINE p == (a * d) * (f * h)  q == (c * b) * (f * h)
           r == (e * h) * (b * d)  s == (g * f) * (b * d)
<1>6. p \in Int /\ q \in Int /\ r \in Int /\ s \in Int
  BY <1>1, Products
<1>7. /\ p + r <= q + s
      /\ a * d < c * b \/ e * h < g * f => p + r < q + s
  <2>1. /\ p <= q /\ r <= s
        /\ a * d < c * b => p < q
        /\ e * h < g * f => r < s
    BY <1>2, <1>3
  <2> HIDE DEF p, q, r, s
  <2>2. a * d < c * b => p + r < q + s
    BY <1>6, <2>1
  <2>3. e * h < g * f => p + r < q + s
    BY <1>6, <2>1
  <2> QED
    BY <1>6, <2>1, <2>2, <2>3
<1> QED
  BY <1>4, <1>5, <1>7, Zenon

\* Sums keep the order.
LEMMA PlusOrder ==
    ASSUME NEW x \in Fraction, NEW y \in Fraction, NEW u \in Fraction, NEW v \in Fraction,
           AtMost(x, y), AtMost(u, v)
    PROVE  /\ AtMost(Plus(x, u), Plus(y, v))
           /\ Less(x, y) \/ Less(u, v) => Less(Plus(x, u), Plus(y, v))
<1>1. PICK a \in Int, b \in Nat \ {0} : Equals(x, a, b)
  BY Ratio
<1>2. PICK c \in Int, d \in Nat \ {0} : Equals(y, c, d)
  BY Ratio
<1>3. PICK e \in Int, f \in Nat \ {0} : Equals(u, e, f)
  BY Ratio
<1>4. PICK g \in Int, h \in Nat \ {0} : Equals(v, g, h)
  BY Ratio
<1>5. a * d <= c * b /\ (Less(x, y) <=> a * d < c * b)
  BY <1>1, <1>2, EqualsOrder
<1>6. e * h <= g * f /\ (Less(u, v) <=> e * h < g * f)
  BY <1>3, <1>4, EqualsOrder
<1> DEFINE p == a * f + e * b  q == c * h + g * d
           m == b * f  k == d * h
<1>7. p \in Int /\ q \in Int /\ m \in Nat \ {0} /\ k \in Nat \ {0}
  BY Products
<1>8. Equals(Plus(x, u), p, m) /\ Equals(Plus(y, v), q, k)
  BY <1>1, <1>2, <1>3, <1>4, PlusOf
<1>9. p * k <= q * m /\ (a * d < c * b \/ e * h < g * f => p * k < q * m)
  BY <1>5, <1>6, CrossSum
<1> HIDE DEF p, q, m, k
<1>10. /\ AtMost(Plus(x, u), Plus(y, v)) <=> p * k <= q * m
       /\ Less(Plus(x, u), Plus(y, v)) <=> p * k < q * m
  BY <1>7, <1>8, EqualsOrder
<1> QED
  BY <1>5, <1>6, <1>9, <1>10

\* Products with what is not negative keep the order.
LEMMA TimesOrder ==
    ASSUME NEW k \in Fraction, NEW x \in Fraction, NEW y \in Fraction, 0 <= k.n, AtMost(x, y)
    PROVE  AtMost(Times(k, x), Times(k, y)) /\ AtMost(Times(x, k), Times(y, k))
<1>1. PICK a \in Int, b \in Nat \ {0} : Equals(x, a, b)
  BY Ratio
<1>2. PICK c \in Int, d \in Nat \ {0} : Equals(y, c, d)
  BY Ratio
<1>3. PICK e \in Nat, f \in Nat \ {0} : Equals(k, e, f)
  BY Ratio
<1>4. a * d <= c * b
  BY <1>1, <1>2, EqualsOrder
<1>5. e * a \in Int /\ e * c \in Int /\ f * b \in Nat \ {0} /\ f * d \in Nat \ {0}
      /\ a * e \in Int /\ c * e \in Int /\ b * f \in Nat \ {0} /\ d * f \in Nat \ {0}
  BY Products
<1>6. Equals(Times(k, x), e * a, f * b) /\ Equals(Times(k, y), e * c, f * d)
      /\ Equals(Times(x, k), a * e, b * f) /\ Equals(Times(y, k), c * e, d * f)
  BY <1>1, <1>2, <1>3, TimesOf
<1>7. (a * d) * (e * f) <= (c * b) * (e * f)
  <2>1. CASE e = 0
    BY <2>1
  <2>2. CASE e # 0
    <3>1. e * f \in Nat \ {0} /\ a * d \in Int /\ c * b \in Int
      BY <2>2, Products
    <3> QED
      BY <1>4, <3>1, MulOrder
  <2> QED
    BY <2>1, <2>2
<1>8. (e * a) * (f * d) = (a * d) * (e * f) /\ (e * c) * (f * b) = (c * b) * (e * f)
  OBVIOUS
<1>9. (a * e) * (d * f) = (a * d) * (e * f) /\ (c * e) * (b * f) = (c * b) * (e * f)
  OBVIOUS
<1>10. (e * a) * (f * d) <= (e * c) * (f * b) /\ (a * e) * (d * f) <= (c * e) * (b * f)
  BY <1>7, <1>8, <1>9
<1> QED
  BY <1>5, <1>6, <1>10, EqualsOrder

\* Quotients by what is positive keep the order.
LEMMA OverOrder ==
    ASSUME NEW k \in Fraction, NEW x \in Fraction, NEW y \in Fraction, 0 < k.n
    PROVE  AtMost(Over(x, k), Over(y, k)) <=> AtMost(x, y)
<1>1. PICK a \in Int, b \in Nat \ {0} : Equals(x, a, b)
  BY Ratio
<1>2. PICK c \in Int, d \in Nat \ {0} : Equals(y, c, d)
  BY Ratio
<1>3. PICK e \in Nat \ {0}, f \in Nat \ {0} : Equals(k, e, f)
  BY Ratio
<1>4. AtMost(x, y) <=> a * d <= c * b
  BY <1>1, <1>2, EqualsOrder
<1>5. a * f \in Int /\ c * f \in Int /\ b * e \in Nat \ {0} /\ d * e \in Nat \ {0}
      /\ e * f \in Nat \ {0} /\ a * d \in Int /\ c * b \in Int
  BY Products
<1>6. Equals(Over(x, k), a * f, b * e) /\ Equals(Over(y, k), c * f, d * e)
  BY <1>1, <1>2, <1>3, OverOf
<1>7. AtMost(Over(x, k), Over(y, k)) <=> (a * f) * (d * e) <= (c * f) * (b * e)
  BY <1>5, <1>6, EqualsOrder
<1>8. (a * f) * (d * e) = (a * d) * (e * f) /\ (c * f) * (b * e) = (c * b) * (e * f)
  OBVIOUS
<1>9. a * d <= c * b <=> (a * d) * (e * f) <= (c * b) * (e * f)
  BY <1>5, MulOrder
<1> QED
  BY <1>4, <1>7, <1>8, <1>9

LEMMA MinusOrder ==
    ASSUME NEW x \in Fraction, NEW y \in Fraction, NEW z \in Fraction, AtMost(x, y)
    PROVE  AtMost(Minus(x, z), Minus(y, z)) /\ AtMost(Minus(z, y), Minus(z, x))
<1>1. ASSUME NEW u \in Fraction PROVE [u EXCEPT !.n = -@] \in Fraction
  BY FractionFacts DEF Fraction
<1> DEFINE neg(u) == [u EXCEPT !.n = -@]
<1>2. AtMost(neg(y), neg(x))
  <2>1. x.n \in Int /\ y.n \in Int /\ x.d \in Nat \ {0} /\ y.d \in Nat \ {0}
    BY FractionFacts
  <2>2. neg(x).n = -x.n /\ neg(x).d = x.d /\ neg(y).n = -y.n /\ neg(y).d = y.d
    BY DEF Fraction
  <2>3. x.n * y.d <= y.n * x.d
    BY LessMeans
  <2>4. (-y.n) * x.d = -(y.n * x.d) /\ (-x.n) * y.d = -(x.n * y.d)
    BY <2>1
  <2>5. (-y.n) * x.d <= (-x.n) * y.d
    BY <2>1, <2>3, <2>4
  <2> QED
    BY <1>1, <2>2, <2>5, LessMeans
<1>3. Minus(x, z) = Plus(x, neg(z)) /\ Minus(y, z) = Plus(y, neg(z))
      /\ Minus(z, x) = Plus(z, neg(x)) /\ Minus(z, y) = Plus(z, neg(y))
  BY DEF Minus
<1>4. neg(x) \in Fraction /\ neg(y) \in Fraction /\ neg(z) \in Fraction
  BY <1>1
<1> HIDE DEF neg
<1> QED
  BY <1>2, <1>3, <1>4, PlusOrder, OrderFacts

\* The middle of two numbers lies between them.
LEMMA Middle ==
    ASSUME NEW x \in Fraction, NEW y \in Fraction, AtMost(x, y)
    PROVE  LET m == Over(Plus(x, y), Whole(2))
           IN  m \in Fraction /\ AtMost(x, m) /\ AtMost(m, y)
<1>1. PICK a \in Int, b \in Nat \ {0} : Equals(x, a, b)
  BY Ratio
<1>2. PICK c \in Int, d \in Nat \ {0} : Equals(y, c, d)
  BY Ratio
<1>3. a * d <= c * b
  BY <1>1, <1>2, EqualsOrder
<1> DEFINE l == a * d  r == c * b  D == b * d
           m == Over(Plus(x, y), Whole(2))
<1>4. l \in Int /\ r \in Int /\ l <= r /\ D \in Nat \ {0}
  BY <1>3, Products
<1>5. Equals(Plus(x, y), l + r, D)
  BY <1>1, <1>2, PlusOf
<1>6. /\ a * (D * 2) = (2 * l) * b
      /\ c * (D * 2) = (2 * r) * d
  OBVIOUS
<1>12. 2 * l <= l + r /\ l + r <= 2 * r
  BY <1>4
<1> HIDE DEF l, r, D
<1>7. Equals(m, (l + r) * 1, D * 2)
  BY <1>4, <1>5, OverOf, WholeFacts
<1>8. Equals(m, l + r, D * 2) /\ D * 2 \in Nat \ {0}
  BY <1>4, <1>7
<1> HIDE DEF m
<1>9. m \in Fraction
  BY <1>8 DEF Equals
<1>10. AtMost(x, m)
  <2>1. (2 * l) * b <= (l + r) * b
    BY <1>4, <1>12, MulOrder
  <2> QED
    BY <1>1, <1>4, <1>6, <1>8, <2>1, EqualsOrder
<1>11. AtMost(m, y)
  <2>1. (l + r) * d <= (2 * r) * d
    BY <1>4, <1>12, MulOrder
  <2> QED
    BY <1>2, <1>4, <1>6, <1>8, <2>1, EqualsOrder
<1> QED
  BY <1>9, <1>10, <1>11 DEF m

-----------------------------------------------------------------------------
(* Rounding                                                                 *)

\* k is n * s / d, rounded half to even.
Nearest(k, n, d, s) ==
    /\ k \in Int
    /\ 2 * (k * d) <= 2 * (n * s) + d
    /\ 2 * (n * s) <= 2 * (k * d) + d
    /\ 2 * (k * d) = 2 * (n * s) + d \/ 2 * (n * s) = 2 * (k * d) + d => k % 2 = 0

LEMMA NextEven ==
    ASSUME NEW k \in Int, k % 2 = 1
    PROVE  (k + 1) % 2 = 0
OBVIOUS

\* A number is rounded to the nearest, and between two of them to the even one.
LEMMA RoundIs ==
    ASSUME NEW x \in Fraction, NEW s \in Nat \ {0}
    PROVE  \E k \in Int : Nearest(k, x.n, x.d, s) /\ Round(x, s) = Frac(k, s)
<1>1. PICK n \in Int, d \in Nat \ {0} : n = x.n /\ d = x.d
  BY FractionFacts
<1>2. PICK q \in Int, r \in Nat : q = n \div d /\ r = n % d /\ r < d /\ n = d * q + r
  BY Division
<1>3. r * s \in Nat
  BY Products
<1>4. PICK p \in Int, e \in Nat : p = (r * s) \div d /\ e = (r * s) % d /\ e < d /\ r * s = d * p + e
  BY <1>3, Division
<1> DEFINE down == q * s + p
           k == IF 2 * e > d \/ (2 * e = d /\ down % 2 = 1) THEN down + 1 ELSE down
<1>5. down \in Int /\ k \in Int /\ down % 2 \in {0, 1}
  BY <1>3
<1>6. Round(x, s) = Frac(k, s)
  BY <1>1, <1>2, <1>4, FractionFacts DEF Round
<1>7. n * s = d * down + e
  <2>1. (d * q + r) * s = d * (q * s) + r * s
    BY <1>2
  <2>2. d * (q * s + p) = d * (q * s) + d * p
    OBVIOUS
  <2>3. n * s = (d * q + r) * s
    BY <1>2
  <2>4. d * (q * s) \in Int /\ d * p \in Int
    BY <1>2, <1>4
  <2>5. n * s = d * (q * s) + (d * p + e)
    BY <1>4, <2>1, <2>3
  <2> QED
    BY <1>4, <2>2, <2>4, <2>5
<1>8. Nearest(k, n, d, s)
  <2> DEFINE D == d * down
  <2>1. D \in Int /\ n * s = D + e
    BY <1>5, <1>7
  <2>2. down * d = D /\ (down + 1) * d = D + d
    BY <1>5
  <2>3. CASE k = down
    <3>1. k * d = D /\ 2 * e <= d /\ (2 * e = d => k % 2 = 0)
      BY <1>5, <2>2, <2>3
    <3> HIDE DEF D, k, down
    <3>2. /\ 2 * D <= 2 * (D + e) + d
          /\ 2 * (D + e) <= 2 * D + d
          /\ 2 * D = 2 * (D + e) + d \/ 2 * (D + e) = 2 * D + d => 2 * e = d
      BY <2>1, <3>1
    <3> QED
      BY <1>5, <2>1, <3>1, <3>2 DEF Nearest
  <2>4. CASE k = down + 1 /\ k # down
    <3>1. k * d = D + d /\ (2 * e > d \/ (2 * e = d /\ down % 2 = 1))
      BY <1>5, <2>2, <2>4
    <3>2. 2 * e = d => k % 2 = 0
      BY <1>5, <2>4, <3>1, NextEven
    <3> HIDE DEF D, k, down
    <3>3. /\ 2 * (D + d) <= 2 * (D + e) + d
          /\ 2 * (D + e) <= 2 * (D + d) + d
          /\ 2 * (D + d) = 2 * (D + e) + d \/ 2 * (D + e) = 2 * (D + d) + d => 2 * e = d
      BY <1>4, <2>1, <3>1
    <3> QED
      BY <1>5, <2>1, <3>1, <3>2, <3>3 DEF Nearest
  <2> QED
    BY <2>3, <2>4
<1> QED
  BY <1>1, <1>5, <1>6, <1>8

\* The nearest of a larger number is not smaller.
LEMMA NearestOrder ==
    ASSUME NEW n \in Int, NEW d \in Nat \ {0}, NEW m \in Int, NEW c \in Nat \ {0}, NEW s \in Nat \ {0},
           n * c <= m * d,
           NEW k \in Int, Nearest(k, n, d, s), NEW j \in Int, Nearest(j, m, c, s)
    PROVE  k <= j
<1> SUFFICES ASSUME j < k PROVE FALSE
  OBVIOUS
<1> DEFINE D == c * d  a == n * s  b == m * s
           A == a * c  B == b * d
           kd == k * d  jc == j * c
<1>1. a \in Int /\ b \in Int /\ D \in Nat \ {0} /\ A \in Int /\ B \in Int /\ kd \in Int /\ jc \in Int
  BY Products
<1>2. A <= B
  <2>1. (n * c) * s <= (m * d) * s
    BY Products, MulOrder
  <2>2. A = (n * c) * s /\ B = (m * d) * s
    OBVIOUS
  <2> QED
    BY <2>1, <2>2
<1>3. /\ 2 * kd <= 2 * a + d /\ (2 * kd = 2 * a + d => k % 2 = 0)
      /\ 2 * b <= 2 * jc + c /\ (2 * b = 2 * jc + c => j % 2 = 0)
  BY DEF Nearest
<1>4. kd * c = k * D /\ jc * d = j * D
  OBVIOUS
<1> HIDE DEF A, B, D, a, b, kd, jc
<1>5. /\ 2 * (k * D) <= 2 * A + D /\ (2 * (k * D) = 2 * A + D => k % 2 = 0)
      /\ 2 * B <= 2 * (j * D) + D /\ (2 * B = 2 * (j * D) + D => j % 2 = 0)
  <2>1. /\ (2 * kd) * c <= (2 * a + d) * c /\ ((2 * kd) * c = (2 * a + d) * c => k % 2 = 0)
        /\ (2 * b) * d <= (2 * jc + c) * d /\ ((2 * b) * d = (2 * jc + c) * d => j % 2 = 0)
    <3>1. 2 * kd \in Int /\ 2 * a + d \in Int /\ 2 * b \in Int /\ 2 * jc + c \in Int
      BY <1>1
    <3> QED
      BY <1>3, <3>1, MulOrder
  <2>2. (2 * kd) * c = 2 * (kd * c) /\ (2 * a + d) * c = 2 * (a * c) + c * d
        /\ (2 * b) * d = 2 * (b * d) /\ (2 * jc + c) * d = 2 * (jc * d) + c * d
    BY <1>1
  <2>3. a * c = A /\ b * d = B /\ c * d = D
    BY DEF A, B, D
  <2> QED
    BY <1>4, <2>1, <2>2, <2>3
<1>6. (j + 1) * D <= k * D /\ (j + 1) * D = j * D + D /\ (k # j + 1 => (j + 2) * D <= k * D) /\ (j + 2) * D = j * D + 2 * D
      /\ k * D \in Int /\ j * D \in Int
  BY <1>1, MulOrder
<1> DEFINE K == k * D  J == j * D
<1>7. /\ K \in Int /\ J \in Int /\ J + D <= K /\ (k # j + 1 => J + 2 * D <= K)
      /\ 2 * K <= 2 * A + D /\ (2 * K = 2 * A + D => k % 2 = 0)
      /\ 2 * B <= 2 * J + D /\ (2 * B = 2 * J + D => j % 2 = 0)
  BY <1>5, <1>6
<1> HIDE DEF K, J
<1>8. k = j + 1 /\ 2 * K = 2 * A + D /\ 2 * B = 2 * J + D
  BY <1>1, <1>2, <1>7
<1>9. k % 2 = 0 /\ j % 2 = 0 /\ k = j + 1
  BY <1>7, <1>8
<1> QED
  BY <1>9

\* Rounding keeps the order.
LEMMA RoundOrder ==
    ASSUME NEW x \in Fraction, NEW y \in Fraction, NEW s \in Nat \ {0}
    PROVE  /\ Round(x, s) \in Fraction
           /\ AtMost(x, y) => AtMost(Round(x, s), Round(y, s))
<1>1. PICK k \in Int : Nearest(k, x.n, x.d, s) /\ Round(x, s) = Frac(k, s)
  BY RoundIs
<1>2. PICK j \in Int : Nearest(j, y.n, y.d, s) /\ Round(y, s) = Frac(j, s)
  BY RoundIs
<1>3. Equals(Round(x, s), k, s) /\ Equals(Round(y, s), j, s)
  BY <1>1, <1>2, FracEquals
<1>4. ASSUME AtMost(x, y) PROVE AtMost(Round(x, s), Round(y, s))
  <2>1. PICK n \in Int, d \in Nat \ {0} : n = x.n /\ d = x.d
    BY FractionFacts
  <2>2. PICK m \in Int, c \in Nat \ {0} : m = y.n /\ c = y.d
    BY FractionFacts
  <2>3. n * c <= m * d
    BY <1>4, <2>1, <2>2, LessMeans
  <2>4. k <= j
    BY <1>1, <1>2, <2>1, <2>2, <2>3, NearestOrder
  <2>5. k * s <= j * s
    BY <2>4, MulOrder
  <2> QED
    BY <1>3, <2>5, EqualsOrder
<1> QED
  BY <1>3, <1>4 DEF Equals

\* What is rounded already stays.
LEMMA RoundAgain ==
    ASSUME NEW x, NEW a \in Int, NEW s \in Nat \ {0}, Equals(x, a, s)
    PROVE  Round(x, s) = Frac(a, s) /\ Equals(Round(x, s), a, s)
<1>1. x \in Fraction /\ x.n \in Int /\ x.d \in Nat \ {0} /\ x.n * s = a * x.d
  BY EqualsFacts
<1>2. PICK k \in Int : Nearest(k, x.n, x.d, s) /\ Round(x, s) = Frac(k, s)
  BY <1>1, RoundIs
<1>3. PICK n \in Int, d \in Nat \ {0} : n = x.n /\ d = x.d
  BY <1>1
<1>4. n * s = a * d /\ Nearest(k, n, d, s)
  BY <1>1, <1>2, <1>3
<1>5. 2 * (k * d) <= 2 * (a * d) + d /\ 2 * (a * d) <= 2 * (k * d) + d
  BY <1>4 DEF Nearest
<1>6. k = a
  <2>1. k < a => (k + 1) * d <= a * d
    BY MulOrder
  <2>2. a < k => (a + 1) * d <= k * d
    BY MulOrder
  <2>3. (k + 1) * d = k * d + d /\ (a + 1) * d = a * d + d /\ k * d \in Int /\ a * d \in Int
    OBVIOUS
  <2> DEFINE K == k * d  A == a * d
  <2>4. /\ 2 * K <= 2 * A + d /\ 2 * A <= 2 * K + d /\ K \in Int /\ A \in Int
        /\ k < a => K + d <= A
        /\ a < k => A + d <= K
    BY <1>5, <2>1, <2>2, <2>3
  <2> HIDE DEF K, A
  <2> QED
    BY <2>4
<1> QED
  BY <1>2, <1>6, FracEquals

LEMMA RoundFacts ==
    ASSUME NEW s \in Nat \ {0}
    PROVE  /\ Round(None, s) = None
           /\ \A x \in Fraction \cup {None} : Round(x, s) \in Fraction \cup {None} /\ (Round(x, s) = None <=> x = None)
           /\ Equals(Round(Zero, s), 0, 1)
<1>1. Equals(Zero, 0, s)
  BY WholeFacts DEF Zero, Whole, Equals, Fraction
<1>2. Equals(Round(Zero, s), 0, s)
  BY <1>1, RoundAgain
<1>3. Equals(Round(Zero, s), 0, 1)
  <2>1. Round(Zero, s) \in Fraction /\ Round(Zero, s).n \in Int /\ Round(Zero, s).d \in Nat \ {0}
        /\ Round(Zero, s).n * s = 0 * Round(Zero, s).d
    BY <1>2, EqualsFacts
  <2>2. PICK n \in Int : n = Round(Zero, s).n
    BY <2>1
  <2>3. n * s = 0 * s
    BY <2>1, <2>2
  <2>4. n = 0
    BY <2>3, MulOrder
  <2> QED
    BY <2>1, <2>2, <2>4 DEF Equals
<1>4. Round(None, s) = None
  BY DEF Round
<1> QED
  BY <1>3, <1>4, RoundOrder, FractionFacts

LEMMA RoundNatural ==
    ASSUME NEW x \in Fraction, NEW s \in Nat \ {0}, 0 <= x.n
    PROVE  0 <= Round(x, s).n
<1>1. AtMost(Zero, x)
  BY SignFacts
<1>2. Zero \in Fraction /\ Round(Zero, s) \in Fraction /\ Round(x, s) \in Fraction /\ AtMost(Round(Zero, s), Round(x, s))
  BY <1>1, RoundOrder, FractionFacts
<1>3. Equals(Round(Zero, s), 0, 1)
  BY RoundFacts
<1>4. AtMost(Zero, Round(Zero, s))
  <2>1. 0 <= Round(Zero, s).n
    BY <1>3, SignOf
  <2> QED
    BY <1>2, <2>1, SignFacts
<1> QED
  BY <1>2, <1>4, OrderFacts, SignFacts

-----------------------------------------------------------------------------
(* Lists of numbers                                                         *)

LEMMA InductUpTo ==
    ASSUME NEW n \in Nat, NEW S, 0 \in S, \A k \in Nat : k < n /\ k \in S => k + 1 \in S
    PROVE  0 .. n \subseteq S
<1> DEFINE T == {k \in Nat : k <= n => k \in S}
<1>1. 0 \in T /\ \A k \in Nat : k \in T => k + 1 \in T
  OBVIOUS
<1> HIDE DEF T
<1>2. Nat \subseteq T
  BY <1>1, Induct
<1> QED
  BY <1>2 DEF T

\* The steps of a function defined by recursion over 0 .. n; g takes what is there
\* and the number of the step.
Folded(g, b, n, F) ==
    /\ F = [i \in 0 .. n |-> F[i]]
    /\ F[0] = b
    /\ \A i \in 1 .. n : F[i] = g[<<F[i - 1], i>>]

\* What is computed step by step along a list exists.
LEMMA FoldExists ==
    ASSUME NEW S, NEW b \in S, NEW n \in Nat, NEW g \in [S \X (1 .. n) -> S]
    PROVE  \E F : Folded(g, b, n, F) /\ \A i \in 0 .. n : F[i] \in S
<1> DEFINE ok(k, F) == Folded(g, b, k, F) /\ \A i \in 0 .. k : F[i] \in S
           N == {k \in Nat : \E F : ok(k, F)}
<1>1. 0 \in N
  <2> DEFINE F == [i \in 0 .. 0 |-> b]
  <2>1. ok(0, F)
    BY DEF Folded
  <2> QED
    BY <2>1
<1>2. ASSUME NEW k \in Nat, k < n, k \in N PROVE k + 1 \in N
  <2>1. PICK F : ok(k, F)
    BY <1>2
  <2> DEFINE x == g[<<F[k], k + 1>>]
             G == [i \in 0 .. k + 1 |-> IF i = k + 1 THEN x ELSE F[i]]
  <2>2. x \in S
    <3>1. <<F[k], k + 1>> \in S \X (1 .. n)
      BY <1>2, <2>1
    <3> QED
      BY <3>1
  <2> HIDE DEF x
  <2>3. G = [i \in 0 .. k + 1 |-> G[i]] /\ G[0] = b /\ \A i \in 0 .. k + 1 : G[i] \in S
    BY <2>1, <2>2 DEF Folded
  <2>4. ASSUME NEW i \in 1 .. k + 1 PROVE G[i] = g[<<G[i - 1], i>>]
    <3>1. G[i - 1] = F[i - 1] /\ G[i] = IF i = k + 1 THEN x ELSE F[i]
      OBVIOUS
    <3>2. (i # k + 1 => i \in 1 .. k) /\ (i = k + 1 => i - 1 = k)
      OBVIOUS
    <3> QED
      BY <2>1, <3>1, <3>2 DEF Folded, x
  <2>5. ok(k + 1, G)
    BY <2>3, <2>4 DEF Folded
  <2> QED
    BY <2>5
<1> HIDE DEF N
<1>3. 0 .. n \subseteq N
  BY <1>1, <1>2, InductUpTo
<1> QED
  BY <1>3 DEF N

\* A sum grows by one number at a time.
LEMMA SumSteps ==
    ASSUME NEW ns \in Seq(Int)
    PROVE  \E F : /\ F[0] = 0 /\ F[Len(ns)] = SumOf(ns)
                  /\ \A i \in 0 .. Len(ns) : F[i] \in Int
                  /\ \A i \in 1 .. Len(ns) : F[i] = F[i - 1] + ns[i]
<1> DEFINE n == Len(ns)
           g == [p \in Int \X (1 .. n) |-> p[1] + ns[p[2]]]
<1>1. n \in Nat /\ \A i \in 1 .. n : ns[i] \in Int
  BY LenProperties, ElementOfSeq
<1>2. g \in [Int \X (1 .. n) -> Int]
  BY <1>1
<1>3. \A x \in Int, i \in 1 .. n : g[<<x, i>>] = x + ns[i]
  OBVIOUS
<1> HIDE DEF g, n
<1>4. PICK F : Folded(g, 0, n, F) /\ \A i \in 0 .. n : F[i] \in Int
  <2>1. \A b \in Int : \E F : Folded(g, b, n, F) /\ \A i \in 0 .. n : F[i] \in Int
    BY <1>1, <1>2, FoldExists
  <2> QED
    BY <2>1
<1>5. ASSUME NEW i \in 1 .. n PROVE F[i] = F[i - 1] + ns[i]
  <2>1. i - 1 \in 0 .. n
    BY <1>1
  <2> QED
    BY <1>3, <1>4, <2>1 DEF Folded
<1> DEFINE R(H) == H = [k \in 0 .. n |-> IF k = 0 THEN 0 ELSE H[k - 1] + ns[k]]
<1>6. R(F)
  <2>1. ASSUME NEW k \in 0 .. n PROVE F[k] = IF k = 0 THEN 0 ELSE F[k - 1] + ns[k]
    <3>1. k = 0 \/ k \in 1 .. n
      OBVIOUS
    <3> QED
      BY <1>4, <1>5, <3>1 DEF Folded
  <2>2. F = [k \in 0 .. n |-> F[k]]
    BY <1>4 DEF Folded
  <2> QED
    BY <2>1, <2>2
<1> DEFINE H == CHOOSE H : R(H)
<1>7. R(H)
  BY <1>6
<1>8. SumOf(ns) = H[n]
  BY DEF SumOf, n
<1> HIDE DEF H
<1>9. H[0] = 0 /\ \A i \in 1 .. n : H[i] = H[i - 1] + ns[i]
  <2>1. \A i \in 0 .. n : H[i] = IF i = 0 THEN 0 ELSE H[i - 1] + ns[i]
    BY <1>7
  <2> HIDE DEF R
  <2>2. \A i \in 1 .. n : i \in 0 .. n /\ i # 0
    BY <1>1
  <2>3. 0 \in 0 .. n
    BY <1>1
  <2> QED
    BY <2>1, <2>2, <2>3
<1>10. \A i \in 0 .. n : H[i] \in Int
  <2> DEFINE T == {i \in 0 .. n : H[i] \in Int}
  <2>1. 0 \in T
    BY <1>1, <1>9
  <2>2. ASSUME NEW k \in Nat, k < n, k \in T PROVE k + 1 \in T
    <3>1. k + 1 \in 1 .. n /\ (k + 1) - 1 = k
      BY <1>1, <2>2
    <3>2. H[k + 1] = H[k] + ns[k + 1]
      BY <1>9, <3>1
    <3> QED
      BY <1>1, <2>2, <3>1, <3>2
  <2> HIDE DEF T
  <2>3. 0 .. n \subseteq T
    BY <1>1, <2>1, <2>2, InductUpTo
  <2> QED
    BY <2>3 DEF T
<1> QED
  BY <1>8, <1>9, <1>10 DEF n

LEMMA SumFacts ==
    /\ \A ns \in Seq(Int) : SumOf(ns) \in Int
    /\ \A ns \in Seq(Nat) : SumOf(ns) \in Nat
<1>1. ASSUME NEW ns \in Seq(Int) PROVE SumOf(ns) \in Int
  <2>1. Len(ns) \in 0 .. Len(ns)
    BY LenProperties
  <2> QED
    BY <2>1, SumSteps
<1>2. ASSUME NEW ns \in Seq(Nat) PROVE SumOf(ns) \in Nat
  <2>1. ns \in Seq(Int) /\ Len(ns) \in Nat /\ \A i \in 1 .. Len(ns) : ns[i] \in Nat
    BY SeqMonotonic, LenProperties, ElementOfSeq
  <2>2. PICK F : /\ F[0] = 0 /\ F[Len(ns)] = SumOf(ns)
                 /\ \A i \in 0 .. Len(ns) : F[i] \in Int
                 /\ \A i \in 1 .. Len(ns) : F[i] = F[i - 1] + ns[i]
    BY <2>1, SumSteps
  <2> DEFINE T == {i \in 0 .. Len(ns) : F[i] \in Nat}
  <2>3. 0 \in T
    BY <2>1, <2>2
  <2>4. ASSUME NEW k \in Nat, k < Len(ns), k \in T PROVE k + 1 \in T
    <3>1. k + 1 \in 1 .. Len(ns) /\ (k + 1) - 1 = k
      BY <2>1, <2>4
    <3>2. F[k + 1] = F[k] + ns[k + 1] /\ ns[k + 1] \in Nat
      BY <2>1, <2>2, <3>1
    <3> QED
      BY <2>4, <3>1, <3>2
  <2> HIDE DEF T
  <2>5. 0 .. Len(ns) \subseteq T
    BY <2>1, <2>3, <2>4, InductUpTo
  <2> QED
    BY <2>1, <2>2, <2>5 DEF T
<1> QED
  BY <1>1, <1>2

LEMMA TotalSteps ==
    ASSUME NEW xs \in Seq(Fraction)
    PROVE  \E F : /\ F[0] = Zero /\ F[Len(xs)] = Total(xs)
                  /\ \A i \in 0 .. Len(xs) : F[i] \in Fraction
                  /\ \A i \in 1 .. Len(xs) : F[i] = Plus(F[i - 1], xs[i])
<1> DEFINE n == Len(xs)
           g == [p \in Fraction \X (1 .. n) |-> Plus(p[1], xs[p[2]])]
<1>1. n \in Nat /\ \A i \in 1 .. n : xs[i] \in Fraction
  BY LenProperties, ElementOfSeq
<1>2. g \in [Fraction \X (1 .. n) -> Fraction]
  BY <1>1, Closed
<1>3. \A x \in Fraction, i \in 1 .. n : g[<<x, i>>] = Plus(x, xs[i])
  OBVIOUS
<1> HIDE DEF g, n
<1>4. PICK F : Folded(g, Zero, n, F) /\ \A i \in 0 .. n : F[i] \in Fraction
  <2>1. \A b \in Fraction : \E F : Folded(g, b, n, F) /\ \A i \in 0 .. n : F[i] \in Fraction
    BY <1>1, <1>2, FoldExists
  <2> QED
    BY <2>1, FractionFacts
<1>5. ASSUME NEW i \in 1 .. n PROVE F[i] = Plus(F[i - 1], xs[i])
  <2>1. i - 1 \in 0 .. n
    BY <1>1
  <2> QED
    BY <1>3, <1>4, <2>1 DEF Folded
<1> DEFINE R(H) == H = [k \in 0 .. n |-> IF k = 0 THEN Zero ELSE Plus(H[k - 1], xs[k])]
<1>6. R(F)
  <2>1. ASSUME NEW k \in 0 .. n PROVE F[k] = IF k = 0 THEN Zero ELSE Plus(F[k - 1], xs[k])
    <3>1. k = 0 \/ k \in 1 .. n
      OBVIOUS
    <3> QED
      BY <1>4, <1>5, <3>1 DEF Folded
  <2>2. F = [k \in 0 .. n |-> F[k]]
    BY <1>4 DEF Folded
  <2> QED
    BY <2>1, <2>2
<1> DEFINE H == CHOOSE H : R(H)
<1>7. R(H)
  BY <1>6
<1>8. Total(xs) = H[n]
  BY DEF Total, n
<1> HIDE DEF H
<1>9. H[0] = Zero /\ \A i \in 1 .. n : H[i] = Plus(H[i - 1], xs[i])
  <2>1. \A i \in 0 .. n : H[i] = IF i = 0 THEN Zero ELSE Plus(H[i - 1], xs[i])
    BY <1>7
  <2> HIDE DEF R
  <2>2. \A i \in 1 .. n : i \in 0 .. n /\ i # 0
    BY <1>1
  <2>3. 0 \in 0 .. n
    BY <1>1
  <2> QED
    BY <2>1, <2>2, <2>3
<1>10. \A i \in 0 .. n : H[i] \in Fraction
  <2> DEFINE T == {i \in 0 .. n : H[i] \in Fraction}
  <2>1. 0 \in T
    BY <1>1, <1>9, FractionFacts
  <2>2. ASSUME NEW k \in Nat, k < n, k \in T PROVE k + 1 \in T
    <3>1. k + 1 \in 1 .. n /\ (k + 1) - 1 = k
      BY <1>1, <2>2
    <3>2. H[k + 1] = Plus(H[k], xs[k + 1])
      BY <1>9, <3>1
    <3> QED
      BY <1>1, <2>2, <3>1, <3>2, Closed
  <2> HIDE DEF T
  <2>3. 0 .. n \subseteq T
    BY <1>1, <2>1, <2>2, InductUpTo
  <2> QED
    BY <2>3 DEF T
<1> QED
  BY <1>8, <1>9, <1>10 DEF n


\* The mean lies between the bounds of the numbers.
LEMMA MeanBetween ==
    ASSUME NEW xs \in Seq(Fraction), xs # <<>>, NEW lo \in Fraction, NEW hi \in Fraction,
           \A i \in 1 .. Len(xs) : AtMost(lo, xs[i]) /\ AtMost(xs[i], hi)
    PROVE  Mean(xs) \in Fraction /\ AtMost(lo, Mean(xs)) /\ AtMost(Mean(xs), hi)
<1> DEFINE n == Len(xs)
<1>1. n \in Nat \ {0} /\ \A i \in 1 .. n : xs[i] \in Fraction
  BY LenProperties, ElementOfSeq, EmptySeq
<1>2. PICK F : /\ F[0] = Zero /\ F[n] = Total(xs)
               /\ \A i \in 0 .. n : F[i] \in Fraction
               /\ \A i \in 1 .. n : F[i] = Plus(F[i - 1], xs[i])
  BY TotalSteps
<1>3. PICK a \in Int, b \in Nat \ {0} : Equals(lo, a, b)
  BY Ratio
<1>4. PICK c \in Int, d \in Nat \ {0} : Equals(hi, c, d)
  BY Ratio
<1>5. ASSUME NEW k \in Nat, NEW e \in Int, NEW f \in Nat \ {0}
      PROVE  /\ k * e \in Int
             /\ \E x : Equals(x, k * e, f)
             /\ \A x, y : Equals(x, k * e, f) /\ Equals(y, e, f) => Equals(Plus(x, y), (k + 1) * e, f)
  <2>1. k * e \in Int
    BY Products
  <2>2. Equals(Frac(k * e, f), k * e, f)
    BY <2>1, FracEquals
  <2>3. ASSUME NEW x, NEW y, Equals(x, k * e, f), Equals(y, e, f)
        PROVE  Equals(Plus(x, y), (k + 1) * e, f)
    <3> DEFINE p == (k * e) * f + e * f
               q == (k + 1) * e
    <3>1. Equals(Plus(x, y), p, f * f) /\ q \in Int /\ p \in Int /\ f * f \in Nat \ {0}
      BY <2>1, <2>3, PlusOf, Products
    <3>2. p = q * f
      OBVIOUS
    <3> HIDE DEF p, q
    <3>3. PICK g \in Int, h \in Nat \ {0} : g = Plus(x, y).n /\ h = Plus(x, y).d
      BY <3>1, EqualsFacts
    <3>4. g * (f * f) = p * h /\ Plus(x, y) \in Fraction
      BY <3>1, <3>3, EqualsFacts
    <3>5. (g * f) * f = (q * h) * f
      <4>1. (g * f) * f = g * (f * f)
        OBVIOUS
      <4>2. (q * f) * h = (q * h) * f
        BY <3>1
      <4> QED
        BY <3>2, <3>4, <4>1, <4>2
    <3>6. g * f = q * h
      BY <3>1, <3>5, MulOrder, Products
    <3> QED
      BY <3>3, <3>4, <3>6 DEF Equals, q
  <2> QED
    BY <2>1, <2>2, <2>3
<1> DEFINE T == {k \in 0 .. n : /\ \A x : Equals(x, k * a, b) => AtMost(x, F[k])
                               /\ \A x : Equals(x, k * c, d) => AtMost(F[k], x)}
<1>6. 0 \in T
  <2>1. ASSUME NEW x, NEW e \in Int, NEW f \in Nat \ {0}, Equals(x, 0 * e, f)
        PROVE  AtMost(x, Zero) /\ AtMost(Zero, x)
    <3>1. 0 * e = 0
      OBVIOUS
    <3>2. x \in Fraction /\ x.n \in Int /\ x.d \in Nat \ {0} /\ x.n * f = 0 * x.d
      BY <2>1, <3>1, EqualsFacts
    <3>3. PICK g \in Int : g = x.n
      BY <3>2
    <3>4. g * f = 0 * f
      BY <3>2, <3>3
    <3>5. x.n = 0
      BY <3>3, <3>4, MulOrder
    <3> QED
      BY <3>2, <3>5, SignFacts
  <2> QED
    BY <1>1, <1>2, <1>3, <1>4, <2>1
<1>7. ASSUME NEW k \in Nat, k < n, k \in T PROVE k + 1 \in T
  <2>1. k + 1 \in 1 .. n /\ (k + 1) - 1 = k /\ k \in 0 .. n
    BY <1>1, <1>7
  <2>2. F[k + 1] = Plus(F[k], xs[k + 1]) /\ F[k] \in Fraction /\ xs[k + 1] \in Fraction
    BY <1>1, <1>2, <2>1
  <2>3. ASSUME NEW x, Equals(x, (k + 1) * a, b) PROVE AtMost(x, F[k + 1])
    <3>1. PICK y : Equals(y, k * a, b)
      BY <1>5
    <3>2. AtMost(y, F[k]) /\ AtMost(lo, xs[k + 1])
      BY <1>7, <2>1, <3>1
    <3>3. y \in Fraction /\ x \in Fraction
      BY <2>3, <3>1 DEF Equals
    <3>7. Plus(y, lo) \in Fraction /\ F[k + 1] \in Fraction
      BY <2>2, <3>3, Closed
    <3>4. AtMost(Plus(y, lo), F[k + 1])
      <4>1. AtMost(Plus(y, lo), Plus(F[k], xs[k + 1]))
        BY <2>2, <3>2, <3>3, PlusOrder
      <4> QED
        BY <2>2, <4>1
    <3>5. Equals(Plus(y, lo), (k + 1) * a, b)
      BY <1>3, <1>5, <3>1
    <3>6. AtMost(x, Plus(y, lo))
      <4>1. (k + 1) * a \in Int
        BY Products
      <4> DEFINE u == (k + 1) * a
      <4>2. u * b <= u * b /\ u \in Int
        BY <4>1, Products
      <4> QED
        BY <2>3, <3>5, <4>2, EqualsOrder
    <3> QED
      BY <3>3, <3>4, <3>6, <3>7, OrderFacts
  <2>4. ASSUME NEW x, Equals(x, (k + 1) * c, d) PROVE AtMost(F[k + 1], x)
    <3>1. PICK y : Equals(y, k * c, d)
      BY <1>5
    <3>2. AtMost(F[k], y) /\ AtMost(xs[k + 1], hi)
      BY <1>7, <2>1, <3>1
    <3>3. y \in Fraction /\ x \in Fraction
      BY <2>4, <3>1 DEF Equals
    <3>7. Plus(y, hi) \in Fraction /\ F[k + 1] \in Fraction
      BY <2>2, <3>3, Closed
    <3>4. AtMost(F[k + 1], Plus(y, hi))
      <4>1. AtMost(Plus(F[k], xs[k + 1]), Plus(y, hi))
        BY <2>2, <3>2, <3>3, PlusOrder
      <4> QED
        BY <2>2, <4>1
    <3>5. Equals(Plus(y, hi), (k + 1) * c, d)
      BY <1>4, <1>5, <3>1
    <3>6. AtMost(Plus(y, hi), x)
      <4>1. (k + 1) * c \in Int
        BY Products
      <4> DEFINE u == (k + 1) * c
      <4>2. u * d <= u * d /\ u \in Int
        BY <4>1, Products
      <4> QED
        BY <2>4, <3>5, <4>2, EqualsOrder
    <3> QED
      BY <3>3, <3>4, <3>6, <3>7, OrderFacts
  <2> QED
    BY <2>1, <2>3, <2>4
<1> HIDE DEF T
<1>8. n \in T
  <2>1. 0 .. n \subseteq T
    BY <1>1, <1>6, <1>7, InductUpTo
  <2> QED
    BY <1>1, <2>1
<1>9. Mean(xs) = Over(Total(xs), Whole(n)) /\ Total(xs) \in Fraction
  BY <1>1, <1>2 DEF Mean
<1>10. Whole(n) \in Fraction /\ 0 < Whole(n).n /\ Equals(Whole(n), n, 1)
  BY <1>1, WholeFacts
<1>11. ASSUME NEW e \in Int, NEW f \in Nat \ {0}, NEW z, Equals(z, e, f)
       PROVE  \E x : /\ Equals(x, n * e, f) /\ x \in Fraction
                     /\ AtMost(Over(x, Whole(n)), z) /\ AtMost(z, Over(x, Whole(n)))
                     /\ Over(x, Whole(n)) \in Fraction
  <2>1. PICK x : Equals(x, n * e, f)
    BY <1>1, <1>5
  <2> DEFINE p == n * e
             q == f * n
  <2>2. p \in Int /\ q \in Nat \ {0} /\ Equals(x, p, f)
    BY <1>1, <2>1, Products
  <2>3. Equals(Over(x, Whole(n)), p * 1, q)
    <3> HIDE DEF p
    <3> QED
      BY <1>1, <1>10, <2>2, OverOf
  <2>4. p * 1 = p
    BY <2>2
  <2>5. p * f = e * q
    BY <1>1
  <2>6. Equals(Over(x, Whole(n)), p, q)
    BY <2>3, <2>4
  <2> HIDE DEF p, q
  <2>7. e * q \in Int /\ p * f \in Int
    BY <2>2, Products
  <2> QED
    BY <1>11, <2>1, <2>2, <2>5, <2>6, <2>7, EqualsOrder, EqualsFacts
<1>12. Mean(xs) \in Fraction
  BY <1>9, <1>10, Closed
<1>13. AtMost(lo, Mean(xs))
  <2>1. PICK x : /\ Equals(x, n * a, b) /\ x \in Fraction
                 /\ AtMost(Over(x, Whole(n)), lo) /\ AtMost(lo, Over(x, Whole(n)))
                 /\ Over(x, Whole(n)) \in Fraction
    BY <1>3, <1>11
  <2>2. AtMost(x, Total(xs))
    BY <1>2, <1>8, <2>1 DEF T
  <2>3. AtMost(Over(x, Whole(n)), Mean(xs))
    BY <1>9, <1>10, <2>1, <2>2, OverOrder
  <2> QED
    BY <1>12, <2>1, <2>3, OrderFacts
<1>14. AtMost(Mean(xs), hi)
  <2>1. PICK x : /\ Equals(x, n * c, d) /\ x \in Fraction
                 /\ AtMost(Over(x, Whole(n)), hi) /\ AtMost(hi, Over(x, Whole(n)))
                 /\ Over(x, Whole(n)) \in Fraction
    BY <1>4, <1>11
  <2>2. AtMost(Total(xs), x)
    BY <1>2, <1>8, <2>1 DEF T
  <2>3. AtMost(Mean(xs), Over(x, Whole(n)))
    BY <1>9, <1>10, <2>1, <2>2, OverOrder
  <2> QED
    BY <1>12, <2>1, <2>3, OrderFacts
<1> QED
  BY <1>12, <1>13, <1>14

Ascending(s) == \A i, j \in 1 .. Len(s) : i < j => AtMost(s[i], s[j])

\* A set that has what is below each of its numbers is an initial part.
LEMMA InitialPart ==
    ASSUME NEW n \in Nat, NEW D, D \subseteq 1 .. n, \A i \in D : \A j \in 1 .. n : j < i => j \in D
    PROVE  Cardinality(D) \in 0 .. n /\ D = 1 .. Cardinality(D)
<1> DEFINE T == {k \in Nat : k \in 1 .. n + 1 /\ k \notin D}
<1>1. n + 1 \in T
  OBVIOUS
<1>2. PICK m \in T : \A k \in T : m <= k
  <2>1. T \subseteq Nat /\ T # {}
    BY <1>1
  <2> HIDE DEF T
  <2> QED
    BY <2>1, LeastNumber
<1>3. D = 1 .. m - 1 /\ m - 1 \in 0 .. n
  <2>1. \A i \in 1 .. m - 1 : i \in D
    BY <1>2
  <2>2. ASSUME NEW i \in D PROVE i \in 1 .. m - 1
    <3>1. i \in 1 .. n /\ m \in 1 .. n + 1 /\ m \notin D
      BY <1>2
    <3>2. ~(m < i)
      BY <3>1
    <3>3. i # m
      BY <3>1
    <3> QED
      BY <3>1, <3>2, <3>3
  <2>3. m - 1 \in 0 .. n
    BY <1>2
  <2>4. D \subseteq 1 .. m - 1 /\ 1 .. m - 1 \subseteq D
    BY <2>1, <2>2
  <2> QED
    BY <2>3, <2>4
<1>4. Cardinality(1 .. m - 1) = m - 1
  BY <1>2, <1>3, FS_Interval
<1> QED
  BY <1>3, <1>4

\* Insert puts a number between those that are not larger and those that are.
LEMMA InsertFacts ==
    ASSUME NEW s \in Seq(Fraction), NEW x \in Fraction, Ascending(s)
    PROVE  \E c \in 0 .. Len(s) :
              /\ Insert(s, x) \in Seq(Fraction) /\ Len(Insert(s, x)) = Len(s) + 1
              /\ \A i \in 1 .. c : Insert(s, x)[i] = s[i] /\ AtMost(s[i], x)
              /\ Insert(s, x)[c + 1] = x
              /\ \A i \in c + 1 .. Len(s) : Insert(s, x)[i + 1] = s[i] /\ AtMost(x, s[i])
<1> DEFINE n == Len(s)
           D == {i \in DOMAIN s : AtMost(s[i], x)}
           c == Cardinality(D)
<1>1. n \in Nat /\ DOMAIN s = 1 .. n /\ \A i \in 1 .. n : s[i] \in Fraction
  BY LenProperties, ElementOfSeq
<1>2. \A i \in D : \A j \in 1 .. n : j < i => j \in D
  BY <1>1, OrderFacts DEF Ascending
<1>3. c \in 0 .. n /\ D = 1 .. c
  <2>1. D \subseteq 1 .. n
    BY <1>1
  <2> HIDE DEF D
  <2> QED
    BY <1>1, <1>2, <2>1, InitialPart
<1>4. /\ \A i \in 1 .. c : AtMost(s[i], x)
      /\ \A i \in c + 1 .. n : AtMost(x, s[i])
  <2>1. \A i \in 1 .. n : AtMost(s[i], x) <=> i \in 1 .. c
    BY <1>1, <1>3
  <2> HIDE DEF D, c
  <2>2. ASSUME NEW i \in c + 1 .. n PROVE AtMost(x, s[i])
    <3>1. i \in 1 .. n /\ i \notin 1 .. c
      BY <1>1, <1>3
    <3> QED
      BY <1>1, <2>1, <3>1, OrderFacts
  <2> QED
    BY <1>1, <1>3, <2>1, <2>2
<1> DEFINE a == SubSeq(s, 1, c)
           b == SubSeq(s, c + 1, n)
           t == a \o <<x>> \o b
<1>5. Insert(s, x) = t
  <2>1. Insert(s, x) = SubSeq(s, 1, (c + 1) - 1) \o <<x>> \o SubSeq(s, c + 1, Len(s))
    BY DEF Insert, InsertAt
  <2>2. (c + 1) - 1 = c
    BY <1>3
  <2> QED
    BY <2>1, <2>2
<1> HIDE DEF D, c
<1>6. /\ a \in Seq(Fraction) /\ Len(a) = c /\ \A i \in 1 .. c : a[i] = s[i]
      /\ b \in Seq(Fraction) /\ Len(b) = n - c /\ \A i \in 1 .. n - c : b[i] = s[i + c]
  <2>1. \A i \in 1 .. c : s[i] \in Fraction
    BY <1>1, <1>3
  <2>2. a \in Seq(Fraction) /\ Len(a) = c /\ \A i \in 1 .. c : a[i] = s[i]
    BY <1>1, <1>3, <2>1, SubSeqProperties
  <2>3. b = After(s, c)
    BY DEF After
  <2>4. /\ After(s, c) \in Seq(Fraction) /\ Len(After(s, c)) = n - c
        /\ \A i \in 1 .. n - c : After(s, c)[i] = s[i + c]
    BY <1>3, AfterFacts
  <2> HIDE DEF b, a
  <2> QED
    BY <2>2, <2>3, <2>4
<1>7. <<x>> \in Seq(Fraction) /\ Len(<<x>>) = 1 /\ <<x>>[1] = x
  OBVIOUS
<1> HIDE DEF a, b
<1>8. /\ a \o <<x>> \in Seq(Fraction) /\ Len(a \o <<x>>) = c + 1
      /\ \A i \in 1 .. c : (a \o <<x>>)[i] = a[i]
      /\ (a \o <<x>>)[c + 1] = x
  <2>1. /\ a \o <<x>> \in Seq(Fraction) /\ Len(a \o <<x>>) = Len(a) + Len(<<x>>)
        /\ \A i \in 1 .. Len(a) + Len(<<x>>) :
              (a \o <<x>>)[i] = IF i <= Len(a) THEN a[i] ELSE <<x>>[i - Len(a)]
    BY <1>6, <1>7, ConcatProperties
  <2>2. c + 1 \in 1 .. c + 1 /\ ~(c + 1 <= c) /\ (c + 1) - c = 1 /\ \A i \in 1 .. c : i \in 1 .. c + 1 /\ i <= c
    BY <1>3
  <2> QED
    BY <1>6, <1>7, <2>1, <2>2
<1>9. /\ t \in Seq(Fraction) /\ Len(t) = n + 1
      /\ \A i \in 1 .. c + 1 : t[i] = (a \o <<x>>)[i]
      /\ \A i \in c + 1 .. n : t[i + 1] = b[i - c]
  <2> DEFINE u == a \o <<x>>
  <2>1. u \in Seq(Fraction) /\ Len(u) = c + 1
    BY <1>8
  <2>2. t = u \o b
    OBVIOUS
  <2> HIDE DEF u, t
  <2>3. /\ t \in Seq(Fraction) /\ Len(t) = Len(u) + Len(b)
        /\ \A i \in 1 .. Len(u) + Len(b) : t[i] = IF i <= Len(u) THEN u[i] ELSE b[i - Len(u)]
    <3>1. /\ u \o b \in Seq(Fraction) /\ Len(u \o b) = Len(u) + Len(b)
          /\ \A i \in 1 .. Len(u) + Len(b) : (u \o b)[i] = IF i <= Len(u) THEN u[i] ELSE b[i - Len(u)]
      <4>1. u \in Seq(Fraction) /\ b \in Seq(Fraction)
        BY <1>6, <2>1
      <4> QED
        BY <4>1, ConcatProperties
    <3> QED
      BY <2>2, <3>1
  <2>4. Len(u) + Len(b) = n + 1
    BY <1>1, <1>3, <1>6, <2>1
  <2>5. ASSUME NEW i \in c + 1 .. n PROVE t[i + 1] = b[i - c]
    <3>1. i + 1 \in 1 .. n + 1 /\ ~(i + 1 <= c + 1) /\ (i + 1) - (c + 1) = i - c
      BY <1>1, <1>3
    <3> QED
      BY <2>1, <2>3, <2>4, <3>1
  <2>6. \A i \in 1 .. c + 1 : t[i] = u[i]
    <3>1. \A i \in 1 .. c + 1 : i \in 1 .. n + 1 /\ i <= c + 1
      BY <1>1, <1>3
    <3> QED
      BY <2>1, <2>3, <2>4, <3>1
  <2> QED
    BY <2>3, <2>4, <2>5, <2>6 DEF u
<1> HIDE DEF t
<1>10. \A i \in 1 .. c : t[i] = s[i]
  <2>1. \A i \in 1 .. c : i \in 1 .. c + 1
    BY <1>3
  <2> QED
    BY <1>6, <1>8, <1>9, <2>1
<1>11. t[c + 1] = x
  <2>1. c + 1 \in 1 .. c + 1
    BY <1>3
  <2> QED
    BY <1>8, <1>9, <2>1
<1>12. \A i \in c + 1 .. n : t[i + 1] = s[i]
  <2> SUFFICES ASSUME NEW i \in c + 1 .. n PROVE t[i + 1] = s[i]
    OBVIOUS
  <2>1. i - c \in 1 .. n - c /\ (i - c) + c = i
    BY <1>1, <1>3
  <2> QED
    BY <1>6, <1>9, <2>1
<1> QED
  BY <1>3, <1>4, <1>5, <1>9, <1>10, <1>11, <1>12

LEMMA InsertAscends ==
    ASSUME NEW s \in Seq(Fraction), NEW x \in Fraction, Ascending(s)
    PROVE  Insert(s, x) \in Seq(Fraction) /\ Ascending(Insert(s, x))
<1> DEFINE n == Len(s)
           t == Insert(s, x)
<1>1. n \in Nat /\ \A i \in 1 .. n : s[i] \in Fraction
  BY LenProperties, ElementOfSeq
<1>2. PICK c \in 0 .. n :
              /\ t \in Seq(Fraction) /\ Len(t) = n + 1
              /\ \A i \in 1 .. c : t[i] = s[i] /\ AtMost(s[i], x)
              /\ t[c + 1] = x
              /\ \A i \in c + 1 .. n : t[i + 1] = s[i] /\ AtMost(x, s[i])
  BY InsertFacts
<1> HIDE DEF n, t
<1>3. ASSUME NEW i \in 1 .. n + 1, NEW j \in 1 .. n + 1, i < j
      PROVE  AtMost(t[i], t[j])
  <2>1. CASE j <= c
    <3>1. i \in 1 .. c /\ j \in 1 .. c /\ i \in 1 .. n /\ j \in 1 .. n
      BY <1>1, <1>2, <1>3, <2>1
    <3> QED
      BY <1>2, <1>3, <3>1 DEF Ascending, n
  <2>2. CASE j = c + 1
    <3>1. i \in 1 .. c
      BY <1>1, <1>2, <1>3, <2>2
    <3> QED
      BY <1>2, <2>2, <3>1
  <2>3. CASE c + 1 < j
    <3>1. j - 1 \in c + 1 .. n /\ (j - 1) + 1 = j /\ j - 1 \in 1 .. n
      BY <1>1, <1>2, <2>3
    <3>2. t[j] = s[j - 1] /\ AtMost(x, s[j - 1])
      BY <1>2, <3>1
    <3>3. CASE i <= c
      <4>1. i \in 1 .. c /\ i \in 1 .. n
        BY <1>1, <1>2, <3>3
      <4>2. t[i] = s[i] /\ AtMost(s[i], x)
        BY <1>2, <4>1
      <4> QED
        BY <1>1, <3>1, <3>2, <4>1, <4>2, OrderFacts
    <3>4. CASE i = c + 1
      BY <1>2, <3>2, <3>4
    <3>5. CASE c + 1 < i
      <4>1. i - 1 \in c + 1 .. n /\ (i - 1) + 1 = i /\ i - 1 \in 1 .. n /\ i - 1 < j - 1
        BY <1>1, <1>2, <1>3, <2>3, <3>5
      <4>2. t[i] = s[i - 1]
        BY <1>2, <4>1
      <4> QED
        BY <3>1, <3>2, <4>1, <4>2 DEF Ascending, n
    <3> QED
      BY <1>1, <1>2, <3>3, <3>4, <3>5
  <2> QED
    BY <1>1, <1>2, <2>1, <2>2, <2>3
<1> QED
  BY <1>1, <1>2, <1>3 DEF Ascending, t

\* Sorting inserts one number at a time.
LEMMA SortedSteps ==
    ASSUME NEW xs \in Seq(Fraction)
    PROVE  \E F : /\ F[0] = <<>> /\ F[Len(xs)] = Sorted(xs)
                  /\ \A i \in 0 .. Len(xs) : F[i] \in Seq(Fraction) /\ Ascending(F[i])
                  /\ \A i \in 1 .. Len(xs) : F[i] = Insert(F[i - 1], xs[i])
<1> DEFINE n == Len(xs)
           S == {s \in Seq(Fraction) : Ascending(s)}
           g == [p \in S \X (1 .. n) |-> Insert(p[1], xs[p[2]])]
<1>1. n \in Nat /\ \A i \in 1 .. n : xs[i] \in Fraction
  BY LenProperties, ElementOfSeq
<1>0. \A s \in S, i \in 1 .. n : Insert(s, xs[i]) \in S
  BY <1>1, InsertAscends
<1>a. <<>> \in S
  BY EmptySeq DEF Ascending
<1>b. \A s : s \in S <=> s \in Seq(Fraction) /\ Ascending(s)
  OBVIOUS
<1> HIDE DEF S
<1>2. g \in [S \X (1 .. n) -> S]
  BY <1>0
<1>3. \A x \in S, i \in 1 .. n : g[<<x, i>>] = Insert(x, xs[i])
  OBVIOUS
<1> HIDE DEF g, n
<1>4. PICK F : Folded(g, <<>>, n, F) /\ \A i \in 0 .. n : F[i] \in S
  <2>1. \A b \in S : \E F : Folded(g, b, n, F) /\ \A i \in 0 .. n : F[i] \in S
    BY <1>1, <1>2, FoldExists
  <2> QED
    BY <2>1, <1>a
<1>5. ASSUME NEW i \in 1 .. n PROVE F[i] = Insert(F[i - 1], xs[i])
  <2>1. i - 1 \in 0 .. n
    BY <1>1
  <2> QED
    BY <1>3, <1>4, <2>1 DEF Folded
<1> DEFINE R(H) == H = [k \in 0 .. n |-> IF k = 0 THEN <<>> ELSE Insert(H[k - 1], xs[k])]
<1>6. R(F)
  <2>1. ASSUME NEW k \in 0 .. n PROVE F[k] = IF k = 0 THEN <<>> ELSE Insert(F[k - 1], xs[k])
    <3>1. k = 0 \/ k \in 1 .. n
      OBVIOUS
    <3> QED
      BY <1>4, <1>5, <3>1 DEF Folded
  <2>2. F = [k \in 0 .. n |-> F[k]]
    BY <1>4 DEF Folded
  <2> QED
    BY <2>1, <2>2
<1> DEFINE H == CHOOSE H : R(H)
<1>7. R(H)
  BY <1>6
<1>8. Sorted(xs) = H[n]
  BY DEF Sorted, n
<1> HIDE DEF H
<1>9. H[0] = <<>> /\ \A i \in 1 .. n : H[i] = Insert(H[i - 1], xs[i])
  <2>1. \A i \in 0 .. n : H[i] = IF i = 0 THEN <<>> ELSE Insert(H[i - 1], xs[i])
    BY <1>7
  <2> HIDE DEF R
  <2>2. \A i \in 1 .. n : i \in 0 .. n /\ i # 0
    BY <1>1
  <2>3. 0 \in 0 .. n
    BY <1>1
  <2> QED
    BY <2>1, <2>2, <2>3
<1>10. \A i \in 0 .. n : H[i] \in S
  <2> DEFINE T == {i \in 0 .. n : H[i] \in S}
  <2>1. 0 \in T
    BY <1>1, <1>9, <1>a
  <2>2. ASSUME NEW k \in Nat, k < n, k \in T PROVE k + 1 \in T
    <3>1. k + 1 \in 1 .. n /\ (k + 1) - 1 = k
      BY <1>1, <2>2
    <3>2. H[k + 1] = Insert(H[k], xs[k + 1])
      BY <1>9, <3>1
    <3> QED
      BY <1>0, <2>2, <3>1, <3>2
  <2> HIDE DEF T
  <2>3. 0 .. n \subseteq T
    BY <1>1, <2>1, <2>2, InductUpTo
  <2> QED
    BY <2>3 DEF T
<1> QED
  BY <1>8, <1>9, <1>10, <1>b DEF n

\* p numbers the elements of xs anew.
Renumbers(p, n) ==
    /\ p \in [1 .. n -> 1 .. n]
    /\ \A i, j \in 1 .. n : i # j => p[i] # p[j]
    /\ \A j \in 1 .. n : \E i \in 1 .. n : p[i] = j

LEMMA RenumberMore ==
    ASSUME NEW n \in Nat, NEW p, Renumbers(p, n), NEW c \in 0 .. n
    PROVE  \E q : /\ Renumbers(q, n + 1)
                  /\ \A i \in 1 .. c : q[i] = p[i]
                  /\ q[c + 1] = n + 1
                  /\ \A i \in c + 1 .. n : q[i + 1] = p[i]
<1> DEFINE q == [i \in 1 .. n + 1 |-> IF i <= c THEN p[i] ELSE IF i = c + 1 THEN n + 1 ELSE p[i - 1]]
<1>1. \A i \in 1 .. n : p[i] \in 1 .. n
  BY DEF Renumbers
<1>2. /\ \A i \in 1 .. c : q[i] = p[i]
      /\ q[c + 1] = n + 1
      /\ \A i \in c + 1 .. n : q[i + 1] = p[i]
  OBVIOUS
<1>3. q \in [1 .. n + 1 -> 1 .. n + 1]
  <2>1. ASSUME NEW i \in 1 .. n + 1
        PROVE  (IF i <= c THEN p[i] ELSE IF i = c + 1 THEN n + 1 ELSE p[i - 1]) \in 1 .. n + 1
    <3>1. i <= c => i \in 1 .. n
      OBVIOUS
    <3>2. c + 1 < i => i - 1 \in 1 .. n
      OBVIOUS
    <3> QED
      BY <1>1, <3>1, <3>2
  <2> QED
    BY <2>1
<1>4. \A i \in 1 .. n + 1 : i \in 1 .. c \/ i = c + 1 \/ (i - 1 \in c + 1 .. n /\ (i - 1) + 1 = i)
  OBVIOUS
<1>5. 1 .. c \subseteq 1 .. n /\ c + 1 .. n \subseteq 1 .. n
  OBVIOUS
<1> HIDE DEF q
<1>6. ASSUME NEW i \in 1 .. n + 1, NEW j \in 1 .. n + 1, i < j PROVE q[i] # q[j]
  <2>1. CASE i \in 1 .. c
    <3>1. q[i] = p[i] /\ i \in 1 .. n /\ p[i] \in 1 .. n
      BY <1>1, <1>2, <1>5, <2>1
    <3>2. j \in 1 .. c => q[j] = p[j] /\ j \in 1 .. n
      BY <1>2, <1>5
    <3>3. j = c + 1 => q[j] = n + 1
      BY <1>2
    <3>4. j - 1 \in c + 1 .. n /\ (j - 1) + 1 = j => q[j] = p[j - 1] /\ j - 1 \in 1 .. n /\ j - 1 # i
      BY <1>2, <1>5, <2>1
    <3>5. n + 1 # p[i]
      <4>1. \A k \in 1 .. n : k # n + 1
        OBVIOUS
      <4> QED
        BY <3>1, <4>1, Zenon
    <3>6. CASE j \in 1 .. c
      <4>1. i # j /\ q[j] = p[j] /\ j \in 1 .. n
        BY <1>6, <3>2, <3>6
      <4>2. p[i] # p[j]
        BY <3>1, <4>1 DEF Renumbers
      <4> QED
        BY <3>1, <4>1, <4>2
    <3>7. CASE j = c + 1
      BY <3>1, <3>3, <3>5, <3>7
    <3>8. CASE j - 1 \in c + 1 .. n /\ (j - 1) + 1 = j
      BY <3>1, <3>4, <3>8 DEF Renumbers
    <3> QED
      BY <1>4, <3>6, <3>7, <3>8
  <2>2. CASE i = c + 1
    <3>1. q[i] = n + 1 /\ j - 1 \in c + 1 .. n /\ (j - 1) + 1 = j
      BY <1>2, <1>6, <2>2
    <3>2. q[j] = p[j - 1] /\ p[j - 1] \in 1 .. n
      BY <1>1, <1>2, <1>5, <3>1
    <3> QED
      BY <3>1, <3>2
  <2>3. CASE i - 1 \in c + 1 .. n /\ (i - 1) + 1 = i
    <3>1. j - 1 \in c + 1 .. n /\ (j - 1) + 1 = j /\ i - 1 # j - 1
      BY <1>6, <2>3
    <3>2. q[i] = p[i - 1] /\ q[j] = p[j - 1] /\ i - 1 \in 1 .. n /\ j - 1 \in 1 .. n
      BY <1>2, <1>5, <2>3, <3>1
    <3> QED
      BY <3>1, <3>2 DEF Renumbers
  <2> QED
    BY <1>4, <2>1, <2>2, <2>3
<1>7. ASSUME NEW j \in 1 .. n + 1 PROVE \E i \in 1 .. n + 1 : q[i] = j
  <2>1. CASE j = n + 1
    BY <1>2, <2>1
  <2>2. CASE j # n + 1
    <3>1. j \in 1 .. n
      BY <2>2
    <3>2. PICK i \in 1 .. n : p[i] = j
      BY <3>1 DEF Renumbers
    <3>3. CASE i <= c
      <4>1. i \in 1 .. c /\ i \in 1 .. n + 1
        BY <3>3
      <4> QED
        BY <1>2, <3>2, <4>1
    <3>4. CASE c < i
      <4>1. i \in c + 1 .. n /\ i + 1 \in 1 .. n + 1
        BY <3>4
      <4> QED
        BY <1>2, <3>2, <4>1
    <3> QED
      BY <3>3, <3>4
  <2> QED
    BY <2>1, <2>2
<1>8. \A i, j \in 1 .. n + 1 : i # j => q[i] # q[j]
  <2> SUFFICES ASSUME NEW i \in 1 .. n + 1, NEW j \in 1 .. n + 1, i # j PROVE q[i] # q[j]
    OBVIOUS
  <2>1. i < j \/ j < i
    OBVIOUS
  <2> QED
    BY <1>6, <2>1
<1>9. Renumbers(q, n + 1)
  BY <1>3, <1>7, <1>8 DEF Renumbers
<1> QED
  BY <1>2, <1>9

\* Sorting a list puts its numbers in order and keeps each.
LEMMA SortedFacts ==
    ASSUME NEW xs \in Seq(Fraction)
    PROVE  /\ Sorted(xs) \in Seq(Fraction) /\ Len(Sorted(xs)) = Len(xs) /\ Ascending(Sorted(xs))
           /\ \E p : Renumbers(p, Len(xs)) /\ \A i \in 1 .. Len(xs) : Sorted(xs)[i] = xs[p[i]]
<1> DEFINE n == Len(xs)
<1>1. n \in Nat /\ \A i \in 1 .. n : xs[i] \in Fraction
  BY LenProperties, ElementOfSeq
<1>2. PICK F : /\ F[0] = <<>> /\ F[n] = Sorted(xs)
               /\ \A i \in 0 .. n : F[i] \in Seq(Fraction) /\ Ascending(F[i])
               /\ \A i \in 1 .. n : F[i] = Insert(F[i - 1], xs[i])
  BY SortedSteps
<1> DEFINE ok(k, p) == Renumbers(p, k) /\ \A i \in 1 .. k : F[k][i] = xs[p[i]]
           T == {k \in 0 .. n : Len(F[k]) = k /\ \E p : ok(k, p)}
<1>3. 0 \in T
  <2>1. Renumbers([i \in 1 .. 0 |-> i], 0)
    BY DEF Renumbers
  <2>2. ok(0, [i \in 1 .. 0 |-> i])
    BY <2>1
  <2>3. 0 \in 0 .. n /\ Len(F[0]) = 0
    BY <1>1, <1>2, EmptySeq
  <2> QED
    BY <2>2, <2>3
<1>4. ASSUME NEW k \in Nat, k < n, k \in T PROVE k + 1 \in T
  <2>1. k + 1 \in 1 .. n /\ (k + 1) - 1 = k /\ k \in 0 .. n /\ k + 1 \in 0 .. n
    BY <1>1, <1>4
  <2>2. PICK p : ok(k, p)
    BY <1>4
  <2> DEFINE s == F[k]  t == F[k + 1]
  <2>3. s \in Seq(Fraction) /\ Ascending(s) /\ Len(s) = k /\ t = Insert(s, xs[k + 1]) /\ xs[k + 1] \in Fraction
    BY <1>1, <1>2, <1>4, <2>1
  <2>5. \A i \in 1 .. k : s[i] = xs[p[i]]
    BY <2>2
  <2> HIDE DEF s, t
  <2>4. PICK c \in 0 .. k : /\ Len(t) = k + 1
                            /\ \A i \in 1 .. c : t[i] = s[i]
                            /\ t[c + 1] = xs[k + 1]
                            /\ \A i \in c + 1 .. k : t[i + 1] = s[i]
    <3> DEFINE x == xs[k + 1]
    <3> HIDE DEF x
    <3>1. \E c \in 0 .. Len(s) :
              /\ Insert(s, x) \in Seq(Fraction) /\ Len(Insert(s, x)) = Len(s) + 1
              /\ \A i \in 1 .. c : Insert(s, x)[i] = s[i] /\ AtMost(s[i], x)
              /\ Insert(s, x)[c + 1] = x
              /\ \A i \in c + 1 .. Len(s) : Insert(s, x)[i + 1] = s[i] /\ AtMost(x, s[i])
      BY <2>3, InsertFacts DEF x
    <3>2. t = Insert(s, x) /\ Len(s) = k
      BY <2>3 DEF x
    <3> QED
      BY <3>1, <3>2 DEF x
  <2>6. PICK q : /\ Renumbers(q, k + 1)
                 /\ \A i \in 1 .. c : q[i] = p[i]
                 /\ q[c + 1] = k + 1
                 /\ \A i \in c + 1 .. k : q[i + 1] = p[i]
    BY <2>2, RenumberMore
  <2>7. ASSUME NEW i \in 1 .. k + 1 PROVE t[i] = xs[q[i]]
    <3>1. CASE i \in 1 .. c
      <4>1. i \in 1 .. k
        BY <3>1
      <4> QED
        BY <2>4, <2>5, <2>6, <3>1, <4>1
    <3>2. CASE i = c + 1
      BY <2>4, <2>6, <3>2
    <3>3. CASE i - 1 \in c + 1 .. k /\ (i - 1) + 1 = i
      <4>1. i - 1 \in 1 .. k
        BY <3>3
      <4>2. t[i] = s[i - 1] /\ q[i] = p[i - 1]
        BY <2>4, <2>6, <3>3
      <4> QED
        BY <2>5, <4>1, <4>2
    <3>4. i \in 1 .. c \/ i = c + 1 \/ (i - 1 \in c + 1 .. k /\ (i - 1) + 1 = i)
      OBVIOUS
    <3> QED
      BY <3>1, <3>2, <3>3, <3>4
  <2> QED
    BY <2>1, <2>4, <2>6, <2>7 DEF t
<1> HIDE DEF T
<1>5. n \in T
  <2>1. 0 .. n \subseteq T
    BY <1>1, <1>3, <1>4, InductUpTo
  <2> QED
    BY <1>1, <2>1
<1>6. n \in 0 .. n
  BY <1>1
<1> QED
  BY <1>2, <1>5, <1>6 DEF T

LEMMA Half ==
    ASSUME NEW n \in Nat \ {0}
    PROVE  /\ n \div 2 \in Nat /\ n % 2 \in {0, 1} /\ n = 2 * (n \div 2) + (n % 2)
           /\ (n + 1) \div 2 \in 1 .. n /\ n \div 2 + 1 \in 1 .. n
           /\ n % 2 = 1 => (n + 1) \div 2 = n \div 2 + 1
           /\ n % 2 = 0 => (n + 1) \div 2 = n \div 2
OBVIOUS

\* The median lies between the two numbers in the middle.
LEMMA MedianMiddle ==
    ASSUME NEW xs \in Seq(Fraction), xs # <<>>
    PROVE  /\ Median(xs) \in Fraction
           /\ AtMost(Sorted(xs)[(Len(xs) + 1) \div 2], Median(xs))
           /\ AtMost(Median(xs), Sorted(xs)[Len(xs) \div 2 + 1])
<1> DEFINE s == Sorted(xs)
           n == Len(xs)
           mid == n \div 2
<1>1. n \in Nat \ {0}
  BY LenProperties, EmptySeq
<1>2. s \in Seq(Fraction) /\ Len(s) = n /\ Ascending(s)
  BY SortedFacts
<1>3. \A i \in 1 .. n : s[i] \in Fraction
  BY <1>2, ElementOfSeq
<1>4. Median(xs) = IF n % 2 = 1 THEN s[mid + 1] ELSE Over(Plus(s[mid], s[mid + 1]), Whole(2))
  BY DEF Median
<1> HIDE DEF s, n
<1>5. CASE n % 2 = 1
  <2>1. (n + 1) \div 2 = mid + 1 /\ mid + 1 \in 1 .. n
    BY <1>1, <1>5, Half
  <2>2. Median(xs) = s[mid + 1]
    BY <1>4, <1>5
  <2> HIDE DEF mid
  <2>3. s[mid + 1] \in Fraction
    BY <1>3, <2>1
  <2>4. AtMost(s[mid + 1], s[mid + 1])
    BY <2>3, OrderFacts
  <2> QED
    BY <2>1, <2>2, <2>3, <2>4 DEF mid, s, n
<1>6. CASE n % 2 = 0
  <2>1. (n + 1) \div 2 = mid /\ mid \in 1 .. n /\ mid + 1 \in 1 .. n /\ mid < mid + 1
    BY <1>1, <1>6, Half
  <2> HIDE DEF mid
  <2>2. AtMost(s[mid], s[mid + 1])
    BY <1>2, <2>1 DEF Ascending
  <2>3. Median(xs) = Over(Plus(s[mid], s[mid + 1]), Whole(2))
    <3>1. n % 2 # 1
      BY <1>6
    <3> QED
      BY <1>4, <3>1
  <2>4. s[mid] \in Fraction /\ s[mid + 1] \in Fraction
    BY <1>3, <2>1
  <2>5. Median(xs) \in Fraction /\ AtMost(s[mid], Median(xs)) /\ AtMost(Median(xs), s[mid + 1])
    BY <2>2, <2>3, <2>4, Middle
  <2> QED
    BY <2>1, <2>5 DEF mid, s, n
<1> QED
  BY <1>1, <1>5, <1>6, Half DEF s, n

\* Some number is not above the median, and some is not below it.
LEMMA MedianBetween ==
    ASSUME NEW xs \in Seq(Fraction), xs # <<>>
    PROVE  /\ Median(xs) \in Fraction
           /\ \E i \in 1 .. Len(xs) : AtMost(xs[i], Median(xs))
           /\ \E i \in 1 .. Len(xs) : AtMost(Median(xs), xs[i])
<1> DEFINE s == Sorted(xs)
           n == Len(xs)
           lo == (n + 1) \div 2
           hi == n \div 2 + 1
<1>1. n \in Nat \ {0}
  BY LenProperties, EmptySeq
<1>2. PICK p : Renumbers(p, n) /\ \A i \in 1 .. n : s[i] = xs[p[i]]
  BY SortedFacts
<1>3. Median(xs) \in Fraction /\ AtMost(s[lo], Median(xs)) /\ AtMost(Median(xs), s[hi])
  BY MedianMiddle
<1>4. lo \in 1 .. n /\ hi \in 1 .. n
  BY <1>1, Half
<1> HIDE DEF lo, hi, s, n
<1>5. s[lo] = xs[p[lo]] /\ s[hi] = xs[p[hi]] /\ p[lo] \in 1 .. n /\ p[hi] \in 1 .. n
  BY <1>2, <1>4 DEF Renumbers
<1> QED
  BY <1>3, <1>5 DEF n

-----------------------------------------------------------------------------
(* What is picked of a list                                                 *)

\* The places in s of the first elements of t.
Places(m, s, P, n, t) ==
    /\ m \in [1 .. Len(t) -> 1 .. n]
    /\ \A i \in 1 .. Len(t) : m[i] \in P /\ t[i] = s[m[i]]
    /\ \A i, j \in 1 .. Len(t) : i < j => m[i] < m[j]
    /\ \A k \in 1 .. n : k \in P => \E i \in 1 .. Len(t) : m[i] = k

\* Picked keeps what is at the places, in order.
LEMMA PickedPlaces ==
    ASSUME NEW A, NEW s \in Seq(A), NEW P
    PROVE  /\ Picked(s, P) \in Seq(A)
           /\ \E m : Places(m, s, P, Len(s), Picked(s, P))
<1> DEFINE n == Len(s)
<1>1. n \in Nat /\ \A i \in 1 .. n : s[i] \in A
  BY LenProperties, ElementOfSeq
<1>2. PICK F : Picks(s, P, n, F) /\ Picked(s, P) = F[n]
  BY PickedPicks
<1> HIDE DEF n
<1> DEFINE T == {k \in 0 .. n : F[k] \in Seq(A) /\ \E m : Places(m, s, P, k, F[k])}
<1>3. 0 \in T
  <2>1. F[0] = <<>> /\ <<>> \in Seq(A) /\ Len(<<>>) = 0
    BY <1>2, EmptySeq DEF Picks
  <2>2. Places([i \in 1 .. 0 |-> i], s, P, 0, <<>>)
    BY <2>1 DEF Places
  <2>3. 0 \in 0 .. n
    BY <1>1
  <2>4. F[0] \in Seq(A) /\ Places([i \in 1 .. 0 |-> i], s, P, 0, F[0])
    BY <2>1, <2>2, Zenon
  <2> QED
    BY <2>3, <2>4
<1>4. ASSUME NEW k \in Nat, k < n, k \in T PROVE k + 1 \in T
  <2>1. k + 1 \in 1 .. n /\ (k + 1) - 1 = k /\ k + 1 \in 0 .. n
    BY <1>1, <1>4
  <2>2. F[k + 1] = IF k + 1 \in P THEN Append(F[k], s[k + 1]) ELSE F[k]
    <3>1. \A i \in 1 .. n : F[i] = IF i \in P THEN Append(F[i - 1], s[i]) ELSE F[i - 1]
      BY <1>2 DEF Picks
    <3>2. F[k + 1] = IF k + 1 \in P THEN Append(F[(k + 1) - 1], s[k + 1]) ELSE F[(k + 1) - 1]
      BY <2>1, <3>1
    <3> QED
      BY <2>1, <3>2
  <2>3. PICK m : Places(m, s, P, k, F[k])
    BY <1>4
  <2> DEFINE t == F[k]  u == F[k + 1]
  <2>4. t \in Seq(A) /\ s[k + 1] \in A /\ Len(t) \in Nat
    BY <1>1, <1>4, <2>1, LenProperties
  <2>5. /\ m \in [1 .. Len(t) -> 1 .. k]
        /\ \A i \in 1 .. Len(t) : m[i] \in P /\ t[i] = s[m[i]]
        /\ \A i, j \in 1 .. Len(t) : i < j => m[i] < m[j]
        /\ \A j \in 1 .. k : j \in P => \E i \in 1 .. Len(t) : m[i] = j
    BY <2>3 DEF Places
  <2>6. CASE k + 1 \in P
    <3>1. u = Append(t, s[k + 1])
      BY <2>2, <2>6
    <3> HIDE DEF t, u
    <3> DEFINE x == s[k + 1]
    <3>2. u \in Seq(A) /\ Len(u) = Len(t) + 1 /\ u[Len(t) + 1] = x /\ \A i \in 1 .. Len(t) : u[i] = t[i]
      <4>1. x \in A /\ u = Append(t, x)
        BY <2>4, <3>1
      <4> HIDE DEF x
      <4>2. /\ Append(t, x) \in Seq(A) /\ Len(Append(t, x)) = Len(t) + 1
            /\ \A i \in 1 .. Len(t) : Append(t, x)[i] = t[i]
            /\ Append(t, x)[Len(t) + 1] = x
        BY <2>4, <4>1, AppendProperties
      <4> QED
        BY <4>1, <4>2
    <3> DEFINE q == [i \in 1 .. Len(t) + 1 |-> IF i = Len(t) + 1 THEN k + 1 ELSE m[i]]
    <3>3. q[Len(t) + 1] = k + 1 /\ \A i \in 1 .. Len(t) : q[i] = m[i] /\ m[i] \in 1 .. k
      <4>1. \A i \in 1 .. Len(t) : i \in 1 .. Len(t) + 1 /\ i # Len(t) + 1
        BY <2>4
      <4>2. Len(t) + 1 \in 1 .. Len(t) + 1
        BY <2>4
      <4>3. \A i \in 1 .. Len(t) : m[i] \in 1 .. k
        BY <2>5
      <4> QED
        BY <4>1, <4>2, <4>3
    <3>4. \A i \in 1 .. Len(t) + 1 : i \in 1 .. Len(t) \/ i = Len(t) + 1
      BY <2>4
    <3>5. q = [i \in 1 .. Len(t) + 1 |-> q[i]]
      OBVIOUS
    <3> HIDE DEF q, x
    <3>6. ASSUME NEW i \in 1 .. Len(t) + 1 PROVE q[i] \in P /\ u[i] = s[q[i]]
      BY <2>5, <2>6, <3>2, <3>3, <3>4 DEF x
    <3>7. \A i \in 1 .. Len(t) + 1 : q[i] \in 1 .. k + 1
      BY <2>4, <3>3, <3>4
    <3>8. q \in [1 .. Len(t) + 1 -> 1 .. k + 1]
      BY <3>5, <3>7
    <3>9. ASSUME NEW i \in 1 .. Len(t) + 1, NEW j \in 1 .. Len(t) + 1, i < j PROVE q[i] < q[j]
      <4>1. i \in 1 .. Len(t)
        BY <2>4, <3>9
      <4>2. CASE j \in 1 .. Len(t)
        <5>1. m[i] < m[j] /\ q[i] = m[i] /\ q[j] = m[j]
          BY <2>5, <3>3, <3>9, <4>1, <4>2
        <5> QED
          BY <5>1
      <4>3. CASE j = Len(t) + 1
        <5>1. q[i] = m[i] /\ m[i] \in 1 .. k /\ q[j] = k + 1
          BY <3>3, <4>1, <4>3
        <5>2. PICK z \in 1 .. k : z = m[i]
          BY <5>1
        <5> QED
          BY <5>1, <5>2
      <4> QED
        BY <3>4, <4>2, <4>3
    <3>10. ASSUME NEW j \in 1 .. k + 1, j \in P PROVE \E i \in 1 .. Len(t) + 1 : q[i] = j
      <4>1. CASE j = k + 1
        <5>1. Len(t) + 1 \in 1 .. Len(t) + 1
          BY <2>4
        <5> QED
          BY <3>3, <4>1, <5>1
      <4>2. CASE j # k + 1
        <5>1. j \in 1 .. k
          BY <4>2
        <5>2. PICK i \in 1 .. Len(t) : m[i] = j
          BY <2>5, <3>10, <5>1
        <5>3. i \in 1 .. Len(t) + 1
          BY <2>4
        <5> QED
          BY <3>3, <5>2, <5>3
      <4> QED
        BY <4>1, <4>2
    <3>11. Places(q, s, P, k + 1, u)
      BY <3>2, <3>6, <3>8, <3>9, <3>10 DEF Places
    <3> QED
      BY <2>1, <3>2, <3>11 DEF u
  <2>7. CASE k + 1 \notin P
    <3>1. u = t
      BY <2>2, <2>7
    <3>2. m \in [1 .. Len(t) -> 1 .. k + 1]
      BY <2>5
    <3>3. \A j \in 1 .. k + 1 : j \in P => j \in 1 .. k
      BY <2>7
    <3> HIDE DEF t, u
    <3>4. Places(m, s, P, k + 1, t)
      BY <2>5, <3>2, <3>3 DEF Places
    <3> QED
      BY <2>1, <2>4, <3>1, <3>4 DEF u
  <2> QED
    BY <2>6, <2>7
<1> HIDE DEF T
<1>5. n \in T
  <2>1. 0 .. n \subseteq T
    BY <1>1, <1>3, <1>4, InductUpTo
  <2> QED
    BY <1>1, <2>1
<1> QED
  BY <1>2, <1>5 DEF T, n

\* What is picked: one element for each of the places.
LEMMA PickedFacts ==
    ASSUME NEW A, NEW s \in Seq(A), NEW P
    PROVE  /\ Picked(s, P) \in Seq(A) /\ Len(Picked(s, P)) \in Nat
           /\ \A i \in 1 .. Len(Picked(s, P)) : \E k \in 1 .. Len(s) : k \in P /\ Picked(s, P)[i] = s[k]
           /\ \A k \in 1 .. Len(s) : k \in P => \E i \in 1 .. Len(Picked(s, P)) : Picked(s, P)[i] = s[k]
           /\ Len(Picked(s, P)) = Cardinality({k \in 1 .. Len(s) : k \in P})
<1> DEFINE t == Picked(s, P)
           D == {k \in 1 .. Len(s) : k \in P}
<1>1. t \in Seq(A) /\ Len(t) \in Nat /\ Len(s) \in Nat
  BY PickedPlaces, LenProperties
<1>2. PICK m : Places(m, s, P, Len(s), t)
  BY PickedPlaces
<1> HIDE DEF t
<1>3. m \in Bijection(1 .. Len(t), D)
  <2>1. m \in [1 .. Len(t) -> D]
    BY <1>2 DEF Places
  <2>2. ASSUME NEW i \in 1 .. Len(t), NEW j \in 1 .. Len(t), m[i] = m[j] PROVE i = j
    <3>1. ~(i < j) /\ ~(j < i)
      <4>1. PICK a \in 1 .. Len(s) : a = m[i]
        BY <1>2 DEF Places
      <4>2. ~(a < a)
        BY <1>1
      <4> QED
        BY <1>2, <2>2, <4>1, <4>2 DEF Places
    <3> QED
      BY <1>1, <3>1
  <2>3. \A k \in D : \E i \in 1 .. Len(t) : m[i] = k
    BY <1>2 DEF Places
  <2> HIDE DEF D
  <2> QED
    BY <2>1, <2>2, <2>3 DEF Bijection, Injection, Surjection, IsInjective
<1>4. Cardinality(D) = Len(t)
  <2> HIDE DEF D
  <2> QED
    BY <1>1, <1>3, FS_CountingElements DEF ExistsBijection
<1> HIDE DEF D
<1>5. \A i \in 1 .. Len(t) : \E k \in 1 .. Len(s) : k \in P /\ t[i] = s[k]
  BY <1>2 DEF Places
<1>6. \A k \in 1 .. Len(s) : k \in P => \E i \in 1 .. Len(t) : t[i] = s[k]
  BY <1>2 DEF Places
<1> QED
  BY <1>1, <1>4, <1>5, <1>6 DEF t, D

-----------------------------------------------------------------------------
(* Metrics and scores are numbers                                           *)

Number == Fraction \cup {None}

LEMMA FunctionSeq ==
    ASSUME NEW A, NEW n \in Nat, NEW f \in [1 .. n -> A]
    PROVE  f \in Seq(A) /\ Len(f) = n
BY SeqDef, LenProperties

LEMMA WholeArith ==
    ASSUME NEW a \in Int, NEW b \in Int, a < b
    PROVE  /\ Whole(b - a) \in Fraction /\ 0 < Whole(b - a).n
           /\ Less(Whole(a), Whole(b))
<1>1. b - a \in Int /\ 0 < b - a
  OBVIOUS
<1> QED
  BY <1>1, WholeFacts

LEMMA RttType ==
    ASSUME NEW t, IsTest(t)
    PROVE  Rtt(t) \in Number
<1>1. t.connect \in Number /\ t.tls \in Number
  BY DEF IsTest, Number
<1>2. /\ Round(t.connect, 10) \in Number /\ (Round(t.connect, 10) = None <=> t.connect = None)
      /\ Round(t.tls, 10) \in Number /\ (Round(t.tls, 10) = None <=> t.tls = None)
  <2>1. 10 \in Nat \ {0}
    OBVIOUS
  <2> QED
    BY <1>1, <2>1, RoundFacts DEF Number
<1>3. CASE t.connect = None \/ t.tls = None
  BY <1>2, <1>3 DEF Rtt, NetworkRtt
<1>4. CASE t.connect # None /\ t.tls # None
  <2>1. Round(t.connect, 10) \in Fraction /\ Round(t.tls, 10) \in Fraction
    BY <1>2, <1>4 DEF Number
  <2>2. Rtt(t) = Plus(Round(t.connect, 10), Round(t.tls, 10))
    BY <1>4 DEF Rtt, NetworkRtt
  <2> QED
    BY <2>1, <2>2, Closed DEF Number
<1> QED
  BY <1>3, <1>4

LEMMA Tens ==
    /\ 1 \in Nat \ {0} /\ 2 \in Nat \ {0} /\ 10 \in Nat \ {0} /\ 100 \in Nat \ {0}
    /\ 1000 \in Nat \ {0} /\ 10000 \in Nat \ {0}
OBVIOUS

LEMMA JitterType ==
    ASSUME NEW samples \in Seq(Fraction)
    PROVE  Jitter(samples) \in Number
<1>1. CASE Len(samples) < 2
  BY <1>1 DEF Jitter, Number
<1>2. CASE ~(Len(samples) < 2)
  <2> DEFINE med == Median(samples)
             n == Len(samples)
             ds == [i \in DOMAIN samples |-> Distance(samples[i], med)]
  <2>1. n \in Nat /\ n >= 2 /\ samples # <<>> /\ DOMAIN samples = 1 .. n /\ \A i \in 1 .. n : samples[i] \in Fraction
    BY <1>2, LenProperties, ElementOfSeq, EmptySeq
  <2>2. med \in Fraction
    BY <2>1, MedianBetween
  <2>3. \A x \in Fraction : Distance(x, med) \in Fraction
    BY <2>2, Closed DEF Distance
  <2> HIDE DEF med
  <2>4. ds \in [1 .. n -> Fraction]
    BY <2>1, <2>3
  <2> HIDE DEF ds, n
  <2>5. ds \in Seq(Fraction) /\ Len(ds) = n /\ ds # <<>>
    BY <2>1, <2>4, FunctionSeq, EmptySeq
  <2>6. Median(ds) \in Fraction /\ Frac(14826, 10000) \in Fraction
    BY <2>5, MedianBetween, FracEquals DEF Equals
  <2>7. Jitter(samples) = Round(Times(Median(ds), Frac(14826, 10000)), 10)
    BY <1>2 DEF Jitter, ds, med, n
  <2> QED
    BY <2>6, <2>7, Closed, RoundOrder, Tens DEF Number
<1> QED
  BY <1>1, <1>2

LEMMA CountTypes ==
    ASSUME NEW t, IsTest(t)
    PROVE  /\ t.gaps \in Seq(Nat) /\ GenTime(t) \in Nat /\ Len(t.gaps) \in Nat
           /\ t.perChunk \in Seq(Nat) /\ SumOf(t.perChunk) \in Nat /\ Len(t.perChunk) = Len(t.gaps) + 1
           /\ TokenLimit(t.type, t.anthropic, t.override) \in Int
           /\ Validated(t) \in Int /\ TokensForTps(t) \in Int
<1>1. t.gaps \in Seq(Nat) /\ t.perChunk \in Seq(Nat) /\ Len(t.perChunk) = Len(t.gaps) + 1 /\ t.usage.output \in Int
      /\ t.override \in Nat
  BY DEF IsTest
<1>2. GenTime(t) \in Nat /\ SumOf(t.perChunk) \in Nat /\ Len(t.gaps) \in Nat /\ Len(t.perChunk) \in Nat
  BY <1>1, SumFacts, LenProperties DEF GenTime
<1>3. TokenLimit(t.type, t.anthropic, t.override) \in Int
  <2>1. MaxTokens(t.type, t.override) \in Nat
    BY <1>1, NumbersAssumption DEF MaxTokens
  <2>2. Budget(t.type, t.anthropic, t.override) \in Int
    BY <2>1, NumbersAssumption DEF Budget, Smaller2
  <2> QED
    BY <2>1, <2>2 DEF TokenLimit
<1>4. Validated(t) \in Int
  <2> DEFINE reported == CompletionTokens(t.usage.output, TokenLimit(t.type, t.anthropic, t.override))
  <2>1. reported \in Int
    BY <1>1 DEF CompletionTokens, Absent
  <2>2. Validated(t) \in {reported, Absent}
    BY DEF Validated
  <2> QED
    BY <2>1, <2>2 DEF Absent
<1>5. TokensForTps(t) \in Int
  BY <1>2, <1>4 DEF TokensForTps
<1> QED
  BY <1>1, <1>2, <1>3, <1>4, <1>5

LEMMA TtftType ==
    ASSUME NEW t, IsTest(t)
    PROVE  Ttft(t) \in Fraction
<1>1. Whole(t.first) \in Fraction /\ Zero \in Fraction
  <2>1. t.first \in Int
    BY DEF IsTest
  <2> QED
    BY <2>1, WholeFacts, FractionFacts
<1>2. CASE HasRtt(t)
  <2>1. Rtt(t) \in Fraction
    BY <1>2, RttType DEF HasRtt, Number
  <2>2. Minus(Whole(t.first), Rtt(t)) \in Fraction
    BY <1>1, <2>1, Closed
  <2>3. Larger(Zero, Minus(Whole(t.first), Rtt(t))) \in Fraction
    BY <1>1, <2>2, Closed
  <2> QED
    BY <1>2, <2>3, RoundOrder, Tens DEF Ttft
<1>3. CASE ~HasRtt(t)
  BY <1>1, <1>3, RoundOrder, Tens DEF Ttft
<1> QED
  BY <1>2, <1>3

LEMMA TpsType ==
    ASSUME NEW t, IsTest(t)
    PROVE  Tps(t) \in Number
<1> DEFINE latency == IF HasRtt(t) THEN Larger(Zero, Minus(Whole(t.total), Rtt(t))) ELSE Whole(t.total)
           tokens == 1000 * TokensForTps(t)
<1>1. GenTime(t) \in Nat /\ tokens \in Int /\ Whole(tokens) \in Fraction
  <2>1. TokensForTps(t) \in Int /\ GenTime(t) \in Nat
    BY CountTypes
  <2>2. tokens \in Int
    BY <2>1
  <2> QED
    BY <2>1, <2>2, WholeFacts
<1>2. latency \in Fraction
  <2>1. Whole(t.total) \in Fraction /\ Zero \in Fraction
    <3>1. t.total \in Int
      BY DEF IsTest
    <3> QED
      BY <3>1, WholeFacts, FractionFacts
  <2>2. CASE HasRtt(t)
    <3>1. Rtt(t) \in Fraction
      BY <2>2, RttType DEF HasRtt, Number
    <3>2. Minus(Whole(t.total), Rtt(t)) \in Fraction
      BY <2>1, <3>1, Closed
    <3>3. Larger(Zero, Minus(Whole(t.total), Rtt(t))) \in Fraction
      BY <2>1, <3>2, Closed
    <3> QED
      BY <2>2, <3>3
  <2> QED
    BY <2>1, <2>2
<1> HIDE DEF latency, tokens
<1>3. ASSUME NEW ms \in Fraction, NEW s \in Nat \ {0}, 0 < ms.n
      PROVE  Round(Over(Whole(tokens), ms), s) \in Fraction
  BY <1>1, <1>3, Closed, RoundOrder
<1>4. CASE GenTime(t) > 0
  <2>1. Whole(GenTime(t)) \in Fraction /\ 0 < Whole(GenTime(t)).n
    BY <1>1, <1>4, WholeFacts
  <2>2. Tps(t) = Round(Over(Whole(tokens), Whole(GenTime(t))), 10)
    BY <1>4 DEF Tps, tokens
  <2> QED
    BY <1>3, <2>1, <2>2, Tens DEF Number
<1>5. CASE ~(GenTime(t) > 0) /\ GenTime(t) = 0 /\ TokensForTps(t) > 0 /\ Less(Zero, latency)
  <2>1. 0 < latency.n
    BY <1>2, <1>5, SignFacts
  <2>2. Tps(t) = Round(Over(Whole(tokens), latency), 100)
    BY <1>5 DEF Tps, tokens, latency
  <2> QED
    BY <1>2, <1>3, <2>1, <2>2, Tens DEF Number
<1>6. CASE ~(GenTime(t) > 0) /\ ~(GenTime(t) = 0 /\ TokensForTps(t) > 0 /\ Less(Zero, latency))
  <2>1. Tps(t) = None
    BY <1>6 DEF Tps, latency
  <2> QED
    BY <2>1 DEF Number
<1> QED
  BY <1>4, <1>5, <1>6

-----------------------------------------------------------------------------
(* Scores                                                                   *)

\* The limits of a metric that is scored.
Tiered(limits) == limits \in Seq(Int) /\ Len(limits) >= 2

LEMMA LimitFacts ==
    ASSUME NEW limits, Tiered(limits)
    PROVE  /\ Len(limits) \in Nat /\ Len(limits) - 1 \in Nat \ {0}
           /\ \A i \in 1 .. Len(limits) : limits[i] \in Int /\ Whole(limits[i]) \in Fraction
<1>1. Len(limits) \in Nat /\ Len(limits) >= 2 /\ \A i \in 1 .. Len(limits) : limits[i] \in Int
  BY LenProperties, ElementOfSeq DEF Tiered
<1>2. \A i \in 1 .. Len(limits) : Whole(limits[i]) \in Fraction
  BY <1>1, WholeFacts
<1> QED
  BY <1>1, <1>2

LEMMA LerpType ==
    ASSUME NEW n \in Nat, n - 1 \in Nat \ {0}, NEW i \in Int, NEW f \in Fraction
    PROVE  /\ Lerp(i, f, n) \in Fraction
           /\ Frac(i, n - 1) \in Fraction /\ Round(Frac(i, n - 1), 10000) \in Fraction
<1>1. \A a \in Int : Frac(a, n - 1) \in Fraction
  BY FracEquals DEF Equals
<1>2. n - 2 - i \in Int /\ 1 \in Int
  OBVIOUS
<1>3. Frac(n - 2 - i, n - 1) \in Fraction /\ Frac(1, n - 1) \in Fraction
  BY <1>1, <1>2
<1>4. Plus(Frac(n - 2 - i, n - 1), Times(f, Frac(1, n - 1))) \in Fraction
  BY <1>3, Closed
<1> QED
  BY <1>1, <1>4, RoundOrder, Tens DEF Lerp

\* The least of a set of natural numbers.
LEMMA MinFacts ==
    ASSUME NEW S, S \subseteq Nat, S # {}
    PROVE  Min(S) \in S /\ \A i \in S : Min(S) <= i
<1>1. \E x \in S : \A y \in S : x <= y
  BY LeastNumber
<1> QED
  BY <1>1 DEF Min

LEMMA TierIdxType ==
    ASSUME NEW x \in Number, NEW limits, Tiered(limits), NEW hib \in BOOLEAN
    PROVE  /\ TierIdx(x, limits, hib) \in Int
           /\ x # None => TierIdx(x, limits, hib) \in 0 .. Len(limits) - 1
<1> DEFINE hits == {i \in DOMAIN limits : IF hib THEN AtMost(Whole(limits[i]), x) ELSE Less(x, Whole(limits[i]))}
<1>1. Len(limits) \in Nat /\ Len(limits) >= 2 /\ DOMAIN limits = 1 .. Len(limits) /\ limits # <<>>
  BY LenProperties, EmptySeq DEF Tiered
<1>2. hits \subseteq 1 .. Len(limits)
  BY <1>1
<1>3. hits # {} => Min(hits) \in 1 .. Len(limits)
  <2>1. hits \subseteq Nat
    BY <1>1, <1>2
  <2> HIDE DEF hits
  <2> QED
    BY <1>2, <2>1, MinFacts
<1>4. TierIdx(x, limits, hib) =
        CASE x = None \/ limits = <<>> -> -1
          [] x # None /\ limits # <<>> /\ hits = {} -> Len(limits) - 1
          [] OTHER -> Min(hits) - 1
  BY DEF TierIdx
<1> HIDE DEF hits
<1> QED
  BY <1>1, <1>3, <1>4

LEMMA RisingType ==
    ASSUME NEW x \in Fraction, NEW limits, Tiered(limits)
    PROVE  RisingScore(x, limits) \in Fraction
<1> DEFINE n == Len(limits)
           bands == {i \in 1 .. n - 1 : AtMost(x, Whole(limits[i])) /\ Less(Whole(limits[i + 1]), x)}
           i == Min(bands)
           tier == TierIdx(x, limits, TRUE)
<1>0. n \in Nat /\ n - 1 \in Nat \ {0}
  BY LimitFacts
<1>1. \A k \in 1 .. n : limits[k] \in Int /\ Whole(limits[k]) \in Fraction
  BY LimitFacts
<1> HIDE DEF n
<1>2. Whole(1) \in Fraction /\ Zero \in Fraction
  BY FractionFacts
<1>3. tier \in Int
  <2>1. x \in Number
    BY DEF Number
  <2>2. \A h \in BOOLEAN : TierIdx(x, limits, h) \in Int
    BY <2>1, TierIdxType
  <2> QED
    BY <2>2
<1> HIDE DEF tier
<1>7. Round(Frac(n - 1 - tier, n - 1), 10000) \in Fraction
  <2>1. \A k \in Int : Round(Frac(k, n - 1), 10000) \in Fraction
    <3>1. PICK m \in Nat \ {0} : m = n - 1
      BY <1>0
    <3>2. \A k \in Int : Round(Frac(k, m), 10000) \in Fraction
      <4>1. \A k \in Int : Frac(k, m) \in Fraction
        BY FracEquals DEF Equals
      <4>2. \A y \in Fraction : Round(y, 10000) \in Fraction
        BY RoundOrder, Tens
      <4> QED
        BY <4>1, <4>2
    <3> QED
      BY <3>1, <3>2
  <2>2. n - 1 - tier \in Int
    BY <1>0, <1>3
  <2> QED
    BY <2>1, <2>2
<1>4. ASSUME bands # {}
      PROVE  Lerp(i - 1, Over(Minus(x, Whole(limits[i + 1])), Whole(limits[i] - limits[i + 1])), n) \in Fraction
  <2>1. i \in bands
    <3>1. bands \subseteq Nat
      BY <1>0, <1>1
    <3> HIDE DEF bands
    <3> QED
      BY <1>4, <3>1, MinFacts
  <2>2. i \in 1 .. n - 1 /\ AtMost(x, Whole(limits[i])) /\ Less(Whole(limits[i + 1]), x)
    BY <2>1
  <2> HIDE DEF i
  <2>3. i \in 1 .. n /\ i + 1 \in 1 .. n /\ i - 1 \in Int
    BY <1>0, <1>1, <2>2
  <2>4. Less(Whole(limits[i + 1]), Whole(limits[i]))
    BY <1>0, <1>1, <2>2, <2>3, OrderFacts
  <2>5. limits[i + 1] < limits[i] /\ limits[i] \in Int /\ limits[i + 1] \in Int
    BY <1>0, <1>1, <2>3, <2>4, WholeFacts
  <2>6. Whole(limits[i] - limits[i + 1]) \in Fraction /\ 0 < Whole(limits[i] - limits[i + 1]).n
    BY <2>5, WholeArith
  <2>7. Over(Minus(x, Whole(limits[i + 1])), Whole(limits[i] - limits[i + 1])) \in Fraction
    BY <1>0, <1>1, <2>3, <2>6, Closed
  <2> QED
    BY <1>0, <1>1, <2>3, <2>7, LerpType
<1> DEFINE frac == Over(Minus(x, Whole(limits[i + 1])), Whole(limits[i] - limits[i + 1]))
<1>5. RisingScore(x, limits) =
        CASE ~Less(x, Whole(limits[1])) -> Whole(1)
          [] Less(x, Whole(limits[1])) /\ Less(x, Whole(limits[n])) -> Zero
          [] bands # {} /\ Less(x, Whole(limits[1])) /\ ~Less(x, Whole(limits[n])) -> Lerp(i - 1, frac, n)
          [] OTHER -> Round(Frac(n - 1 - tier, n - 1), 10000)
  BY DEF RisingScore, AtMost, n, tier
<1> HIDE DEF frac
<1> HIDE DEF bands, i
<1>6. CASE ~Less(x, Whole(limits[1]))
  BY <1>2, <1>5, <1>6
<1>8. CASE Less(x, Whole(limits[1])) /\ Less(x, Whole(limits[n]))
  BY <1>2, <1>5, <1>8
<1>9. CASE bands # {} /\ Less(x, Whole(limits[1])) /\ ~Less(x, Whole(limits[n]))
  <2>1. RisingScore(x, limits) = Lerp(i - 1, frac, n)
    BY <1>5, <1>9
  <2> QED
    BY <1>4, <1>9, <2>1 DEF frac
<1>10. CASE bands = {} /\ Less(x, Whole(limits[1])) /\ ~Less(x, Whole(limits[n]))
  <2>1. RisingScore(x, limits) = Round(Frac(n - 1 - tier, n - 1), 10000)
    BY <1>5, <1>10
  <2> QED
    BY <1>7, <2>1
<1> QED
  BY <1>6, <1>8, <1>9, <1>10

\* Where a number lies between two limits, it lies between two that follow each other.
LEMMA BandExists ==
    ASSUME NEW x \in Fraction, NEW limits, Tiered(limits), NEW last \in 1 .. Len(limits),
           AtMost(Whole(limits[1]), x), Less(x, Whole(limits[last]))
    PROVE  \E i \in 1 .. last - 1 : AtMost(Whole(limits[i]), x) /\ Less(x, Whole(limits[i + 1]))
<1>1. Len(limits) \in Nat /\ \A k \in 1 .. Len(limits) : Whole(limits[k]) \in Fraction
  BY LimitFacts
<1> DEFINE T == {k \in 1 .. last : Less(x, Whole(limits[k]))}
<1>2. PICK m \in T : \A k \in T : m <= k
  <2>1. T \subseteq Nat /\ T # {}
    OBVIOUS
  <2> HIDE DEF T
  <2> QED
    BY <2>1, LeastNumber
<1>3. m # 1
  <2>1. 1 \in 1 .. Len(limits)
    BY <1>1
  <2>2. ~Less(x, Whole(limits[1]))
    BY <1>1, <2>1, OrderFacts
  <2> QED
    BY <1>2, <2>2
<1>4. m \in 1 .. last /\ m - 1 \in 1 .. last - 1 /\ (m - 1) + 1 = m /\ m - 1 \in 1 .. Len(limits) /\ m - 1 \in 1 .. last
  BY <1>1, <1>2, <1>3
<1>5. m - 1 \notin T
  <2>1. ~(m <= m - 1)
    BY <1>4
  <2> QED
    BY <1>2, <2>1
<1>6. AtMost(Whole(limits[m - 1]), x)
  BY <1>1, <1>4, <1>5, OrderFacts
<1>7. Less(x, Whole(limits[(m - 1) + 1]))
  BY <1>2, <1>4
<1> QED
  BY <1>4, <1>6, <1>7

LEMMA FallingType ==
    ASSUME NEW x \in Fraction, NEW limits, Tiered(limits)
    PROVE  FallingScore(x, limits) \in Fraction
<1> DEFINE n == Len(limits)
           last == IF Open(limits) THEN n - 1 ELSE n
           bands == {i \in 1 .. last - 1 : AtMost(Whole(limits[i]), x) /\ Less(x, Whole(limits[i + 1]))}
           i == Min(bands)
           frac == Over(Minus(x, Whole(limits[i])), Whole(limits[i + 1] - limits[i]))
<1>0. n \in Nat /\ n - 1 \in Nat \ {0}
  BY LimitFacts
<1>1. \A k \in 1 .. n : limits[k] \in Int /\ Whole(limits[k]) \in Fraction
  BY LimitFacts
<1>2. Whole(1) \in Fraction /\ Zero \in Fraction
  BY FractionFacts
<1>3. last \in 1 .. n /\ 1 \in 1 .. n
  <2>1. n \in 1 .. n /\ n - 1 \in 1 .. n /\ 1 \in 1 .. n
    BY <1>0
  <2> HIDE DEF n
  <2> QED
    BY <2>1
<1>4. FallingScore(x, limits) =
        CASE Less(x, Whole(limits[1])) -> Whole(1)
          [] AtMost(Whole(limits[last]), x) /\ ~Less(x, Whole(limits[1])) -> Zero
          [] OTHER -> Lerp(i, Minus(Whole(1), frac), n)
  BY DEF FallingScore
<1> HIDE DEF last, n
<1>5. ASSUME ~Less(x, Whole(limits[1])), ~AtMost(Whole(limits[last]), x)
      PROVE  Lerp(i, Minus(Whole(1), frac), n) \in Fraction
  <2>1. AtMost(Whole(limits[1]), x) /\ Less(x, Whole(limits[last]))
    BY <1>0, <1>1, <1>3, <1>5, OrderFacts
  <2>2. bands # {}
    BY <1>3, <2>1, BandExists DEF n
  <2>3. i \in bands
    <3>1. bands \subseteq Nat
      BY <1>3
    <3> HIDE DEF bands
    <3> QED
      BY <2>2, <3>1, MinFacts
  <2>4. i \in 1 .. last - 1 /\ AtMost(Whole(limits[i]), x) /\ Less(x, Whole(limits[i + 1]))
    BY <2>3
  <2> HIDE DEF i
  <2>5. i \in 1 .. n /\ i + 1 \in 1 .. n /\ i \in Int
    BY <1>0, <1>1, <1>3, <2>4
  <2>6. Less(Whole(limits[i]), Whole(limits[i + 1]))
    BY <1>0, <1>1, <2>4, <2>5, OrderFacts
  <2>7. limits[i] < limits[i + 1] /\ limits[i] \in Int /\ limits[i + 1] \in Int
    BY <1>0, <1>1, <2>5, <2>6, WholeFacts
  <2>8. Whole(limits[i + 1] - limits[i]) \in Fraction /\ 0 < Whole(limits[i + 1] - limits[i]).n
    BY <2>7, WholeArith
  <2>9. Minus(x, Whole(limits[i])) \in Fraction
    BY <1>0, <1>1, <2>5, Closed
  <2>10. frac \in Fraction
    BY <2>8, <2>9, Closed
  <2> HIDE DEF frac
  <2>11. Minus(Whole(1), frac) \in Fraction
    BY <1>2, <2>10, Closed
  <2> QED
    BY <1>0, <1>1, <2>5, <2>11, LerpType
<1> HIDE DEF i, frac
<1> QED
  BY <1>2, <1>4, <1>5

\* A value that is known is scored.
LEMMA TierScoreType ==
    ASSUME NEW x \in Number, NEW limits, Tiered(limits), NEW hib \in BOOLEAN
    PROVE  /\ TierScore(x, limits, hib) \in Number
           /\ TierScore(x, limits, hib) = None <=> x = None
<1>1. ~(Len(limits) < 2)
  BY LimitFacts
<1>2. CASE x = None
  <2>1. TierScore(x, limits, hib) = None
    BY <1>2 DEF TierScore
  <2> QED
    BY <1>2, <2>1 DEF Number
<1>3. CASE x # None
  <2>1. x \in Fraction
    BY <1>3 DEF Number
  <2>2. TierScore(x, limits, hib) = IF hib THEN RisingScore(x, limits) ELSE FallingScore(x, limits)
    BY <1>1, <1>3, LimitFacts DEF TierScore
  <2>3. RisingScore(x, limits) \in Fraction /\ FallingScore(x, limits) \in Fraction
    BY <2>1, RisingType, FallingType
  <2>4. TierScore(x, limits, hib) \in Fraction
    BY <2>2, <2>3
  <2> QED
    BY <1>3, <2>4, FractionFacts DEF Number
<1> QED
  BY <1>2, <1>3

LEMMA KeysFacts ==
    ASSUME NEW S, IsFiniteSet(S)
    PROVE  /\ Cardinality(S) \in Nat /\ SetToSeq(S) \in [1 .. Cardinality(S) -> S]
           /\ SetToSeq(S) \in Seq(S) /\ Len(SetToSeq(S)) = Cardinality(S)
           /\ DOMAIN SetToSeq(S) = 1 .. Cardinality(S)
<1>1. Cardinality(S) \in Nat /\ ExistsBijection(1 .. Cardinality(S), S)
  BY FS_CardinalityType
<1>2. \E f \in [1 .. Cardinality(S) -> S] : IsInjective(f)
  BY <1>1 DEF ExistsBijection, Bijection, Injection, IsInjective
<1>3. SetToSeq(S) \in [1 .. Cardinality(S) -> S]
  BY <1>2 DEF SetToSeq
<1> HIDE DEF SetToSeq
<1> QED
  BY <1>1, <1>3, FunctionSeq

LEMMA SumGrows ==
    ASSUME NEW ns \in Seq(Nat)
    PROVE  SumOf(ns) \in Nat /\ \A i \in 1 .. Len(ns) : ns[i] <= SumOf(ns)
<1>1. ns \in Seq(Int) /\ Len(ns) \in Nat /\ \A i \in 1 .. Len(ns) : ns[i] \in Nat
  <2>1. Len(ns) \in Nat /\ \A i \in 1 .. Len(ns) : ns[i] \in Nat
    BY LenProperties, ElementOfSeq
  <2>2. ns \in [1 .. Len(ns) -> Int]
    BY <2>1, LenProperties
  <2> QED
    BY <2>1, <2>2, FunctionSeq
<1>2. PICK F : /\ F[0] = 0 /\ F[Len(ns)] = SumOf(ns)
               /\ \A i \in 0 .. Len(ns) : F[i] \in Int
               /\ \A i \in 1 .. Len(ns) : F[i] = F[i - 1] + ns[i]
  BY <1>1, SumSteps
<1> DEFINE S == {k \in 0 .. Len(ns) : 0 <= F[k] /\ \A i \in 1 .. k : ns[i] <= F[k]}
<1>3. 0 \in S
  BY <1>1, <1>2
<1>4. ASSUME NEW k \in Nat, k < Len(ns), k \in S
      PROVE  k + 1 \in S
  <2>1. k + 1 \in 1 .. Len(ns) /\ (k + 1) - 1 = k /\ k \in 0 .. Len(ns) /\ k + 1 \in 0 .. Len(ns)
    BY <1>1, <1>4
  <2>2. F[k + 1] = F[k] + ns[k + 1]
    BY <1>2, <2>1
  <2>3. F[k] \in Int /\ F[k + 1] \in Int /\ ns[k + 1] \in Nat /\ 0 <= F[k]
    BY <1>1, <1>2, <1>4, <2>1
  <2>4. F[k] <= F[k + 1] /\ ns[k + 1] <= F[k + 1] /\ 0 <= F[k + 1]
    BY <2>2, <2>3
  <2>5. ASSUME NEW i \in 1 .. k + 1
        PROVE  ns[i] <= F[k + 1]
    <3>1. CASE i = k + 1
      BY <2>4, <3>1
    <3>2. CASE i # k + 1
      <4>1. i \in 1 .. k /\ i \in 1 .. Len(ns)
        BY <2>1, <3>2
      <4>2. ns[i] <= F[k] /\ ns[i] \in Nat
        BY <1>1, <1>4, <4>1
      <4> QED
        BY <2>3, <2>4, <4>2
    <3> QED
      BY <3>1, <3>2
  <2> QED
    BY <2>1, <2>4, <2>5
<1>5. Len(ns) \in S
  <2>1. Len(ns) \in 0 .. Len(ns)
    BY <1>1
  <2> HIDE DEF S
  <2>2. 0 .. Len(ns) \subseteq S
    BY <1>1, <1>3, <1>4, InductUpTo
  <2> QED
    BY <2>1, <2>2
<1> QED
  BY <1>2, <1>5

TierMetrics == {"uptime", "ttft", "tps"} \cup DOMAIN ConsistencyMetrics

LEMMA MetricScoreType ==
    ASSUME NEW values, NEW key, values[key] \in Number, NEW metric \in TierMetrics
    PROVE  /\ MetricScore(key, metric, values) \in Number
           /\ MetricScore(key, metric, values) = None <=> values[key] = None
<1>1. Tiered(Thresholds[metric].limits) /\ Thresholds[metric].higherIsBetter \in BOOLEAN
  BY TiersAssumption DEF Tiered, TierMetrics
<1> QED
  BY <1>1, TierScoreType DEF MetricScore

\* A group of metrics to score by.
Graded(values, metrics) ==
    /\ IsFiniteSet(DOMAIN metrics)
    /\ \A k \in DOMAIN metrics : values[k] \in Number /\ metrics[k] \in TierMetrics /\ Weights[k] \in Nat
Valid(values, metrics) == {k \in DOMAIN metrics : Weights[k] # 0 /\ values[k] # None}
WeightsOf(keys) == [i \in DOMAIN keys |-> Weights[keys[i]]]
TermsOf(values, metrics, keys) ==
    [i \in DOMAIN keys |-> Times(Whole(Weights[keys[i]]), MetricScore(keys[i], metrics[keys[i]], values))]
ScaledTo100(total, weight) == Round(Times(Over(total, Whole(weight)), Whole(100)), 10)

\* The score of a group of metrics, by what is known of them.
LEMMA WeightedIs ==
    ASSUME NEW values, NEW metrics, Graded(values, metrics)
    PROVE  LET keys == SetToSeq(Valid(values, metrics))
           IN  WeightedScore(values, metrics) =
                   IF Cardinality(Valid(values, metrics)) < 2 THEN None
                   ELSE ScaledTo100(Total(TermsOf(values, metrics, keys)), SumOf(WeightsOf(keys)))
<1>1. Valid(values, metrics) =
        {k \in DOMAIN metrics : Weights[k] # 0 /\ MetricScore(k, metrics[k], values) # None}
  BY MetricScoreType DEF Valid, Graded
<1> QED
  BY <1>1 DEF WeightedScore, TermsOf, WeightsOf, ScaledTo100

LEMMA TermFacts ==
    ASSUME NEW values, NEW metrics, Graded(values, metrics), NEW keys \in Seq(Valid(values, metrics)),
           keys # <<>>
    PROVE  /\ WeightsOf(keys) \in Seq(Nat) /\ Len(WeightsOf(keys)) = Len(keys)
           /\ TermsOf(values, metrics, keys) \in Seq(Fraction) /\ Len(TermsOf(values, metrics, keys)) = Len(keys)
           /\ SumOf(WeightsOf(keys)) \in Nat \ {0}
<1>1. Len(keys) \in Nat /\ Len(keys) # 0 /\ DOMAIN keys = 1 .. Len(keys)
  BY LenProperties, EmptySeq
<1>2. \A i \in 1 .. Len(keys) : keys[i] \in Valid(values, metrics)
  BY ElementOfSeq
<1>3. \A i \in 1 .. Len(keys) : /\ Weights[keys[i]] \in Nat \ {0}
                                /\ MetricScore(keys[i], metrics[keys[i]], values) \in Fraction
  BY <1>2, MetricScoreType DEF Valid, Graded, Number
<1>4. WeightsOf(keys) \in [1 .. Len(keys) -> Nat]
  BY <1>1, <1>3 DEF WeightsOf
<1>5. WeightsOf(keys) \in Seq(Nat) /\ Len(WeightsOf(keys)) = Len(keys)
  BY <1>1, <1>4, FunctionSeq
<1>6. TermsOf(values, metrics, keys) \in [1 .. Len(keys) -> Fraction]
  <2>1. \A w \in Nat, x \in Fraction : Times(Whole(w), x) \in Fraction
    BY Closed, FractionFacts
  <2> QED
    BY <1>1, <1>3, <2>1 DEF TermsOf
<1>7. TermsOf(values, metrics, keys) \in Seq(Fraction) /\ Len(TermsOf(values, metrics, keys)) = Len(keys)
  BY <1>1, <1>6, FunctionSeq
<1>8. SumOf(WeightsOf(keys)) \in Nat \ {0}
  <2>1. 1 \in 1 .. Len(keys)
    BY <1>1
  <2>2. WeightsOf(keys)[1] \in Nat \ {0}
    BY <1>1, <1>3, <2>1 DEF WeightsOf
  <2>3. SumOf(WeightsOf(keys)) \in Nat /\ WeightsOf(keys)[1] <= SumOf(WeightsOf(keys))
    BY <1>5, <2>1, SumGrows
  <2> QED
    BY <2>2, <2>3
<1> QED
  BY <1>5, <1>7, <1>8

\* A score is a number or unknown.
LEMMA WeightedType ==
    ASSUME NEW values, NEW metrics, Graded(values, metrics)
    PROVE  WeightedScore(values, metrics) \in Number
<1> DEFINE keys == SetToSeq(Valid(values, metrics))
<1>1. IsFiniteSet(Valid(values, metrics))
  <2>1. Valid(values, metrics) \subseteq DOMAIN metrics
    BY DEF Valid
  <2> QED
    BY <2>1, FS_Subset DEF Graded
<1>2. Cardinality(Valid(values, metrics)) \in Nat /\ keys \in Seq(Valid(values, metrics))
         /\ Len(keys) = Cardinality(Valid(values, metrics))
  BY <1>1, KeysFacts
<1>3. WeightedScore(values, metrics) =
        IF Cardinality(Valid(values, metrics)) < 2 THEN None
        ELSE ScaledTo100(Total(TermsOf(values, metrics, keys)), SumOf(WeightsOf(keys)))
  BY WeightedIs
<1> HIDE DEF keys
<1>4. CASE Cardinality(Valid(values, metrics)) < 2
  BY <1>3, <1>4 DEF Number
<1>5. CASE ~(Cardinality(Valid(values, metrics)) < 2)
  <2>1. keys # <<>>
    BY <1>2, <1>5, EmptySeq
  <2>2. TermsOf(values, metrics, keys) \in Seq(Fraction) /\ SumOf(WeightsOf(keys)) \in Nat \ {0}
    BY <1>2, <2>1, TermFacts
  <2>3. Total(TermsOf(values, metrics, keys)) \in Fraction
    <3>1. \A xs \in Seq(Fraction) : Total(xs) \in Fraction
      <4> SUFFICES ASSUME NEW xs \in Seq(Fraction)
                   PROVE  Total(xs) \in Fraction
        OBVIOUS
      <4>1. Len(xs) \in 0 .. Len(xs)
        BY LenProperties
      <4> QED
        BY <4>1, TotalSteps
    <3> QED
      BY <2>2, <3>1
  <2>4. \A t \in Fraction, w \in Nat \ {0} : ScaledTo100(t, w) \in Fraction
    <3> SUFFICES ASSUME NEW t \in Fraction, NEW w \in Nat \ {0}
                 PROVE  ScaledTo100(t, w) \in Fraction
      OBVIOUS
    <3>1. Whole(w) \in Fraction /\ 0 < Whole(w).n /\ Whole(100) \in Fraction
      BY FractionFacts
    <3>2. Over(t, Whole(w)) \in Fraction
      BY <3>1, Closed
    <3>3. Times(Over(t, Whole(w)), Whole(100)) \in Fraction
      BY <3>1, <3>2, Closed
    <3> QED
      BY <3>3, RoundOrder, Tens DEF ScaledTo100
  <2> QED
    BY <1>3, <1>5, <2>2, <2>3, <2>4 DEF Number
<1> QED
  BY <1>4, <1>5

ScoreKeys == {"consistency_score", "speed_score"}

\* What ResultOf makes of the metrics.
Results(t, j) ==
    /\ ResultOf(t, j).success = TRUE /\ ResultOf(t, j).available = TRUE
    /\ ResultOf(t, j).degraded = t.late /\ ResultOf(t, j).kind = t.type
    /\ DOMAIN ResultOf(t, j) = {"success", "degraded", "available", "kind", "v"}
    /\ \A k \in DOMAIN Metrics(t, j) \ ScoreKeys :
          ResultOf(t, j).v[k] = IF t.type = "health" /\ k \notin HealthKeep THEN None ELSE Metrics(t, j)[k]
    /\ ResultOf(t, j).v.speed_score =
          IF t.type = "health" THEN None ELSE WeightedScore(Metrics(t, j), SpeedMetrics)
    /\ ResultOf(t, j).v.consistency_score =
          IF t.type = "health" \/ t.late THEN None ELSE WeightedScore(Metrics(t, j), ConsistencyMetrics)

\* The metrics are scored, and of a health check most are stripped.
LEMMA ResultIs ==
    ASSUME NEW t, NEW j
    PROVE  Results(t, j)
<1> DEFINE m == Metrics(t, j)
           r == [success |-> TRUE, degraded |-> t.late, available |-> TRUE, kind |-> t.type, v |-> m]
           scores == [consistency_score |-> ConsistencyScore(r), speed_score |-> SpeedScore(r)]
           v == [k \in DOMAIN m \cup DOMAIN scores |->
                    CASE t.type = "health" /\ k \notin HealthKeep \ DOMAIN scores -> None
                      [] t.type # "health" /\ k \in DOMAIN scores -> scores[k]
                      [] OTHER -> m[k]]
<1>1. ResultOf(t, j) = [r EXCEPT !.v = v]
  BY DEF ResultOf, Scored, Stripped
<1>2. DOMAIN scores = ScoreKeys
  BY DEF ScoreKeys
<1>3. ConsistencyScore(r) = IF t.late THEN None ELSE WeightedScore(m, ConsistencyMetrics)
  <2>1. r.success = TRUE /\ r.degraded = t.late /\ r.v = m
    OBVIOUS
  <2> HIDE DEF r, m
  <2> QED
    BY <2>1 DEF ConsistencyScore
<1>4. SpeedScore(r) = WeightedScore(m, SpeedMetrics)
  <2>1. r.success = TRUE /\ r.v = m
    OBVIOUS
  <2> HIDE DEF r, m
  <2> QED
    BY <2>1 DEF SpeedScore
<1>5. /\ ResultOf(t, j).success = TRUE /\ ResultOf(t, j).available = TRUE
      /\ ResultOf(t, j).degraded = t.late /\ ResultOf(t, j).kind = t.type
      /\ DOMAIN ResultOf(t, j) = {"success", "degraded", "available", "kind", "v"}
      /\ ResultOf(t, j).v = v
  <2> HIDE DEF m, v
  <2> QED
    BY <1>1
<1>6. scores["consistency_score"] = ConsistencyScore(r) /\ scores["speed_score"] = SpeedScore(r)
  <2> HIDE DEF r
  <2> QED
    OBVIOUS
<1>7. "speed_score" \in ScoreKeys /\ "consistency_score" \in ScoreKeys
  BY DEF ScoreKeys
<1> HIDE DEF r, scores
<1>8. \A k \in ScoreKeys : v[k] = IF t.type = "health" THEN None ELSE scores[k]
  BY <1>2
<1>9. \A k \in DOMAIN m \ ScoreKeys : v[k] = IF t.type = "health" /\ k \notin HealthKeep THEN None ELSE m[k]
  BY <1>2
<1> HIDE DEF v, m
<1>10. v["speed_score"] = IF t.type = "health" THEN None ELSE WeightedScore(m, SpeedMetrics)
  BY <1>4, <1>6, <1>7, <1>8
<1>11. v["consistency_score"] = IF t.type = "health" \/ t.late THEN None ELSE WeightedScore(m, ConsistencyMetrics)
  BY <1>3, <1>6, <1>7, <1>8
<1> QED
  BY <1>5, <1>9, <1>10, <1>11 DEF m, Results

LEMMA SpeedGraded ==
    ASSUME NEW t, IsTest(t), NEW j
    PROVE  /\ Graded(Metrics(t, j), SpeedMetrics)
           /\ Metrics(t, j).ttft_ms = Ttft(t) /\ Metrics(t, j).tps = Tps(t)
           /\ {"ttft_ms", "tps"} \subseteq DOMAIN Metrics(t, j)
<1>1. /\ Metrics(t, j).ttft_ms = Ttft(t) /\ Metrics(t, j).tps = Tps(t)
      /\ {"ttft_ms", "tps"} \subseteq DOMAIN Metrics(t, j)
  BY DEF Metrics, MetricsOf
<1>2. IsFiniteSet({"ttft_ms"} \cup {"tps"}) /\ DOMAIN SpeedMetrics = {"ttft_ms"} \cup {"tps"}
  BY FS_Singleton, FS_AddElement DEF SpeedMetrics
<1>3. \A k \in DOMAIN SpeedMetrics : Weights[k] \in Nat
  BY TiersAssumption
<1>4. SpeedMetrics["ttft_ms"] = "ttft" /\ SpeedMetrics["tps"] = "tps"
  BY DEF SpeedMetrics
<1>5. Ttft(t) \in Number /\ Tps(t) \in Number
  BY TtftType, TpsType DEF Number
<1> HIDE DEF Metrics
<1> QED
  BY <1>1, <1>2, <1>3, <1>4, <1>5 DEF Graded, TierMetrics

\* The result of a test that may succeed, or a failure.
IsResult(r) ==
    \/ \E n \in 0 .. MaxRows - 1 : \E t \in Samples[n], j \in Number :
          \A k \in {"success", "degraded", "available", "kind", "v"} : r[k] = ResultOf(t, j)[k]
    \/ r.success = FALSE /\ \A k \in DOMAIN TrendHib : r.v[k] = None

Trended == {"ttft_ms", "tps", "speed_score"}

\* What a chart or a trend shows of a result is a number or unknown.
LEMMA ResultValues ==
    ASSUME NEW r, IsResult(r), NEW k \in Trended
    PROVE  r.v[k] \in Number
<1>1. CASE \A i \in DOMAIN TrendHib : r.v[i] = None
  BY <1>1 DEF TrendHib, Trended, Number
<1>2. ASSUME NEW n \in 0 .. MaxRows - 1, NEW t \in Samples[n], NEW j \in Number,
             \A i \in {"success", "degraded", "available", "kind", "v"} : r[i] = ResultOf(t, j)[i]
      PROVE  r.v[k] \in Number
  <2>1. IsTest(t)
    BY NumbersAssumption
  <2>2. r.v = ResultOf(t, j).v
    BY <1>2
  <2> DEFINE m == Metrics(t, j)
  <2>3. /\ \A i \in DOMAIN m \ ScoreKeys :
              r.v[i] = IF t.type = "health" /\ i \notin HealthKeep THEN None ELSE m[i]
        /\ r.v.speed_score = IF t.type = "health" THEN None ELSE WeightedScore(m, SpeedMetrics)
    <3>1. Results(t, j)
      BY ResultIs
    <3> HIDE DEF m
    <3> QED
      BY <2>2, <3>1 DEF Results, m
  <2>4. /\ Graded(m, SpeedMetrics) /\ m.ttft_ms = Ttft(t) /\ m.tps = Tps(t)
        /\ {"ttft_ms", "tps"} \subseteq DOMAIN m
    BY <2>1, SpeedGraded
  <2> HIDE DEF m
  <2>5. WeightedScore(m, SpeedMetrics) \in Number
    BY <2>4, WeightedType
  <2>6. Ttft(t) \in Number /\ Tps(t) \in Number /\ None \in Number
    BY <2>1, TtftType, TpsType DEF Number
  <2>7. CASE k = "speed_score"
    BY <2>3, <2>5, <2>6, <2>7
  <2>8. CASE k \in {"ttft_ms", "tps"}
    <3>1. k \in DOMAIN m \ ScoreKeys /\ m[k] \in Number
      BY <2>4, <2>6, <2>8 DEF ScoreKeys
    <3> QED
      BY <2>3, <2>6, <3>1
  <2> QED
    BY <2>7, <2>8 DEF Trended
<1> QED
  BY <1>1, <1>2 DEF IsResult

\* The rows are results, and what the jitter is computed from are positive numbers.
Measured ==
    /\ rtts \in Seq(Fraction)
    /\ \A i \in 1 .. Len(rows) : IsResult(rows[i])

LEMMA InitMeasured == HistoryInit => Measured
<1> SUFFICES ASSUME HistoryInit PROVE Measured
  OBVIOUS
<1>1. rtts = <<>> /\ rows = <<>>
  BY DEF HistoryInit
<1>2. <<>> \in Seq(Fraction) /\ Len(<<>>) = 0
  BY EmptySeq
<1> QED
  BY <1>1, <1>2 DEF Measured

LEMMA RttsType ==
    ASSUME NEW s \in Seq(Fraction), NEW rtt \in Number
    PROVE  RttSeen(s, rtt, MaxRtts) \in Seq(Fraction)
<1> DEFINE all == Append(s, rtt)
           from == Larger2(1, Len(all) - MaxRtts + 1)
<1>1. CASE rtt = None \/ ~Less(Zero, rtt)
  BY <1>1 DEF RttSeen
<1>2. CASE ~(rtt = None \/ ~Less(Zero, rtt))
  <2>1. RttSeen(s, rtt, MaxRtts) = SubSeq(all, from, Len(all))
    BY <1>2 DEF RttSeen
  <2>2. rtt \in Fraction
    BY <1>2 DEF Number
  <2>3. all \in Seq(Fraction) /\ Len(all) = Len(s) + 1 /\ Len(s) \in Nat
    BY <2>2, AppendProperties, LenProperties
  <2>4. from \in 1 .. Len(all) + 1 /\ Len(all) \in from - 1 .. Len(all)
    <3> HIDE DEF all
    <3> QED
      BY <2>3, NumbersAssumption DEF Larger2
  <2> HIDE DEF all, from
  <2> QED
    BY <2>1, <2>3, <2>4, SubSeqProperties
<1> QED
  BY <1>1, <1>2

\* Every step keeps what is measured.
LEMMA NextMeasured == Remembered /\ Measured /\ [HistoryNext]_historyVars => Measured'
<1> SUFFICES ASSUME Remembered, Measured, [HistoryNext]_historyVars PROVE Measured'
  OBVIOUS
<1>0. IsSeq(rows) /\ Len(rows) \in Nat
  BY ChronicleFacts DEF Remembered
<1>1. ASSUME NEW x, NEW retry, rows' = Append(rows, Record(x, retry)), IsResult(Record(x, retry)), rtts' \in Seq(Fraction)
      PROVE  Measured'
  <2> DEFINE r == Record(x, retry)
  <2>1. rows' = Append(rows, r) /\ IsResult(r)
    BY <1>1
  <2> HIDE DEF r
  <2>2. /\ Len(rows') = Len(rows) + 1 /\ \A i \in 1 .. Len(rows) : rows'[i] = rows[i]
        /\ rows'[Len(rows) + 1] = r
    BY <1>0, <2>1, AppendIsSeq
  <2>3. ASSUME NEW i \in 1 .. Len(rows')
        PROVE  IsResult(rows'[i])
    <3>1. i \in 1 .. Len(rows) \/ i = Len(rows) + 1
      BY <1>0, <2>2
    <3>2. CASE i \in 1 .. Len(rows)
      <4>1. IsResult(rows[i]) /\ rows'[i] = rows[i]
        BY <2>2, <3>2 DEF Measured
      <4> QED
        BY ONLY <4>1
    <3>3. CASE i = Len(rows) + 1
      <4>1. rows'[i] = r /\ IsResult(r)
        BY <2>1, <2>2, <3>3
      <4> QED
        BY ONLY <4>1
    <3> QED
      BY <3>1, <3>2, <3>3
  <2> QED
    BY <1>1, <2>3 DEF Measured, IsResult
<1>2. ASSUME UNCHANGED rows, rtts' \in Seq(Fraction)
      PROVE  Measured'
  BY <1>2 DEF Measured, IsResult
<1>3. Len(rows) < MaxRows => Len(rows) \in 0 .. MaxRows - 1
  BY <1>0, NumbersAssumption
<1>4. ASSUME Len(rows) < MaxRows, NEW t \in Samples[Len(rows)], Measure(t)
      PROVE  Measured'
  <2> DEFINE j == Jitter(rtts')
             result == ResultOf(t, j)
  <2>1. rtts' = RttSeen(rtts, Rtt(t), MaxRtts) /\ Enter(result, FALSE)
    BY <1>4 DEF Measure
  <2>2. IsTest(t)
    BY <1>3, <1>4, NumbersAssumption
  <2>3. rtts' \in Seq(Fraction)
    BY <2>1, <2>2, RttType, RttsType DEF Measured
  <2>4. j \in Number
    BY <2>3, JitterType DEF Number
  <2> HIDE DEF j
  <2>5. DOMAIN result = {"success", "degraded", "available", "kind", "v"}
    <3>1. Results(t, j)
      BY ResultIs
    <3> QED
      BY <3>1 DEF Results
  <2>6. \A k \in {"success", "degraded", "available", "kind", "v"} : Record(result, FALSE)[k] = result[k]
    <3> HIDE DEF result
    <3> QED
      BY <2>5 DEF Record
  <2>7. IsResult(Record(result, FALSE))
    BY <1>3, <1>4, <2>4, <2>6 DEF IsResult
  <2>8. rows' = Append(rows, Record(result, FALSE))
    BY <2>1 DEF Enter
  <2> HIDE DEF result
  <2> QED
    BY <1>1, <2>3, <2>7, <2>8
<1>5. ASSUME Len(rows) < MaxRows, NEW f \in Failures[Len(rows)], Fail(f.type, f.rtt, f.retry)
      PROVE  Measured'
  <2>0. PICK type, retry, rtt : Fail(type, rtt, retry) /\ rtt \in Number
    <3>1. f.rtt \in Number
      BY <1>3, <1>5, NumbersAssumption DEF Number
    <3> QED
      BY <1>5, <3>1
  <2> DEFINE result == FailedResult(type)
  <2>1. Enter(result, retry) /\ rtts' = RttSeen(rtts, rtt, MaxRtts)
    BY <2>0 DEF Fail
  <2>2. DOMAIN result = {"success", "degraded", "available", "kind", "v"}
        /\ result.success = FALSE /\ result.v = [k \in DOMAIN TrendHib |-> None]
    BY DEF FailedResult
  <2> HIDE DEF result
  <2>3. Record(result, retry).success = FALSE /\ Record(result, retry).v = result.v
    BY <2>2 DEF Record
  <2>4. IsResult(Record(result, retry))
    BY <2>2, <2>3 DEF IsResult
  <2>5. rows' = Append(rows, Record(result, retry)) /\ rtts' \in Seq(Fraction)
    BY <2>0, <2>1, RttsType DEF Enter, Measured
  <2> QED
    BY <1>1, <2>4, <2>5
<1>6. CASE Tick
  BY <1>2, <1>6 DEF Tick, Measured
<1>7. ASSUME NEW w, Reload(w)
      PROVE  Measured'
  BY <1>2, <1>7 DEF Reload, Measured
<1>8. CASE HistoryRestart
  <2>1. UNCHANGED rows /\ rtts' = <<>>
    BY <1>8 DEF HistoryRestart
  <2>2. <<>> \in Seq(Fraction)
    BY EmptySeq
  <2> QED
    BY <1>2, <2>1, <2>2
<1>9. CASE UNCHANGED historyVars
  BY <1>2, <1>9 DEF historyVars, Measured
<1> QED
  BY <1>4, <1>5, <1>6, <1>7, <1>8, <1>9 DEF HistoryNext

\* The history consists of results, in order of time.
LEMMA HistoryIs ==
    ASSUME Remembered, Measured
    PROVE  /\ history \in Seq(Range(rows)) /\ Len(history) \in Nat
           /\ \A r \in Range(rows) : IsResult(r) /\ r.at \in Nat
           /\ \A i, j \in 1 .. Len(history) : i <= j => history[i].at <= history[j].at
           /\ \A i \in 1 .. Len(history) : IsResult(history[i]) /\ history[i].at \in Nat
<1> DEFINE a == Len(rows) - Len(history)
<1>1. /\ Chronicle(rows, now) /\ rows \in Seq(Range(rows)) /\ Len(rows) \in Nat /\ DOMAIN rows = 1 .. Len(rows)
      /\ Len(history) \in 0 .. Len(rows) /\ history = After(rows, a)
  BY ChronicleFacts DEF Remembered, Ends
<1>2. a \in 0 .. Len(rows) /\ Len(history) \in Nat /\ Len(history) = Len(rows) - a
  BY <1>1
<1>3. \A r \in Range(rows) : IsResult(r) /\ r.at \in Nat
  BY <1>1 DEF Range, Measured, Chronicle
<1> HIDE DEF a
<1>4. /\ history \in Seq(Range(rows)) /\ \A i \in 1 .. Len(history) : history[i] = rows[i + a]
  BY <1>1, <1>2, AfterFacts
<1>5. \A i \in 1 .. Len(history) : history[i] \in Range(rows)
  BY <1>4, ElementOfSeq
<1>6. ASSUME NEW i \in 1 .. Len(history), NEW j \in 1 .. Len(history), i <= j
      PROVE  history[i].at <= history[j].at
  <2>1. i + a \in 1 .. Len(rows) /\ j + a \in 1 .. Len(rows) /\ i + a <= j + a
    BY <1>1, <1>2, <1>6
  <2>2. rows[i + a].at <= rows[j + a].at
    BY <1>1, <2>1 DEF Chronicle
  <2> QED
    BY <1>4, <2>2
<1> QED
  BY <1>2, <1>3, <1>4, <1>5, <1>6

Drawn(t, s, P) == \A i \in 1 .. Len(t) : \E k \in 1 .. Len(s) : k \in P /\ t[i] = s[k]

LEMMA PickedDrawn ==
    ASSUME NEW A, NEW s \in Seq(A), NEW P
    PROVE  Drawn(Picked(s, P), s, P)
<1> DEFINE t == Picked(s, P)
<1>1. PICK m : Places(m, s, P, Len(s), t)
  BY PickedPlaces
<1> HIDE DEF t
<1> QED
  BY <1>1 DEF Places, Drawn, t

\* The values of a key are numbers.
LEMMA ValuesType ==
    ASSUME NEW R, NEW records \in Seq(R), NEW key, \A r \in R : r.v[key] \in Number
    PROVE  Values(records, key) \in Seq(Fraction)
<1> DEFINE xs == [i \in DOMAIN records |-> records[i].v[key]]
           P == {i \in DOMAIN xs : xs[i] # None}
           t == Picked(xs, P)
<1>1. Len(records) \in Nat /\ DOMAIN records = 1 .. Len(records) /\ \A i \in 1 .. Len(records) : records[i] \in R
  BY LenProperties, ElementOfSeq
<1>2. xs \in [1 .. Len(records) -> Number]
  BY <1>1
<1>3. xs \in Seq(Number) /\ DOMAIN xs = 1 .. Len(xs)
  <2> HIDE DEF xs
  <2> QED
    BY <1>1, <1>2, FunctionSeq
<1>4. Values(records, key) = t
  BY DEF Values, Known
<1> HIDE DEF xs, t
<1>5. /\ t \in Seq(Number) /\ Len(t) \in Nat
      /\ \A i \in 1 .. Len(t) : \E k \in 1 .. Len(xs) : k \in P /\ t[i] = xs[k]
  <2> HIDE DEF P
  <2>1. xs \in Seq(Number)
    BY <1>3
  <2>2. /\ Picked(xs, P) \in Seq(Number) /\ Len(Picked(xs, P)) \in Nat
        /\ \A i \in 1 .. Len(Picked(xs, P)) : \E k \in 1 .. Len(xs) : k \in P /\ Picked(xs, P)[i] = xs[k]
    <3>1. Picked(xs, P) \in Seq(Number) /\ Len(Picked(xs, P)) \in Nat
      BY ONLY <2>1, PickedFacts
    <3>2. Drawn(Picked(xs, P), xs, P)
      BY ONLY <2>1, PickedDrawn
    <3> QED
      BY <3>1, <3>2 DEF Drawn
  <2> QED
    BY <2>2 DEF t
<1>6. \A i \in 1 .. Len(t) : t[i] \in Fraction
  <2> SUFFICES ASSUME NEW i \in 1 .. Len(t)
               PROVE  t[i] \in Fraction
    OBVIOUS
  <2>1. PICK k \in 1 .. Len(xs) : k \in P /\ t[i] = xs[k]
    BY <1>5
  <2>2. t[i] # None
    BY <2>1
  <2>3. t[i] \in Number
    BY <1>5, ElementOfSeq
  <2> QED
    BY <2>2, <2>3 DEF Number
<1>7. t \in [1 .. Len(t) -> Fraction]
  BY <1>5, <1>6, LenProperties
<1> QED
  BY <1>4, <1>5, <1>7, FunctionSeq

\* The windows of a trend are parts of the records.
LEMMA WindowsType ==
    ASSUME NEW R, NEW records \in Seq(R)
    PROVE  Baseline(records) \in Seq(R) /\ Recent(records) \in Seq(R)
<1> DEFINE n == Len(records)
           k == Split(records)
<1>1. n \in Nat /\ \A i \in 1 .. n : records[i] \in R
  BY LenProperties, ElementOfSeq
<1>2. k \in Nat \ {0}
  <2>1. (3 * n) \div 4 \in Int
    BY <1>1
  <2> HIDE DEF n
  <2> QED
    BY <2>1 DEF Split, Larger2, n
<1> HIDE DEF k
<1>3. Smaller2(k, n) \in Int /\ Smaller2(k, n) <= n
  BY <1>1, <1>2 DEF Smaller2
<1>4. SubSeq(records, 1, Smaller2(k, n)) \in Seq(R)
  <2>1. \A i \in 1 .. Smaller2(k, n) : records[i] \in R
    BY <1>1, <1>3
  <2> HIDE DEF n
  <2> QED
    BY <1>3, <2>1, SubSeqProperties
<1>5. SubSeq(records, k + 1, n) \in Seq(R)
  <2>1. \A i \in k + 1 .. n : records[i] \in R
    BY <1>1, <1>2
  <2>2. k + 1 \in Int /\ n \in Int
    BY <1>1, <1>2
  <2> HIDE DEF n
  <2> QED
    BY <2>1, <2>2, SubSeqProperties
<1> QED
  BY <1>4, <1>5 DEF Baseline, Recent, k

\* No number of xs is larger than one of ys.
NoneAbove(xs, ys) == \A i \in DOMAIN xs, j \in DOMAIN ys : AtMost(xs[i], ys[j])

\* If no number is above another's, neither is the median.
LEMMA MediansOrdered ==
    ASSUME NEW xs \in Seq(Fraction), xs # <<>>, NEW ys \in Seq(Fraction), ys # <<>>, NoneAbove(xs, ys)
    PROVE  AtMost(Median(xs), Median(ys)) /\ Median(xs) \in Fraction /\ Median(ys) \in Fraction
<1>1. Median(xs) \in Fraction /\ Median(ys) \in Fraction
  BY MedianBetween
<1>2. PICK i \in 1 .. Len(xs) : AtMost(Median(xs), xs[i])
  BY MedianBetween
<1>3. PICK j \in 1 .. Len(ys) : AtMost(ys[j], Median(ys))
  BY MedianBetween
<1>4. xs[i] \in Fraction /\ ys[j] \in Fraction /\ i \in DOMAIN xs /\ j \in DOMAIN ys
  BY ElementOfSeq, LenProperties
<1>5. AtMost(xs[i], ys[j])
  BY <1>4 DEF NoneAbove
<1> QED
  BY <1>1, <1>2, <1>3, <1>4, <1>5, OrderFacts

LEMMA LevelIs ==
    ASSUME NEW metric \in Trended, NEW records, NEW least
    PROVE  Level(metric, records, least) =
               IF Len(Values(records, metric)) < least THEN None ELSE Median(Values(records, metric))
BY DEF Level, Trended

\* Where nothing changed the trend is stable.
LEMMA Unchanged ==
    ASSUME NEW delta \in Fraction, delta.n = 0, NEW limit \in Fraction, 0 < limit.n
    PROVE  Less(Distance(delta, Zero), limit)
<1> DEFINE x == Minus(delta, Zero)
           y == Minus(Zero, delta)
           d == Distance(delta, Zero)
<1>1. Zero \in Fraction /\ Zero.n = 0
  BY FractionFacts
<1>2. AtMost(delta, Zero) /\ AtMost(Zero, delta)
  BY <1>1, SignFacts
<1>3. x \in Fraction /\ y \in Fraction
  BY <1>1, Closed
<1>4. x.n = 0 /\ y.n = 0
  <2>1. x.n <= 0 /\ 0 <= x.n /\ y.n <= 0 /\ 0 <= y.n
    BY <1>1, <1>2, MinusSign
  <2>2. x.n \in Int /\ y.n \in Int
    BY <1>3, FractionFacts
  <2> HIDE DEF x, y
  <2> QED
    BY <2>1, <2>2
<1> HIDE DEF x, y
<1>5. d \in {x, y}
  BY <1>3, OrderFacts DEF Distance, x, y
<1>6. d \in Fraction /\ d.n = 0
  BY <1>3, <1>4, <1>5
<1> HIDE DEF d
<1>7. AtMost(d, Zero) /\ Less(Zero, limit)
  BY <1>1, <1>6, SignFacts
<1> QED
  BY <1>1, <1>6, <1>7, OrderFacts DEF d

LEMMA HibFacts ==
    ASSUME NEW metric \in Trended
    PROVE  metric \in DOMAIN TrendHib /\ (TrendHib[metric] = TRUE \/ TrendHib[metric] = FALSE)
<1>1. DOMAIN TrendHib = {"tps", "ttft_ms", "stall_count", "raw_p99_itl_ms", "effective_itl_tail_ratio",
                         "chunk_token_ratio", "consistency_score", "speed_score", "available",
                         "reliability_score"}
  BY DEF TrendHib
<1>2. TrendHib["tps"] = TRUE
  BY DEF TrendHib
<1>3. TrendHib["ttft_ms"] = FALSE
  BY DEF TrendHib
<1>4. TrendHib["speed_score"] = TRUE
  BY DEF TrendHib
<1> QED
  BY <1>1, <1>2, <1>3, <1>4 DEF Trended

\* A median that did not rise has not improved, or not degraded.
LEMMA DirectionIs ==
    ASSUME NEW metric \in Trended, NEW before \in Fraction, NEW after \in Fraction
    PROVE  /\ AtMost(after, before) =>
                 Direction(metric, Minus(after, before)) # IF TrendHib[metric] THEN "improving" ELSE "degrading"
           /\ AtMost(before, after) =>
                 Direction(metric, Minus(after, before)) # IF TrendHib[metric] THEN "degrading" ELSE "improving"
<1> DEFINE delta == Minus(after, before)
<1>1. delta \in Fraction /\ delta.n \in Int
  BY Closed, FractionFacts
<1>2. TrendHib[metric] \in BOOLEAN /\ TrendLimits[metric] \in Fraction /\ 0 < TrendLimits[metric].n
  <2>1. metric \in DOMAIN TrendHib /\ TrendHib[metric] \in BOOLEAN
    BY HibFacts
  <2> QED
    BY <2>1, NumbersAssumption
<1>3. /\ AtMost(after, before) => delta.n <= 0
      /\ AtMost(before, after) => 0 <= delta.n
      /\ Less(Zero, delta) <=> 0 < delta.n
  BY <1>1, MinusSign, SignFacts
<1> HIDE DEF delta
<1>4. delta.n = 0 => Less(Distance(delta, Zero), TrendLimits[metric])
  BY <1>1, <1>2, Unchanged
<1>5. CASE Less(Distance(delta, Zero), TrendLimits[metric])
  <2>1. Direction(metric, delta) = "stable"
    BY <1>5 DEF Direction
  <2> QED
    BY <2>1 DEF delta
<1>6. CASE ~Less(Distance(delta, Zero), TrendLimits[metric])
  <2>1. Direction(metric, delta) = IF Less(Zero, delta) = TrendHib[metric] THEN "improving" ELSE "degrading"
    BY <1>6 DEF Direction
  <2>2. delta.n # 0
    BY <1>4, <1>6
  <2>3. CASE AtMost(after, before)
    <3>1. ~Less(Zero, delta) /\ delta.n < 0
      BY <1>1, <1>3, <2>2, <2>3
    <3>2. ~AtMost(before, after)
      BY <1>1, <1>3, <3>1
    <3>3. Less(Zero, delta) = FALSE
      BY <3>1 DEF Less
    <3>4. Direction(metric, delta) = IF TrendHib[metric] THEN "degrading" ELSE "improving"
      BY <1>2, <2>1, <3>3
    <3> QED
      BY <1>2, <3>2, <3>4 DEF delta
  <2>4. CASE AtMost(before, after)
    <3>1. Less(Zero, delta) /\ 0 < delta.n
      BY <1>1, <1>3, <2>2, <2>4
    <3>2. ~AtMost(after, before)
      BY <1>1, <1>3, <3>1
    <3> QED
      BY <1>2, <2>1, <3>1, <3>2 DEF delta
  <2> QED
    BY <2>3, <2>4
<1> QED
  BY <1>5, <1>6

\* A trend does not contradict all of its values.
LEMMA TrendFollows ==
    ASSUME NEW R, NEW bench \in Seq(R), NEW metric \in Trended, \A r \in R : r.v[metric] \in Number
    PROVE  LET before == Values(Baseline(bench), metric)
               after == Values(Recent(bench), metric)
           IN  /\ NoneAbove(after, before) =>
                      Trend(bench, metric) # IF TrendHib[metric] THEN "improving" ELSE "degrading"
               /\ NoneAbove(before, after) =>
                      Trend(bench, metric) # IF TrendHib[metric] THEN "degrading" ELSE "improving"
<1> DEFINE before == Values(Baseline(bench), metric)
           after == Values(Recent(bench), metric)
           x == Level(metric, Baseline(bench), MinPoints)
           y == Level(metric, Recent(bench), RecentPoints)
<1>1. before \in Seq(Fraction) /\ after \in Seq(Fraction)
  BY WindowsType, ValuesType
<1>2. x \in {None, Median(before)} /\ y \in {None, Median(after)}
  BY LevelIs
<1>3. Trend(bench, metric) = "none" \/ (x # None /\ y # None /\ Trend(bench, metric) = Direction(metric, Minus(y, x)))
  BY DEF Trend
<1> HIDE DEF before, after, x, y
<1>4. ASSUME x # None, y # None
      PROVE  /\ NoneAbove(after, before) =>
                    Direction(metric, Minus(y, x)) # IF TrendHib[metric] THEN "improving" ELSE "degrading"
             /\ NoneAbove(before, after) =>
                    Direction(metric, Minus(y, x)) # IF TrendHib[metric] THEN "degrading" ELSE "improving"
  <2>1. x = Median(before) /\ y = Median(after)
    BY <1>2, <1>4
  <2>2. before # <<>> /\ after # <<>>
    BY <1>4, <2>1 DEF Median
  <2>3. x \in Fraction /\ y \in Fraction
    BY <1>1, <2>1, <2>2, MedianBetween
  <2>4. /\ NoneAbove(after, before) => AtMost(y, x)
        /\ NoneAbove(before, after) => AtMost(x, y)
    BY <1>1, <2>1, <2>2, MediansOrdered
  <2> QED
    BY <2>3, <2>4, DirectionIs
<1>5. "none" # "improving" /\ "none" # "degrading"
  OBVIOUS
<1>6. TrendHib[metric] \in BOOLEAN
  BY HibFacts
<1> QED
  BY <1>3, <1>4, <1>5, <1>6 DEF before, after

LEMMA TrendsSound == Remembered /\ Measured => TrendSound
<1> SUFFICES ASSUME Remembered, Measured PROVE TrendSound
  OBVIOUS
<1> DEFINE bench == BenchOnly(history)
<1>1. history \in Seq(Range(rows)) /\ \A r \in Range(rows) : IsResult(r)
  BY HistoryIs
<1>2. bench \in Seq(Range(rows))
  BY <1>1, PickedFacts DEF BenchOnly
<1> HIDE DEF bench
<1>3. ASSUME NEW metric \in Trended
      PROVE  LET before == Values(Baseline(bench), metric)
                 after == Values(Recent(bench), metric)
                 better == IF TrendHib[metric] THEN NoneAbove(before, after) ELSE NoneAbove(after, before)
                 worse == IF TrendHib[metric] THEN NoneAbove(after, before) ELSE NoneAbove(before, after)
             IN  /\ worse => Trend(bench, metric) # "improving"
                 /\ better => Trend(bench, metric) # "degrading"
  <2>1. \A r \in Range(rows) : r.v[metric] \in Number
    BY <1>1, ResultValues
  <2>2. TrendHib[metric] \in BOOLEAN
    BY HibFacts
  <2> QED
    BY <1>2, <2>1, <2>2, TrendFollows
<1> QED
  BY <1>3 DEF TrendSound, NoneAbove, Trended, bench

LEMMA PickedLen ==
    ASSUME NEW A, NEW s \in Seq(A), NEW P
    PROVE  Picked(s, P) \in Seq(A) /\ Len(Picked(s, P)) = Cardinality({k \in 1 .. Len(s) : k \in P})
BY PickedFacts

\* The places of those in group i.
Group(b, n, i) == {k \in 1 .. n : b[k] = i}

LEMMA GroupSize ==
    ASSUME NEW n \in Nat, NEW b, NEW i
    PROVE  /\ Cardinality(Group(b, n, i)) \in Nat
           /\ Cardinality(Group(b, n, i)) = 0 <=> \A k \in 1 .. n : b[k] # i
<1>1. Group(b, n, i) \in SUBSET (1 .. n) /\ IsFiniteSet(1 .. n)
  BY FS_Interval DEF Group
<1>2. IsFiniteSet(Group(b, n, i))
  BY <1>1, FS_Subset
<1>3. Cardinality(Group(b, n, i)) \in Nat /\ (Cardinality(Group(b, n, i)) = 0 <=> Group(b, n, i) = {})
  BY <1>2, FS_CardinalityType, FS_EmptySet
<1> QED
  BY <1>3 DEF Group

\* The groups from lo on have these counts, and there is no other.
GroupCounts(counts, b, n, lo) ==
    /\ \A k \in 1 .. n : b[k] \in Int /\ lo <= b[k] /\ b[k] < lo + Len(counts)
    /\ \A j \in 1 .. Len(counts) : counts[j] = Cardinality(Group(b, n, lo + j - 1))

\* Groups that divide n places have n members together.
LEMMA GroupsSum ==
    ASSUME NEW n \in Nat, NEW b, NEW lo \in Int, NEW counts \in Seq(Int), GroupCounts(counts, b, n, lo)
    PROVE  SumOf(counts) = n
<1>0. /\ \A k \in 1 .. n : b[k] \in Int /\ lo <= b[k] /\ b[k] < lo + Len(counts)
      /\ \A j \in 1 .. Len(counts) : counts[j] = Cardinality(Group(b, n, lo + j - 1))
  BY DEF GroupCounts
<1>9. \A k \in 1 .. n : b[k] \in Int
  BY <1>0
<1> DEFINE L == Len(counts)
           Below(j) == {k \in 1 .. n : b[k] < lo + j}
<1>1. L \in Nat
  BY LenProperties
<1>2. PICK F : /\ F[0] = 0 /\ F[L] = SumOf(counts)
               /\ \A i \in 1 .. L : F[i] = F[i - 1] + counts[i]
  BY SumSteps
<1> HIDE DEF L
<1>3. IsFiniteSet(1 .. n) /\ Cardinality(1 .. n) = n
  BY FS_Interval
<1>4. \A j \in Nat : IsFiniteSet(Below(j))
  <2> SUFFICES ASSUME NEW j \in Nat
               PROVE  IsFiniteSet(Below(j))
    OBVIOUS
  <2>1. Below(j) \in SUBSET (1 .. n)
    OBVIOUS
  <2> QED
    BY <1>3, <2>1, FS_Subset
<1> DEFINE S == {j \in 0 .. L : F[j] = Cardinality(Below(j))}
<1>5. 0 \in S
  <2>1. Below(0) = {}
    BY <1>0
  <2>2. 0 \in 0 .. L
    BY <1>1
  <2> HIDE DEF Below
  <2> QED
    BY <1>2, <2>1, <2>2, FS_EmptySet
<1>6. ASSUME NEW j \in Nat, j < L, j \in S
      PROVE  j + 1 \in S
  <2>1. j + 1 \in 1 .. L /\ j + 1 \in 0 .. L /\ (j + 1) - 1 = j /\ lo + (j + 1) - 1 = lo + j
    BY <1>1, <1>6
  <2>2. F[j + 1] = Cardinality(Below(j)) + Cardinality(Group(b, n, lo + j))
    <3>1. F[j + 1] = F[j] + counts[j + 1]
      BY <1>2, <2>1
    <3>2. counts[j + 1] = Cardinality(Group(b, n, lo + j))
      BY <1>0, <2>1 DEF L
    <3>3. F[j] = Cardinality(Below(j))
      BY <1>6
    <3> QED
      BY <3>1, <3>2, <3>3
  <2>3. Below(j + 1) = Below(j) \cup Group(b, n, lo + j) /\ Below(j) \cap Group(b, n, lo + j) = {}
    <3> DEFINE G == Group(b, n, lo + j)
    <3>1. \A k \in 1 .. n : /\ b[k] < lo + (j + 1) <=> b[k] < lo + j \/ b[k] = lo + j
                           /\ ~(b[k] < lo + j /\ b[k] = lo + j)
      BY <1>9
    <3>2. \A k : k \in G <=> k \in 1 .. n /\ b[k] = lo + j
      BY DEF Group
    <3>3. \A i \in Nat : \A k : k \in Below(i) <=> k \in 1 .. n /\ b[k] < lo + i
      OBVIOUS
    <3>4. j \in Nat /\ j + 1 \in Nat
      BY <1>6
    <3> HIDE DEF G, Below
    <3>5. \A k : k \in Below(j + 1) <=> k \in Below(j) \/ k \in G
      BY <3>1, <3>2, <3>3, <3>4
    <3>6. \A k : ~(k \in Below(j) /\ k \in G)
      BY <3>1, <3>2, <3>3, <3>4
    <3>7. Below(j + 1) = Below(j) \cup G /\ Below(j) \cap G = {}
      BY <3>5, <3>6
    <3> QED
      BY <3>7 DEF G
  <2>4. IsFiniteSet(Below(j)) /\ IsFiniteSet(Group(b, n, lo + j))
    <3>1. Group(b, n, lo + j) \in SUBSET (1 .. n)
      BY DEF Group
    <3> QED
      BY <1>3, <1>4, <3>1, FS_Subset
  <2> HIDE DEF Below
  <2>5. Cardinality(Below(j) \cup Group(b, n, lo + j)) = Cardinality(Below(j)) + Cardinality(Group(b, n, lo + j))
    <3>1. Cardinality(Below(j)) \in Nat /\ Cardinality(Group(b, n, lo + j)) \in Nat
      BY <2>4, FS_CardinalityType
    <3>2. Cardinality(Below(j) \cup Group(b, n, lo + j)) =
            Cardinality(Below(j)) + Cardinality(Group(b, n, lo + j)) - Cardinality({})
      BY <2>3, <2>4, FS_Union
    <3> QED
      BY <3>1, <3>2, FS_EmptySet
  <2> QED
    BY <2>1, <2>2, <2>3, <2>5
<1>7. L \in S
  <2>1. L \in 0 .. L
    BY <1>1
  <2> HIDE DEF S
  <2>2. 0 .. L \subseteq S
    BY <1>1, <1>5, <1>6, InductUpTo
  <2> QED
    BY <2>1, <2>2
<1>8. Below(L) = 1 .. n
  BY <1>0, <1>1 DEF L
<1> HIDE DEF Below
<1> QED
  BY <1>2, <1>3, <1>7, <1>8

\* A set of numbers up to n has a largest.
LEMMA MaxFacts ==
    ASSUME NEW n \in Nat, NEW S, S \subseteq 0 .. n, S # {}
    PROVE  Max(S) \in S /\ \A i \in S : i <= Max(S)
<1> DEFINE T == {n - i : i \in S}
<1>1. T \subseteq Nat /\ T # {}
  <2>1. \A i \in 0 .. n : n - i \in Nat
    OBVIOUS
  <2>2. T \subseteq Nat
    BY <2>1
  <2>3. T # {}
    OBVIOUS
  <2> QED
    BY <2>2, <2>3
<1>2. PICK x \in T : \A y \in T : x <= y
  <2> HIDE DEF T
  <2> QED
    BY <1>1, LeastNumber
<1>3. PICK m \in S : x = n - m
  BY <1>2
<1>4. ASSUME NEW i \in S
      PROVE  i <= m
  <2>1. x <= n - i
    BY <1>2
  <2>2. i \in 0 .. n /\ m \in 0 .. n
    BY <1>3, <1>4
  <2> QED
    BY <1>3, <2>1, <2>2
<1>5. \E y \in S : \A z \in S : y >= z
  <2>1. \A i \in S : m >= i
    BY <1>4
  <2> QED
    BY <1>3, <2>1
<1> DEFINE c == Max(S)
<1>6. c \in S /\ \A z \in S : c >= z
  BY <1>5 DEF Max
<1> HIDE DEF c
<1>7. ASSUME NEW i \in S
      PROVE  i <= c
  <2>1. c >= i /\ c \in Int /\ i \in Int
    BY <1>6
  <2> QED
    BY <2>1
<1> QED
  BY <1>6, <1>7 DEF c

\* The mean of times lies among them.
MomentsOf(rs) == [i \in DOMAIN rs |-> Whole(rs[i].at)]
MomentsWithin(rs, lo, hi) == \A i \in 1 .. Len(rs) : rs[i].at \in Int /\ lo <= rs[i].at /\ rs[i].at <= hi

\* The mean of some times lies among them.
LEMMA MeanOfTimes ==
    ASSUME NEW R, NEW rs \in Seq(R), rs # <<>>, NEW lo \in Int, NEW hi \in Int, MomentsWithin(rs, lo, hi)
    PROVE  Mean(MomentsOf(rs)) \in Fraction /\ AtMost(Whole(lo), Mean(MomentsOf(rs))) /\ AtMost(Mean(MomentsOf(rs)), Whole(hi))
<1> DEFINE xs == [i \in DOMAIN rs |-> Whole(rs[i].at)]
<1>1. Len(rs) \in Nat /\ Len(rs) # 0 /\ DOMAIN rs = 1 .. Len(rs)
  BY LenProperties, EmptySeq
<1>2. \A i \in 1 .. Len(rs) : Whole(rs[i].at) \in Fraction /\ AtMost(Whole(lo), Whole(rs[i].at))
                              /\ AtMost(Whole(rs[i].at), Whole(hi))
  BY WholeFacts DEF MomentsWithin
<1>3. xs \in [1 .. Len(rs) -> Fraction] /\ \A i \in 1 .. Len(rs) : xs[i] = Whole(rs[i].at)
  BY <1>1, <1>2
<1> HIDE DEF xs
<1>4. xs \in Seq(Fraction) /\ Len(xs) = Len(rs) /\ xs # <<>>
  BY <1>1, <1>3, FunctionSeq, EmptySeq
<1>5. \A i \in 1 .. Len(xs) : AtMost(Whole(lo), xs[i]) /\ AtMost(xs[i], Whole(hi))
  BY <1>2, <1>3, <1>4
<1>6. Whole(lo) \in Fraction /\ Whole(hi) \in Fraction
  BY WholeFacts
<1>7. Mean(xs) \in Fraction /\ AtMost(Whole(lo), Mean(xs)) /\ AtMost(Mean(xs), Whole(hi))
  BY <1>4, <1>5, <1>6, MeanBetween
<1> QED
  BY <1>7 DEF xs, MomentsOf

\* Records in the order of time.
Timed(s) ==
    /\ s \in Seq(Range(s)) /\ s # <<>>
    /\ \A i \in 1 .. Len(s) : s[i].at \in Nat
    /\ \A i, j \in 1 .. Len(s) : i <= j => s[i].at <= s[j].at

LEMMA TimedFacts ==
    ASSUME NEW s, Timed(s)
    PROVE  /\ Len(s) \in Nat \ {0} /\ DOMAIN s = 1 .. Len(s) /\ 1 \in 1 .. Len(s) /\ Len(s) \in 1 .. Len(s)
           /\ Last(s) = s[Len(s)] /\ Last(s).at \in Nat /\ s[1].at \in Nat
           /\ \A i \in 1 .. Len(s) : s[i].at \in Nat /\ s[1].at <= s[i].at /\ s[i].at <= Last(s).at
<1>1. Len(s) \in Nat \ {0} /\ DOMAIN s = 1 .. Len(s)
  BY LenProperties, EmptySeq DEF Timed
<1>2. 1 \in 1 .. Len(s) /\ Len(s) \in 1 .. Len(s) /\ \A i \in 1 .. Len(s) : 1 <= i /\ i <= Len(s)
  BY <1>1
<1>3. Last(s) = s[Len(s)]
  BY DEF Last
<1> QED
  BY <1>1, <1>2, <1>3 DEF Timed

LEMMA WidthFacts ==
    ASSUME NEW s, Timed(s), NEW buckets \in Nat \ {0}
    PROVE  BucketWidth(s, buckets) \in Fraction /\ 0 < BucketWidth(s, buckets).n
<1> DEFINE span == IF Last(s).at > s[1].at THEN Last(s).at - s[1].at ELSE 1
<1>1. span \in Int /\ 0 < span
  <2>1. Last(s).at \in Nat /\ s[1].at \in Nat
    BY TimedFacts
  <2> QED
    BY <2>1
<1>2. BucketWidth(s, buckets) = Frac(span, buckets)
  BY DEF BucketWidth
<1> HIDE DEF span
<1>3. Equals(Frac(span, buckets), span, buckets)
  BY <1>1, FracEquals
<1> QED
  BY <1>1, <1>2, <1>3, SignOf, EqualsFacts

\* The bucket of a record is one of them, and no earlier than that of an earlier record.
LEMMA BucketFacts ==
    ASSUME NEW s, Timed(s), NEW buckets \in Nat \ {0}
    PROVE  /\ \A i \in 1 .. Len(s) : BucketOf(s[i], s, buckets) \in 0 .. buckets - 1
           /\ \A i, j \in 1 .. Len(s) :
                 s[i].at <= s[j].at => BucketOf(s[i], s, buckets) <= BucketOf(s[j], s, buckets)
<1>1. PICK n \in Nat \ {0}, d \in Nat \ {0} : n = BucketWidth(s, buckets).n /\ d = BucketWidth(s, buckets).d
  BY WidthFacts, FractionFacts
<1>2. PICK first \in Nat : first = s[1].at /\ \A i \in 1 .. Len(s) : s[i].at \in Nat /\ first <= s[i].at
  BY TimedFacts
<1> DEFINE idx(a) == ((a - first) * d) \div n
<1>3. \A i \in 1 .. Len(s) : BucketOf(s[i], s, buckets) = Smaller2(idx(s[i].at), buckets - 1)
  BY <1>1, <1>2 DEF BucketOf
<1>4. ASSUME NEW a \in Nat, NEW b \in Nat, first <= a, a <= b
      PROVE  idx(a) \in Nat /\ idx(a) <= idx(b)
  <2>1. (a - first) * d \in Nat /\ (b - first) * d \in Nat /\ (a - first) * d <= (b - first) * d
    <3>1. a - first \in Nat /\ b - first \in Nat /\ a - first <= b - first
      BY <1>4
    <3>2. (a - first) * d <= (b - first) * d
      BY <3>1, MulOrder
    <3> QED
      BY <3>1, <3>2, Products
  <2> QED
    BY <2>1, QuotientGrows
<1>5. \A a \in Nat : first <= a => idx(a) \in Nat
  BY <1>4
<1> HIDE DEF idx
<1>6. \A k \in Nat : Smaller2(k, buckets - 1) \in 0 .. buckets - 1
  BY DEF Smaller2
<1>7. \A k, l \in Nat : k <= l => Smaller2(k, buckets - 1) <= Smaller2(l, buckets - 1)
  BY DEF Smaller2
<1>8. ASSUME NEW i \in 1 .. Len(s)
      PROVE  BucketOf(s[i], s, buckets) \in 0 .. buckets - 1
  <2>1. idx(s[i].at) \in Nat
    BY <1>2, <1>5
  <2> QED
    BY <1>3, <1>6, <2>1
<1>9. ASSUME NEW i \in 1 .. Len(s), NEW j \in 1 .. Len(s), s[i].at <= s[j].at
      PROVE  BucketOf(s[i], s, buckets) <= BucketOf(s[j], s, buckets)
  <2>1. idx(s[i].at) \in Nat /\ idx(s[j].at) \in Nat
    BY <1>2, <1>5
  <2>2. idx(s[i].at) <= idx(s[j].at)
    BY <1>2, <1>4, <1>9
  <2> QED
    BY <1>3, <1>7, <2>1, <2>2
<1> QED
  BY <1>8, <1>9

\* The records of a bucket.
In(s, buckets, i) == Picked(s, {j \in DOMAIN s : BucketOf(s[j], s, buckets) = i})

From(t, s, buckets, i) == \A k \in 1 .. Len(t) : \E j \in 1 .. Len(s) : BucketOf(s[j], s, buckets) = i /\ t[k] = s[j]

LEMMA InFacts ==
    ASSUME NEW s, Timed(s), NEW buckets, NEW i
    PROVE  /\ In(s, buckets, i) \in Seq(Range(s))
           /\ Len(In(s, buckets, i)) = Cardinality({j \in 1 .. Len(s) : BucketOf(s[j], s, buckets) = i})
           /\ From(In(s, buckets, i), s, buckets, i)
<1> DEFINE P == {j \in DOMAIN s : BucketOf(s[j], s, buckets) = i}
           t == In(s, buckets, i)
<1>1. t = Picked(s, P)
  BY DEF In
<1>2. s \in Seq(Range(s)) /\ DOMAIN s = 1 .. Len(s)
  BY TimedFacts DEF Timed
<1>3. {k \in 1 .. Len(s) : k \in P} = {j \in 1 .. Len(s) : BucketOf(s[j], s, buckets) = i}
  BY <1>2
<1>4. \A k \in P : BucketOf(s[k], s, buckets) = i
  OBVIOUS
<1> HIDE DEF P, t
<1>5. t \in Seq(Range(s)) /\ Len(t) = Cardinality({k \in 1 .. Len(s) : k \in P})
  BY <1>1, <1>2, PickedLen
<1>6. Drawn(t, s, P)
  BY <1>1, <1>2, PickedDrawn
<1>7. \A k \in 1 .. Len(t) : \E j \in 1 .. Len(s) : BucketOf(s[j], s, buckets) = i /\ t[k] = s[j]
  BY <1>4, <1>6 DEF Drawn
<1> QED
  BY <1>3, <1>5, <1>7 DEF t, From

\* The buckets of a chart: those from the first to the last with a record.
LEMMA BucketsAre ==
    ASSUME NEW s, Timed(s), NEW buckets \in Nat \ {0}
    PROVE  \E lo \in 0 .. buckets - 1, hi \in 0 .. buckets - 1 :
              /\ In(s, buckets, lo) # <<>> /\ In(s, buckets, hi) # <<>>
              /\ \A j \in 1 .. Len(s) : lo <= BucketOf(s[j], s, buckets) /\ BucketOf(s[j], s, buckets) <= hi
              /\ Buckets(s, buckets) =
                    [j \in 1 .. hi - lo + 1 |->
                        IF In(s, buckets, lo + j - 1) = <<>> THEN EmptyBucket ELSE Bucket(In(s, buckets, lo + j - 1))]
<1> DEFINE used == {i \in 0 .. buckets - 1 : In(s, buckets, i) # <<>>}
           lo == Min(used)
           hi == Max(used)
<1>1. \A j \in 1 .. Len(s) : BucketOf(s[j], s, buckets) \in used
  <2> SUFFICES ASSUME NEW j \in 1 .. Len(s)
               PROVE  BucketOf(s[j], s, buckets) \in used
    OBVIOUS
  <2> DEFINE i == BucketOf(s[j], s, buckets)
             b == [k \in 1 .. Len(s) |-> BucketOf(s[k], s, buckets)]
  <2>1. i \in 0 .. buckets - 1
    BY BucketFacts
  <2>2. Group(b, Len(s), i) = {k \in 1 .. Len(s) : BucketOf(s[k], s, buckets) = i}
    BY DEF Group
  <2>3. b[j] = i /\ Len(s) \in Nat
    BY TimedFacts
  <2> HIDE DEF i, b
  <2>4. Len(In(s, buckets, i)) # 0
    BY <2>2, <2>3, GroupSize, InFacts
  <2> QED
    BY <2>1, <2>4, EmptySeq DEF i
<1>2. used # {} /\ used \subseteq 0 .. buckets - 1 /\ used \subseteq Nat /\ buckets - 1 \in Nat
  BY <1>1, TimedFacts
<1>3. Buckets(s, buckets) =
        [j \in 1 .. hi - lo + 1 |->
            IF In(s, buckets, lo + j - 1) = <<>> THEN EmptyBucket ELSE Bucket(In(s, buckets, lo + j - 1))]
  BY DEF Buckets, In, Timed
<1>4. \A i \in used : In(s, buckets, i) # <<>>
  OBVIOUS
<1> HIDE DEF used
<1>5. lo \in used /\ \A i \in used : lo <= i
  BY <1>2, MinFacts
<1>6. hi \in used /\ \A i \in used : i <= hi
  BY <1>2, MaxFacts
<1> HIDE DEF lo, hi
<1>7. lo \in 0 .. buckets - 1 /\ hi \in 0 .. buckets - 1
  BY <1>2, <1>5, <1>6
<1>8. \A j \in 1 .. Len(s) : lo <= BucketOf(s[j], s, buckets) /\ BucketOf(s[j], s, buckets) <= hi
  BY <1>1, <1>5, <1>6
<1> QED
  BY <1>3, <1>4, <1>5, <1>6, <1>7, <1>8

LEMMA CountFacts ==
    /\ EmptyBucket.count = 0
    /\ \A rs : /\ Bucket(rs).count = Len(rs)
               /\ Bucket(rs).ts = Mean(MomentsOf(rs))
BY DEF EmptyBucket, Bucket, MomentsOf

\* The charts of a history that is not empty.
LEMMA ChartParts ==
    ASSUME NEW s, Timed(s), NEW buckets \in Nat \ {0}
    PROVE  LET bs == Buckets(s, buckets)
               shown == ShownBuckets(s, buckets)
           IN  /\ SumOf([i \in DOMAIN bs |-> bs[i].count]) = Len(s)
               /\ Len(bs) <= buckets
               /\ bs[1].count > 0 /\ Last(bs).count > 0
               /\ \A i \in 1 .. Len(shown) - 1 : Less(shown[i].ts, shown[i + 1].ts)
<1> DEFINE bs == Buckets(s, buckets)
           in(i) == In(s, buckets, i)
           b == [j \in 1 .. Len(s) |-> BucketOf(s[j], s, buckets)]
<1>1. PICK lo \in 0 .. buckets - 1, hi \in 0 .. buckets - 1 :
              /\ in(lo) # <<>> /\ in(hi) # <<>>
              /\ \A j \in 1 .. Len(s) : lo <= BucketOf(s[j], s, buckets) /\ BucketOf(s[j], s, buckets) <= hi
              /\ bs = [j \in 1 .. hi - lo + 1 |->
                          IF in(lo + j - 1) = <<>> THEN EmptyBucket ELSE Bucket(in(lo + j - 1))]
  BY BucketsAre
<1> DEFINE L == hi - lo + 1
<1>2. Len(s) \in Nat \ {0} /\ 1 \in 1 .. Len(s) /\ DOMAIN s = 1 .. Len(s)
  BY TimedFacts
<1>3. \A j \in 1 .. Len(s) : b[j] \in 0 .. buckets - 1 /\ lo <= b[j] /\ b[j] <= hi
  BY <1>1, BucketFacts
<1>4. L \in Nat \ {0} /\ L <= buckets
  <2>1. lo <= b[1] /\ b[1] <= hi /\ b[1] \in Int
    BY <1>2, <1>3
  <2> HIDE DEF b
  <2> QED
    BY <2>1
<1>5. \A i : /\ Len(in(i)) = Cardinality(Group(b, Len(s), i)) /\ Len(in(i)) \in Nat
             /\ in(i) \in Seq(Range(s))
  <2> SUFFICES ASSUME NEW i
               PROVE  /\ Len(in(i)) = Cardinality(Group(b, Len(s), i)) /\ Len(in(i)) \in Nat
                      /\ in(i) \in Seq(Range(s))
    OBVIOUS
  <2>1. Group(b, Len(s), i) = {j \in 1 .. Len(s) : BucketOf(s[j], s, buckets) = i}
    BY DEF Group
  <2> HIDE DEF b
  <2> QED
    BY <2>1, InFacts, LenProperties
<1>6. DOMAIN bs = 1 .. L /\ Len(bs) = L /\ bs \in Seq(Range(bs))
  <2>1. DOMAIN bs = 1 .. L
    BY <1>1
  <2>2. bs \in [1 .. L -> Range(bs)]
    BY <1>1 DEF Range
  <2> HIDE DEF bs, L
  <2> QED
    BY <1>4, <2>1, <2>2, FunctionSeq
<1>7. ASSUME NEW j \in 1 .. L
      PROVE  /\ bs[j].count = Len(in(lo + j - 1))
             /\ in(lo + j - 1) # <<>> => bs[j] = Bucket(in(lo + j - 1))
  <2>1. bs[j] = IF in(lo + j - 1) = <<>> THEN EmptyBucket ELSE Bucket(in(lo + j - 1))
    BY <1>1
  <2> HIDE DEF bs, in
  <2>2. Len(<<>>) = 0
    BY EmptySeq
  <2> QED
    BY <2>1, <2>2, CountFacts
<1> HIDE DEF bs, L, in
<1>8. SumOf([i \in DOMAIN bs |-> bs[i].count]) = Len(s)
  <2> DEFINE counts == [i \in DOMAIN bs |-> bs[i].count]
  <2>1. \A j \in 1 .. L : counts[j] = Cardinality(Group(b, Len(s), lo + j - 1)) /\ counts[j] \in Int
    BY <1>5, <1>6, <1>7
  <2>2. counts \in [1 .. L -> Int]
    BY <1>6, <2>1
  <2> HIDE DEF counts
  <2>3. counts \in Seq(Int) /\ Len(counts) = L
    BY <1>4, <2>2, FunctionSeq
  <2>4. \A k \in 1 .. Len(s) : b[k] \in Int /\ lo <= b[k] /\ b[k] < lo + Len(counts)
    BY <1>3, <2>3 DEF L
  <2> HIDE DEF b
  <2>5. SumOf(counts) = Len(s)
    <3>1. GroupCounts(counts, b, Len(s), lo)
      BY <2>1, <2>3, <2>4 DEF GroupCounts
    <3>2. lo \in Int /\ Len(s) \in Nat
      BY <1>1, <1>2
    <3> QED
      BY <2>3, <3>1, <3>2, GroupsSum
  <2> QED
    BY <2>5 DEF counts
<1>9. bs[1].count > 0 /\ Last(bs).count > 0
  <2>1. 1 \in 1 .. L /\ L \in 1 .. L /\ lo + 1 - 1 = lo /\ lo + L - 1 = hi
    BY <1>4 DEF L
  <2>2. bs[1].count = Len(in(lo)) /\ bs[L].count = Len(in(hi))
    BY <1>7, <2>1
  <2>3. Len(in(lo)) # 0 /\ Len(in(hi)) # 0
    BY <1>1, <1>5, EmptySeq
  <2>4. Last(bs) = bs[L]
    BY <1>6 DEF Last
  <2> QED
    BY <1>5, <2>2, <2>3, <2>4
<1>10. ASSUME NEW i \in 1 .. L, NEW j \in 1 .. L, i < j, bs[i].count > 0, bs[j].count > 0
       PROVE  Less(bs[i].ts, bs[j].ts)
  <2> DEFINE p == lo + i - 1
             q == lo + j - 1
             x == in(p)
             y == in(q)
  <2>1. p \in Int /\ q \in Int /\ p < q
    BY <1>4, <1>10 DEF L
  <2>2. Len(x) # 0 /\ Len(y) # 0 /\ x # <<>> /\ y # <<>>
    BY <1>5, <1>7, <1>10, EmptySeq
  <2>3. bs[i].ts = Mean(MomentsOf(x)) /\ bs[j].ts = Mean(MomentsOf(y))
    <3>1. bs[i] = Bucket(x) /\ bs[j] = Bucket(y)
      BY <1>7, <2>2
    <3> HIDE DEF x, y
    <3> QED
      BY <3>1, CountFacts
  <2>4. /\ x \in Seq(Range(s)) /\ y \in Seq(Range(s)) /\ Len(x) \in Nat /\ Len(y) \in Nat
        /\ \A k \in 1 .. Len(x) : \E m \in 1 .. Len(s) : BucketOf(s[m], s, buckets) = p /\ x[k] = s[m]
        /\ \A k \in 1 .. Len(y) : \E m \in 1 .. Len(s) : BucketOf(s[m], s, buckets) = q /\ y[k] = s[m]
    <3>1. From(in(p), s, buckets, p) /\ From(in(q), s, buckets, q)
      BY InFacts DEF in
    <3> HIDE DEF p, q
    <3> QED
      BY <1>5, <3>1 DEF From
  <2> HIDE DEF x, y, p, q
  <2>5. PICK last \in Nat : \A m \in 1 .. Len(s) : s[m].at \in Nat /\ s[m].at <= last
    BY TimedFacts
  <2> DEFINE ats == {y[k].at : k \in 1 .. Len(y)}
  <2>6. ats \subseteq Nat /\ ats # {}
    <3>1. 1 \in 1 .. Len(y)
      BY <2>2, <2>4
    <3>2. \A k \in 1 .. Len(y) : y[k].at \in Nat
      BY <2>4, <2>5
    <3> QED
      BY <3>1, <3>2
  <2>7. PICK first \in ats : \A a \in ats : first <= a
    <3> HIDE DEF ats
    <3> QED
      BY <2>6, LeastNumber
  <2>8. PICK f \in 1 .. Len(y) : first = y[f].at
    BY <2>7
  <2>9. PICK c \in 1 .. Len(s) : BucketOf(s[c], s, buckets) = q /\ y[f] = s[c]
    BY <2>4, <2>8
  <2>10. first \in Nat /\ s[c].at = first
    BY <2>6, <2>7, <2>8, <2>9
  <2>11. ASSUME NEW k \in 1 .. Len(x)
         PROVE  x[k].at \in Nat /\ 0 <= x[k].at /\ x[k].at <= first - 1
    <3>1. PICK m \in 1 .. Len(s) : BucketOf(s[m], s, buckets) = p /\ x[k] = s[m]
      BY <2>4, <2>11
    <3>2. s[m].at \in Nat
      BY <2>5
    <3>3. ~(s[c].at <= s[m].at)
      <4> SUFFICES ASSUME s[c].at <= s[m].at PROVE FALSE
        OBVIOUS
      <4>1. BucketOf(s[c], s, buckets) <= BucketOf(s[m], s, buckets)
        BY BucketFacts
      <4> QED
        BY <2>1, <2>9, <3>1, <4>1
    <3>4. ~(first <= x[k].at) /\ x[k].at \in Nat
      BY <2>10, <3>1, <3>2, <3>3
    <3> QED
      BY <2>10, <3>4
  <2>12. ASSUME NEW k \in 1 .. Len(y)
         PROVE  y[k].at \in Nat /\ first <= y[k].at /\ y[k].at <= last
    <3>1. y[k].at \in ats
      OBVIOUS
    <3>2. y[k].at \in Nat /\ y[k].at <= last
      BY <2>4, <2>5
    <3> QED
      BY <2>7, <3>1, <3>2
  <2> HIDE DEF ats
  <2>13. /\ bs[i].ts \in Fraction /\ AtMost(bs[i].ts, Whole(first - 1))
         /\ bs[j].ts \in Fraction /\ AtMost(Whole(first), bs[j].ts)
    <3>1. MomentsWithin(x, 0, first - 1)
      BY <2>11 DEF MomentsWithin
    <3>2. MomentsWithin(y, first, last)
      BY <2>12 DEF MomentsWithin
    <3>3. first \in Int /\ last \in Int /\ first - 1 \in Int /\ 0 \in Int
      BY <2>10
    <3>4. bs[i].ts \in Fraction /\ AtMost(bs[i].ts, Whole(first - 1))
      BY <2>2, <2>3, <2>4, <3>1, <3>3, MeanOfTimes
    <3>5. bs[j].ts \in Fraction /\ AtMost(Whole(first), bs[j].ts)
      BY <2>2, <2>3, <2>4, <3>2, <3>3, MeanOfTimes
    <3> QED
      BY <3>4, <3>5
  <2>14. Less(Whole(first - 1), Whole(first)) /\ Whole(first - 1) \in Fraction /\ Whole(first) \in Fraction
    BY <2>10, WholeFacts
  <2> QED
    BY <2>13, <2>14, OrderFacts
<1>11. ASSUME NEW i \in 1 .. Len(ShownBuckets(s, buckets)) - 1
       PROVE  Less(ShownBuckets(s, buckets)[i].ts, ShownBuckets(s, buckets)[i + 1].ts)
  <2> DEFINE shown == ShownBuckets(s, buckets)
             P == {k \in DOMAIN bs : bs[k].count > 0}
  <2>1. shown = Picked(bs, P)
    BY DEF ShownBuckets, bs
  <2>2. \A k \in P : bs[k].count > 0
    OBVIOUS
  <2> HIDE DEF shown, P
  <2>3. shown \in Seq(Range(bs)) /\ \E m : Places(m, bs, P, Len(bs), shown)
    BY <1>6, <2>1, PickedPlaces
  <2>4. PICK m : Places(m, bs, P, Len(bs), shown)
    BY <2>3
  <2>5. Len(shown) \in Nat /\ i \in 1 .. Len(shown) /\ i + 1 \in 1 .. Len(shown) /\ i < i + 1
    <3>1. Len(shown) \in Nat
      BY <2>3, LenProperties
    <3> QED
      BY <1>11, <3>1 DEF shown
  <2>6. m[i] \in 1 .. L /\ m[i + 1] \in 1 .. L /\ m[i] < m[i + 1] /\ m[i] \in P /\ m[i + 1] \in P
        /\ shown[i] = bs[m[i]] /\ shown[i + 1] = bs[m[i + 1]]
    BY <1>6, <2>4, <2>5 DEF Places
  <2>7. Less(bs[m[i]].ts, bs[m[i + 1]].ts)
    BY <1>10, <2>2, <2>6
  <2> QED
    BY <2>6, <2>7 DEF shown
<1> QED
  BY <1>4, <1>6, <1>8, <1>9, <1>11 DEF bs

LEMMA PartitionHolds == Remembered /\ Measured => BucketsPartition
<1> SUFFICES ASSUME Remembered, Measured PROVE BucketsPartition
  OBVIOUS
<1>1. ChartBuckets \in Nat \ {0}
  BY NumbersAssumption
<1>2. CASE history # <<>>
  <2>1. Timed(history)
    <3>1. history \in Seq(Range(history))
      BY HistoryIs, SeqIsSeq DEF IsSeq
    <3> QED
      BY <1>2, <3>1, HistoryIs DEF Timed
  <2> QED
    BY <1>1, <1>2, <2>1, ChartParts DEF BucketsPartition
<1>3. CASE history = <<>>
  <2>1. Len(<<>>) = 0 /\ <<>> \in Seq({}) /\ DOMAIN <<>> = {} /\ <<>> \in Seq(Nat)
    BY EmptySeq
  <2>2. Buckets(history, ChartBuckets) = <<>>
    BY <1>3 DEF Buckets
  <2> DEFINE counts == [i \in DOMAIN <<>> |-> <<>>[i].count]
             P == {i \in DOMAIN <<>> : <<>>[i].count > 0}
  <2>3. SumOf(counts) = 0
    <3>1. counts \in [1 .. 0 -> Int]
      BY <2>1
    <3> HIDE DEF counts
    <3>2. counts \in Seq(Int) /\ Len(counts) = 0
      BY <3>1, FunctionSeq
    <3> QED
      BY <3>2, SumSteps
  <2>4. Len(Picked(<<>>, P)) = 0
    <3>1. {k \in 1 .. 0 : k \in P} = {}
      OBVIOUS
    <3>2. Len(Picked(<<>>, P)) = Cardinality({k \in 1 .. Len(<<>>) : k \in P})
      <4> HIDE DEF P
      <4>1. \A t \in Seq({}) : Len(Picked(t, P)) = Cardinality({k \in 1 .. Len(t) : k \in P})
        BY PickedLen
      <4> QED
        BY <2>1, <4>1
    <3> QED
      BY <2>1, <3>1, <3>2, FS_EmptySet
  <2>5. ShownBuckets(history, ChartBuckets) = Picked(<<>>, P)
    BY <2>2 DEF ShownBuckets
  <2> HIDE DEF P
  <2> QED
    BY <1>1, <1>3, <2>1, <2>2, <2>3, <2>4, <2>5 DEF BucketsPartition
<1> QED
  BY <1>2, <1>3

\* What a chart shows of the history is all of it, in order, and its trends do not
\* say the opposite of what the metrics did, whatever was recorded and forgotten
\* (compute_bucketed_history, compute_trends).
THEOREM ChartsAgreeCorrect == HistorySpec => []ChartsAgree
<1>1. Remembered /\ Measured => ChartsAgree
  BY TrendsSound, PartitionHolds DEF ChartsAgree
<1> QED
  BY <1>1, InitRemembered, NextRemembered, InitMeasured, NextMeasured, PTL DEF HistorySpec

-----------------------------------------------------------------------------
(* The order of scores                                                      *)

\* The score where tier k of n begins, and where a number is between two limits.
TierStart(k, n) == Round(Frac(n - 1 - k, n - 1), 10000)
Share(x, l, h) == Over(Minus(x, Whole(l)), Whole(h - l))

\* Two ways to write one number.
LEMMA SameNumber ==
    ASSUME NEW x, NEW y, NEW a \in Int, NEW b \in Nat \ {0}, Equals(x, a, b),
           NEW c \in Int, NEW d \in Nat \ {0}, Equals(y, c, d), a * d = c * b
    PROVE  AtMost(x, y) /\ AtMost(y, x)
<1>1. a * d \in Int /\ c * b \in Int
  BY Products
<1>2. a * d <= c * b /\ c * b <= a * d
  BY <1>1
<1>3. AtMost(x, y)
  BY <1>2, EqualsOrder
<1>4. AtMost(y, x)
  BY <1>2, EqualsOrder
<1> QED
  BY <1>3, <1>4

\* The tiers begin at scores from 1 down to 0.
LEMMA LevelOrder ==
    ASSUME NEW n \in Nat, n - 1 \in Nat \ {0}, NEW i \in Int, NEW j \in Int, i <= j
    PROVE  /\ TierStart(i, n) \in Fraction /\ TierStart(j, n) \in Fraction /\ AtMost(TierStart(j, n), TierStart(i, n))
           /\ Equals(TierStart(0, n), 1, 1) /\ Equals(TierStart(n - 1, n), 0, 1)
<1>1. PICK m \in Nat \ {0} : m = n - 1
  OBVIOUS
<1>2. PICK a \in Int, b \in Int : a = n - 1 - i /\ b = n - 1 - j /\ b <= a
  OBVIOUS
<1>3. Equals(Frac(a, m), a, m) /\ Equals(Frac(b, m), b, m) /\ Frac(a, m) \in Fraction /\ Frac(b, m) \in Fraction
  BY FracEquals DEF Equals
<1>4. b * m <= a * m
  BY <1>2, MulOrder
<1>5. AtMost(Frac(b, m), Frac(a, m))
  BY <1>3, <1>4, EqualsOrder
<1>6. \A x \in Fraction, y \in Fraction : /\ Round(x, 10000) \in Fraction
                                          /\ AtMost(x, y) => AtMost(Round(x, 10000), Round(y, 10000))
  BY RoundOrder, Tens
<1>7. /\ Round(Frac(a, m), 10000) \in Fraction /\ Round(Frac(b, m), 10000) \in Fraction
      /\ AtMost(Round(Frac(b, m), 10000), Round(Frac(a, m), 10000))
  BY <1>3, <1>5, <1>6
<1>8. /\ TierStart(i, n) \in Fraction /\ TierStart(j, n) \in Fraction /\ AtMost(TierStart(j, n), TierStart(i, n))
  BY <1>1, <1>2, <1>7 DEF TierStart
<1>9. Equals(TierStart(0, n), 1, 1)
  <2>1. Equals(Frac(m, m), m, m) /\ Frac(m, m) \in Fraction
    BY FracEquals DEF Equals
  <2>2. PICK x \in Fraction : x = Frac(m, m)
    BY <2>1
  <2>3. Equals(x, 10000, 10000)
    <3>1. x.n \in Int /\ x.d \in Nat \ {0} /\ x.n * m = m * x.d
      BY <2>1, <2>2, EqualsFacts
    <3>2. PICK p \in Int, q \in Nat \ {0} : p = x.n /\ q = x.d
      BY <3>1
    <3>3. p * m = m * q
      BY <3>1, <3>2
    <3>4. p = q
      <4>1. m * q = q * m
        OBVIOUS
      <4>2. p * m = q * m
        BY <3>3, <4>1
      <4> QED
        BY <4>2, MulOrder
    <3> QED
      BY <3>2, <3>4 DEF Equals
  <2>4. Equals(Round(x, 10000), 10000, 10000)
    <3>1. \A s \in Nat \ {0}, c \in Int : Equals(x, c, s) => Equals(Round(x, s), c, s)
      BY RoundAgain
    <3> QED
      BY <2>3, <3>1, Tens
  <2>5. Equals(Round(x, 10000), 1, 1)
    <3>1. PICK z : z = Round(x, 10000)
      OBVIOUS
    <3>2. z \in Fraction /\ z.n * 10000 = 10000 * z.d /\ z.n \in Int /\ z.d \in Nat
      BY <2>4, <3>1, FractionFacts DEF Equals
    <3>3. z.n * 1 = 1 * z.d
      BY <3>2
    <3> QED
      BY <3>1, <3>2, <3>3 DEF Equals
  <2>6. n - 1 - 0 = m
    BY <1>1
  <2> QED
    BY <1>1, <2>2, <2>5, <2>6 DEF TierStart
<1>10. Equals(TierStart(n - 1, n), 0, 1)
  <2>1. Equals(Frac(0, m), 0, m) /\ Frac(0, m) \in Fraction
    <3>1. \A c \in Int : Equals(Frac(c, m), c, m)
      BY FracEquals
    <3>2. Equals(Frac(0, m), 0, m)
      BY <3>1
    <3> QED
      BY <3>2 DEF Equals
  <2>2. PICK x \in Fraction : x = Frac(0, m)
    BY <2>1
  <2>3. Equals(x, 0, 10000)
    <3>1. x.n \in Int /\ x.d \in Nat \ {0} /\ x.n * m = 0 * x.d
      BY <2>1, <2>2, FractionFacts DEF Equals
    <3>2. PICK p \in Int, q \in Nat \ {0} : p = x.n /\ q = x.d
      BY <3>1
    <3>3. p * m = 0
      BY <3>1, <3>2
    <3>4. p = 0
      BY <3>3
    <3> QED
      BY <3>2, <3>4 DEF Equals
  <2>4. Equals(Round(x, 10000), 0, 10000)
    <3>1. \A s \in Nat \ {0}, c \in Int : Equals(x, c, s) => Equals(Round(x, s), c, s)
      BY RoundAgain
    <3> QED
      BY <2>3, <3>1, Tens
  <2>5. Equals(Round(x, 10000), 0, 1)
    <3>1. PICK z : z = Round(x, 10000)
      OBVIOUS
    <3>2. z \in Fraction /\ z.n * 10000 = 0 * z.d /\ z.n \in Int /\ z.d \in Nat
      BY <2>4, <3>1, FractionFacts DEF Equals
    <3>3. z.n * 1 = 0 * z.d
      BY <3>2
    <3> QED
      BY <3>1, <3>2, <3>3 DEF Equals
  <2>6. n - 1 - (n - 1) = 0
    BY <1>1
  <2> QED
    BY <1>1, <2>2, <2>5, <2>6 DEF TierStart
<1> QED
  BY <1>8, <1>9, <1>10

\* A score between two tiers rises with the share of the way.
LEMMA LerpLevels ==
    ASSUME NEW n \in Nat, n - 1 \in Nat \ {0}, NEW i \in Int, NEW f \in Fraction, NEW g \in Fraction
    PROVE  /\ AtMost(f, g) => AtMost(Lerp(i, f, n), Lerp(i, g, n))
           /\ AtMost(Zero, f) => AtMost(TierStart(i + 1, n), Lerp(i, f, n))
           /\ AtMost(f, Whole(1)) => AtMost(Lerp(i, f, n), TierStart(i, n))
           /\ AtMost(Whole(1), f) => AtMost(TierStart(i, n), Lerp(i, f, n))
<1>1. PICK m \in Nat \ {0}, c \in Int : m = n - 1 /\ c = n - 2 - i /\ c = n - 1 - (i + 1) /\ c + 1 = n - 1 - i
  OBVIOUS
<1>2. /\ Equals(Frac(c, m), c, m) /\ Frac(c, m) \in Fraction
      /\ Equals(Frac(c + 1, m), c + 1, m) /\ Frac(c + 1, m) \in Fraction
      /\ Equals(Frac(1, m), 1, m) /\ Frac(1, m) \in Fraction /\ 0 <= Frac(1, m).n
  <2>1. \A k \in Int : Equals(Frac(k, m), k, m) /\ Frac(k, m) \in Fraction
    BY FracEquals DEF Equals
  <2>2. c + 1 \in Int /\ 1 \in Int
    OBVIOUS
  <2>3. 0 <= Frac(1, m).n
    <3>1. \A k \in Int : 0 <= Frac(k, m).n <=> 0 <= k
      BY <2>1, SignOf
    <3> QED
      BY <3>1
  <2> QED
    BY <2>1, <2>2, <2>3
<1> DEFINE S(x) == Plus(Frac(c, m), Times(x, Frac(1, m)))
<1>3. \A x \in Fraction : S(x) \in Fraction
  BY <1>2, Closed
<1>4. ASSUME NEW x \in Fraction, NEW y \in Fraction, AtMost(x, y)
      PROVE  AtMost(S(x), S(y))
  <2>1. PICK u \in Fraction, v \in Fraction, w \in Fraction, k \in Fraction :
           /\ k = Frac(1, m) /\ u = Times(x, k) /\ v = Times(y, k) /\ w = Frac(c, m) /\ 0 <= k.n
    BY <1>2, Closed
  <2>2. AtMost(u, v)
    BY <1>4, <2>1, TimesOrder
  <2>3. AtMost(w, w)
    BY OrderFacts
  <2>4. AtMost(Plus(w, u), Plus(w, v))
    BY <2>2, <2>3, PlusOrder
  <2> QED
    BY <2>1, <2>4
<1>5. ASSUME NEW x, NEW a \in Int, Equals(x, a, 1)
      PROVE  Equals(S(x), c * m + a * m, m * m)
  <2>1. PICK k, u, w : k = Frac(1, m) /\ u = Times(x, k) /\ w = Frac(c, m) /\ Equals(k, 1, m) /\ Equals(w, c, m)
    BY <1>2
  <2>2. Equals(u, a * 1, 1 * m)
    <3>1. \A p \in Int, q \in Nat \ {0} : Equals(k, p, q) => Equals(Times(x, k), a * p, 1 * q)
      BY <1>5, TimesOf
    <3> QED
      BY <2>1, <3>1
  <2>3. Equals(u, a, m)
    <3>1. a * 1 = a /\ 1 * m = m
      OBVIOUS
    <3> QED
      BY <2>2, <3>1
  <2>4. Equals(Plus(w, u), c * m + a * m, m * m)
    BY <2>1, <2>3, PlusOf
  <2> QED
    BY <2>1, <2>4
<1>6. m * m \in Nat \ {0} /\ c * m \in Int
  BY Products
<1>7. AtMost(S(Zero), Frac(c, m)) /\ AtMost(Frac(c, m), S(Zero))
  <2>1. Equals(Zero, 0, 1)
    BY FractionFacts DEF Equals, Zero, Whole
  <2>2. \A a \in Int : Equals(Zero, a, 1) => Equals(S(Zero), c * m + a * m, m * m)
    BY <1>5
  <2>3. c * m + 0 * m = c * m
    BY <1>6
  <2>4. Equals(S(Zero), c * m, m * m)
    BY <2>1, <2>2, <2>3
  <2>5. (c * m) * m = c * (m * m)
    OBVIOUS
  <2> HIDE DEF S
  <2> QED
    BY <1>2, <1>6, <2>4, <2>5, SameNumber
<1>8. AtMost(S(Whole(1)), Frac(c + 1, m)) /\ AtMost(Frac(c + 1, m), S(Whole(1)))
  <2>1. Equals(Whole(1), 1, 1)
    BY FractionFacts DEF Equals
  <2>2. \A a \in Int : Equals(Whole(1), a, 1) => Equals(S(Whole(1)), c * m + a * m, m * m)
    BY <1>5
  <2>3. c * m + 1 * m = (c + 1) * m /\ (c + 1) * m \in Int /\ c + 1 \in Int
    BY <1>6
  <2>4. Equals(S(Whole(1)), (c + 1) * m, m * m)
    BY <2>1, <2>2, <2>3
  <2>5. ((c + 1) * m) * m = (c + 1) * (m * m)
    OBVIOUS
  <2> HIDE DEF S
  <2> QED
    BY <1>2, <1>6, <2>3, <2>4, <2>5, SameNumber
<1>9. \A x \in Fraction, y \in Fraction : AtMost(x, y) => AtMost(Round(x, 10000), Round(y, 10000))
  BY RoundOrder, Tens
<1>10. /\ \A x \in Fraction : Lerp(i, x, n) = Round(S(x), 10000)
       /\ TierStart(i + 1, n) = Round(Frac(c, m), 10000) /\ TierStart(i, n) = Round(Frac(c + 1, m), 10000)
  BY <1>1 DEF Lerp, TierStart
<1>11. Zero \in Fraction /\ Whole(1) \in Fraction
  BY FractionFacts
<1> HIDE DEF S
<1>12. AtMost(f, g) => AtMost(Lerp(i, f, n), Lerp(i, g, n))
  BY <1>3, <1>4, <1>9, <1>10
<1>13. ASSUME AtMost(Zero, f) PROVE AtMost(TierStart(i + 1, n), Lerp(i, f, n))
  <2>1. AtMost(Frac(c, m), S(f))
    BY <1>2, <1>3, <1>4, <1>7, <1>11, <1>13, OrderFacts
  <2> QED
    BY <1>2, <1>3, <1>9, <1>10, <2>1
<1>14. ASSUME AtMost(f, Whole(1)) PROVE AtMost(Lerp(i, f, n), TierStart(i, n))
  <2>1. AtMost(S(f), Frac(c + 1, m))
    BY <1>2, <1>3, <1>4, <1>8, <1>11, <1>14, OrderFacts
  <2> QED
    BY <1>2, <1>3, <1>9, <1>10, <2>1
<1>15. ASSUME AtMost(Whole(1), f) PROVE AtMost(TierStart(i, n), Lerp(i, f, n))
  <2>1. AtMost(Frac(c + 1, m), S(f))
    BY <1>2, <1>3, <1>4, <1>8, <1>11, <1>15, OrderFacts
  <2> QED
    BY <1>2, <1>3, <1>9, <1>10, <2>1
<1> QED
  BY <1>12, <1>13, <1>14, <1>15

\* The share of the way between two limits.
LEMMA ShareFacts ==
    ASSUME NEW l \in Int, NEW h \in Int, l < h, NEW x \in Fraction, NEW y \in Fraction
    PROVE  /\ Share(x, l, h) \in Fraction
           /\ AtMost(Whole(l), x) => AtMost(Zero, Share(x, l, h))
           /\ AtMost(x, Whole(h)) => AtMost(Share(x, l, h), Whole(1))
           /\ AtMost(Whole(h), x) => AtMost(Whole(1), Share(x, l, h))
           /\ AtMost(x, y) => AtMost(Share(x, l, h), Share(y, l, h))
<1>1. PICK w \in Nat \ {0}, L \in Fraction, H \in Fraction, W \in Fraction :
         /\ w = h - l /\ L = Whole(l) /\ H = Whole(h) /\ W = Whole(w) /\ 0 < W.n
         /\ Equals(L, l, 1) /\ Equals(H, h, 1) /\ Equals(W, w, 1)
  <2>1. h - l \in Nat \ {0}
    OBVIOUS
  <2>2. \A a \in Int : Whole(a) \in Fraction /\ Equals(Whole(a), a, 1) /\ (0 < a => 0 < Whole(a).n)
    BY WholeFacts
  <2> QED
    BY <2>1, <2>2
<1> DEFINE Sh(z) == Over(Minus(z, L), W)
<1>2. \A z \in Fraction : Minus(z, L) \in Fraction /\ Sh(z) \in Fraction
  BY <1>1, Closed
<1>3. ASSUME NEW u \in Fraction, NEW v \in Fraction, AtMost(u, v)
      PROVE  AtMost(Sh(u), Sh(v))
  <2>1. PICK p \in Fraction, q \in Fraction : p = Minus(u, L) /\ q = Minus(v, L)
    BY <1>2
  <2>2. AtMost(p, q)
    BY <1>3, <2>1, MinusOrder
  <2>3. AtMost(Over(p, W), Over(q, W))
    BY <1>1, <2>2, OverOrder
  <2> QED
    BY <2>1, <2>3
<1>4. ASSUME NEW z, NEW a \in Int, Equals(z, a, 1)
      PROVE  Equals(Sh(z), a - l, w)
  <2>1. Equals(Minus(z, L), a * 1 - l * 1, 1 * 1)
    <3>1. \A b \in Nat \ {0} : Equals(z, a, b) /\ Equals(L, l, b) => Equals(Minus(z, L), a * b - l * b, b * b)
      BY PlusOf
    <3> QED
      BY <1>1, <1>4, <3>1
  <2>2. a * 1 - l * 1 = a - l /\ 1 * 1 = 1 /\ a - l \in Int
    OBVIOUS
  <2>3. Equals(Minus(z, L), a - l, 1)
    BY <2>1, <2>2
  <2>4. PICK p, e : e \in Int /\ p = Minus(z, L) /\ e = a - l /\ Equals(p, e, 1)
    BY <2>2, <2>3
  <2>5. Equals(Over(p, W), e * 1, 1 * w)
    <3>1. \A b \in Nat \ {0} : Equals(p, e, b) /\ Equals(W, w, b) => Equals(Over(p, W), e * b, b * w)
      BY <2>4, OverOf
    <3> QED
      BY <1>1, <2>4, <3>1
  <2>6. e * 1 = e /\ 1 * w = w
    BY <2>4
  <2> QED
    BY <2>4, <2>5, <2>6
<1>5. AtMost(Zero, Sh(L)) /\ AtMost(Sh(L), Zero)
  <2>1. Equals(Sh(L), 0, w)
    <3>1. l - l = 0
      OBVIOUS
    <3> QED
      BY <1>1, <1>4, <3>1
  <2>2. Equals(Zero, 0, 1)
    BY FractionFacts DEF Equals, Zero, Whole
  <2>3. 0 * w = 0 * 1 /\ 0 * 1 = 0 * w /\ 0 \in Int /\ 1 \in Nat \ {0}
    OBVIOUS
  <2> HIDE DEF Sh
  <2>4. \A a \in Int, b \in Nat \ {0} : Equals(Zero, a, b) => \A c \in Int : Equals(Sh(L), c, w) /\ a * w = c * b => AtMost(Zero, Sh(L)) /\ AtMost(Sh(L), Zero)
    BY SameNumber
  <2> QED
    BY <2>1, <2>2, <2>3, <2>4
<1>6. AtMost(Whole(1), Sh(H)) /\ AtMost(Sh(H), Whole(1))
  <2>1. Equals(Sh(H), w, w)
    BY <1>1, <1>4
  <2>2. Equals(Whole(1), 1, 1)
    BY FractionFacts DEF Equals
  <2>3. 1 * w = w * 1 /\ w \in Int
    OBVIOUS
  <2> HIDE DEF Sh
  <2>4. \A a \in Int, b \in Nat \ {0} : Equals(Whole(1), a, b) => \A c \in Int : Equals(Sh(H), c, w) /\ a * w = c * b => AtMost(Whole(1), Sh(H)) /\ AtMost(Sh(H), Whole(1))
    BY SameNumber
  <2> QED
    BY <2>1, <2>2, <2>3, <2>4
<1>7. \A z : Share(z, l, h) = Sh(z)
  BY <1>1 DEF Share
<1>8. Zero \in Fraction /\ Whole(1) \in Fraction
  BY FractionFacts
<1> HIDE DEF Sh
<1>9. ASSUME AtMost(L, x) PROVE AtMost(Zero, Sh(x))
  BY <1>2, <1>3, <1>5, <1>8, <1>9, OrderFacts
<1>10. ASSUME AtMost(x, H) PROVE AtMost(Sh(x), Whole(1))
  BY <1>2, <1>3, <1>6, <1>8, <1>10, OrderFacts
<1>11. ASSUME AtMost(H, x) PROVE AtMost(Whole(1), Sh(x))
  BY <1>2, <1>3, <1>6, <1>8, <1>11, OrderFacts
<1> QED
  BY <1>1, <1>2, <1>3, <1>7, <1>9, <1>10, <1>11

LEMMA OneMinus ==
    ASSUME NEW f \in Fraction, NEW g \in Fraction
    PROVE  /\ Minus(Whole(1), f) \in Fraction
           /\ AtMost(f, Whole(1)) => AtMost(Zero, Minus(Whole(1), f))
           /\ AtMost(Zero, f) => AtMost(Minus(Whole(1), f), Whole(1))
           /\ AtMost(f, g) => AtMost(Minus(Whole(1), g), Minus(Whole(1), f))
<1>1. PICK o \in Fraction : o = Whole(1) /\ Equals(o, 1, 1)
  BY FractionFacts DEF Equals
<1>2. Minus(o, f) \in Fraction
  BY Closed
<1>3. AtMost(f, o) => AtMost(Zero, Minus(o, f))
  BY <1>2, MinusSign, SignFacts
<1>4. AtMost(f, g) => AtMost(Minus(o, g), Minus(o, f))
  BY MinusOrder
<1>5. ASSUME AtMost(Zero, f) PROVE AtMost(Minus(o, f), o)
  <2>1. PICK a \in Int, b \in Nat \ {0} : a = f.n /\ b = f.d /\ Equals(f, a, b)
    BY Ratio
  <2>2. 0 <= a
    BY <1>5, <2>1, SignFacts
  <2>3. Equals(Minus(o, f), 1 * b - a * 1, 1 * b)
    <3>1. \A p \in Int, q \in Nat \ {0} : Equals(o, p, q) => Equals(Minus(o, f), p * b - a * q, q * b)
      BY <2>1, PlusOf
    <3> QED
      BY <1>1, <3>1
  <2>4. PICK e \in Int : e = b - a /\ e <= b
    BY <2>2
  <2>5. 1 * b - a * 1 = e /\ 1 * b = b
    BY <2>4
  <2>6. Equals(Minus(o, f), e, b)
    BY <2>3, <2>5
  <2>7. e * 1 <= 1 * b
    BY <2>4
  <2>8. \A p \in Int, q \in Nat \ {0} : Equals(o, p, q) /\ e * q <= p * b => AtMost(Minus(o, f), o)
    BY <2>6, EqualsOrder
  <2> QED
    BY <1>1, <2>7, <2>8
<1> QED
  BY <1>1, <1>2, <1>3, <1>4, <1>5

LimitsDrop(limits) == \A i, j \in 1 .. Len(limits) : i < j => limits[j] < limits[i]
LimitsRise(limits, last) == \A i, j \in 1 .. last : i < j => limits[i] < limits[j]

LEMMA LimitsAscend ==
    ASSUME NEW limits, Tiered(limits), NEW last \in 1 .. Len(limits),
           \A i \in 1 .. last - 1 : limits[i] < limits[i + 1]
    PROVE  LimitsRise(limits, last)
<1>1. Len(limits) \in Nat /\ \A i \in 1 .. Len(limits) : limits[i] \in Int
  BY LimitFacts
<1> DEFINE S == {k \in 0 .. last : \A i, j \in 1 .. k : i < j => limits[i] < limits[j]}
<1>2. 0 \in S
  BY <1>1
<1>3. ASSUME NEW k \in Nat, k < last, k \in S
      PROVE  k + 1 \in S
  <2>1. ASSUME NEW i \in 1 .. k + 1, NEW j \in 1 .. k + 1, i < j
        PROVE  limits[i] < limits[j]
    <3>1. CASE j \in 1 .. k
      BY <1>3, <2>1, <3>1
    <3>2. CASE j = k + 1
      <4>1. k \in 1 .. last - 1 /\ k \in 1 .. k /\ i \in 1 .. k /\ limits[k] < limits[k + 1]
        BY <1>3, <2>1, <3>2
      <4>2. limits[i] \in Int /\ limits[k] \in Int /\ limits[k + 1] \in Int
        BY <1>1, <1>3, <4>1
      <4>3. CASE i = k
        BY <3>2, <4>1, <4>3
      <4>4. CASE i < k
        <5>1. limits[i] < limits[k]
          BY <1>3, <4>1, <4>4
        <5> QED
          BY <3>2, <4>1, <4>2, <5>1
      <4> QED
        BY <1>3, <4>1, <4>3, <4>4
    <3> QED
      BY <2>1, <3>1, <3>2
  <2> QED
    BY <1>1, <1>3, <2>1
<1>4. last \in S
  <2>1. last \in 0 .. last /\ last \in Nat
    BY <1>1
  <2> HIDE DEF S
  <2>2. 0 .. last \subseteq S
    BY <1>2, <1>3, <2>1, InductUpTo
  <2> QED
    BY <2>1, <2>2
<1>5. \A i, j \in 1 .. last : i < j => limits[i] < limits[j]
  BY <1>4
<1> QED
  BY <1>5 DEF LimitsRise

LEMMA LimitsDescend ==
    ASSUME NEW limits, Tiered(limits), \A i \in 1 .. Len(limits) - 1 : limits[i + 1] < limits[i]
    PROVE  LimitsDrop(limits)
<1>1. Len(limits) \in Nat /\ \A i \in 1 .. Len(limits) : limits[i] \in Int
  BY LimitFacts
<1> DEFINE S == {k \in 0 .. Len(limits) : \A i, j \in 1 .. k : i < j => limits[j] < limits[i]}
<1>2. 0 \in S
  BY <1>1
<1>3. ASSUME NEW k \in Nat, k < Len(limits), k \in S
      PROVE  k + 1 \in S
  <2>1. ASSUME NEW i \in 1 .. k + 1, NEW j \in 1 .. k + 1, i < j
        PROVE  limits[j] < limits[i]
    <3>1. CASE j \in 1 .. k
      BY <1>3, <2>1, <3>1
    <3>2. CASE j = k + 1
      <4>1. k \in 1 .. Len(limits) - 1 /\ k \in 1 .. k /\ i \in 1 .. k /\ limits[k + 1] < limits[k]
        BY <1>1, <1>3, <2>1, <3>2
      <4>2. limits[i] \in Int /\ limits[k] \in Int /\ limits[k + 1] \in Int
        BY <1>1, <1>3, <4>1
      <4>3. CASE i = k
        BY <3>2, <4>1, <4>3
      <4>4. CASE i < k
        <5>1. limits[k] < limits[i]
          BY <1>3, <4>1, <4>4
        <5> QED
          BY <3>2, <4>1, <4>2, <5>1
      <4> QED
        BY <1>3, <4>1, <4>3, <4>4
    <3> QED
      BY <2>1, <3>1, <3>2
  <2> QED
    BY <1>1, <1>3, <2>1
<1>4. Len(limits) \in S
  <2>1. Len(limits) \in 0 .. Len(limits)
    BY <1>1
  <2> HIDE DEF S
  <2>2. 0 .. Len(limits) \subseteq S
    BY <1>1, <1>2, <1>3, InductUpTo
  <2> QED
    BY <2>1, <2>2
<1> QED
  BY <1>4 DEF LimitsDrop

\* Whether a value reaches a tier.
Reaches(x, limits, hib, i) == IF hib THEN AtMost(Whole(limits[i]), x) ELSE Less(x, Whole(limits[i]))

\* The tier of a value is the first it reaches, or the last.
InTier(x, limits, hib, k) ==
    /\ k \in 0 .. Len(limits) - 1
    /\ \A j \in 1 .. k : ~Reaches(x, limits, hib, j)
    /\ Reaches(x, limits, hib, k + 1) \/ (k = Len(limits) - 1 /\ ~Reaches(x, limits, hib, k + 1))

\* tier_idx gives the first tier whose limit a value reaches, or the last.
LEMMA TierIdxIs ==
    ASSUME NEW x \in Fraction, NEW limits, Tiered(limits), NEW hib \in BOOLEAN
    PROVE  InTier(x, limits, hib, TierIdx(x, limits, hib))
<1> DEFINE hits == {i \in DOMAIN limits : Reaches(x, limits, hib, i)}
<1>1. Len(limits) \in Nat /\ Len(limits) >= 2 /\ DOMAIN limits = 1 .. Len(limits) /\ limits # <<>>
  BY LenProperties, EmptySeq DEF Tiered
<1>2. x # None
  BY FractionFacts
<1>3. TierIdx(x, limits, hib) = IF hits = {} THEN Len(limits) - 1 ELSE Min(hits) - 1
  BY <1>1, <1>2 DEF TierIdx, Reaches
<1>4. CASE hits = {}
  <2>1. TierIdx(x, limits, hib) = Len(limits) - 1
    BY <1>3, <1>4
  <2>2. \A j \in 1 .. Len(limits) : ~Reaches(x, limits, hib, j)
    BY <1>1, <1>4
  <2> QED
    BY <1>1, <2>1, <2>2 DEF InTier
<1>5. CASE hits # {}
  <2>1. hits \subseteq Nat
    BY <1>1
  <2> HIDE DEF hits
  <2>2. PICK m : m = Min(hits) /\ m \in hits /\ \A i \in hits : m <= i
    BY <1>5, <2>1, MinFacts
  <2>3. m \in 1 .. Len(limits) /\ Reaches(x, limits, hib, m)
    BY <1>1, <2>2 DEF hits
  <2>4. \A j \in 1 .. m - 1 : j \notin hits
    BY <2>2, <2>3
  <2>5. \A j \in 1 .. m - 1 : ~Reaches(x, limits, hib, j)
    <3>1. \A j \in 1 .. m - 1 : j \in 1 .. Len(limits)
      BY <1>1, <2>3
    <3> QED
      BY <1>1, <2>4, <3>1 DEF hits
  <2>6. TierIdx(x, limits, hib) = m - 1 /\ m - 1 \in 0 .. Len(limits) - 1 /\ (m - 1) + 1 = m
    BY <1>1, <1>3, <1>5, <2>2, <2>3
  <2> QED
    BY <2>3, <2>5, <2>6 DEF InTier
<1> QED
  BY <1>4, <1>5

\* Where a value is among the limits of a higher-is-better metric, with its score.
RisesIn(x, limits, i) ==
    /\ i \in 1 .. Len(limits) - 1
    /\ AtMost(x, Whole(limits[i])) /\ Less(Whole(limits[i + 1]), x)
    /\ RisingScore(x, limits) = Lerp(i - 1, Share(x, limits[i + 1], limits[i]), Len(limits))
RisingPlace(x, limits) ==
    \/ AtMost(Whole(limits[1]), x) /\ Equals(RisingScore(x, limits), 1, 1)
    \/ AtMost(x, Whole(limits[Len(limits)])) /\ Equals(RisingScore(x, limits), 0, 1)
    \/ Less(x, Whole(limits[1])) /\ \E i \in 1 .. Len(limits) - 1 : RisesIn(x, limits, i)

LEMMA Constants ==
    Equals(Zero, 0, 1) /\ Equals(Whole(1), 1, 1) /\ Zero \in Fraction /\ Whole(1) \in Fraction
BY FractionFacts DEF Equals, Zero, Whole

LEMMA LimitOrder ==
    ASSUME NEW limits, Tiered(limits)
    PROVE  \A i, j \in 1 .. Len(limits) :
              /\ limits[i] < limits[j] <=> Less(Whole(limits[i]), Whole(limits[j]))
              /\ limits[i] <= limits[j] <=> AtMost(Whole(limits[i]), Whole(limits[j]))
BY LimitFacts, WholeFacts

\* Where a value is among the limits of a higher-is-better metric.
LEMMA RisingPlaces ==
    ASSUME NEW x \in Fraction, NEW limits, Tiered(limits), LimitsDrop(limits)
    PROVE  RisingPlace(x, limits)
<1> DEFINE n == Len(limits)
           bands == {i \in 1 .. n - 1 : AtMost(x, Whole(limits[i])) /\ Less(Whole(limits[i + 1]), x)}
           i == Min(bands)
           tier == TierIdx(x, limits, TRUE)
<1>0. n \in Nat /\ n - 1 \in Nat \ {0} /\ 1 \in 1 .. n /\ n \in 1 .. n
  BY LimitFacts
<1>1. \A k \in 1 .. n : limits[k] \in Int /\ Whole(limits[k]) \in Fraction
  BY LimitFacts
<1>2. RisingScore(x, limits) =
        CASE ~Less(x, Whole(limits[1])) -> Whole(1)
          [] Less(x, Whole(limits[1])) /\ Less(x, Whole(limits[n])) -> Zero
          [] bands # {} /\ Less(x, Whole(limits[1])) /\ ~Less(x, Whole(limits[n])) ->
                Lerp(i - 1, Share(x, limits[i + 1], limits[i]), n)
          [] OTHER -> TierStart(tier, n)
  BY DEF RisingScore, AtMost, Share, TierStart
<1> HIDE DEF n
<1>3. CASE ~Less(x, Whole(limits[1]))
  <2>1. RisingScore(x, limits) = Whole(1)
    BY <1>2, <1>3
  <2> QED
    BY <1>3, <2>1, Constants DEF RisingPlace, AtMost
<1>4. CASE Less(x, Whole(limits[1])) /\ Less(x, Whole(limits[n]))
  <2>1. RisingScore(x, limits) = Zero
    BY <1>2, <1>4
  <2>2. AtMost(x, Whole(limits[n]))
    BY <1>0, <1>1, <1>4, OrderFacts
  <2> QED
    BY <2>1, <2>2, Constants DEF RisingPlace, n
<1>5. CASE bands # {} /\ Less(x, Whole(limits[1])) /\ ~Less(x, Whole(limits[n]))
  <2>1. i \in bands
    <3>1. bands \subseteq Nat
      BY <1>0
    <3> HIDE DEF bands
    <3> QED
      BY <1>5, <3>1, MinFacts
  <2>2. RisingScore(x, limits) = Lerp(i - 1, Share(x, limits[i + 1], limits[i]), n)
    <3> HIDE DEF bands, i
    <3> QED
      BY <1>2, <1>5
  <2>3. PICK k : k = i /\ k \in 1 .. n - 1 /\ AtMost(x, Whole(limits[k])) /\ Less(Whole(limits[k + 1]), x)
    BY <2>1
  <2> HIDE DEF i
  <2>4. RisingScore(x, limits) = Lerp(k - 1, Share(x, limits[k + 1], limits[k]), n)
    BY <2>2, <2>3
  <2>5. RisesIn(x, limits, k)
    BY <2>3, <2>4 DEF RisesIn, n
  <2> QED
    BY <1>5, <2>3, <2>5 DEF RisingPlace, n
<1>6. CASE bands = {} /\ Less(x, Whole(limits[1])) /\ ~Less(x, Whole(limits[n]))
  <2>1. RisingScore(x, limits) = TierStart(tier, n)
    <3> HIDE DEF bands, i, tier
    <3> QED
      BY <1>2, <1>6
  <2>2. AtMost(x, Whole(limits[n]))
    <3>1. SUFFICES ASSUME Less(Whole(limits[n]), x) PROVE FALSE
      BY <1>0, <1>1, OrderFacts
    <3> DEFINE T == {k \in 1 .. n : Less(Whole(limits[k]), x)}
    <3>2. PICK m \in T : \A k \in T : m <= k
      <4>1. T \subseteq Nat /\ T # {}
        BY <1>0, <3>1
      <4> HIDE DEF T
      <4> QED
        BY <4>1, LeastNumber
    <3>3. m \in 1 .. n /\ Less(Whole(limits[m]), x)
      BY <3>2
    <3>4. m # 1
      BY <1>0, <1>1, <1>6, <3>3, OrderFacts
    <3>5. m - 1 \in 1 .. n /\ m - 1 \in 1 .. n - 1 /\ (m - 1) + 1 = m /\ ~(m <= m - 1)
      BY <1>0, <3>3, <3>4
    <3>6. ~Less(Whole(limits[m - 1]), x)
      BY <3>2, <3>5
    <3>7. m - 1 \in bands
      BY <3>3, <3>5, <3>6 DEF AtMost
    <3> HIDE DEF bands
    <3> QED
      BY <1>6, <3>7
  <2>3. tier = n - 1
    <3>1. PICK k : k = tier /\ InTier(x, limits, TRUE, k)
      <4>1. \A h \in BOOLEAN : InTier(x, limits, h, TierIdx(x, limits, h))
        BY TierIdxIs
      <4> QED
        BY <4>1
    <3>2. k \in 0 .. n - 1 /\ (k = n - 1 \/ AtMost(Whole(limits[k + 1]), x))
      BY <3>1 DEF InTier, Reaches, n
    <3>3. ASSUME k # n - 1 PROVE FALSE
      <4>1. k + 1 \in 1 .. n /\ k + 1 < n
        BY <1>0, <3>2, <3>3
      <4>2. AtMost(Whole(limits[k + 1]), Whole(limits[n]))
        BY <1>0, <1>1, <2>2, <3>2, <3>3, <4>1, OrderFacts
      <4>3. limits[n] < limits[k + 1]
        BY <1>0, <4>1 DEF LimitsDrop, n
      <4> QED
        BY <1>0, <1>1, <4>1, <4>2, <4>3, LimitOrder, OrderFacts DEF n
    <3> QED
      BY <3>1, <3>3
  <2>4. Equals(TierStart(tier, n), 0, 1)
    <3>1. 0 \in Int /\ 0 <= 0
      OBVIOUS
    <3>2. Equals(TierStart(n - 1, n), 0, 1)
      BY <1>0, <3>1, LevelOrder
    <3> QED
      BY <2>3, <3>2
  <2> QED
    BY <2>1, <2>2, <2>4 DEF RisingPlace, n
<1> HIDE DEF bands, i, tier
<1> QED
  BY <1>3, <1>4, <1>5, <1>6

\* What a band says of a score: it lies between the two tiers, and reaches the
\* upper one at the upper limit.
LEMMA RisingBand ==
    ASSUME NEW x \in Fraction, NEW y \in Fraction, NEW limits, Tiered(limits),
           NEW i, RisesIn(x, limits, i)
    PROVE  /\ RisingScore(x, limits) \in Fraction
           /\ AtMost(TierStart(i, Len(limits)), RisingScore(x, limits))
           /\ AtMost(RisingScore(x, limits), TierStart(i - 1, Len(limits)))
           /\ AtMost(Whole(limits[i]), x) => AtMost(TierStart(i - 1, Len(limits)), RisingScore(x, limits))
           /\ RisesIn(y, limits, i) /\ AtMost(x, y) => AtMost(RisingScore(x, limits), RisingScore(y, limits))
<1> DEFINE n == Len(limits)
           l == limits[i + 1]
           h == limits[i]
<1>1. n \in Nat /\ n - 1 \in Nat \ {0}
  BY LimitFacts
<1>2. i \in 1 .. n - 1 /\ i \in 1 .. n /\ i + 1 \in 1 .. n /\ i - 1 \in Int /\ (i - 1) + 1 = i
  BY <1>1 DEF RisesIn
<1>3. l \in Int /\ h \in Int /\ Whole(l) \in Fraction /\ Whole(h) \in Fraction
  BY <1>2, LimitFacts
<1>4. /\ AtMost(x, Whole(h)) /\ Less(Whole(l), x)
      /\ RisingScore(x, limits) = Lerp(i - 1, Share(x, l, h), n)
  BY DEF RisesIn
<1>5. RisesIn(y, limits, i) => RisingScore(y, limits) = Lerp(i - 1, Share(y, l, h), n)
  BY DEF RisesIn
<1> HIDE DEF n, l, h
<1>6. l < h
  <2>1. Less(Whole(l), Whole(h))
    BY <1>3, <1>4, OrderFacts
  <2> QED
    BY <1>3, <2>1, WholeFacts
<1>7. PICK f \in Fraction, g \in Fraction : f = Share(x, l, h) /\ g = Share(y, l, h)
  BY <1>3, <1>6, ShareFacts
<1>8. AtMost(Whole(l), x)
  BY <1>3, <1>4, OrderFacts
<1>9. /\ AtMost(Zero, f) /\ AtMost(f, Whole(1)) /\ (AtMost(Whole(h), x) => AtMost(Whole(1), f))
      /\ (AtMost(x, y) => AtMost(f, g))
  BY <1>3, <1>4, <1>6, <1>7, <1>8, ShareFacts
<1>10. PICK k \in Int : k = i - 1 /\ k + 1 = i
  BY <1>2
<1>11. /\ AtMost(f, g) => AtMost(Lerp(k, f, n), Lerp(k, g, n))
       /\ AtMost(TierStart(k + 1, n), Lerp(k, f, n)) /\ AtMost(Lerp(k, f, n), TierStart(k, n))
       /\ AtMost(Whole(1), f) => AtMost(TierStart(k, n), Lerp(k, f, n))
       /\ Lerp(k, f, n) \in Fraction
  BY <1>1, <1>9, LerpLevels, LerpType
<1> QED
  BY <1>4, <1>5, <1>7, <1>9, <1>10, <1>11 DEF n, h

\* The score lies within the tier that tier_idx gives.
LEMMA RisingAgrees ==
    ASSUME NEW x \in Fraction, NEW limits, Tiered(limits), LimitsDrop(limits),
           NEW k, InTier(x, limits, TRUE, k)
    PROVE  /\ RisingScore(x, limits) \in Fraction
           /\ AtMost(TierStart(k, Len(limits)), RisingScore(x, limits))
           /\ AtMost(RisingScore(x, limits), TierStart(Larger2(k - 1, 0), Len(limits)))
<1> DEFINE n == Len(limits)
           s == RisingScore(x, limits)
           best == Larger2(k - 1, 0)
<1>1. n \in Nat /\ n - 1 \in Nat \ {0} /\ 1 \in 1 .. n /\ n \in 1 .. n
  BY LimitFacts
<1>2. \A i \in 1 .. n : limits[i] \in Int /\ Whole(limits[i]) \in Fraction
  BY LimitFacts
<1>3. /\ k \in 0 .. n - 1 /\ \A i \in 1 .. k : ~AtMost(Whole(limits[i]), x)
      /\ AtMost(Whole(limits[k + 1]), x) \/ (k = n - 1 /\ ~AtMost(Whole(limits[k + 1]), x))
  BY DEF InTier, Reaches
<1>4. k \in Int /\ k + 1 \in 1 .. n /\ best \in 0 .. n - 1 /\ best <= k /\ k - 1 <= best /\ (k > 0 => best = k - 1)
  BY <1>1, <1>3 DEF Larger2
<1>5. \A i, j \in 1 .. n : AtMost(Whole(limits[i]), Whole(limits[j])) => j <= i
  <2>1. \A i, j \in 1 .. n : i < j => limits[j] < limits[i]
    BY DEF LimitsDrop
  <2>2. \A i, j \in 1 .. n : AtMost(Whole(limits[i]), Whole(limits[j])) => limits[i] <= limits[j]
    BY LimitOrder
  <2> QED
    BY <1>1, <1>2, <2>1, <2>2
<1>6. /\ \A i, j \in Int : i <= j => /\ TierStart(i, n) \in Fraction /\ TierStart(j, n) \in Fraction
                                     /\ AtMost(TierStart(j, n), TierStart(i, n))
      /\ Equals(TierStart(0, n), 1, 1) /\ Equals(TierStart(n - 1, n), 0, 1)
  <2>1. \A i, j \in Int : i <= j => /\ TierStart(i, n) \in Fraction /\ TierStart(j, n) \in Fraction
                                     /\ AtMost(TierStart(j, n), TierStart(i, n))
    BY <1>1, LevelOrder
  <2>2. 0 \in Int /\ 0 <= 0
    OBVIOUS
  <2> QED
    BY <1>1, <2>1, <2>2, LevelOrder
<1>7. RisingPlace(x, limits)
  BY RisingPlaces
<1>8. best \in Int /\ TierStart(k, n) \in Fraction /\ TierStart(best, n) \in Fraction /\ AtMost(TierStart(k, n), TierStart(best, n))
  BY <1>4, <1>6
<1>9. \A a \in Int : \A y, z : Equals(y, a, 1) /\ Equals(z, a, 1) => y \in Fraction /\ AtMost(y, z) /\ AtMost(z, y)
  <2> SUFFICES ASSUME NEW a \in Int, NEW y, NEW z, Equals(y, a, 1), Equals(z, a, 1)
               PROVE  y \in Fraction /\ AtMost(y, z) /\ AtMost(z, y)
    OBVIOUS
  <2>1. \A b \in Nat \ {0} : Equals(y, a, b) /\ Equals(z, a, b) => AtMost(y, z) /\ AtMost(z, y)
    BY SameNumber
  <2> QED
    BY <2>1 DEF Equals
<1>10. CASE AtMost(Whole(limits[1]), x) /\ Equals(s, 1, 1)
  <2>1. k = 0
    <3>1. 1 \in 1 .. k \/ k = 0
      BY <1>3
    <3> QED
      BY <1>3, <1>10, <3>1
  <2>2. best = 0
    BY <1>4, <2>1
  <2>3. s \in Fraction /\ AtMost(s, TierStart(0, n)) /\ AtMost(TierStart(0, n), s)
    <3>1. Equals(TierStart(0, n), 1, 1) /\ 1 \in Int
      BY <1>6
    <3> HIDE DEF s
    <3>2. s \in Fraction /\ \A z : Equals(z, 1, 1) => AtMost(s, z) /\ AtMost(z, s)
      BY <1>9, <1>10
    <3> QED
      BY <3>1, <3>2
  <2> QED
    BY <2>1, <2>2, <2>3
<1>11. CASE AtMost(x, Whole(limits[n])) /\ Equals(s, 0, 1)
  <2>1. k = n - 1
    <3>1. ASSUME k # n - 1 PROVE FALSE
      <4>1. AtMost(Whole(limits[k + 1]), Whole(limits[n]))
        BY <1>1, <1>2, <1>3, <1>4, <1>11, <3>1, OrderFacts
      <4>2. n <= k + 1
        BY <1>1, <1>4, <1>5, <4>1
      <4> QED
        BY <1>1, <1>3, <3>1, <4>2
    <3> QED
      BY <3>1
  <2>2. s \in Fraction /\ AtMost(s, TierStart(k, n)) /\ AtMost(TierStart(k, n), s)
    <3>1. Equals(TierStart(k, n), 0, 1) /\ 0 \in Int
      BY <1>6, <2>1
    <3> HIDE DEF s
    <3>2. s \in Fraction /\ \A z : Equals(z, 0, 1) => AtMost(s, z) /\ AtMost(z, s)
      BY <1>9, <1>11
    <3> QED
      BY <3>1, <3>2
  <2>3. AtMost(s, TierStart(best, n))
    BY <1>8, <2>2, OrderFacts
  <2> QED
    BY <2>2, <2>3
<1>12. ASSUME Less(x, Whole(limits[1])), NEW i \in 1 .. n - 1, RisesIn(x, limits, i)
       PROVE  /\ s \in Fraction /\ AtMost(TierStart(k, n), s) /\ AtMost(s, TierStart(best, n))
  <2>1. AtMost(x, Whole(limits[i])) /\ Less(Whole(limits[i + 1]), x)
    BY <1>12 DEF RisesIn
  <2>2. i \in 1 .. n /\ i + 1 \in 1 .. n /\ i - 1 \in Int /\ i \in Int
    BY <1>1
  <2>3. AtMost(Whole(limits[i + 1]), x)
    BY <1>2, <2>1, <2>2, OrderFacts
  <2>4. k <= i
    <3>1. ASSUME i < k PROVE FALSE
      <4>1. i + 1 \in 1 .. k
        BY <1>4, <2>2, <3>1
      <4> QED
        BY <1>3, <2>3, <4>1
    <3> QED
      BY <1>4, <2>2, <3>1
  <2>5. AtMost(Whole(limits[k + 1]), x)
    <3>1. CASE k = n - 1
      <4>1. i = k /\ i + 1 = k + 1
        BY <1>1, <2>4, <3>1
      <4> QED
        BY <2>3, <4>1
    <3>2. CASE k # n - 1
      BY <1>3, <3>2
    <3> QED
      BY <3>1, <3>2
  <2>6. AtMost(Whole(limits[k + 1]), Whole(limits[i]))
    BY <1>2, <1>4, <2>1, <2>2, <2>5, OrderFacts
  <2>7. i <= k + 1
    BY <1>4, <1>5, <2>2, <2>6
  <2>8. /\ s \in Fraction /\ AtMost(TierStart(i, n), s) /\ AtMost(s, TierStart(i - 1, n))
        /\ AtMost(Whole(limits[i]), x) => AtMost(TierStart(i - 1, n), s)
    BY <1>12, RisingBand
  <2> HIDE DEF n, s
  <2>9. CASE k = i
    <3>1. best = i - 1
      BY <1>4, <2>9
    <3> QED
      BY <2>8, <2>9, <3>1
  <2>10. CASE k + 1 = i
    <3>1. k = i - 1
      BY <1>4, <2>10
    <3>2. AtMost(TierStart(k, n), s) /\ AtMost(s, TierStart(k, n))
      BY <2>5, <2>8, <2>10, <3>1
    <3>3. AtMost(s, TierStart(best, n))
      BY <1>8, <2>8, <3>2, OrderFacts
    <3> QED
      BY <2>8, <3>2, <3>3
  <2>11. k = i \/ k + 1 = i
    BY <1>4, <2>2, <2>4, <2>7
  <2> QED
    BY <2>9, <2>10, <2>11
<1> QED
  BY <1>7, <1>10, <1>11, <1>12 DEF RisingPlace

LEMMA RisingBounds ==
    ASSUME NEW x \in Fraction, NEW limits, Tiered(limits), LimitsDrop(limits)
    PROVE  AtMost(Zero, RisingScore(x, limits)) /\ AtMost(RisingScore(x, limits), Whole(1))
<1> DEFINE n == Len(limits)
           s == RisingScore(x, limits)
<1>1. n \in Nat /\ n - 1 \in Nat \ {0} /\ n - 1 \in Int /\ 0 <= n - 1 /\ 0 \in Int
  BY LimitFacts
<1>2. PICK k : InTier(x, limits, TRUE, k)
  <2>1. \A h \in BOOLEAN : InTier(x, limits, h, TierIdx(x, limits, h))
    BY TierIdxIs
  <2> QED
    BY <2>1
<1>3. PICK b : b = Larger2(k - 1, 0) /\ k \in Int /\ b \in Int /\ 0 <= b /\ k <= n - 1
  BY <1>1, <1>2 DEF InTier, Larger2
<1>4. s \in Fraction /\ AtMost(TierStart(k, n), s) /\ AtMost(s, TierStart(b, n))
  BY <1>2, <1>3, RisingAgrees
<1> HIDE DEF n, s
<1>5. /\ AtMost(TierStart(b, n), TierStart(0, n)) /\ AtMost(TierStart(n - 1, n), TierStart(k, n))
      /\ TierStart(b, n) \in Fraction /\ TierStart(k, n) \in Fraction
      /\ TierStart(0, n) \in Fraction /\ TierStart(n - 1, n) \in Fraction
      /\ Equals(TierStart(0, n), 1, 1) /\ Equals(TierStart(n - 1, n), 0, 1)
  BY <1>1, <1>3, LevelOrder
<1>6. AtMost(TierStart(0, n), Whole(1)) /\ AtMost(Zero, TierStart(n - 1, n))
  <2>1. \A y, z : \A a \in Int, b2 \in Nat \ {0} : Equals(y, a, b2) /\ Equals(z, a, b2) => AtMost(y, z)
    BY SameNumber
  <2>2. 1 \in Nat \ {0} /\ 0 \in Int /\ 1 \in Int
    OBVIOUS
  <2> QED
    BY <1>5, <2>1, <2>2, Constants
<1>7. AtMost(s, TierStart(0, n)) /\ AtMost(TierStart(n - 1, n), s)
  BY <1>4, <1>5, OrderFacts
<1> QED
  BY <1>4, <1>5, <1>6, <1>7, Constants, OrderFacts DEF s

\* A higher value scores no less.
LEMMA RisingOrder ==
    ASSUME NEW x \in Fraction, NEW y \in Fraction, NEW limits, Tiered(limits), LimitsDrop(limits), AtMost(x, y)
    PROVE  AtMost(RisingScore(x, limits), RisingScore(y, limits))
<1> DEFINE n == Len(limits)
           s == RisingScore(x, limits)
           t == RisingScore(y, limits)
<1>1. n \in Nat /\ n - 1 \in Nat \ {0} /\ 1 \in 1 .. n /\ n \in 1 .. n
  BY LimitFacts
<1>2. \A i \in 1 .. n : limits[i] \in Int /\ Whole(limits[i]) \in Fraction
  BY LimitFacts
<1>3. s \in Fraction /\ t \in Fraction /\ AtMost(Zero, t) /\ AtMost(s, Whole(1))
  BY RisingType, RisingBounds
<1>4. \A i, j \in 1 .. n : Less(Whole(limits[i]), Whole(limits[j])) => j < i
  <2>1. \A i, j \in 1 .. n : i < j => limits[j] < limits[i]
    BY DEF LimitsDrop
  <2>2. \A i, j \in 1 .. n : Less(Whole(limits[i]), Whole(limits[j])) => limits[i] < limits[j]
    BY LimitOrder
  <2> QED
    BY <1>1, <1>2, <2>1, <2>2
<1>5. RisingPlace(x, limits) /\ RisingPlace(y, limits)
  BY RisingPlaces
<1>6. /\ \A u : Equals(u, 1, 1) => AtMost(Whole(1), u)
      /\ \A u : Equals(u, 0, 1) => AtMost(u, Zero)
  <2>1. \A u, v : \A a \in Int, b \in Nat \ {0} : Equals(u, a, b) /\ Equals(v, a, b) => AtMost(u, v)
    BY SameNumber
  <2>2. 1 \in Nat \ {0} /\ 0 \in Int /\ 1 \in Int
    OBVIOUS
  <2> QED
    BY <2>1, <2>2, Constants
<1>7. CASE AtMost(Whole(limits[1]), y) /\ Equals(t, 1, 1)
  <2>1. AtMost(Whole(1), t)
    BY <1>6, <1>7
  <2> QED
    BY <1>3, <2>1, Constants, OrderFacts
<1>8. CASE AtMost(x, Whole(limits[n])) /\ Equals(s, 0, 1)
  <2>1. AtMost(s, Zero)
    BY <1>6, <1>8
  <2> QED
    BY <1>3, <2>1, Constants, OrderFacts
<1>9. ASSUME AtMost(Whole(limits[1]), x), ~AtMost(Whole(limits[1]), y)
      PROVE  FALSE
  BY <1>1, <1>2, <1>9, OrderFacts
<1>10. ASSUME AtMost(Whole(limits[1]), x), AtMost(y, Whole(limits[n]))
       PROVE  FALSE
  <2>1. AtMost(Whole(limits[1]), y)
    BY <1>9, <1>10
  <2>2. AtMost(Whole(limits[1]), Whole(limits[n]))
    BY <1>1, <1>2, <1>10, <2>1, OrderFacts
  <2>3. limits[1] <= limits[n]
    BY <1>1, <2>2, LimitOrder
  <2>4. limits[n] < limits[1]
    <3>1. 1 < n
      <4>1. \A m \in Nat : m - 1 \in Nat \ {0} => 1 < m
        OBVIOUS
      <4> QED
        BY <1>1, <4>1
    <3>2. \A i, j \in 1 .. n : i < j => limits[j] < limits[i]
      BY DEF LimitsDrop
    <3> QED
      BY <1>1, <3>1, <3>2
  <2> QED
    BY <1>1, <1>2, <2>3, <2>4
<1>11. ASSUME NEW i \in 1 .. n - 1, RisesIn(x, limits, i), AtMost(y, Whole(limits[n]))
       PROVE  FALSE
  <2>1. i + 1 \in 1 .. n /\ Less(Whole(limits[i + 1]), x)
    BY <1>1, <1>11 DEF RisesIn
  <2>2. Less(Whole(limits[i + 1]), Whole(limits[n]))
    BY <1>1, <1>2, <1>11, <2>1, OrderFacts
  <2>3. n < i + 1
    BY <1>1, <1>4, <2>1, <2>2
  <2> QED
    BY <1>1, <2>1, <2>3
<1>12. ASSUME NEW i \in 1 .. n - 1, RisesIn(x, limits, i), NEW j \in 1 .. n - 1, RisesIn(y, limits, j)
       PROVE  AtMost(s, t)
  <2>1. /\ i \in Int /\ j \in Int /\ i - 1 \in Int /\ i \in 1 .. n /\ i + 1 \in 1 .. n /\ j \in 1 .. n
        /\ Less(Whole(limits[i + 1]), x) /\ AtMost(y, Whole(limits[j]))
    BY <1>1, <1>12 DEF RisesIn
  <2>2. Less(Whole(limits[i + 1]), Whole(limits[j]))
    BY <1>1, <1>2, <2>1, OrderFacts
  <2>3. j < i + 1
    BY <1>1, <1>4, <2>1, <2>2
  <2>4. CASE i = j
    BY <1>12, <2>4, RisingBand
  <2>5. CASE j < i
    <3>1. AtMost(s, TierStart(i - 1, n))
      BY <1>12, RisingBand
    <3>2. AtMost(TierStart(j, n), t)
      BY <1>12, RisingBand
    <3>3. j <= i - 1
      BY <2>1, <2>5
    <3> HIDE DEF n, s, t
    <3>4. AtMost(TierStart(i - 1, n), TierStart(j, n)) /\ TierStart(i - 1, n) \in Fraction /\ TierStart(j, n) \in Fraction
      BY <1>1, <2>1, <3>3, LevelOrder
    <3> QED
      BY <1>3, <3>1, <3>2, <3>4, OrderFacts
  <2> QED
    BY <2>1, <2>3, <2>4, <2>5
<1>13. \A z : ~(Less(z, Whole(limits[1])) /\ AtMost(Whole(limits[1]), z))
  BY DEF AtMost
<1> QED
  BY <1>5, <1>7, <1>8, <1>9, <1>10, <1>11, <1>12, <1>13 DEF RisingPlace

\* The limits of a lower-is-better metric, whose last tier has none.
OpenLimits(limits) == Open(limits) /\ LimitsRise(limits, Len(limits) - 1)

FallsIn(x, limits, i) ==
    /\ i \in 1 .. Len(limits) - 2
    /\ AtMost(Whole(limits[i]), x) /\ Less(x, Whole(limits[i + 1]))
    /\ FallingScore(x, limits) = Lerp(i, Minus(Whole(1), Share(x, limits[i], limits[i + 1])), Len(limits))
FallingPlace(x, limits) ==
    \/ Less(x, Whole(limits[1])) /\ Equals(FallingScore(x, limits), 1, 1)
    \/ AtMost(Whole(limits[Len(limits) - 1]), x) /\ Equals(FallingScore(x, limits), 0, 1)
    \/ AtMost(Whole(limits[1]), x) /\ \E i \in 1 .. Len(limits) - 2 : FallsIn(x, limits, i)

\* Where a value is among the limits of a lower-is-better metric.
LEMMA FallingPlaces ==
    ASSUME NEW x \in Fraction, NEW limits, Tiered(limits), OpenLimits(limits)
    PROVE  FallingPlace(x, limits)
<1> DEFINE n == Len(limits)
           last == n - 1
           bands == {i \in 1 .. last - 1 : AtMost(Whole(limits[i]), x) /\ Less(x, Whole(limits[i + 1]))}
           i == Min(bands)
<1>0. n \in Nat /\ n - 1 \in Nat \ {0} /\ last \in 1 .. n /\ last - 1 = n - 2 /\ 1 \in 1 .. n
  <2>1. n \in Nat /\ n - 1 \in Nat \ {0}
    BY LimitFacts
  <2> HIDE DEF n
  <2> QED
    BY <2>1
<1>1. \A k \in 1 .. n : limits[k] \in Int /\ Whole(limits[k]) \in Fraction
  BY LimitFacts
<1>2. FallingScore(x, limits) =
        CASE Less(x, Whole(limits[1])) -> Whole(1)
          [] AtMost(Whole(limits[last]), x) /\ ~Less(x, Whole(limits[1])) -> Zero
          [] OTHER -> Lerp(i, Minus(Whole(1), Share(x, limits[i], limits[i + 1])), n)
  BY DEF FallingScore, Share, OpenLimits
<1> HIDE DEF n, last
<1>3. CASE Less(x, Whole(limits[1]))
  <2>1. FallingScore(x, limits) = Whole(1)
    BY <1>2, <1>3
  <2> QED
    BY <1>3, <2>1, Constants DEF FallingPlace
<1>4. CASE AtMost(Whole(limits[last]), x) /\ ~Less(x, Whole(limits[1]))
  <2>1. FallingScore(x, limits) = Zero
    BY <1>2, <1>4
  <2> QED
    BY <1>4, <2>1, Constants DEF FallingPlace, last, n
<1>5. CASE ~AtMost(Whole(limits[last]), x) /\ ~Less(x, Whole(limits[1]))
  <2>1. AtMost(Whole(limits[1]), x) /\ Less(x, Whole(limits[last]))
    BY <1>0, <1>1, <1>5, OrderFacts
  <2>2. bands # {}
    BY <1>0, <2>1, BandExists DEF n
  <2>3. i \in bands
    <3>1. bands \subseteq Nat
      BY <1>0
    <3> HIDE DEF bands
    <3> QED
      BY <2>2, <3>1, MinFacts
  <2>4. FallingScore(x, limits) = Lerp(i, Minus(Whole(1), Share(x, limits[i], limits[i + 1])), n)
    <3> HIDE DEF bands, i
    <3> QED
      BY <1>2, <1>5
  <2>5. PICK k : k = i /\ k \in 1 .. last - 1 /\ AtMost(Whole(limits[k]), x) /\ Less(x, Whole(limits[k + 1]))
    BY <2>3
  <2> HIDE DEF i
  <2>6. FallingScore(x, limits) = Lerp(k, Minus(Whole(1), Share(x, limits[k], limits[k + 1])), n)
    BY <2>4, <2>5
  <2>7. k \in 1 .. n - 2
    BY <1>0, <2>5
  <2>8. FallsIn(x, limits, k)
    BY <2>5, <2>6, <2>7 DEF FallsIn, n
  <2> QED
    BY <2>1, <2>7, <2>8 DEF FallingPlace, n
<1> QED
  BY <1>3, <1>4, <1>5

\* The score of a value between two limits lies between those of the tiers.
LEMMA FallingBand ==
    ASSUME NEW x \in Fraction, NEW y \in Fraction, NEW limits, Tiered(limits),
           NEW i, FallsIn(x, limits, i)
    PROVE  /\ FallingScore(x, limits) \in Fraction
           /\ AtMost(TierStart(i + 1, Len(limits)), FallingScore(x, limits))
           /\ AtMost(FallingScore(x, limits), TierStart(i, Len(limits)))
           /\ FallsIn(y, limits, i) /\ AtMost(x, y) => AtMost(FallingScore(y, limits), FallingScore(x, limits))
<1> DEFINE n == Len(limits)
           l == limits[i]
           h == limits[i + 1]
<1>1. n \in Nat /\ n - 1 \in Nat \ {0}
  BY LimitFacts
<1>2. i \in 1 .. n /\ i + 1 \in 1 .. n
  BY <1>1 DEF FallsIn
<1>3. l \in Int /\ h \in Int /\ Whole(l) \in Fraction /\ Whole(h) \in Fraction
  BY <1>2, LimitFacts
<1>4. /\ AtMost(Whole(l), x) /\ Less(x, Whole(h))
      /\ FallingScore(x, limits) = Lerp(i, Minus(Whole(1), Share(x, l, h)), n)
  BY DEF FallsIn
<1>5. FallsIn(y, limits, i) => FallingScore(y, limits) = Lerp(i, Minus(Whole(1), Share(y, l, h)), n)
  BY DEF FallsIn
<1> HIDE DEF n, l, h
<1>6. l < h
  <2>1. Less(Whole(l), Whole(h))
    BY <1>3, <1>4, OrderFacts
  <2> QED
    BY <1>3, <2>1, WholeFacts
<1>7. PICK p \in Fraction, q \in Fraction : p = Share(x, l, h) /\ q = Share(y, l, h)
  BY <1>3, <1>6, ShareFacts
<1>8. AtMost(x, Whole(h))
  BY <1>3, <1>4, OrderFacts
<1>9. AtMost(Zero, p) /\ AtMost(p, Whole(1)) /\ (AtMost(x, y) => AtMost(p, q))
  BY <1>3, <1>4, <1>6, <1>7, <1>8, ShareFacts
<1>10. PICK f \in Fraction, g \in Fraction : f = Minus(Whole(1), p) /\ g = Minus(Whole(1), q)
  BY OneMinus
<1>11. AtMost(Zero, f) /\ AtMost(f, Whole(1)) /\ (AtMost(x, y) => AtMost(g, f))
  BY <1>9, <1>10, OneMinus
<1>12. PICK k \in Int : k = i
  BY <1>2
<1>13. /\ AtMost(g, f) => AtMost(Lerp(k, g, n), Lerp(k, f, n))
       /\ AtMost(TierStart(k + 1, n), Lerp(k, f, n)) /\ AtMost(Lerp(k, f, n), TierStart(k, n))
       /\ Lerp(k, f, n) \in Fraction
  BY <1>1, <1>11, LerpLevels, LerpType
<1> QED
  BY <1>4, <1>5, <1>7, <1>10, <1>11, <1>12, <1>13 DEF n, h

LEMMA FallingAgrees ==
    ASSUME NEW x \in Fraction, NEW limits, Tiered(limits), OpenLimits(limits),
           NEW k, InTier(x, limits, FALSE, k)
    PROVE  /\ FallingScore(x, limits) \in Fraction
           /\ AtMost(TierStart(Smaller2(k + 1, Len(limits) - 1), Len(limits)), FallingScore(x, limits))
           /\ AtMost(FallingScore(x, limits), TierStart(k, Len(limits)))
<1> DEFINE n == Len(limits)
           s == FallingScore(x, limits)
           worst == Smaller2(k + 1, n - 1)
<1>1. n \in Nat /\ n - 1 \in Nat \ {0} /\ 1 \in 1 .. n /\ n \in 1 .. n /\ n - 1 \in 1 .. n
  <2>1. n \in Nat /\ n - 1 \in Nat \ {0}
    BY LimitFacts
  <2> HIDE DEF n
  <2> QED
    BY <2>1
<1>2. \A i \in 1 .. n : limits[i] \in Int /\ Whole(limits[i]) \in Fraction
  BY LimitFacts
<1>3. /\ k \in 0 .. n - 1 /\ \A i \in 1 .. k : ~Less(x, Whole(limits[i]))
      /\ Less(x, Whole(limits[k + 1])) \/ (k = n - 1 /\ ~Less(x, Whole(limits[k + 1])))
  BY DEF InTier, Reaches
<1>4. k \in Int /\ k + 1 \in 1 .. n /\ worst \in 0 .. n - 1 /\ worst \in Int /\ k <= worst /\ (k < n - 1 => worst = k + 1)
      /\ (k = n - 1 => worst = k)
  BY <1>1, <1>3 DEF Smaller2
<1>5. \A i, j \in 1 .. n - 1 : Less(Whole(limits[i]), Whole(limits[j])) => i < j
  <2>1. \A i, j \in 1 .. n - 1 : i < j => limits[i] < limits[j]
    BY DEF LimitsRise, OpenLimits
  <2>2. \A i, j \in 1 .. n : Less(Whole(limits[i]), Whole(limits[j])) => limits[i] < limits[j]
    BY LimitOrder
  <2>3. \A i \in 1 .. n - 1 : i \in 1 .. n
    BY <1>1
  <2> HIDE DEF n
  <2>4. ASSUME NEW i \in 1 .. n - 1, NEW j \in 1 .. n - 1, Less(Whole(limits[i]), Whole(limits[j]))
        PROVE  i < j
    <3>1. limits[i] < limits[j] /\ limits[i] \in Int /\ limits[j] \in Int
      BY <1>2, <2>2, <2>3, <2>4
    <3>2. j < i => limits[j] < limits[i]
      BY <2>1
    <3>3. ~(j < i) /\ i # j
      BY <3>1, <3>2
    <3> QED
      BY <1>1, <3>3
  <2> QED
    BY <2>4
<1>6. /\ \A i, j \in Int : i <= j => /\ TierStart(i, n) \in Fraction /\ TierStart(j, n) \in Fraction
                                     /\ AtMost(TierStart(j, n), TierStart(i, n))
      /\ Equals(TierStart(0, n), 1, 1) /\ Equals(TierStart(n - 1, n), 0, 1)
  <2>1. \A i, j \in Int : i <= j => /\ TierStart(i, n) \in Fraction /\ TierStart(j, n) \in Fraction
                                     /\ AtMost(TierStart(j, n), TierStart(i, n))
    BY <1>1, LevelOrder
  <2>2. 0 \in Int /\ 0 <= 0
    OBVIOUS
  <2> QED
    BY <1>1, <2>1, <2>2, LevelOrder
<1>7. FallingPlace(x, limits)
  BY FallingPlaces
<1>8. TierStart(k, n) \in Fraction /\ TierStart(worst, n) \in Fraction /\ AtMost(TierStart(worst, n), TierStart(k, n))
  BY <1>4, <1>6
<1>9. \A a \in Int : \A y, z : Equals(y, a, 1) /\ Equals(z, a, 1) => y \in Fraction /\ AtMost(y, z) /\ AtMost(z, y)
  <2> SUFFICES ASSUME NEW a \in Int, NEW y, NEW z, Equals(y, a, 1), Equals(z, a, 1)
               PROVE  y \in Fraction /\ AtMost(y, z) /\ AtMost(z, y)
    OBVIOUS
  <2>1. \A b \in Nat \ {0} : Equals(y, a, b) /\ Equals(z, a, b) => AtMost(y, z) /\ AtMost(z, y)
    BY SameNumber
  <2> QED
    BY <2>1 DEF Equals
<1>10. CASE Less(x, Whole(limits[1])) /\ Equals(s, 1, 1)
  <2>1. k = 0
    <3>1. 1 \in 1 .. k \/ k = 0
      BY <1>3
    <3> QED
      BY <1>3, <1>10, <3>1
  <2>2. s \in Fraction /\ AtMost(s, TierStart(0, n)) /\ AtMost(TierStart(0, n), s)
    <3>1. Equals(TierStart(0, n), 1, 1) /\ 1 \in Int
      BY <1>6
    <3> HIDE DEF s
    <3>2. s \in Fraction /\ \A z : Equals(z, 1, 1) => AtMost(s, z) /\ AtMost(z, s)
      BY <1>9, <1>10
    <3> QED
      BY <3>1, <3>2
  <2>3. AtMost(TierStart(worst, n), s)
    BY <1>8, <2>1, <2>2, OrderFacts
  <2> QED
    BY <2>1, <2>2, <2>3
<1>11. CASE AtMost(Whole(limits[n - 1]), x) /\ Equals(s, 0, 1)
  <2>1. Less(Whole(limits[n]), Whole(limits[n - 1]))
    <3>1. limits[n] <= 0 /\ 0 < limits[n - 1]
      BY DEF OpenLimits, Open
    <3>2. limits[n] < limits[n - 1]
      BY <1>1, <1>2, <3>1
    <3> QED
      BY <1>1, <3>2, LimitOrder
  <2>2. k = n - 1
    <3>1. ASSUME k < n - 1 PROVE FALSE
      <4>1. Less(x, Whole(limits[k + 1])) /\ k + 1 \in 1 .. n - 1
        BY <1>1, <1>3, <1>4, <3>1
      <4>2. Less(Whole(limits[n - 1]), Whole(limits[k + 1]))
        BY <1>1, <1>2, <1>4, <1>11, <4>1, OrderFacts
      <4>3. n - 1 \in 1 .. n - 1
        BY <1>1
      <4>4. n - 1 < k + 1
        BY <1>5, <4>1, <4>2, <4>3
      <4> QED
        BY <1>1, <1>4, <3>1, <4>4
    <3> QED
      BY <1>1, <1>3, <3>1
  <2>3. s \in Fraction /\ AtMost(s, TierStart(k, n)) /\ AtMost(TierStart(k, n), s)
    <3>1. Equals(TierStart(k, n), 0, 1) /\ 0 \in Int
      BY <1>6, <2>2
    <3> HIDE DEF s
    <3>2. s \in Fraction /\ \A z : Equals(z, 0, 1) => AtMost(s, z) /\ AtMost(z, s)
      <4>1. Equals(s, 0, 1)
        BY <1>11
      <4> HIDE DEF s
      <4>2. \A y, z : Equals(y, 0, 1) /\ Equals(z, 0, 1) => y \in Fraction /\ AtMost(y, z) /\ AtMost(z, y)
        BY <1>9
      <4> QED
        BY ONLY <4>1, <4>2
    <3> QED
      BY <3>1, <3>2
  <2>4. worst = k
    BY <1>4, <2>2
  <2> QED
    BY <2>3, <2>4
<1>12. ASSUME NEW i \in 1 .. n - 2, FallsIn(x, limits, i)
       PROVE  /\ s \in Fraction /\ AtMost(TierStart(worst, n), s) /\ AtMost(s, TierStart(k, n))
  <2>1. AtMost(Whole(limits[i]), x) /\ Less(x, Whole(limits[i + 1]))
    BY <1>12 DEF FallsIn
  <2>2. i \in 1 .. n /\ i + 1 \in 1 .. n /\ i \in Int /\ i \in 1 .. n - 1 /\ i + 1 \in 1 .. n - 1 /\ i < n - 1
    BY <1>1
  <2>3. k <= i
    <3>1. ASSUME i < k PROVE FALSE
      <4>1. i + 1 \in 1 .. k
        BY <1>4, <2>2, <3>1
      <4> QED
        BY <1>3, <2>1, <4>1
    <3> QED
      BY <1>4, <2>2, <3>1
  <2>4. Less(x, Whole(limits[k + 1])) /\ k + 1 \in 1 .. n - 1
    BY <1>1, <1>3, <1>4, <2>2, <2>3
  <2>5. Less(Whole(limits[i]), Whole(limits[k + 1]))
    BY <1>2, <1>4, <2>1, <2>2, <2>4, OrderFacts
  <2>6. i < k + 1
    BY <1>5, <2>2, <2>4, <2>5
  <2>7. k = i
    BY <1>4, <2>2, <2>3, <2>6
  <2>8. worst = i + 1
    BY <1>4, <2>2, <2>7
  <2>9. s \in Fraction /\ AtMost(TierStart(i + 1, n), s) /\ AtMost(s, TierStart(i, n))
    BY <1>12, FallingBand
  <2> QED
    BY <2>7, <2>8, <2>9
<1> QED
  BY <1>7, <1>10, <1>11, <1>12 DEF FallingPlace

LEMMA FallingBounds ==
    ASSUME NEW x \in Fraction, NEW limits, Tiered(limits), OpenLimits(limits)
    PROVE  AtMost(Zero, FallingScore(x, limits)) /\ AtMost(FallingScore(x, limits), Whole(1))
<1> DEFINE n == Len(limits)
           s == FallingScore(x, limits)
<1>1. n \in Nat /\ n - 1 \in Nat \ {0} /\ n - 1 \in Int /\ 0 <= n - 1 /\ 0 \in Int
  BY LimitFacts
<1>2. PICK k : InTier(x, limits, FALSE, k)
  <2>1. \A h \in BOOLEAN : InTier(x, limits, h, TierIdx(x, limits, h))
    BY TierIdxIs
  <2> QED
    BY <2>1
<1>3. PICK b : b = Smaller2(k + 1, n - 1) /\ k \in Int /\ b \in Int /\ 0 <= k /\ b <= n - 1
  BY <1>1, <1>2 DEF InTier, Smaller2
<1>4. s \in Fraction /\ AtMost(TierStart(b, n), s) /\ AtMost(s, TierStart(k, n))
  BY <1>2, <1>3, FallingAgrees
<1> HIDE DEF n, s
<1>5. /\ AtMost(TierStart(k, n), TierStart(0, n)) /\ AtMost(TierStart(n - 1, n), TierStart(b, n))
      /\ TierStart(b, n) \in Fraction /\ TierStart(k, n) \in Fraction
      /\ TierStart(0, n) \in Fraction /\ TierStart(n - 1, n) \in Fraction
      /\ Equals(TierStart(0, n), 1, 1) /\ Equals(TierStart(n - 1, n), 0, 1)
  BY <1>1, <1>3, LevelOrder
<1>6. AtMost(TierStart(0, n), Whole(1)) /\ AtMost(Zero, TierStart(n - 1, n))
  <2>1. \A y, z : \A a \in Int, b2 \in Nat \ {0} : Equals(y, a, b2) /\ Equals(z, a, b2) => AtMost(y, z)
    BY SameNumber
  <2>2. 1 \in Nat \ {0} /\ 0 \in Int /\ 1 \in Int
    OBVIOUS
  <2> QED
    BY <1>5, <2>1, <2>2, Constants
<1>7. AtMost(s, TierStart(0, n)) /\ AtMost(TierStart(n - 1, n), s)
  BY <1>4, <1>5, OrderFacts
<1> QED
  BY <1>4, <1>5, <1>6, <1>7, Constants, OrderFacts DEF s

\* A lower value scores no less.
LEMMA FallingOrder ==
    ASSUME NEW x \in Fraction, NEW y \in Fraction, NEW limits, Tiered(limits), OpenLimits(limits), AtMost(x, y)
    PROVE  AtMost(FallingScore(y, limits), FallingScore(x, limits))
<1> DEFINE n == Len(limits)
           s == FallingScore(x, limits)
           t == FallingScore(y, limits)
<1>1. n \in Nat /\ n - 1 \in Nat \ {0} /\ 1 \in 1 .. n /\ n - 1 \in 1 .. n /\ 1 \in 1 .. n - 1 /\ n - 1 \in 1 .. n - 1
  <2>1. n \in Nat /\ n - 1 \in Nat \ {0}
    BY LimitFacts
  <2> HIDE DEF n
  <2> QED
    BY <2>1
<1>2. \A i \in 1 .. n : limits[i] \in Int /\ Whole(limits[i]) \in Fraction
  BY LimitFacts
<1>3. s \in Fraction /\ t \in Fraction /\ AtMost(Zero, s) /\ AtMost(t, Whole(1))
  BY FallingType, FallingBounds
<1>4. \A i, j \in 1 .. n - 1 : Less(Whole(limits[i]), Whole(limits[j])) => i < j
  <2>1. \A i, j \in 1 .. n - 1 : i < j => limits[i] < limits[j]
    BY DEF LimitsRise, OpenLimits
  <2>2. \A i, j \in 1 .. n : Less(Whole(limits[i]), Whole(limits[j])) => limits[i] < limits[j]
    BY LimitOrder
  <2>3. \A i \in 1 .. n - 1 : i \in 1 .. n
    BY <1>1
  <2> HIDE DEF n
  <2>4. ASSUME NEW i \in 1 .. n - 1, NEW j \in 1 .. n - 1, Less(Whole(limits[i]), Whole(limits[j]))
        PROVE  i < j
    <3>1. limits[i] < limits[j] /\ limits[i] \in Int /\ limits[j] \in Int
      BY <1>2, <2>2, <2>3, <2>4
    <3>2. j < i => limits[j] < limits[i]
      BY <2>1
    <3>3. ~(j < i) /\ i # j
      BY <3>1, <3>2
    <3> QED
      BY <1>1, <3>3
  <2> QED
    BY <2>4
<1>5. FallingPlace(x, limits) /\ FallingPlace(y, limits)
  BY FallingPlaces
<1>6. /\ \A u : Equals(u, 1, 1) => AtMost(Whole(1), u)
      /\ \A u : Equals(u, 0, 1) => AtMost(u, Zero)
  <2>1. \A u, v : \A a \in Int, b \in Nat \ {0} : Equals(u, a, b) /\ Equals(v, a, b) => AtMost(u, v)
    BY SameNumber
  <2>2. 1 \in Nat \ {0} /\ 0 \in Int /\ 1 \in Int
    OBVIOUS
  <2> QED
    BY <2>1, <2>2, Constants
<1>7. CASE Less(x, Whole(limits[1])) /\ Equals(s, 1, 1)
  <2>1. AtMost(Whole(1), s)
    BY <1>6, <1>7
  <2> QED
    BY <1>3, <2>1, Constants, OrderFacts
<1>8. CASE AtMost(Whole(limits[n - 1]), y) /\ Equals(t, 0, 1)
  <2>1. AtMost(t, Zero)
    BY <1>6, <1>8
  <2> QED
    BY <1>3, <2>1, Constants, OrderFacts
<1>9. ASSUME AtMost(Whole(limits[n - 1]), x), Less(y, Whole(limits[1]))
      PROVE  FALSE
  <2>1. Less(Whole(limits[n - 1]), Whole(limits[1]))
    BY <1>1, <1>2, <1>9, OrderFacts
  <2>2. n - 1 < 1
    BY <1>1, <1>4, <2>1
  <2> QED
    BY <1>1, <2>2
<1>10. ASSUME AtMost(Whole(limits[1]), x), Less(y, Whole(limits[1]))
       PROVE  FALSE
  BY <1>1, <1>2, <1>10, OrderFacts
<1>11. ASSUME NEW j \in 1 .. n - 2, FallsIn(y, limits, j), AtMost(Whole(limits[n - 1]), x)
       PROVE  FALSE
  <2>1. j + 1 \in 1 .. n - 1 /\ j + 1 \in 1 .. n /\ Less(y, Whole(limits[j + 1]))
    BY <1>1, <1>11 DEF FallsIn
  <2>2. Less(Whole(limits[n - 1]), Whole(limits[j + 1]))
    BY <1>1, <1>2, <1>11, <2>1, OrderFacts
  <2>3. n - 1 < j + 1
    BY <1>1, <1>4, <2>1, <2>2
  <2> QED
    BY <1>1, <2>1, <2>3
<1>12. ASSUME NEW i \in 1 .. n - 2, FallsIn(x, limits, i), NEW j \in 1 .. n - 2, FallsIn(y, limits, j)
       PROVE  AtMost(t, s)
  <2>1. /\ i \in Int /\ j \in Int /\ i + 1 \in Int /\ i \in 1 .. n - 1 /\ j + 1 \in 1 .. n - 1 /\ i \in 1 .. n /\ j + 1 \in 1 .. n
        /\ AtMost(Whole(limits[i]), x) /\ Less(y, Whole(limits[j + 1]))
    BY <1>1, <1>12 DEF FallsIn
  <2>2. Less(Whole(limits[i]), Whole(limits[j + 1]))
    BY <1>1, <1>2, <2>1, OrderFacts
  <2>3. i < j + 1
    BY <1>1, <1>4, <2>1, <2>2
  <2>4. CASE i = j
    BY <1>12, <2>4, FallingBand
  <2>5. CASE i < j
    <3>1. AtMost(t, TierStart(j, n))
      BY <1>12, FallingBand
    <3>2. AtMost(TierStart(i + 1, n), s)
      BY <1>12, FallingBand
    <3>3. i + 1 <= j
      BY <2>1, <2>5
    <3> HIDE DEF n, s, t
    <3>4. AtMost(TierStart(j, n), TierStart(i + 1, n)) /\ TierStart(j, n) \in Fraction /\ TierStart(i + 1, n) \in Fraction
      BY <1>1, <2>1, <3>3, LevelOrder
    <3> QED
      BY <1>3, <3>1, <3>2, <3>4, OrderFacts
  <2> QED
    BY <2>1, <2>3, <2>4, <2>5
<1> QED
  BY <1>5, <1>7, <1>8, <1>9, <1>10, <1>11, <1>12 DEF FallingPlace

\* A value that is no worse for the metric.
NotWorse(x, y, metric) == IF Thresholds[metric].higherIsBetter THEN AtMost(y, x) ELSE AtMost(x, y)
Scoring(x, metric) == TierScore(x, Thresholds[metric].limits, Thresholds[metric].higherIsBetter)

LEMMA MetricLimits ==
    ASSUME NEW metric \in TierMetrics
    PROVE  /\ Tiered(Thresholds[metric].limits) /\ Thresholds[metric].higherIsBetter \in BOOLEAN
           /\ Thresholds[metric].higherIsBetter => LimitsDrop(Thresholds[metric].limits)
           /\ ~Thresholds[metric].higherIsBetter => OpenLimits(Thresholds[metric].limits)
<1> DEFINE t == Thresholds[metric]
           limits == t.limits
           n == Len(limits)
<1>1. Tiered(limits) /\ t.higherIsBetter \in BOOLEAN /\ TiersInOrder(t)
  BY TiersAssumption DEF Tiered, TierMetrics
<1>2. CASE t.higherIsBetter
  <2>1. \A i \in 1 .. n - 1 : limits[i + 1] < limits[i]
    BY <1>1, <1>2 DEF TiersInOrder
  <2> HIDE DEF t, limits
  <2>2. LimitsDrop(limits)
    BY <1>1, <2>1, LimitsDescend
  <2> QED
    BY <1>1, <1>2, <2>2 DEF t, limits
<1>3. CASE ~t.higherIsBetter
  <2>1. Open(limits) /\ \A i \in 1 .. n - 2 : limits[i] < limits[i + 1]
    BY <1>1, <1>3 DEF TiersInOrder
  <2>2. n \in Nat /\ n - 1 \in Nat \ {0}
    BY <1>1, LimitFacts
  <2> HIDE DEF t, limits
  <2>3. n - 1 \in 1 .. n /\ (n - 1) - 1 = n - 2
    <3>1. \A m \in Nat : m - 1 \in Nat \ {0} => m - 1 \in 1 .. m /\ (m - 1) - 1 = m - 2
      OBVIOUS
    <3> HIDE DEF n
    <3> QED
      BY <2>2, <3>1
  <2>4. PICK last \in 1 .. n : last = n - 1 /\ \A i \in 1 .. last - 1 : limits[i] < limits[i + 1]
    BY <2>1, <2>3
  <2>5. LimitsRise(limits, last)
    BY <1>1, <2>4, LimitsAscend
  <2>6. OpenLimits(limits)
    BY <2>1, <2>4, <2>5 DEF OpenLimits
  <2> QED
    BY <1>1, <1>3, <2>6 DEF t, limits
<1> QED
  BY <1>2, <1>3

\* A score is between 0 and 1 and keeps the order of the values.
LEMMA ScoringFacts ==
    ASSUME NEW metric \in TierMetrics, NEW x \in Fraction, NEW y \in Fraction
    PROVE  /\ Scoring(x, metric) \in Fraction
           /\ AtMost(Zero, Scoring(x, metric)) /\ AtMost(Scoring(x, metric), Whole(1))
           /\ NotWorse(x, y, metric) => AtMost(Scoring(y, metric), Scoring(x, metric))
<1> DEFINE limits == Thresholds[metric].limits
           hib == Thresholds[metric].higherIsBetter
<1>1. Tiered(limits) /\ hib \in BOOLEAN /\ (hib => LimitsDrop(limits)) /\ (~hib => OpenLimits(limits))
  BY MetricLimits
<1>2. /\ Scoring(x, metric) = TierScore(x, limits, hib) /\ Scoring(y, metric) = TierScore(y, limits, hib)
      /\ NotWorse(x, y, metric) = IF hib THEN AtMost(y, x) ELSE AtMost(x, y)
  BY DEF Scoring, NotWorse
<1> HIDE DEF limits, hib
<1>3. Len(limits) \in Nat /\ Len(limits) >= 2 /\ ~(Len(limits) < 2) /\ x # None /\ y # None
  BY <1>1, LimitFacts, FractionFacts DEF Tiered
<1>4. CASE hib = TRUE
  <2>1. TierScore(x, limits, hib) = RisingScore(x, limits) /\ TierScore(y, limits, hib) = RisingScore(y, limits)
    BY <1>3, <1>4 DEF TierScore
  <2> QED
    BY <1>1, <1>2, <1>4, <2>1, RisingType, RisingBounds, RisingOrder
<1>5. CASE hib = FALSE
  <2>1. TierScore(x, limits, hib) = FallingScore(x, limits) /\ TierScore(y, limits, hib) = FallingScore(y, limits)
    BY <1>3, <1>5 DEF TierScore
  <2> QED
    BY <1>1, <1>2, <1>5, <2>1, FallingType, FallingBounds, FallingOrder
<1> QED
  BY <1>1, <1>4, <1>5

\* Larger numbers have a larger sum.
LEMMA TotalOrder ==
    ASSUME NEW xs \in Seq(Fraction), NEW ys \in Seq(Fraction), Len(xs) = Len(ys),
           \A i \in 1 .. Len(xs) : AtMost(xs[i], ys[i])
    PROVE  Total(xs) \in Fraction /\ Total(ys) \in Fraction /\ AtMost(Total(xs), Total(ys))
<1>1. PICK n \in Nat : n = Len(xs) /\ n = Len(ys)
  BY LenProperties
<1>2. PICK F : /\ F[0] = Zero /\ F[n] = Total(xs)
               /\ \A i \in 0 .. n : F[i] \in Fraction
               /\ \A i \in 1 .. n : F[i] = Plus(F[i - 1], xs[i])
  BY <1>1, TotalSteps
<1>3. PICK G : /\ G[0] = Zero /\ G[n] = Total(ys)
               /\ \A i \in 0 .. n : G[i] \in Fraction
               /\ \A i \in 1 .. n : G[i] = Plus(G[i - 1], ys[i])
  BY <1>1, TotalSteps
<1>4. \A i \in 1 .. n : xs[i] \in Fraction /\ ys[i] \in Fraction /\ AtMost(xs[i], ys[i])
  BY <1>1, ElementOfSeq
<1> DEFINE S == {k \in 0 .. n : AtMost(F[k], G[k])}
<1>5. 0 \in S
  <2>1. 0 \in 0 .. n /\ AtMost(Zero, Zero)
    BY Constants, OrderFacts
  <2> QED
    BY <1>2, <1>3, <2>1
<1>6. ASSUME NEW k \in Nat, k < n, k \in S
      PROVE  k + 1 \in S
  <2>1. k + 1 \in 1 .. n /\ k + 1 \in 0 .. n /\ (k + 1) - 1 = k /\ k \in 0 .. n
    BY <1>6
  <2>2. F[k + 1] = Plus(F[k], xs[k + 1]) /\ G[k + 1] = Plus(G[k], ys[k + 1])
    BY <1>2, <1>3, <2>1
  <2>3. AtMost(F[k], G[k]) /\ F[k] \in Fraction /\ G[k] \in Fraction
    BY <1>2, <1>3, <1>6, <2>1
  <2>4. AtMost(Plus(F[k], xs[k + 1]), Plus(G[k], ys[k + 1]))
    BY <1>4, <2>1, <2>3, PlusOrder
  <2> QED
    BY <2>1, <2>2, <2>4
<1>7. n \in S
  <2>1. n \in 0 .. n
    OBVIOUS
  <2> HIDE DEF S
  <2>2. 0 .. n \subseteq S
    BY <1>5, <1>6, InductUpTo
  <2> QED
    BY <2>1, <2>2
<1>8. n \in 0 .. n
  OBVIOUS
<1> QED
  BY <1>2, <1>3, <1>7, <1>8

\* Numbers between 0 and some bounds have a sum between 0 and theirs.
LEMMA TotalWithin ==
    ASSUME NEW xs \in Seq(Fraction), NEW ws \in Seq(Nat), Len(xs) = Len(ws),
           \A i \in 1 .. Len(xs) : AtMost(Zero, xs[i]) /\ AtMost(xs[i], Whole(ws[i]))
    PROVE  AtMost(Zero, Total(xs)) /\ AtMost(Total(xs), Whole(SumOf(ws)))
<1>1. PICK n \in Nat : n = Len(xs) /\ n = Len(ws)
  BY LenProperties
<1>2. PICK F : /\ F[0] = Zero /\ F[n] = Total(xs)
               /\ \A i \in 0 .. n : F[i] \in Fraction
               /\ \A i \in 1 .. n : F[i] = Plus(F[i - 1], xs[i])
  BY <1>1, TotalSteps
<1>3. PICK G : /\ G[0] = 0 /\ G[n] = SumOf(ws)
               /\ \A i \in 0 .. n : G[i] \in Int
               /\ \A i \in 1 .. n : G[i] = G[i - 1] + ws[i]
  <2>1. \A i \in 1 .. n : ws[i] \in Int
    BY <1>1, ElementOfSeq
  <2>2. ws \in [1 .. n -> Int]
    BY <1>1, <2>1, LenProperties
  <2>3. ws \in Seq(Int)
    BY <2>2, FunctionSeq
  <2> QED
    BY <1>1, <2>3, SumSteps
<1>4. \A i \in 1 .. n : xs[i] \in Fraction /\ ws[i] \in Int /\ AtMost(Zero, xs[i]) /\ AtMost(xs[i], Whole(ws[i]))
  BY <1>1, ElementOfSeq
<1> DEFINE S == {k \in 0 .. n : AtMost(Zero, F[k]) /\ AtMost(F[k], Whole(G[k]))}
<1>5. 0 \in S
  <2>1. 0 \in 0 .. n /\ AtMost(Zero, Zero) /\ Whole(0) = Zero
    BY Constants, OrderFacts DEF Zero
  <2> QED
    BY <1>2, <1>3, <2>1
<1>6. ASSUME NEW k \in Nat, k < n, k \in S
      PROVE  k + 1 \in S
  <2>1. k + 1 \in 1 .. n /\ k + 1 \in 0 .. n /\ (k + 1) - 1 = k /\ k \in 0 .. n
    BY <1>6
  <2>2. F[k + 1] = Plus(F[k], xs[k + 1]) /\ G[k + 1] = G[k] + ws[k + 1]
    BY <1>2, <1>3, <2>1
  <2>3. AtMost(Zero, F[k]) /\ AtMost(F[k], Whole(G[k])) /\ F[k] \in Fraction /\ G[k] \in Int
    BY <1>2, <1>3, <1>6, <2>1
  <2>4. PICK p \in Fraction, q \in Fraction, a \in Int, b \in Int :
           p = F[k] /\ q = xs[k + 1] /\ a = G[k] /\ b = ws[k + 1]
    BY <1>4, <2>1, <2>3
  <2>5. AtMost(Zero, p) /\ AtMost(Zero, q) /\ AtMost(p, Whole(a)) /\ AtMost(q, Whole(b))
    BY <1>4, <2>1, <2>3, <2>4
  <2>6. Whole(a) \in Fraction /\ Whole(b) \in Fraction /\ Equals(Whole(a), a, 1) /\ Equals(Whole(b), b, 1)
        /\ Equals(Whole(a + b), a + b, 1) /\ Whole(a + b) \in Fraction
    <3>1. \A c \in Int : Whole(c) \in Fraction /\ Equals(Whole(c), c, 1)
      BY WholeFacts
    <3> QED
      BY <3>1
  <2>7. AtMost(Plus(p, q), Plus(Whole(a), Whole(b))) /\ AtMost(Plus(Zero, Zero), Plus(p, q))
    BY <2>5, <2>6, Constants, PlusOrder
  <2>8. Equals(Plus(Whole(a), Whole(b)), a + b, 1)
    <3>1. \A d \in Nat \ {0} : Equals(Whole(a), a, d) /\ Equals(Whole(b), b, d)
                                 => Equals(Plus(Whole(a), Whole(b)), a * d + b * d, d * d)
      BY PlusOf
    <3>2. a * 1 + b * 1 = a + b /\ 1 * 1 = 1 /\ 1 \in Nat \ {0}
      OBVIOUS
    <3> QED
      BY <2>6, <3>1, <3>2
  <2>9. Equals(Plus(Zero, Zero), 0, 1)
    <3>1. \A d \in Nat \ {0}, c \in Int : Equals(Zero, c, d) => Equals(Plus(Zero, Zero), c * d + c * d, d * d)
      BY PlusOf
    <3>2. 0 * 1 + 0 * 1 = 0 /\ 1 * 1 = 1 /\ 1 \in Nat \ {0} /\ 0 \in Int
      OBVIOUS
    <3> QED
      BY <3>1, <3>2, Constants
  <2>10. AtMost(Plus(Whole(a), Whole(b)), Whole(a + b)) /\ AtMost(Zero, Plus(Zero, Zero))
    <3>1. \A u, v : \A c \in Int, d \in Nat \ {0} : Equals(u, c, d) /\ Equals(v, c, d) => AtMost(u, v)
      BY SameNumber
    <3>2. a + b \in Int /\ 1 \in Nat \ {0} /\ 0 \in Int
      OBVIOUS
    <3> QED
      BY <2>6, <2>8, <2>9, <3>1, <3>2, Constants
  <2>11. Plus(p, q) \in Fraction /\ Plus(Whole(a), Whole(b)) \in Fraction /\ Plus(Zero, Zero) \in Fraction
    BY <2>6, Constants, Closed
  <2>12. AtMost(Zero, Plus(p, q)) /\ AtMost(Plus(p, q), Whole(a + b))
    BY <2>6, <2>7, <2>10, <2>11, Constants, OrderFacts
  <2> QED
    BY <2>1, <2>2, <2>4, <2>12
<1>7. n \in S
  <2>1. n \in 0 .. n
    OBVIOUS
  <2> HIDE DEF S
  <2>2. 0 .. n \subseteq S
    BY <1>5, <1>6, InductUpTo
  <2> QED
    BY <2>1, <2>2
<1> QED
  BY <1>2, <1>3, <1>7

LEMMA ScaledFacts ==
    ASSUME NEW t \in Fraction, NEW u \in Fraction, NEW w \in Nat \ {0}
    PROVE  /\ ScaledTo100(t, w) \in Fraction
           /\ AtMost(t, u) => AtMost(ScaledTo100(t, w), ScaledTo100(u, w))
           /\ AtMost(Zero, t) => AtMost(Zero, ScaledTo100(t, w))
           /\ AtMost(t, Whole(w)) => AtMost(ScaledTo100(t, w), Whole(100))
<1>1. PICK W \in Fraction, H \in Fraction :
         W = Whole(w) /\ H = Whole(100) /\ 0 < W.n /\ 0 <= H.n /\ Equals(W, w, 1) /\ Equals(H, 100, 1)
  <2>1. \A a \in Int : Whole(a) \in Fraction /\ Equals(Whole(a), a, 1) /\ (0 < a => 0 < Whole(a).n)
    BY WholeFacts
  <2>2. w \in Int /\ 0 < w /\ 100 \in Int /\ 0 < 100
    OBVIOUS
  <2>3. Whole(100).n \in Int /\ 0 < Whole(100).n
    BY <2>1, <2>2, FractionFacts
  <2> QED
    BY <2>1, <2>2, <2>3
<1> DEFINE P(x) == Times(Over(x, W), H)
<1>2. \A x \in Fraction : P(x) \in Fraction /\ Over(x, W) \in Fraction
  BY <1>1, Closed
<1>3. ASSUME NEW x \in Fraction, NEW y \in Fraction, AtMost(x, y)
      PROVE  AtMost(P(x), P(y))
  <2>1. PICK p \in Fraction, q \in Fraction : p = Over(x, W) /\ q = Over(y, W)
    BY <1>2
  <2>2. AtMost(p, q)
    BY <1>1, <1>3, <2>1, OverOrder
  <2>3. AtMost(Times(p, H), Times(q, H))
    BY <1>1, <2>2, TimesOrder
  <2> QED
    BY <2>1, <2>3
<1>4. ASSUME NEW x, NEW a \in Int, Equals(x, a, 1)
      PROVE  Equals(P(x), a * 100, w)
  <2>1. PICK p : p = Over(x, W)
    OBVIOUS
  <2>2. Equals(p, a * 1, 1 * w)
    <3>1. \A d \in Nat \ {0} : Equals(x, a, d) /\ Equals(W, w, d) => Equals(Over(x, W), a * d, d * w)
      BY OverOf
    <3> QED
      BY <1>1, <1>4, <2>1, <3>1
  <2>3. a * 1 = a /\ 1 * w = w
    OBVIOUS
  <2>4. Equals(p, a, w)
    BY <2>2, <2>3
  <2>5. \A c \in Int, d \in Nat \ {0} : Equals(H, c, d) => Equals(Times(p, H), a * c, w * d)
    BY <2>4, TimesOf
  <2>6. w * 1 = w /\ 1 \in Nat \ {0} /\ 100 \in Int
    OBVIOUS
  <2>7. Equals(Times(p, H), a * 100, w)
    BY <1>1, <2>5, <2>6
  <2> QED
    BY <2>1, <2>7
<1>5. \A x \in Fraction, y \in Fraction : /\ Round(x, 10) \in Fraction
                                          /\ AtMost(x, y) => AtMost(Round(x, 10), Round(y, 10))
  BY RoundOrder, Tens
<1>6. \A x : ScaledTo100(x, w) = Round(P(x), 10)
  BY <1>1 DEF ScaledTo100
<1>7. ASSUME AtMost(Zero, t) PROVE AtMost(Zero, ScaledTo100(t, w))
  <2>1. AtMost(Zero, P(Zero))
    <3>1. \A a \in Int : Equals(Zero, a, 1) => Equals(P(Zero), a * 100, w)
      BY <1>4
    <3>2. 0 * 100 = 0 /\ 0 \in Int
      OBVIOUS
    <3>3. Equals(P(Zero), 0, w)
      BY <3>1, <3>2, Constants
    <3> HIDE DEF P
    <3>4. \A a \in Int, d \in Nat \ {0} : Equals(Zero, a, d) => \A c \in Int : Equals(P(Zero), c, w) /\ a * w = c * d => AtMost(Zero, P(Zero))
      BY SameNumber
    <3>5. 0 * w = 0 * 1 /\ 1 \in Nat \ {0}
      OBVIOUS
    <3> QED
      BY <3>2, <3>3, <3>4, <3>5, Constants
  <2>2. AtMost(P(Zero), P(t)) /\ P(Zero) \in Fraction /\ P(t) \in Fraction
    BY <1>2, <1>3, <1>7, Constants
  <2> HIDE DEF P
  <2>3. AtMost(Zero, P(t))
    BY <2>1, <2>2, Constants, OrderFacts
  <2>4. 0 <= P(t).n
    BY <2>2, <2>3, SignFacts
  <2>5. 0 <= Round(P(t), 10).n
    BY <2>2, <2>4, RoundNatural, Tens
  <2> QED
    BY <1>5, <1>6, <2>2, <2>5, SignFacts
<1>8. ASSUME AtMost(t, W) PROVE AtMost(ScaledTo100(t, w), H)
  <2>1. AtMost(P(t), P(W)) /\ P(W) \in Fraction /\ P(t) \in Fraction
    BY <1>1, <1>2, <1>3, <1>8
  <2>2. Equals(P(W), w * 100, w)
    BY <1>1, <1>4
  <2> HIDE DEF P
  <2>3. AtMost(P(W), H)
    <3>1. \A a \in Int, d \in Nat \ {0} : Equals(H, a, d) => \A c \in Int : Equals(P(W), c, w) /\ c * d = a * w => AtMost(P(W), H)
      BY SameNumber
    <3>2. (w * 100) * 1 = 100 * w /\ w * 100 \in Int /\ 100 \in Int /\ 1 \in Nat \ {0}
      OBVIOUS
    <3> QED
      BY <1>1, <2>2, <3>1, <3>2
  <2>4. AtMost(P(t), H)
    BY <1>1, <2>1, <2>3, OrderFacts
  <2>5. AtMost(Round(P(t), 10), Round(H, 10)) /\ Round(P(t), 10) \in Fraction /\ Round(H, 10) \in Fraction
    BY <1>1, <1>5, <2>1, <2>4
  <2>6. AtMost(Round(H, 10), H)
    <3>1. H.n = 100 /\ H.d = 1
      BY <1>1, FractionFacts
    <3>2. Equals(H, 1000, 10)
      BY <3>1 DEF Equals
    <3>3. Equals(Round(H, 10), 1000, 10)
      <4>1. \A a \in Int, s \in Nat \ {0} : Equals(H, a, s) => Equals(Round(H, s), a, s)
        BY RoundAgain
      <4> QED
        BY <3>2, <4>1, Tens
    <3>4. \A a \in Int, d \in Nat \ {0} : Equals(Round(H, 10), a, d) /\ Equals(H, a, d) => AtMost(Round(H, 10), H)
      BY SameNumber
    <3> QED
      BY <3>2, <3>3, <3>4, Tens
  <2> QED
    BY <1>1, <1>6, <2>5, <2>6, OrderFacts
<1> QED
  BY <1>1, <1>2, <1>3, <1>5, <1>6, <1>7, <1>8

LEMMA WeighFacts ==
    ASSUME NEW w \in Nat, NEW s \in Fraction, NEW r \in Fraction
    PROVE  /\ Times(Whole(w), s) \in Fraction
           /\ AtMost(s, r) => AtMost(Times(Whole(w), s), Times(Whole(w), r))
           /\ AtMost(Zero, s) => AtMost(Zero, Times(Whole(w), s))
           /\ AtMost(s, Whole(1)) => AtMost(Times(Whole(w), s), Whole(w))
<1>1. PICK W \in Fraction : W = Whole(w) /\ 0 <= W.n /\ Equals(W, w, 1)
  <2>1. Whole(w) \in Fraction /\ Equals(Whole(w), w, 1)
    BY WholeFacts
  <2>2. 0 <= Whole(w).n
    BY FractionFacts
  <2> QED
    BY <2>1, <2>2
<1>2. \A x \in Fraction : Times(W, x) \in Fraction
  BY Closed
<1>3. \A x, y \in Fraction : AtMost(x, y) => AtMost(Times(W, x), Times(W, y))
  BY <1>1, TimesOrder
<1>4. ASSUME NEW x, NEW a \in Int, Equals(x, a, 1)
      PROVE  Equals(Times(W, x), w * a, 1)
  <2>1. \A d \in Nat \ {0} : Equals(W, w, d) /\ Equals(x, a, d) => Equals(Times(W, x), w * a, d * d)
    BY <1>4, TimesOf
  <2>2. 1 * 1 = 1 /\ 1 \in Nat \ {0}
    OBVIOUS
  <2> QED
    BY <1>1, <1>4, <2>1, <2>2
<1>5. AtMost(Zero, Times(W, Zero)) /\ AtMost(Times(W, Whole(1)), W)
  <2>1. \A a \in Int : (Equals(Zero, a, 1) => Equals(Times(W, Zero), w * a, 1))
                        /\ (Equals(Whole(1), a, 1) => Equals(Times(W, Whole(1)), w * a, 1))
    BY <1>4
  <2>2. w * 0 = 0 /\ w * 1 = w /\ 0 \in Int /\ 1 \in Int /\ 1 \in Nat \ {0} /\ w \in Int
    OBVIOUS
  <2>3. Equals(Times(W, Zero), 0, 1) /\ Equals(Times(W, Whole(1)), w, 1)
    BY <2>1, <2>2, Constants
  <2>4. \A u, v : \A c \in Int, d \in Nat \ {0} : Equals(u, c, d) /\ Equals(v, c, d) => AtMost(u, v)
    BY SameNumber
  <2> QED
    BY <1>1, <2>2, <2>3, <2>4, Constants
<1> QED
  BY <1>1, <1>2, <1>3, <1>5, Constants, OrderFacts

LEMMA ValidFinite ==
    ASSUME NEW values, NEW metrics, Graded(values, metrics)
    PROVE  LET keys == SetToSeq(Valid(values, metrics))
           IN  /\ keys \in Seq(Valid(values, metrics)) /\ Len(keys) = Cardinality(Valid(values, metrics))
               /\ Cardinality(Valid(values, metrics)) \in Nat
<1>1. Valid(values, metrics) \subseteq DOMAIN metrics
  BY DEF Valid
<1>2. IsFiniteSet(Valid(values, metrics))
  BY <1>1, FS_Subset DEF Graded
<1> QED
  BY <1>2, KeysFacts

\* A term of a score: a weight, and what the metric scores.
LEMMA TermIs ==
    ASSUME NEW values, NEW metrics, Graded(values, metrics), NEW keys \in Seq(Valid(values, metrics)),
           NEW i \in 1 .. Len(keys)
    PROVE  /\ keys[i] \in DOMAIN metrics /\ Weights[keys[i]] \in Nat /\ WeightsOf(keys)[i] = Weights[keys[i]]
           /\ values[keys[i]] \in Fraction /\ metrics[keys[i]] \in TierMetrics
           /\ TermsOf(values, metrics, keys)[i]
                = Times(Whole(Weights[keys[i]]), Scoring(values[keys[i]], metrics[keys[i]]))
<1>1. keys[i] \in Valid(values, metrics) /\ DOMAIN keys = 1 .. Len(keys)
  BY ElementOfSeq, LenProperties
<1>2. /\ keys[i] \in DOMAIN metrics /\ Weights[keys[i]] \in Nat
      /\ values[keys[i]] \in Fraction /\ metrics[keys[i]] \in TierMetrics
  BY <1>1 DEF Valid, Graded, Number
<1>3. WeightsOf(keys)[i] = Weights[keys[i]]
  BY <1>1 DEF WeightsOf
<1>4. TermsOf(values, metrics, keys)[i]
        = Times(Whole(Weights[keys[i]]), MetricScore(keys[i], metrics[keys[i]], values))
  BY <1>1 DEF TermsOf
<1> QED
  BY <1>2, <1>3, <1>4 DEF MetricScore, Scoring

\* A score of several metrics is between 0 and 100, and rounded to a tenth.
LEMMA WeightedFacts ==
    ASSUME NEW values, NEW metrics, Graded(values, metrics), WeightedScore(values, metrics) # None
    PROVE  /\ WeightedScore(values, metrics) \in Fraction
           /\ AtMost(Zero, WeightedScore(values, metrics)) /\ AtMost(WeightedScore(values, metrics), Whole(100))
           /\ \E x \in Fraction : WeightedScore(values, metrics) = Round(x, 10)
<1> DEFINE V == Valid(values, metrics)
           keys == SetToSeq(V)
           terms == TermsOf(values, metrics, keys)
           weights == WeightsOf(keys)
<1>1. WeightedScore(values, metrics) = IF Cardinality(V) < 2 THEN None ELSE ScaledTo100(Total(terms), SumOf(weights))
  BY WeightedIs
<1>2. keys \in Seq(V) /\ Len(keys) = Cardinality(V) /\ Cardinality(V) \in Nat /\ ~(Cardinality(V) < 2)
  BY <1>1, ValidFinite
<1> HIDE DEF keys
<1>3. keys # <<>>
  BY <1>2, EmptySeq
<1>4. /\ weights \in Seq(Nat) /\ Len(weights) = Len(keys) /\ terms \in Seq(Fraction) /\ Len(terms) = Len(keys)
      /\ SumOf(weights) \in Nat \ {0}
  BY <1>2, <1>3, TermFacts
<1>5. ASSUME NEW i \in 1 .. Len(keys)
      PROVE  AtMost(Zero, terms[i]) /\ AtMost(terms[i], Whole(weights[i]))
  <2>1. PICK w \in Nat, m \in TierMetrics, x \in Fraction :
           weights[i] = w /\ terms[i] = Times(Whole(w), Scoring(x, m))
    BY <1>2, TermIs
  <2>2. Scoring(x, m) \in Fraction /\ AtMost(Zero, Scoring(x, m)) /\ AtMost(Scoring(x, m), Whole(1))
    BY ScoringFacts
  <2>3. AtMost(Zero, Times(Whole(w), Scoring(x, m))) /\ AtMost(Times(Whole(w), Scoring(x, m)), Whole(w))
    BY <2>2, WeighFacts
  <2> QED
    BY <2>1, <2>3
<1> HIDE DEF terms, weights
<1>6. AtMost(Zero, Total(terms)) /\ AtMost(Total(terms), Whole(SumOf(weights)))
  BY <1>4, <1>5, TotalWithin
<1>7. PICK t \in Fraction, w \in Nat \ {0} : t = Total(terms) /\ w = SumOf(weights)
  <2>1. \A i \in 1 .. Len(terms) : terms[i] \in Fraction
    BY <1>4, ElementOfSeq
  <2>2. \A i \in 1 .. Len(terms) : AtMost(terms[i], terms[i])
    BY <2>1, OrderFacts
  <2>3. Total(terms) \in Fraction
    BY <1>4, <2>2, TotalOrder
  <2> QED
    BY <1>4, <2>3
<1>8. WeightedScore(values, metrics) = ScaledTo100(t, w)
  BY <1>1, <1>2, <1>7
<1>9. /\ ScaledTo100(t, w) \in Fraction
      /\ AtMost(Zero, ScaledTo100(t, w)) /\ AtMost(ScaledTo100(t, w), Whole(100))
  BY <1>6, <1>7, ScaledFacts
<1>10. \E x \in Fraction : ScaledTo100(t, w) = Round(x, 10)
  <2>1. Whole(w) \in Fraction /\ 0 < Whole(w).n /\ Whole(100) \in Fraction
    BY FractionFacts
  <2>2. Over(t, Whole(w)) \in Fraction
    BY <2>1, Closed
  <2>3. Times(Over(t, Whole(w)), Whole(100)) \in Fraction
    BY <2>1, <2>2, Closed
  <2> QED
    BY <2>3 DEF ScaledTo100
<1> QED
  BY <1>8, <1>9, <1>10

\* A result that is no worse in any metric scores no less.
LEMMA WeightedOrder ==
    ASSUME NEW a, NEW b, NEW metrics, Graded(a, metrics), Graded(b, metrics),
           \A k \in DOMAIN metrics : a[k] # None /\ b[k] # None /\ NotWorse(a[k], b[k], metrics[k]),
           WeightedScore(a, metrics) # None
    PROVE  AtMost(WeightedScore(b, metrics), WeightedScore(a, metrics))
<1> DEFINE V == Valid(a, metrics)
           keys == SetToSeq(V)
           ta == TermsOf(a, metrics, keys)
           tb == TermsOf(b, metrics, keys)
           weights == WeightsOf(keys)
<1>1. Valid(b, metrics) = V
  BY DEF Valid
<1>2. /\ WeightedScore(a, metrics) = IF Cardinality(V) < 2 THEN None ELSE ScaledTo100(Total(ta), SumOf(weights))
      /\ WeightedScore(b, metrics) = IF Cardinality(V) < 2 THEN None ELSE ScaledTo100(Total(tb), SumOf(weights))
  <2>1. WeightedScore(a, metrics) = IF Cardinality(V) < 2 THEN None ELSE ScaledTo100(Total(ta), SumOf(weights))
    BY WeightedIs
  <2>2. WeightedScore(b, metrics) =
          IF Cardinality(Valid(b, metrics)) < 2 THEN None
          ELSE ScaledTo100(Total(TermsOf(b, metrics, SetToSeq(Valid(b, metrics)))),
                           SumOf(WeightsOf(SetToSeq(Valid(b, metrics)))))
    BY WeightedIs
  <2> HIDE DEF V
  <2> QED
    BY <1>1, <2>1, <2>2
<1>3. keys \in Seq(V) /\ Len(keys) = Cardinality(V) /\ Cardinality(V) \in Nat /\ ~(Cardinality(V) < 2)
  BY <1>2, ValidFinite
<1> HIDE DEF keys
<1>4. keys # <<>>
  BY <1>3, EmptySeq
<1>5. keys \in Seq(Valid(b, metrics))
  BY <1>1, <1>3
<1>6. /\ ta \in Seq(Fraction) /\ Len(ta) = Len(keys) /\ SumOf(weights) \in Nat \ {0}
      /\ tb \in Seq(Fraction) /\ Len(tb) = Len(keys)
  BY <1>3, <1>4, <1>5, TermFacts
<1>7. ASSUME NEW i \in 1 .. Len(keys)
      PROVE  AtMost(tb[i], ta[i])
  <2>1. PICK k \in DOMAIN metrics, w \in Nat, m \in TierMetrics, x \in Fraction, y \in Fraction :
           /\ k = keys[i] /\ w = Weights[k] /\ m = metrics[k] /\ x = a[k] /\ y = b[k]
           /\ ta[i] = Times(Whole(w), Scoring(x, m)) /\ tb[i] = Times(Whole(w), Scoring(y, m))
    <3>1. /\ keys[i] \in DOMAIN metrics /\ Weights[keys[i]] \in Nat
          /\ a[keys[i]] \in Fraction /\ metrics[keys[i]] \in TierMetrics
          /\ ta[i] = Times(Whole(Weights[keys[i]]), Scoring(a[keys[i]], metrics[keys[i]]))
      BY <1>3, TermIs
    <3>2. /\ b[keys[i]] \in Fraction
          /\ tb[i] = Times(Whole(Weights[keys[i]]), Scoring(b[keys[i]], metrics[keys[i]]))
      BY <1>5, TermIs
    <3> HIDE DEF ta, tb
    <3> QED
      BY <3>1, <3>2
  <2>2. NotWorse(x, y, m)
    BY <2>1
  <2>3. Scoring(x, m) \in Fraction /\ Scoring(y, m) \in Fraction /\ AtMost(Scoring(y, m), Scoring(x, m))
    BY <2>2, ScoringFacts
  <2>4. AtMost(Times(Whole(w), Scoring(y, m)), Times(Whole(w), Scoring(x, m)))
    BY <2>3, WeighFacts
  <2> QED
    BY <2>1, <2>4
<1> HIDE DEF ta, tb, weights
<1>8. Total(tb) \in Fraction /\ Total(ta) \in Fraction /\ AtMost(Total(tb), Total(ta))
  BY <1>6, <1>7, TotalOrder
<1>9. AtMost(ScaledTo100(Total(tb), SumOf(weights)), ScaledTo100(Total(ta), SumOf(weights)))
  BY <1>6, <1>8, ScaledFacts
<1> HIDE DEF V
<1> QED
  BY <1>2, <1>3, <1>9

-----------------------------------------------------------------------------
(* Percentiles                                                              *)

\* The mean of some numbers is one.
LEMMA MeanType ==
    ASSUME NEW xs \in Seq(Fraction), xs # <<>>
    PROVE  Mean(xs) \in Fraction
<1>1. Len(xs) \in Nat /\ Len(xs) # 0
  BY LenProperties, EmptySeq
<1>2. Whole(Len(xs)) \in Fraction /\ 0 < Whole(Len(xs)).n
  BY <1>1, FractionFacts
<1>3. \A i \in 1 .. Len(xs) : AtMost(xs[i], xs[i])
  BY ElementOfSeq, OrderFacts
<1>4. Total(xs) \in Fraction
  BY <1>3, TotalOrder
<1> QED
  BY <1>2, <1>4, Closed DEF Mean

\* A share of what is not negative and of what is positive is not negative.
LEMMA ShareOfSignal ==
    ASSUME NEW s \in Fraction, NEW n \in Fraction, AtMost(Zero, s), Less(Zero, n)
    PROVE  Over(s, Plus(s, n)) \in Fraction /\ AtMost(Zero, Over(s, Plus(s, n)))
<1>1. PICK p \in Fraction : p = Plus(s, n)
  BY Closed
<1>2. Less(Zero, p)
  <2>1. Less(Plus(Zero, Zero), p)
    BY <1>1, Constants, OrderFacts, PlusOrder
  <2>2. Equals(Plus(Zero, Zero), 0, 1)
    <3>1. \A d \in Nat \ {0}, c \in Int : Equals(Zero, c, d) => Equals(Plus(Zero, Zero), c * d + c * d, d * d)
      BY PlusOf
    <3>2. 0 * 1 + 0 * 1 = 0 /\ 1 * 1 = 1 /\ 1 \in Nat \ {0} /\ 0 \in Int
      OBVIOUS
    <3> QED
      BY <3>1, <3>2, Constants
  <2>3. AtMost(Zero, Plus(Zero, Zero)) /\ Plus(Zero, Zero) \in Fraction
    <3>1. \A u, v : \A c \in Int, d \in Nat \ {0} : Equals(u, c, d) /\ Equals(v, c, d) => AtMost(u, v)
      BY SameNumber
    <3>2. 1 \in Nat \ {0} /\ 0 \in Int
      OBVIOUS
    <3> QED
      BY <2>2, <3>1, <3>2, Constants DEF Equals
  <2> QED
    BY <2>1, <2>3, Constants, OrderFacts
<1>3. 0 < p.n
  BY <1>2, SignFacts
<1>4. PICK a \in Int, b \in Nat \ {0} : a = s.n /\ b = s.d /\ Equals(s, a, b)
  BY Ratio
<1>5. PICK c \in Nat \ {0}, d \in Nat \ {0} : c = p.n /\ d = p.d /\ Equals(p, c, d)
  BY <1>3, Ratio
<1>6. 0 <= a
  BY <1>4, SignFacts
<1>7. Equals(Over(s, p), a * d, b * c)
  BY <1>4, <1>5, OverOf
<1>8. 0 <= a * d /\ a * d \in Int /\ b * c \in Nat \ {0}
  BY <1>6, Products
<1>9. 0 <= Over(s, p).n /\ Over(s, p) \in Fraction
  BY <1>7, <1>8, SignOf, EqualsFacts
<1> QED
  BY <1>1, <1>9, SignFacts

\* The share of the signal is not negative, and only of enough samples.
LEMMA ShrinkFacts ==
    ASSUME NEW xs \in Seq(Fraction), NEW j \in Number
    PROVE  /\ Shrinkage(xs, j) \in Number
           /\ Shrinkage(xs, j) # None => AtMost(Zero, Shrinkage(xs, j)) /\ Len(xs) > 2
<1> DEFINE med == Median(xs)
           square(x) == Times(Minus(x, med), Minus(x, med))
           squares == [i \in DOMAIN xs |-> square(xs[i])]
           noise == Times(j, j)
           signal == Larger(Zero, Minus(Mean(squares), noise))
<1>1. Shrinkage(xs, j) =
        IF j = None \/ ~Less(Zero, j) \/ Len(xs) < MinSamples \/ ~Less(Zero, med) THEN None
        ELSE Over(signal, Plus(signal, noise))
  BY DEF Shrinkage
<1>2. CASE j = None \/ ~Less(Zero, j) \/ Len(xs) < MinSamples \/ ~Less(Zero, med)
  <2>1. Shrinkage(xs, j) = None
    BY <1>1, <1>2
  <2> QED
    BY <2>1 DEF Number
<1>3. CASE ~(j = None \/ ~Less(Zero, j) \/ Len(xs) < MinSamples \/ ~Less(Zero, med))
  <2>1. j \in Fraction /\ Less(Zero, j) /\ Len(xs) > 2 /\ Len(xs) \in Nat
    BY <1>3, NumbersAssumption, LenProperties DEF Number
  <2>2. xs # <<>>
    BY <2>1, EmptySeq
  <2>3. med \in Fraction
    BY <2>2, MedianBetween
  <2> HIDE DEF med
  <2>4. \A x \in Fraction : square(x) \in Fraction
    BY <2>3, Closed
  <2>5. squares \in Seq(Fraction) /\ Len(squares) = Len(xs)
    <3>1. \A i \in 1 .. Len(xs) : xs[i] \in Fraction
      BY ElementOfSeq
    <3>2. DOMAIN xs = 1 .. Len(xs)
      BY LenProperties
    <3>3. squares \in [1 .. Len(xs) -> Fraction]
      <4> HIDE DEF square
      <4> QED
        BY <2>4, <3>1, <3>2
    <3> HIDE DEF squares
    <3> QED
      BY <2>1, <3>3, FunctionSeq
  <2> HIDE DEF squares
  <2>6. squares # <<>>
    BY <2>1, <2>5, EmptySeq
  <2>7. Mean(squares) \in Fraction
    BY <2>5, <2>6, MeanType
  <2>8. noise \in Fraction /\ Less(Zero, noise)
    <3>1. PICK a \in Int, b \in Nat \ {0} : a = j.n /\ b = j.d /\ Equals(j, a, b)
      BY <2>1, Ratio
    <3>2. 0 < a
      BY <2>1, <3>1, SignFacts
    <3>3. Equals(noise, a * a, b * b)
      BY <3>1, TimesOf
    <3>4. 0 < a * a /\ a * a \in Int /\ b * b \in Nat \ {0}
      BY <3>2, Products
    <3>5. 0 < noise.n /\ noise \in Fraction
      BY <3>3, <3>4, SignOf, EqualsFacts
    <3> HIDE DEF noise
    <3> QED
      BY <3>5, SignFacts
  <2> HIDE DEF noise
  <2>9. Minus(Mean(squares), noise) \in Fraction
    BY <2>7, <2>8, Closed
  <2>10. signal \in Fraction /\ AtMost(Zero, signal)
    BY <2>9, Constants, Closed, OrderFacts
  <2> HIDE DEF signal
  <2>11. Shrinkage(xs, j) = Over(signal, Plus(signal, noise))
    BY <1>1, <1>3
  <2> QED
    BY <2>1, <2>8, <2>10, <2>11, ShareOfSignal DEF Number
<1> QED
  BY <1>2, <1>3

\* Taking the noise out of a value keeps its side of the median, and the order.
LEMMA AdjustFacts ==
    ASSUME NEW med \in Fraction, NEW shrink \in Number, shrink # None => AtMost(Zero, shrink),
           NEW x \in Fraction, NEW y \in Fraction
    PROVE  /\ Adjust(x, med, shrink) \in Fraction
           /\ AtMost(x, y) => AtMost(Adjust(x, med, shrink), Adjust(y, med, shrink))
           /\ AtMost(med, x) => AtMost(med, Adjust(x, med, shrink))
<1>1. CASE shrink = None
  BY <1>1 DEF Adjust
<1>2. CASE shrink # None
  <2>1. shrink \in Fraction /\ 0 <= shrink.n
    BY <1>2, SignFacts DEF Number
  <2>2. PICK p \in Fraction, q \in Fraction : p = Minus(x, med) /\ q = Minus(y, med)
    BY Closed
  <2>3. PICK u \in Fraction, v \in Fraction, z \in Fraction : u = Times(shrink, p) /\ v = Times(shrink, q) /\ z = Times(shrink, Zero)
    BY <2>1, Constants, Closed
  <2>4. Adjust(x, med, shrink) = Plus(med, u) /\ Adjust(y, med, shrink) = Plus(med, v)
    BY <1>2, <2>2, <2>3 DEF Adjust
  <2>5. Plus(med, u) \in Fraction /\ Plus(med, v) \in Fraction
    BY Closed
  <2>6. ASSUME AtMost(x, y) PROVE AtMost(Plus(med, u), Plus(med, v))
    <3>1. AtMost(p, q)
      BY <2>2, <2>6, MinusOrder
    <3>2. AtMost(u, v)
      BY <2>1, <2>3, <3>1, TimesOrder
    <3>3. AtMost(med, med)
      BY OrderFacts
    <3> QED
      BY <3>2, <3>3, PlusOrder
  <2>7. ASSUME AtMost(med, x) PROVE AtMost(med, Plus(med, u))
    <3>1. PICK a \in Int, b \in Nat \ {0} : a = shrink.n /\ b = shrink.d /\ Equals(shrink, a, b)
      BY <2>1, Ratio
    <3>2. PICK c \in Int, d \in Nat \ {0} : c = p.n /\ d = p.d /\ Equals(p, c, d)
      BY Ratio
    <3>3. 0 <= a /\ 0 <= c
      BY <2>1, <2>2, <2>7, <3>1, <3>2, MinusSign
    <3>4. Equals(u, a * c, b * d)
      BY <2>3, <3>1, <3>2, TimesOf
    <3>5. 0 <= a * c /\ a * c \in Int /\ b * d \in Nat \ {0}
      BY <3>3, Products
    <3>6. PICK e \in Int, f \in Nat \ {0} : e = a * c /\ f = b * d /\ 0 <= e /\ Equals(u, e, f)
      BY <3>4, <3>5
    <3>7. PICK g \in Int, h \in Nat \ {0} : g = med.n /\ h = med.d /\ Equals(med, g, h)
      BY Ratio
    <3>8. Equals(Plus(med, u), g * f + e * h, h * f)
      BY <3>6, <3>7, PlusOf
    <3>9. g * f + e * h \in Int /\ h * f \in Nat \ {0}
      BY Products
    <3>10. g * (h * f) <= (g * f + e * h) * h
      <4>1. 0 <= e * h /\ e * h \in Int
        BY <3>6, Products
      <4>2. 0 <= (e * h) * h
        BY <4>1
      <4>3. (g * f + e * h) * h = g * (h * f) + (e * h) * h
        OBVIOUS
      <4>4. g * (h * f) \in Int /\ (e * h) * h \in Int
        BY <4>1, Products
      <4> QED
        BY <4>2, <4>3, <4>4
    <3> QED
      BY <3>7, <3>8, <3>9, <3>10, EqualsOrder
  <2> QED
    BY <2>4, <2>5, <2>6, <2>7
<1> QED
  BY <1>1, <1>2

\* (a g) / (b g) is a / b.
LEMMA Unscaled ==
    ASSUME NEW z, NEW a \in Int, NEW b \in Nat \ {0}, NEW g \in Nat \ {0}, Equals(z, a * g, b * g)
    PROVE  Equals(z, a, b)
<1>1. a * g \in Int /\ b * g \in Nat \ {0}
  BY Products
<1>2. PICK p \in Int, q \in Nat \ {0} : p = z.n /\ q = z.d
  BY <1>1, EqualsFacts
<1>3. p * (b * g) = (a * g) * q
  BY <1>2 DEF Equals
<1>4. p * (b * g) = (p * b) * g /\ (a * g) * q = (a * q) * g
  OBVIOUS
<1>5. p * b \in Int /\ a * q \in Int
  BY Products
<1>6. p * b = a * q
  BY <1>3, <1>4, <1>5, MulOrder
<1> QED
  BY <1>2, <1>6 DEF Equals

\* Sums over one denominator.
LEMMA SumOver ==
    ASSUME NEW x, NEW u \in Int, NEW w \in Nat \ {0}, Equals(x, u, w), NEW y, NEW v \in Int, Equals(y, v, w)
    PROVE  Equals(Plus(x, y), u + v, w) /\ Equals(Minus(x, y), u - v, w)
<1>1. Equals(Plus(x, y), u * w + v * w, w * w) /\ Equals(Minus(x, y), u * w - v * w, w * w)
  BY PlusOf
<1>2. u * w + v * w = (u + v) * w /\ u * w - v * w = (u - v) * w
  OBVIOUS
<1>3. Equals(Plus(x, y), (u + v) * w, w * w) /\ Equals(Minus(x, y), (u - v) * w, w * w)
  BY <1>1, <1>2
<1>4. u + v \in Int /\ u - v \in Int
  OBVIOUS
<1> QED
  BY <1>3, <1>4, Unscaled

\* Between two numbers: a hundredth part of the way from the one to the other.
LEMMA OnTheWay ==
    ASSUME NEW x \in Fraction, NEW y \in Fraction, AtMost(x, y), NEW r \in 0 .. 99
    PROVE  LET z == Plus(x, Times(Frac(r, 100), Minus(y, x)))
           IN  /\ z \in Fraction /\ AtMost(x, z) /\ AtMost(z, y)
               /\ r >= 50 => AtMost(Over(Plus(x, y), Whole(2)), z)
<1> DEFINE z == Plus(x, Times(Frac(r, 100), Minus(y, x)))
<1>1. PICK u \in Int, v \in Int, w \in Nat \ {0} : Equals(x, u, w) /\ Equals(y, v, w) /\ u <= v
  <2>1. PICK a \in Int, b \in Nat \ {0} : Equals(x, a, b)
    BY Ratio
  <2>2. PICK c \in Int, d \in Nat \ {0} : Equals(y, c, d)
    BY Ratio
  <2>3. Equals(x, a * d, b * d) /\ Equals(y, c * b, d * b)
    BY <2>1, <2>2, EqualsScaled
  <2>4. a * d <= c * b
    BY <2>1, <2>2, EqualsOrder
  <2>5. d * b = b * d /\ b * d \in Nat \ {0} /\ a * d \in Int /\ c * b \in Int
    BY Products
  <2> QED
    BY <2>3, <2>4, <2>5
<1>2. PICK f : f = Frac(r, 100) /\ Equals(f, r, 100)
  <2>1. \A a \in Int, b \in Nat \ {0} : Equals(Frac(a, b), a, b)
    BY FracEquals
  <2>2. r \in Int
    OBVIOUS
  <2> QED
    BY <2>1, <2>2, Tens
<1>3. PICK m : m = Minus(y, x) /\ Equals(m, v - u, w)
  BY <1>1, SumOver
<1>4. PICK g \in Int : g = v - u /\ 0 <= g
  BY <1>1
<1>5. PICK p : p = Times(f, m)
  OBVIOUS
<1>6. PICK e \in Int : e = r * g /\ 0 <= e /\ e <= 100 * g /\ (r >= 50 => 50 * g <= e)
  <2>1. r \in Nat /\ g \in Nat /\ r <= 100
    BY <1>4
  <2>2. r * g \in Nat
    BY <2>1, Products
  <2>3. CASE g = 0
    BY <1>4, <2>3
  <2>4. CASE g # 0
    <3>1. g \in Nat \ {0} /\ 50 \in Int /\ 100 \in Int /\ r \in Int
      BY <2>1, <2>4
    <3>2. r * g <= 100 * g
      BY <2>1, <3>1, MulOrder
    <3>3. r >= 50 => 50 * g <= r * g
      BY <3>1, MulOrder
    <3> QED
      BY <2>2, <3>2, <3>3
  <2> QED
    BY <2>3, <2>4
<1>7. Equals(p, e, 100 * w)
  <2>1. \A c \in Int, d \in Nat \ {0} : Equals(f, c, d) => Equals(Times(f, m), c * g, d * w)
    BY <1>3, <1>4, TimesOf
  <2>2. 100 \in Nat \ {0} /\ r \in Int
    OBVIOUS
  <2> QED
    BY <1>2, <1>5, <1>6, <2>1, <2>2
<1>8. PICK W \in Nat \ {0} : W = 100 * w /\ W = w * 100
  BY Products, Tens
<1>9. PICK U \in Int : U = 100 * u /\ U = u * 100
  OBVIOUS
<1>10. Equals(x, U, W)
  <2>1. \A k \in Int : Equals(x, u * k, w * k)
    BY <1>1, EqualsScaled
  <2> QED
    BY <1>8, <1>9, <2>1
<1>11. Equals(Plus(x, p), U + e, W)
  BY <1>7, <1>8, <1>10, SumOver
<1>12. z = Plus(x, p)
  BY <1>2, <1>3, <1>5
<1> HIDE DEF z
<1>13. PICK t \in Int : t = U + e /\ Equals(z, t, W)
  BY <1>11, <1>12
<1>14. z \in Fraction
  BY <1>13, EqualsFacts
<1>15. AtMost(x, z)
  <2>1. U * W <= t * W
    <3>1. U <= t
      BY <1>6, <1>13
    <3> QED
      BY <3>1, MulOrder
  <2> QED
    BY <1>10, <1>13, <2>1, EqualsOrder
<1>16. AtMost(z, y)
  <2>1. PICK V \in Int : V = v * 100 /\ t <= V
    BY <1>4, <1>6, <1>9, <1>13
  <2>2. Equals(y, V, W)
    <3>1. \A k \in Int : Equals(y, v * k, w * k)
      BY <1>1, EqualsScaled
    <3> QED
      BY <1>8, <2>1, <3>1
  <2>3. t * W <= V * W
    BY <2>1, MulOrder
  <2> QED
    BY <1>13, <2>2, <2>3, EqualsOrder
<1>17. ASSUME r >= 50 PROVE AtMost(Over(Plus(x, y), Whole(2)), z)
  <2>1. PICK s \in Int : s = u + v /\ Equals(Plus(x, y), s, w)
    BY <1>1, SumOver
  <2>2. Equals(Over(Plus(x, y), Whole(2)), s, w * 2)
    <3>1. PICK q : q = Plus(x, y)
      OBVIOUS
    <3>2. \A c, d \in Nat \ {0} : Equals(Whole(2), c, d) => Equals(Over(q, Whole(2)), s * d, w * c)
      BY <2>1, <3>1, OverOf
    <3>3. Equals(Whole(2), 2, 1) /\ 1 \in Nat \ {0} /\ 2 \in Nat \ {0}
      BY FractionFacts DEF Equals
    <3>4. s * 1 = s
      OBVIOUS
    <3> QED
      BY <3>1, <3>2, <3>3, <3>4
  <2>3. w * 2 \in Nat \ {0}
    BY Products, Tens
  <2>4. s * W <= t * (w * 2)
    <3>1. 100 * s <= 2 * t
      BY <1>4, <1>6, <1>9, <1>13, <1>17, <2>1
    <3>2. PICK a \in Int, b \in Int : a = 100 * s /\ b = 2 * t /\ a <= b
      BY <3>1
    <3>3. a * w <= b * w
      BY <3>2, MulOrder
    <3>4. (100 * s) * w = s * (100 * w) /\ (2 * t) * w = t * (w * 2)
      OBVIOUS
    <3> QED
      BY <1>8, <3>2, <3>3, <3>4
  <2> QED
    BY <1>13, <2>2, <2>3, <2>4, EqualsOrder
<1> QED
  BY <1>14, <1>15, <1>16, <1>17 DEF z

\* The place of the 99th percentile is in the upper half.
LEMMA Rank99 ==
    ASSUME NEW n \in Nat \ {0}
    PROVE  LET k == 99 * (n - 1)
               lo == k \div 100
           IN  /\ k \in Nat /\ lo \in 0 .. n - 1 /\ k % 100 \in 0 .. 99
               /\ lo + 2 > n <=> n = 1
               /\ n > 2 => n \div 2 <= lo
               /\ n = 1 => lo = 0
               /\ n = 2 => lo = 0 /\ k % 100 = 99
OBVIOUS

\* The 99th percentile of a sorted list is not above its last number, nor below its median.
LEMMA PercentileFacts ==
    ASSUME NEW s \in Seq(Fraction), s # <<>>, Ascending(s)
    PROVE  /\ Percentile(s, 99) \in Fraction
           /\ AtMost(Percentile(s, 99), s[Len(s)])
           /\ Len(s) # 2 => AtMost(s[Len(s) \div 2 + 1], Percentile(s, 99))
           /\ Len(s) = 2 => AtMost(Over(Plus(s[1], s[2]), Whole(2)), Percentile(s, 99))
<1> DEFINE n == Len(s)  k == 99 * (n - 1)  lo == k \div 100  r == k % 100
<1>1. n \in Nat \ {0} /\ \A i \in 1 .. n : s[i] \in Fraction
  BY LenProperties, EmptySeq, ElementOfSeq
<1>2. \A i, j \in 1 .. n : i <= j => AtMost(s[i], s[j])
  <2>1. ASSUME NEW i \in 1 .. n, NEW j \in 1 .. n, i <= j PROVE AtMost(s[i], s[j])
    <3>1. CASE i = j
      BY <1>1, <3>1, OrderFacts
    <3>2. CASE i < j
      BY <3>2 DEF Ascending
    <3> QED
      BY <2>1, <3>1, <3>2
  <2> QED
    BY <2>1
<1>3. Percentile(s, 99) = IF lo + 2 > n THEN s[lo + 1] ELSE Plus(s[lo + 1], Times(Frac(r, 100), Minus(s[lo + 2], s[lo + 1])))
  BY DEF Percentile
<1>4. /\ lo \in 0 .. n - 1 /\ r \in 0 .. 99
      /\ lo + 2 > n <=> n = 1
      /\ n > 2 => n \div 2 <= lo
      /\ n = 1 => lo = 0
      /\ n = 2 => lo = 0 /\ r = 99
  BY <1>1, Rank99
<1> HIDE DEF n, k, lo, r
<1>5. CASE n = 1
  <2>1. Percentile(s, 99) = s[1] /\ n \div 2 + 1 = 1 /\ 1 \in 1 .. n
    BY <1>3, <1>4, <1>5
  <2> QED
    BY <1>1, <1>5, <2>1, OrderFacts DEF n
<1>6. CASE n # 1
  <2>1. lo + 1 \in 1 .. n /\ lo + 2 \in 1 .. n /\ ~(lo + 2 > n)
    BY <1>1, <1>4, <1>6
  <2> DEFINE x == s[lo + 1]  y == s[lo + 2]
             z == Plus(x, Times(Frac(r, 100), Minus(y, x)))
  <2>2. Percentile(s, 99) = z
    BY <1>3, <2>1
  <2>3. x \in Fraction /\ y \in Fraction /\ AtMost(x, y)
    BY <1>1, <1>2, <1>4, <2>1
  <2>4. z \in Fraction /\ AtMost(x, z) /\ AtMost(z, y) /\ (r >= 50 => AtMost(Over(Plus(x, y), Whole(2)), z))
    <3> HIDE DEF x, y
    <3> QED
      BY <1>4, <2>3, OnTheWay
  <2> HIDE DEF z
  <2>5. AtMost(z, s[n])
    <3>1. n \in 1 .. n /\ lo + 2 <= n
      BY <1>1, <2>1
    <3>2. AtMost(y, s[n])
      BY <1>2, <2>1, <3>1
    <3>3. s[n] \in Fraction
      BY <1>1, <3>1
    <3> HIDE DEF y
    <3> QED
      BY <2>3, <2>4, <3>2, <3>3, OrderFacts
  <2>6. ASSUME n # 2 PROVE AtMost(s[n \div 2 + 1], z)
    <3>1. n \div 2 + 1 \in 1 .. n /\ n \div 2 + 1 <= lo + 1
      BY <1>1, <1>4, <1>6, <2>6, Half
    <3>2. AtMost(s[n \div 2 + 1], x) /\ s[n \div 2 + 1] \in Fraction
      BY <1>1, <1>2, <2>1, <3>1
    <3> HIDE DEF x
    <3> QED
      BY <2>3, <2>4, <3>2, OrderFacts
  <2>7. ASSUME n = 2 PROVE AtMost(Over(Plus(s[1], s[2]), Whole(2)), z)
    <3>1. x = s[1] /\ y = s[2] /\ r >= 50
      BY <1>4, <2>7
    <3> QED
      BY <2>4, <3>1
  <2> QED
    BY <2>2, <2>4, <2>5, <2>6, <2>7 DEF n
<1> QED
  BY <1>5, <1>6

\* Where xs has a number that is not below c, so has ys: then sorting keeps this.
LEMMA SortedAbove ==
    ASSUME NEW xs \in Seq(Fraction), NEW ys \in Seq(Fraction), Len(xs) = Len(ys), NEW c \in Fraction,
           \A i \in 1 .. Len(xs) : AtMost(c, xs[i]) => AtMost(c, ys[i]),
           NEW k \in 1 .. Len(xs), AtMost(c, Sorted(xs)[k])
    PROVE  AtMost(c, Sorted(ys)[k])
<1> DEFINE n == Len(xs)  s == Sorted(xs)  t == Sorted(ys)
<1>1. n \in Nat /\ k \in 1 .. n
  BY LenProperties
<1>2. /\ s \in Seq(Fraction) /\ Len(s) = n /\ Ascending(s)
      /\ \E p : Renumbers(p, n) /\ \A i \in 1 .. n : s[i] = xs[p[i]]
  BY SortedFacts
<1>3. /\ t \in Seq(Fraction) /\ Len(t) = n /\ Ascending(t)
      /\ \E q : Renumbers(q, n) /\ \A i \in 1 .. n : t[i] = ys[q[i]]
  <2>1. /\ Sorted(ys) \in Seq(Fraction) /\ Len(Sorted(ys)) = Len(ys) /\ Ascending(Sorted(ys))
        /\ \E q : Renumbers(q, Len(ys)) /\ \A i \in 1 .. Len(ys) : Sorted(ys)[i] = ys[q[i]]
    BY SortedFacts
  <2>2. Len(ys) = n
    OBVIOUS
  <2> QED
    BY ONLY <2>1, <2>2
<1>4. \A i \in 1 .. n : s[i] \in Fraction /\ t[i] \in Fraction /\ xs[i] \in Fraction /\ ys[i] \in Fraction
  BY <1>2, <1>3, ElementOfSeq
<1> HIDE DEF s, t, n
<1>5. PICK p : Renumbers(p, n) /\ \A i \in 1 .. n : s[i] = xs[p[i]]
  BY <1>2
<1>6. PICK q : Renumbers(q, n) /\ \A i \in 1 .. n : t[i] = ys[q[i]]
  BY <1>3
<1>7. SUFFICES ASSUME ~AtMost(c, t[k]) PROVE FALSE
  BY DEF t
<1>8. ASSUME NEW i \in 1 .. n, i <= k PROVE ~AtMost(c, xs[q[i]])
  <2>1. t[i] = t[k] \/ AtMost(t[i], t[k])
    <3>1. i = k \/ i < k
      BY <1>1, <1>8
    <3> QED
      BY <1>1, <1>3, <3>1 DEF Ascending
  <2>2. ~AtMost(c, t[i])
    <3>1. t[i] \in Fraction /\ t[k] \in Fraction
      BY <1>1, <1>4
    <3> QED
      BY <1>7, <2>1, <3>1, OrderFacts
  <2>3. q[i] \in 1 .. n
    BY <1>6 DEF Renumbers
  <2> QED
    BY <1>6, <2>2, <2>3 DEF n
<1>9. ASSUME NEW i \in 1 .. n, k <= i PROVE AtMost(c, xs[p[i]])
  <2>1. s[i] = s[k] \/ AtMost(s[k], s[i])
    <3>1. i = k \/ k < i
      BY <1>1, <1>9
    <3> QED
      BY <1>1, <1>2, <3>1 DEF Ascending
  <2>2. AtMost(c, s[k])
    BY DEF s
  <2>3. AtMost(c, s[i])
    <3>1. s[i] \in Fraction /\ s[k] \in Fraction
      BY <1>1, <1>4
    <3> QED
      BY <2>1, <2>2, <3>1, OrderFacts
  <2> QED
    BY <1>5, <2>3
<1> DEFINE f == [i \in 1 .. n + 1 |-> IF i <= k THEN q[i] ELSE p[i - 1]]
<1>10. f \in [1 .. n + 1 -> 1 .. n]
  <2>1. ASSUME NEW i \in 1 .. n + 1 PROVE (IF i <= k THEN q[i] ELSE p[i - 1]) \in 1 .. n
    <3>1. i <= k => i \in 1 .. n
      BY <1>1
    <3>2. ~(i <= k) => i - 1 \in 1 .. n
      BY <1>1
    <3>3. \A j \in 1 .. n : p[j] \in 1 .. n /\ q[j] \in 1 .. n
      BY <1>5, <1>6 DEF Renumbers
    <3> QED
      BY <3>1, <3>2, <3>3
  <2> QED
    BY <2>1
<1>11. \A i \in 1 .. n + 1 : f[i] = IF i <= k THEN q[i] ELSE p[i - 1]
  OBVIOUS
<1> HIDE DEF f
<1>12. ASSUME NEW i \in 1 .. n + 1, NEW j \in 1 .. n + 1, i < j PROVE f[i] # f[j]
  <2>1. CASE j <= k
    <3>1. i \in 1 .. n /\ j \in 1 .. n /\ i <= k /\ i # j
      BY <1>1, <1>12, <2>1
    <3>2. f[i] = q[i] /\ f[j] = q[j]
      BY <1>11, <2>1, <3>1
    <3>3. q[i] # q[j]
      BY <1>6, <3>1 DEF Renumbers
    <3> QED
      BY <3>2, <3>3
  <2>2. CASE i <= k /\ ~(j <= k)
    <3>1. i \in 1 .. n /\ j - 1 \in 1 .. n /\ k <= j - 1
      BY <1>1, <2>2
    <3>2. f[i] = q[i] /\ f[j] = p[j - 1]
      BY <1>11, <2>2
    <3>3. ~AtMost(c, xs[q[i]]) /\ AtMost(c, xs[p[j - 1]])
      BY <1>8, <1>9, <2>2, <3>1
    <3> QED
      BY <3>2, <3>3
  <2>3. CASE ~(i <= k)
    <3>1. i - 1 \in 1 .. n /\ j - 1 \in 1 .. n /\ i - 1 # j - 1 /\ ~(j <= k)
      BY <1>1, <1>12, <2>3
    <3>2. f[i] = p[i - 1] /\ f[j] = p[j - 1]
      BY <1>11, <2>3, <3>1
    <3>3. p[i - 1] # p[j - 1]
      BY <1>5, <3>1 DEF Renumbers
    <3> QED
      BY <3>2, <3>3
  <2> QED
    BY <2>1, <2>2, <2>3
<1>13. \E i, j \in 1 .. n + 1 : i # j /\ f[i] = f[j]
  <2>1. /\ IsFiniteSet(1 .. n) /\ Cardinality(1 .. n) = n
        /\ IsFiniteSet(1 .. n + 1) /\ Cardinality(1 .. n + 1) = n + 1
    <3>1. \A a, b \in Int : IsFiniteSet(a .. b) /\ Cardinality(a .. b) = IF a > b THEN 0 ELSE b - a + 1
      BY FS_Interval
    <3>2. 1 \in Int /\ n \in Int /\ n + 1 \in Int /\ ~(1 > n) /\ ~(1 > n + 1)
          /\ n - 1 + 1 = n /\ (n + 1) - 1 + 1 = n + 1
      BY <1>1
    <3> QED
      BY <3>1, <3>2
  <2>2. Cardinality(1 .. n) < Cardinality(1 .. n + 1)
    BY <1>1, <2>1
  <2>3. PICK S, T : S = 1 .. n + 1 /\ T = 1 .. n
    OBVIOUS
  <2> QED
    BY <1>10, <2>1, <2>2, <2>3, FS_PigeonHole
<1> QED
  <2>1. PICK i \in 1 .. n + 1, j \in 1 .. n + 1 : i # j /\ f[i] = f[j]
    BY <1>13
  <2>2. i < j \/ j < i
    BY <1>1, <2>1
  <2> QED
    BY <1>12, <2>1, <2>2

\* The 99th percentile of what remains without the noise, before it is rounded.
UpperEnd(xs, shrink) == Percentile(Sorted([i \in DOMAIN xs |-> Adjust(xs[i], Median(xs), shrink)]), 99)

\* Without the noise the 99th percentile is still between the median and the longest gap.
LEMMA TailFacts ==
    ASSUME NEW xs \in Seq(Fraction), xs # <<>>, NEW shrink \in Number,
           shrink # None => AtMost(Zero, shrink) /\ Len(xs) > 2
    PROVE  /\ UpperEnd(xs, shrink) \in Fraction
           /\ AtMost(Median(xs), UpperEnd(xs, shrink))
           /\ \A top \in Fraction : (\A i \in 1 .. Len(xs) : AtMost(xs[i], top))
                                    => AtMost(UpperEnd(xs, shrink), Adjust(top, Median(xs), shrink))
<1> DEFINE n == Len(xs)  med == Median(xs)  h == n \div 2 + 1
           ys == [i \in DOMAIN xs |-> Adjust(xs[i], med, shrink)]
           t == Sorted(ys)
<1>1. n \in Nat \ {0} /\ DOMAIN xs = 1 .. n /\ \A i \in 1 .. n : xs[i] \in Fraction
  BY LenProperties, EmptySeq, ElementOfSeq
<1>2. med \in Fraction /\ AtMost(med, Sorted(xs)[h])
  BY MedianMiddle
<1>3. h \in 1 .. n /\ n \in 1 .. n
  BY <1>1, Half
<1>4. n = 2 /\ shrink = None => med = Over(Plus(Sorted(xs)[1], Sorted(xs)[2]), Whole(2))
  <2>1. ASSUME n = 2 PROVE med = Over(Plus(Sorted(xs)[1], Sorted(xs)[2]), Whole(2))
    <3>1. Len(xs) \div 2 = 1 /\ Len(xs) % 2 = 0
      BY <2>1
    <3> QED
      BY <3>1 DEF Median
  <2> QED
    BY <2>1
<1> HIDE DEF med
<1>5. ys \in [1 .. n -> Fraction] /\ \A i \in 1 .. n : ys[i] = Adjust(xs[i], med, shrink)
  <2>1. \A i \in 1 .. n : Adjust(xs[i], med, shrink) \in Fraction
    BY <1>1, <1>2, AdjustFacts
  <2> QED
    BY <1>1, <2>1
<1>6. UpperEnd(xs, shrink) = Percentile(t, 99)
  BY DEF UpperEnd, med
<1> HIDE DEF ys
<1>7. ys \in Seq(Fraction) /\ Len(ys) = n
  BY <1>1, <1>5, FunctionSeq
<1>8. /\ t \in Seq(Fraction) /\ Len(t) = n /\ Ascending(t)
      /\ \E p : Renumbers(p, n) /\ \A i \in 1 .. n : t[i] = ys[p[i]]
  BY <1>7, SortedFacts
<1>9. ASSUME NEW i \in 1 .. n PROVE AtMost(med, xs[i]) => AtMost(med, ys[i])
  BY <1>1, <1>2, <1>5, AdjustFacts
<1> HIDE DEF n, h, t
<1>10. AtMost(med, t[h]) /\ t[h] \in Fraction
  <2>1. AtMost(med, t[h])
    BY <1>2, <1>3, <1>7, <1>9, SortedAbove DEF n, t
  <2> QED
    BY <1>3, <1>8, <2>1, ElementOfSeq
<1>11. t # <<>>
  BY <1>1, <1>8, EmptySeq
<1>12. /\ Percentile(t, 99) \in Fraction
       /\ AtMost(Percentile(t, 99), t[n])
       /\ n # 2 => AtMost(t[n \div 2 + 1], Percentile(t, 99))
       /\ n = 2 => AtMost(Over(Plus(t[1], t[2]), Whole(2)), Percentile(t, 99))
  BY <1>8, <1>11, PercentileFacts
<1>13. ASSUME NEW top \in Fraction, \A i \in 1 .. n : AtMost(xs[i], top)
       PROVE  AtMost(Percentile(t, 99), Adjust(top, med, shrink))
  <2>1. PICK p : Renumbers(p, n) /\ \A i \in 1 .. n : t[i] = ys[p[i]]
    BY <1>8
  <2>2. p[n] \in 1 .. n
    BY <1>3, <2>1 DEF Renumbers
  <2>3. PICK i \in 1 .. n : t[n] = ys[i]
    BY <1>3, <2>1, <2>2
  <2>4. AtMost(ys[i], Adjust(top, med, shrink)) /\ ys[i] \in Fraction /\ Adjust(top, med, shrink) \in Fraction
    <3>1. xs[i] \in Fraction /\ AtMost(xs[i], top)
      BY <1>1, <1>13 DEF n
    <3> QED
      BY <1>2, <1>5, <3>1, AdjustFacts
  <2> QED
    BY <1>12, <2>3, <2>4, OrderFacts
<1>14. AtMost(med, Percentile(t, 99))
  <2>1. CASE n # 2
    <3>1. AtMost(t[h], Percentile(t, 99))
      BY <1>12, <2>1 DEF h
    <3> QED
      BY <1>2, <1>10, <1>12, <3>1, OrderFacts
  <2>2. CASE n = 2
    <3>1. shrink = None
      BY <2>2 DEF n
    <3>2. ys = xs
      <4>1. \A i \in 1 .. n : ys[i] = xs[i]
        BY <1>5, <3>1 DEF Adjust
      <4>2. ys = [i \in 1 .. n |-> ys[i]] /\ xs = [i \in 1 .. n |-> xs[i]]
        BY <1>1, <1>5 DEF n
      <4> QED
        BY <4>1, <4>2
    <3> QED
      BY <1>4, <1>12, <2>2, <3>1, <3>2 DEF t, n
  <2> QED
    BY <2>1, <2>2
<1> QED
  BY <1>6, <1>12, <1>13, <1>14 DEF med, n

-----------------------------------------------------------------------------
(* The metrics of a test                                                    *)

\* The gaps between chunks and between tokens are numbers.
LEMMA GapFacts ==
    ASSUME NEW t, IsTest(t)
    PROVE  /\ RawGaps(t) \in Seq(Fraction) /\ Len(RawGaps(t)) = Len(t.gaps)
           /\ \A k \in 1 .. Len(t.gaps) : t.gaps[k] \in Nat /\ RawGaps(t)[k] = Whole(t.gaps[k])
           /\ EffectiveGaps(t) \in Seq(Fraction)
<1> DEFINE n == Len(t.gaps)
<1>1. n \in Nat /\ t.gaps \in Seq(Nat) /\ t.perChunk \in Seq(Nat) /\ Len(t.perChunk) = n + 1
  BY CountTypes
<1>2. DOMAIN t.gaps = 1 .. n /\ \A k \in 1 .. n : t.gaps[k] \in Nat
  BY <1>1, LenProperties, ElementOfSeq
<1>3. \A k \in 1 .. n : t.perChunk[k + 1] \in Nat
  <2>1. \A k \in 1 .. n : k + 1 \in 1 .. Len(t.perChunk)
    BY <1>1
  <2> QED
    BY <1>1, <2>1, ElementOfSeq
<1> HIDE DEF n
<1>4. \A k \in 1 .. n : Whole(t.gaps[k]) \in Fraction
  BY <1>2, FractionFacts
<1>5. RawGaps(t) \in [1 .. n -> Fraction] /\ \A k \in 1 .. n : RawGaps(t)[k] = Whole(t.gaps[k])
  BY <1>2, <1>4 DEF RawGaps, Wholes
<1>6. EffectiveGaps(t) \in [1 .. n -> Fraction]
  <2>1. \A k \in 1 .. n : t.perChunk[k + 1] > 0 => Frac(t.gaps[k], t.perChunk[k + 1]) \in Fraction
    <3>1. \A a \in Int, b \in Nat \ {0} : Frac(a, b) \in Fraction
      BY FracEquals DEF Equals
    <3>2. \A k \in 1 .. n : t.perChunk[k + 1] > 0 => t.perChunk[k + 1] \in Nat \ {0} /\ t.gaps[k] \in Int
      BY <1>2, <1>3
    <3> QED
      BY <3>1, <3>2
  <2> QED
    BY <1>2, <1>4, <2>1 DEF EffectiveGaps
<1> QED
  BY <1>1, <1>2, <1>5, <1>6, FunctionSeq DEF n

\* Of a benchmark only gaps of more than a millisecond are measured.
LEMMA MeasurableFacts ==
    ASSUME NEW t, NEW gaps \in Seq(Fraction)
    PROVE  /\ Measurable(t, gaps) \in Seq(Fraction)
           /\ \A i \in 1 .. Len(Measurable(t, gaps)) : \E k \in 1 .. Len(gaps) : Measurable(t, gaps)[i] = gaps[k]
           /\ ~IsHealth(t) => \A i \in 1 .. Len(Measurable(t, gaps)) : Less(Whole(1), Measurable(t, gaps)[i])
<1> DEFINE P == {k \in DOMAIN gaps : Less(IF IsHealth(t) THEN Zero ELSE Whole(1), gaps[k])}
<1>1. Measurable(t, gaps) = Picked(gaps, P)
  BY DEF Measurable
<1>2. \A k \in P : ~IsHealth(t) => Less(Whole(1), gaps[k])
  OBVIOUS
<1> HIDE DEF P
<1>3. Picked(gaps, P) \in Seq(Fraction)
  BY PickedLen
<1>4. Drawn(Picked(gaps, P), gaps, P)
  BY PickedDrawn
<1> QED
  BY <1>1, <1>2, <1>3, <1>4 DEF Drawn

\* What the two groups of gaps are measured by.
Sampled(xs, shrink) ==
    xs \in Seq(Fraction) /\ shrink \in Number /\ (shrink # None => AtMost(Zero, shrink) /\ Len(xs) > 2)

LEMMA SampledFacts ==
    ASSUME NEW t, NEW gaps \in Seq(Fraction), NEW j \in Number
    PROVE  Sampled(Measurable(t, gaps), Shrinkage(Measurable(t, gaps), j))
<1>1. PICK xs \in Seq(Fraction) : xs = Measurable(t, gaps)
  BY MeasurableFacts
<1>2. Shrinkage(xs, j) \in Number /\ (Shrinkage(xs, j) # None => AtMost(Zero, Shrinkage(xs, j)) /\ Len(xs) > 2)
  BY ShrinkFacts
<1> QED
  BY <1>1, <1>2 DEF Sampled

LEMMA P99Is ==
    ASSUME NEW xs, xs # <<>>, NEW shrink, Sampled(xs, shrink)
    PROVE  /\ P99(xs, shrink) = Round(UpperEnd(xs, shrink), 10) /\ P99(xs, shrink) \in Fraction
           /\ UpperEnd(xs, shrink) \in Fraction /\ Median(xs) \in Fraction
           /\ AtMost(Median(xs), UpperEnd(xs, shrink))
<1>1. UpperEnd(xs, shrink) \in Fraction /\ AtMost(Median(xs), UpperEnd(xs, shrink))
  BY TailFacts DEF Sampled
<1>2. P99(xs, shrink) = Round(UpperEnd(xs, shrink), 10)
  BY DEF P99, UpperEnd
<1>3. Round(UpperEnd(xs, shrink), 10) \in Fraction
  BY <1>1, RoundOrder, Tens
<1>4. Median(xs) \in Fraction
  BY MedianBetween DEF Sampled
<1> QED
  BY <1>1, <1>2, <1>3, <1>4

\* The ratio of the tail, where there is something to divide by.
RatioOf(xs, shrink) ==
    CASE AtMost(Whole(1), Median(xs)) -> Over(P99(xs, shrink), Median(xs))
      [] Less(Median(xs), Whole(1)) /\ Less(Zero, Round(Mean(xs), 100)) -> Over(P99(xs, shrink), Round(Mean(xs), 100))
      [] OTHER -> None

\* The ratio of the tail is a number or unknown.
LEMMA RatioType ==
    ASSUME NEW xs, xs # <<>>, NEW shrink, Sampled(xs, shrink)
    PROVE  RatioOf(xs, shrink) \in Number
<1>1. P99(xs, shrink) \in Fraction /\ Median(xs) \in Fraction
  BY P99Is
<1>2. Round(Mean(xs), 100) \in Fraction
  <2>1. Mean(xs) \in Fraction
    BY MeanType DEF Sampled
  <2> QED
    BY <2>1, RoundOrder, Tens
<1>3. ASSUME AtMost(Whole(1), Median(xs)) PROVE Over(P99(xs, shrink), Median(xs)) \in Fraction
  <2>1. Less(Zero, Whole(1))
    <3>1. \A a, b \in Int : Less(Whole(a), Whole(b)) <=> a < b
      BY WholeFacts
    <3>2. 0 \in Int /\ 1 \in Int /\ 0 < 1
      OBVIOUS
    <3> QED
      BY <3>1, <3>2, FractionFacts
  <2>2. Less(Zero, Median(xs))
    BY <1>1, <1>3, <2>1, Constants, OrderFacts
  <2>3. 0 < Median(xs).n
    BY <1>1, <2>2, SignFacts
  <2> QED
    BY <1>1, <2>3, Closed
<1>4. ASSUME Less(Zero, Round(Mean(xs), 100)) PROVE Over(P99(xs, shrink), Round(Mean(xs), 100)) \in Fraction
  <2>1. 0 < Round(Mean(xs), 100).n
    BY <1>2, <1>4, SignFacts
  <2> QED
    BY <1>1, <1>2, <2>1, Closed
<1>5. CASE AtMost(Whole(1), Median(xs))
  <2>1. ~Less(Median(xs), Whole(1))
    BY <1>5 DEF AtMost
  <2>2. RatioOf(xs, shrink) = Over(P99(xs, shrink), Median(xs))
    BY <1>5, <2>1 DEF RatioOf
  <2> QED
    BY <1>3, <1>5, <2>2 DEF Number
<1>6. CASE ~AtMost(Whole(1), Median(xs)) /\ Less(Zero, Round(Mean(xs), 100))
  <2>1. Less(Median(xs), Whole(1))
    BY <1>6 DEF AtMost
  <2>2. RatioOf(xs, shrink) = Over(P99(xs, shrink), Round(Mean(xs), 100))
    BY <1>6, <2>1 DEF RatioOf
  <2> QED
    BY <1>4, <1>6, <2>2 DEF Number
<1>7. CASE ~AtMost(Whole(1), Median(xs)) /\ ~Less(Zero, Round(Mean(xs), 100))
  <2>2. RatioOf(xs, shrink) = None
    BY <1>7 DEF RatioOf
  <2> QED
    BY <2>2 DEF Number
<1> QED
  BY <1>5, <1>6, <1>7

\* What _compute_itl_statistics gives of the gaps between tokens.
LEMMA EffectiveIs ==
    ASSUME NEW xs, NEW shrink
    PROVE  /\ xs = <<>> => EffectiveOf(xs, shrink).tail = None /\ EffectiveOf(xs, shrink).p99 = None
           /\ xs # <<>> =>
                /\ EffectiveOf(xs, shrink).median = Round(Median(xs), 10)
                /\ EffectiveOf(xs, shrink).p99 = P99(xs, shrink)
                /\ EffectiveOf(xs, shrink).tail =
                      IF RatioOf(xs, shrink) = None THEN None
                      ELSE Smaller(Round(RatioOf(xs, shrink), 100), Whole(100))
  BY DEF EffectiveOf, RatioOf

\* ... and so is what is kept of it.
LEMMA TailType ==
    ASSUME NEW xs, NEW shrink, Sampled(xs, shrink)
    PROVE  EffectiveOf(xs, shrink).tail \in Number
<1>1. CASE xs = <<>>
  BY <1>1, EffectiveIs DEF Number
<1>2. CASE xs # <<>>
  <2>1. RatioOf(xs, shrink) \in Number
    BY <1>2, RatioType
  <2>2. CASE RatioOf(xs, shrink) = None
    BY <1>2, <2>2, EffectiveIs DEF Number
  <2>3. CASE RatioOf(xs, shrink) # None
    <3>1. Round(RatioOf(xs, shrink), 100) \in Fraction
      BY <2>1, <2>3, RoundOrder, Tens DEF Number
    <3>2. Whole(100) \in Fraction
      BY FractionFacts
    <3>3. Smaller(Round(RatioOf(xs, shrink), 100), Whole(100)) \in Fraction
      BY <3>1, <3>2, Closed
    <3> QED
      BY <1>2, <2>3, <3>3, EffectiveIs DEF Number
  <2> QED
    BY <2>2, <2>3
<1> QED
  BY <1>1, <1>2

\* The places of some gaps.
LEMMA GapsAt ==
    ASSUME NEW t, IsTest(t), NEW S, S \subseteq DOMAIN t.gaps
    PROVE  IsFiniteSet(S) /\ Cardinality(S) \in Nat /\ S \subseteq 1 .. Len(t.gaps) /\ S \subseteq Nat
<1>1. Len(t.gaps) \in Nat /\ DOMAIN t.gaps = 1 .. Len(t.gaps)
  BY CountTypes, LenProperties
<1>2. PICK n \in Nat : n = Len(t.gaps)
  BY <1>1
<1>3. IsFiniteSet(1 .. n) /\ S \in SUBSET (1 .. n)
  <2>1. \A a, b \in Int : IsFiniteSet(a .. b)
    BY FS_Interval
  <2>2. 1 \in Int /\ n \in Int
    BY <1>2
  <2> QED
    BY <1>1, <1>2, <2>1, <2>2
<1>4. IsFiniteSet(S)
  BY <1>3, FS_Subset
<1>5. Cardinality(S) \in Nat
  BY <1>4, FS_CardinalityType
<1> QED
  BY <1>1, <1>2, <1>3, <1>4, <1>5

LEMMA BurstType ==
    ASSUME NEW t, IsTest(t)
    PROVE  BurstPct(t) \in Fraction
<1>1. Bursts(t) \in Nat
  <2>1. Cardinality({k \in DOMAIN t.gaps : t.gaps[k] < 1}) \in Nat
    BY GapsAt
  <2> QED
    BY <2>1 DEF Bursts
<1>2. Len(t.gaps) \in Nat /\ (t.gaps # <<>> => Len(t.gaps) # 0)
  BY CountTypes, EmptySeq
<1>3. CASE t.gaps = <<>>
  BY <1>3, FractionFacts DEF BurstPct
<1>4. CASE t.gaps # <<>>
  <2>1. PICK b \in Int, n \in Nat \ {0} : b = 100 * Bursts(t) /\ n = Len(t.gaps)
    BY <1>1, <1>2, <1>4
  <2>2. Frac(b, n) \in Fraction
    BY FracEquals DEF Equals
  <2>3. Round(Frac(b, n), 10) \in Fraction
    BY <2>2, RoundOrder, Tens
  <2> QED
    BY <1>4, <2>1, <2>3 DEF BurstPct
<1> QED
  BY <1>3, <1>4

LEMMA ChunkRatioType ==
    ASSUME NEW t, IsTest(t)
    PROVE  ChunkTokenRatio(t) \in Number
<1>1. SumOf(t.perChunk) \in Nat /\ Len(t.perChunk) = Len(t.gaps) + 1 /\ Len(t.gaps) \in Nat
  BY CountTypes
<1>2. PICK a \in Int, n \in Nat \ {0} : a = SumOf(t.perChunk) /\ n = Len(t.perChunk)
  BY <1>1
<1>3. Frac(a, n) \in Fraction
  BY FracEquals DEF Equals
<1>4. Round(Frac(a, n), 100) \in Fraction
  BY <1>3, RoundOrder, Tens
<1> QED
  BY <1>2, <1>4 DEF ChunkTokenRatio, Number

ConsistencyKeys == {"stall_count", "effective_itl_tail_ratio", "chunk_token_ratio", "burst_arrival_pct"}

\* The metrics of the consistency score are numbers or unknown.
LEMMA ConsistencyGraded ==
    ASSUME NEW t, IsTest(t), NEW j \in Number
    PROVE  /\ Graded(Metrics(t, j), ConsistencyMetrics)
           /\ ConsistencyKeys \subseteq DOMAIN Metrics(t, j) /\ DOMAIN ConsistencyMetrics = ConsistencyKeys
<1>1. /\ Metrics(t, j).stall_count = Whole(Cardinality(StallsAt(t, j)))
      /\ Metrics(t, j).effective_itl_tail_ratio = EffectiveItl(t, j).tail
      /\ Metrics(t, j).chunk_token_ratio = ChunkTokenRatio(t)
      /\ Metrics(t, j).burst_arrival_pct = BurstPct(t)
      /\ ConsistencyKeys \subseteq DOMAIN Metrics(t, j)
  BY DEF Metrics, MetricsOf, ConsistencyKeys
<1> HIDE DEF Metrics
<1>2. IsFiniteSet(ConsistencyKeys) /\ DOMAIN ConsistencyMetrics = ConsistencyKeys
  <2>1. IsFiniteSet({"stall_count"})
    BY FS_Singleton
  <2>2. IsFiniteSet({"stall_count"} \cup {"effective_itl_tail_ratio"})
    BY <2>1, FS_AddElement
  <2>3. IsFiniteSet({"stall_count"} \cup {"effective_itl_tail_ratio"} \cup {"chunk_token_ratio"})
    BY <2>2, FS_AddElement
  <2>4. IsFiniteSet({"stall_count"} \cup {"effective_itl_tail_ratio"} \cup {"chunk_token_ratio"} \cup {"burst_arrival_pct"})
    BY <2>3, FS_AddElement
  <2>5. ConsistencyKeys = {"stall_count"} \cup {"effective_itl_tail_ratio"} \cup {"chunk_token_ratio"} \cup {"burst_arrival_pct"}
    BY DEF ConsistencyKeys
  <2>6. DOMAIN ConsistencyMetrics = ConsistencyKeys
    BY DEF ConsistencyKeys, ConsistencyMetrics
  <2> QED
    BY <2>4, <2>5, <2>6
<1>3. \A k \in ConsistencyKeys : ConsistencyMetrics[k] = k
  BY DEF ConsistencyKeys, ConsistencyMetrics
<1>4. Whole(Cardinality(StallsAt(t, j))) \in Number
  <2>1. StallsAt(t, j) \subseteq DOMAIN t.gaps
    BY DEF StallsAt
  <2>2. Cardinality(StallsAt(t, j)) \in Int
    BY <2>1, GapsAt
  <2> QED
    BY <2>2, FractionFacts DEF Number
<1>5. EffectiveItl(t, j).tail \in Number
  <2>1. EffectiveGaps(t) \in Seq(Fraction)
    BY GapFacts
  <2>2. PICK xs : xs = Measurable(t, EffectiveGaps(t))
    OBVIOUS
  <2>3. Sampled(xs, Shrinkage(xs, j))
    BY <2>1, <2>2, SampledFacts
  <2>4. EffectiveItl(t, j) = EffectiveOf(xs, Shrinkage(xs, j))
    BY <2>2 DEF EffectiveItl
  <2> QED
    BY <2>3, <2>4, TailType
<1>6. ChunkTokenRatio(t) \in Number /\ BurstPct(t) \in Number
  BY ChunkRatioType, BurstType DEF Number
<1>7. \A k \in ConsistencyKeys : Metrics(t, j)[k] \in Number
  BY <1>1, <1>4, <1>5, <1>6 DEF ConsistencyKeys
<1>8. \A k \in ConsistencyKeys : Weights[k] \in Nat /\ k \in TierMetrics
  BY <1>2, TiersAssumption DEF TierMetrics
<1> QED
  BY <1>1, <1>2, <1>3, <1>7, <1>8 DEF Graded

-----------------------------------------------------------------------------
(* The grades of a result                                                   *)

\* A score is computed from the metrics of its result.
ScoredFrom(r, key, metrics) ==
    \E m : /\ Graded(m, metrics) /\ r.v[key] = WeightedScore(m, metrics)
           /\ \A k \in DOMAIN metrics : r.v[k] = m[k]

\* A result has only scores that were computed from its metrics.
LEMMA ScoredIs ==
    ASSUME NEW r, IsResult(r)
    PROVE  /\ r.v["speed_score"] # None => ScoredFrom(r, "speed_score", SpeedMetrics)
           /\ r.v["consistency_score"] # None => ScoredFrom(r, "consistency_score", ConsistencyMetrics)
<1>1. CASE \A i \in DOMAIN TrendHib : r.v[i] = None
  BY <1>1 DEF TrendHib
<1>2. ASSUME NEW n \in 0 .. MaxRows - 1, NEW t \in Samples[n], NEW j \in Number,
             \A i \in {"success", "degraded", "available", "kind", "v"} : r[i] = ResultOf(t, j)[i]
      PROVE  /\ r.v["speed_score"] # None => ScoredFrom(r, "speed_score", SpeedMetrics)
             /\ r.v["consistency_score"] # None => ScoredFrom(r, "consistency_score", ConsistencyMetrics)
  <2>1. IsTest(t)
    BY NumbersAssumption
  <2>2. r.v = ResultOf(t, j).v
    BY <1>2
  <2>3. PICK m : m = Metrics(t, j)
    OBVIOUS
  <2>4. Results(t, j)
    BY ResultIs
  <2>5. /\ \A i \in DOMAIN m \ ScoreKeys :
              r.v[i] = IF t.type = "health" /\ i \notin HealthKeep THEN None ELSE m[i]
        /\ r.v["speed_score"] = IF t.type = "health" THEN None ELSE WeightedScore(m, SpeedMetrics)
        /\ r.v["consistency_score"] =
              IF t.type = "health" \/ t.late THEN None ELSE WeightedScore(m, ConsistencyMetrics)
    BY <2>2, <2>3, <2>4 DEF Results
  <2>6. Graded(m, SpeedMetrics) /\ {"ttft_ms", "tps"} \subseteq DOMAIN m /\ DOMAIN SpeedMetrics = {"ttft_ms", "tps"}
    BY <2>1, <2>3, SpeedGraded DEF SpeedMetrics
  <2>7. Graded(m, ConsistencyMetrics) /\ ConsistencyKeys \subseteq DOMAIN m /\ DOMAIN ConsistencyMetrics = ConsistencyKeys
    BY <2>1, <2>3, ConsistencyGraded
  <2>8. ConsistencyKeys \cap ScoreKeys = {} /\ {"ttft_ms", "tps"} \cap ScoreKeys = {}
    BY DEF ConsistencyKeys, ScoreKeys
  <2>9. t.type # "health" => \A i \in ConsistencyKeys \cup {"ttft_ms", "tps"} : r.v[i] = m[i]
    BY <2>5, <2>6, <2>7, <2>8
  <2>10. ASSUME r.v["speed_score"] # None PROVE ScoredFrom(r, "speed_score", SpeedMetrics)
    BY <2>5, <2>6, <2>9, <2>10 DEF ScoredFrom
  <2>11. ASSUME r.v["consistency_score"] # None PROVE ScoredFrom(r, "consistency_score", ConsistencyMetrics)
    BY <2>5, <2>7, <2>9, <2>11 DEF ScoredFrom
  <2> QED
    BY <2>10, <2>11
<1> QED
  BY <1>1, <1>2 DEF IsResult

\* A score is between 0 and 100.
LEMMA ScoreRange ==
    ASSUME NEW r, NEW key, NEW metrics, r.v[key] # None, ScoredFrom(r, key, metrics)
    PROVE  /\ r.v[key] \in Fraction /\ AtMost(Zero, r.v[key]) /\ AtMost(r.v[key], Whole(100))
           /\ \E x \in Fraction : r.v[key] = Round(x, 10)
<1>1. PICK m : Graded(m, metrics) /\ r.v[key] = WeightedScore(m, metrics)
  BY DEF ScoredFrom
<1> QED
  BY <1>1, WeightedFacts

\* A result that is no worse in any metric scores no less.
LEMMA ScoreOrder ==
    ASSUME NEW r, NEW s, NEW key, NEW metrics, r.v[key] # None, s.v[key] # None,
           ScoredFrom(r, key, metrics), ScoredFrom(s, key, metrics),
           \A k \in DOMAIN metrics : Present(r.v[k], s.v[k]), NoWorse(r, s, metrics)
    PROVE  AtMost(s.v[key], r.v[key])
<1>1. PICK a : /\ Graded(a, metrics) /\ r.v[key] = WeightedScore(a, metrics)
               /\ \A k \in DOMAIN metrics : r.v[k] = a[k]
  BY DEF ScoredFrom
<1>2. PICK b : /\ Graded(b, metrics) /\ s.v[key] = WeightedScore(b, metrics)
               /\ \A k \in DOMAIN metrics : s.v[k] = b[k]
  BY DEF ScoredFrom
<1>3. ASSUME NEW k \in DOMAIN metrics
      PROVE  a[k] # None /\ b[k] # None /\ NotWorse(a[k], b[k], metrics[k])
  <2>1. r.v[k] # None /\ s.v[k] # None
    BY DEF Present
  <2>2. NotWorse(r.v[k], s.v[k], metrics[k])
    BY DEF NoWorse, NotWorse
  <2> QED
    BY <1>1, <1>2, <2>1, <2>2
<1>4. WeightedScore(a, metrics) # None
  BY <1>1
<1>5. AtMost(WeightedScore(b, metrics), WeightedScore(a, metrics))
  BY <1>1, <1>2, <1>3, <1>4, WeightedOrder
<1> QED
  BY <1>1, <1>2, <1>5

\* The values of a key are those of records that have one.
LEMMA ValuesFrom ==
    ASSUME NEW R, NEW records \in Seq(R), NEW key, \A r \in R : r.v[key] \in Number
    PROVE  \A i \in 1 .. Len(Values(records, key)) :
              \E k \in 1 .. Len(records) : records[k].v[key] # None /\ Values(records, key)[i] = records[k].v[key]
<1> DEFINE s == [i \in DOMAIN records |-> records[i].v[key]]
           P == {i \in DOMAIN s : s[i] # None}
<1>1. DOMAIN records = 1 .. Len(records) /\ Len(records) \in Nat /\ \A i \in 1 .. Len(records) : records[i] \in R
  BY LenProperties, ElementOfSeq
<1>2. s \in [1 .. Len(records) -> Number]
  BY <1>1
<1>3. \A i \in 1 .. Len(records) : s[i] = records[i].v[key]
  BY <1>1
<1>4. \A i \in P : s[i] # None
  OBVIOUS
<1>5. Values(records, key) = Picked(s, P)
  BY DEF Values, Known
<1> HIDE DEF P, s
<1>6. s \in Seq(Number) /\ Len(s) = Len(records)
  BY <1>1, <1>2, FunctionSeq
<1>7. Drawn(Picked(s, P), s, P)
  BY <1>6, PickedDrawn
<1> QED
  BY <1>3, <1>4, <1>5, <1>6, <1>7 DEF Drawn

\* Rounding a score again changes nothing.
LEMMA RoundedScore ==
    ASSUME NEW x \in Fraction
    PROVE  LET y == Round(x, 10)
           IN  y \in Fraction /\ AtMost(Round(y, 10), y) /\ AtMost(y, Round(y, 10))
<1>1. \A s \in Nat \ {0} : /\ Round(x, s) \in Fraction
                           /\ \E k \in Int : Equals(Round(x, s), k, s)
  <2> SUFFICES ASSUME NEW s \in Nat \ {0}
               PROVE  Round(x, s) \in Fraction /\ \E k \in Int : Equals(Round(x, s), k, s)
    OBVIOUS
  <2>1. PICK k \in Int : Round(x, s) = Frac(k, s)
    BY RoundIs
  <2> QED
    BY <2>1, FracEquals, RoundOrder
<1>2. PICK s \in Nat \ {0} : s = 10
  BY Tens
<1>3. PICK k \in Int : Equals(Round(x, s), k, s)
  BY <1>1
<1>4. Equals(Round(Round(x, s), s), k, s)
  BY <1>3, RoundAgain
<1>5. AtMost(Round(Round(x, s), s), Round(x, s)) /\ AtMost(Round(x, s), Round(Round(x, s), s))
  BY <1>3, <1>4, SameNumber
<1> QED
  BY <1>1, <1>2, <1>5

\* The benchmarks of a history, each one of its results.
LEMMA BenchFacts ==
    ASSUME NEW A, NEW s \in Seq(A), NEW b, b = BenchOnly(s)
    PROVE  /\ b \in Seq(A) /\ Len(b) \in Nat /\ Len(b) <= Len(s)
           /\ Drawn(b, s, {i \in DOMAIN s : s[i].kind = "benchmark"})
<1> DEFINE P == {i \in DOMAIN s : s[i].kind = "benchmark"}
           D == {k \in 1 .. Len(s) : k \in P}
<1>1. b = Picked(s, P)
  BY DEF BenchOnly
<1> HIDE DEF P
<1>2. b \in Seq(A) /\ Len(b) \in Nat /\ Len(b) = Cardinality(D) /\ Drawn(b, s, P)
  BY <1>1, PickedFacts, PickedDrawn
<1>3. Len(s) \in Nat /\ IsFiniteSet(1 .. Len(s)) /\ Cardinality(1 .. Len(s)) = Len(s)
  <2>1. Len(s) \in Nat
    BY LenProperties
  <2>2. \A n \in Nat : IsFiniteSet(1 .. n) /\ Cardinality(1 .. n) = n
    BY FS_Interval
  <2> QED
    BY <2>1, <2>2
<1>4. D \subseteq 1 .. Len(s)
  OBVIOUS
<1>5. Cardinality(D) <= Cardinality(1 .. Len(s))
  <2> HIDE DEF D
  <2> QED
    BY <1>3, <1>4, FS_Subset
<1> QED
  BY <1>2, <1>3, <1>5 DEF P

\* The benchmarks of benchmarks are all of them.
LEMMA BenchAgain ==
    ASSUME NEW A, NEW s \in Seq(A), NEW b, b = BenchOnly(s)
    PROVE  BenchOnly(b) = b
<1> DEFINE P == {i \in DOMAIN s : s[i].kind = "benchmark"}
           Q == {i \in DOMAIN b : b[i].kind = "benchmark"}
<1>1. b \in Seq(A) /\ Drawn(b, s, P)
  BY BenchFacts
<1>2. DOMAIN b = 1 .. Len(b)
  BY <1>1, LenProperties
<1>3. ASSUME NEW i \in 1 .. Len(b) PROVE b[i].kind = "benchmark"
  <2>1. PICK k \in 1 .. Len(s) : k \in P /\ b[i] = s[k]
    BY <1>1 DEF Drawn
  <2> QED
    BY <2>1
<1>4. 1 .. Len(b) \subseteq Q
  BY <1>2, <1>3
<1>5. BenchOnly(b) = Picked(b, Q)
  BY DEF BenchOnly
<1> HIDE DEF Q
<1> QED
  BY <1>1, <1>4, <1>5, PickedAll

\* The reliability a card shows is the one of the record.
LEMMA ReliabilityAgrees ==
    ASSUME NEW A, history \in Seq(A), uptime # None,
           RangeScores(BenchOnly(history), uptime).reliability # None
    PROVE  ReliabilityScore(history, uptime) = RangeScores(BenchOnly(history), uptime).reliability
<1>1. PICK b : b = BenchOnly(history)
  OBVIOUS
<1>2. BenchOnly(b) = b /\ Len(b) \in Nat /\ Len(b) <= Len(history) /\ Len(history) \in Nat
  BY <1>1, BenchFacts, BenchAgain, LenProperties
<1>3. b # <<>> /\ RangeScores(b, uptime).reliability = RangeReliability(b, uptime)
  BY <1>1 DEF RangeScores
<1>4. RangeReliability(b, uptime) # None
  BY <1>1, <1>3
<1>5. ~(Len(b) < MinScorePoints) /\ AvailScore(uptime) # None
  BY <1>4 DEF RangeReliability
<1>6. RangeReliability(b, uptime) = ReliabilityFormula(AvailScore(uptime), Minus(Whole(1), Rate(b, "degraded")))
  BY <1>2, <1>3, <1>5 DEF RangeReliability
<1>7. ~(Len(history) < MinScorePoints)
  BY <1>2, <1>5, NumbersAssumption
<1>8. ReliabilityScore(history, uptime) = ReliabilityFormula(AvailScore(uptime), Minus(Whole(1), Rate(b, "degraded")))
  BY <1>1, <1>3, <1>5, <1>7 DEF ReliabilityScore
<1> QED
  BY <1>1, <1>3, <1>6, <1>8

\* The score of a range lies among those of its results.
LEMMA RangeOfScores ==
    ASSUME Remembered, Measured, RangeScores(BenchOnly(history), uptime).speed # None
    PROVE  \E i, j \in 1 .. Len(history) :
              /\ history[i].v["speed_score"] # None /\ history[j].v["speed_score"] # None
              /\ AtMost(history[i].v["speed_score"], RangeScores(BenchOnly(history), uptime).speed)
              /\ AtMost(RangeScores(BenchOnly(history), uptime).speed, history[j].v["speed_score"])
<1>0. PICK bench : bench = BenchOnly(history)
  OBVIOUS
<1>1. bench \in Seq(Range(rows)) /\ \A r \in Range(rows) : IsResult(r)
  BY <1>0, HistoryIs, BenchFacts
<1>2. \A r \in Range(rows) : r.v["speed_score"] \in Number
  BY <1>1, ResultValues DEF Trended
<1>3. PICK xs \in Seq(Fraction) : xs = Values(bench, "speed_score")
  BY <1>1, <1>2, ValuesType
<1>4. \A i \in 1 .. Len(xs) :
         \E k \in 1 .. Len(history) : history[k].v["speed_score"] # None /\ xs[i] = history[k].v["speed_score"]
  <2> SUFFICES ASSUME NEW i \in 1 .. Len(xs)
               PROVE  \E k \in 1 .. Len(history) :
                         history[k].v["speed_score"] # None /\ xs[i] = history[k].v["speed_score"]
    OBVIOUS
  <2>1. \A a \in 1 .. Len(xs) :
           \E k \in 1 .. Len(bench) : bench[k].v["speed_score"] # None /\ xs[a] = bench[k].v["speed_score"]
    BY <1>1, <1>2, <1>3, ValuesFrom
  <2>2. PICK k \in 1 .. Len(bench) : bench[k].v["speed_score"] # None /\ xs[i] = bench[k].v["speed_score"]
    BY <2>1
  <2>3. PICK P : Drawn(bench, history, P)
    BY <1>0, HistoryIs, BenchFacts
  <2>4. PICK l \in 1 .. Len(history) : bench[k] = history[l]
    BY <2>2, <2>3 DEF Drawn
  <2>5. PICK r : r = bench[k] /\ r = history[l]
    BY <2>4
  <2>6. r.v["speed_score"] # None /\ xs[i] = r.v["speed_score"]
    BY <2>2, <2>5
  <2> QED
    BY <2>4, <2>5, <2>6
<1>5. PICK range : range = RangeScores(BenchOnly(history), uptime).speed /\ range = Round(Median(xs), 10)
  BY <1>0, <1>3 DEF RangeScores
<1>6. xs # <<>>
  BY <1>5 DEF Median, Round
<1>7. /\ Median(xs) \in Fraction
      /\ \E i \in 1 .. Len(xs) : AtMost(xs[i], Median(xs))
      /\ \E i \in 1 .. Len(xs) : AtMost(Median(xs), xs[i])
  BY <1>6, MedianBetween
<1>8. ASSUME NEW i \in 1 .. Len(xs)
      PROVE  xs[i] \in Fraction /\ Round(xs[i], 10) \in Fraction
             /\ AtMost(Round(xs[i], 10), xs[i]) /\ AtMost(xs[i], Round(xs[i], 10))
  <2>1. PICK k \in 1 .. Len(history) : history[k].v["speed_score"] # None /\ xs[i] = history[k].v["speed_score"]
    BY <1>4
  <2>2. PICK r : r = history[k] /\ IsResult(r)
    BY HistoryIs
  <2>3. ScoredFrom(r, "speed_score", SpeedMetrics)
    BY <2>1, <2>2, ScoredIs
  <2>4. PICK x \in Fraction : r.v["speed_score"] = Round(x, 10)
    BY <2>1, <2>2, <2>3, ScoreRange
  <2>5. xs[i] = Round(x, 10)
    BY <2>1, <2>2, <2>4
  <2>6. Round(x, 10) \in Fraction /\ AtMost(Round(Round(x, 10), 10), Round(x, 10))
        /\ AtMost(Round(x, 10), Round(Round(x, 10), 10))
    BY RoundedScore
  <2>7. Round(Round(x, 10), 10) \in Fraction
    BY <2>6, RoundOrder, Tens
  <2> QED
    BY <2>5, <2>6, <2>7
<1>9. range \in Fraction
  BY <1>5, <1>7, RoundOrder, Tens
<1>10. PICK i \in 1 .. Len(xs) : AtMost(xs[i], Median(xs))
  BY <1>7
<1>11. AtMost(xs[i], range)
  <2>1. AtMost(Round(xs[i], 10), range)
    <3>1. xs[i] \in Fraction /\ Median(xs) \in Fraction /\ AtMost(xs[i], Median(xs))
      BY <1>7, <1>8, <1>10
    <3>2. AtMost(Round(xs[i], 10), Round(Median(xs), 10))
      BY <3>1, RoundOrder, Tens
    <3> QED
      BY <1>5, <3>2
  <2> QED
    BY <1>8, <1>9, <2>1, OrderFacts
<1>12. PICK j \in 1 .. Len(xs) : AtMost(Median(xs), xs[j])
  BY <1>7
<1>13. AtMost(range, xs[j])
  <2>1. AtMost(range, Round(xs[j], 10))
    <3>1. xs[j] \in Fraction /\ Median(xs) \in Fraction /\ AtMost(Median(xs), xs[j])
      BY <1>7, <1>8, <1>12
    <3>2. AtMost(Round(Median(xs), 10), Round(xs[j], 10))
      BY <3>1, RoundOrder, Tens
    <3> QED
      BY <1>5, <3>2
  <2> QED
    BY <1>8, <1>9, <2>1, OrderFacts
<1>14. PICK k \in 1 .. Len(history) : history[k].v["speed_score"] # None /\ xs[i] = history[k].v["speed_score"]
  BY <1>4
<1>15. PICK l \in 1 .. Len(history) : history[l].v["speed_score"] # None /\ xs[j] = history[l].v["speed_score"]
  BY <1>4
<1> QED
  BY <1>5, <1>11, <1>13, <1>14, <1>15

LEMMA ScoresHold == Remembered /\ Measured => ScoresOrdered
<1> SUFFICES ASSUME Remembered, Measured PROVE ScoresOrdered
  OBVIOUS
<1> DEFINE ScoredBy(key) == {i \in DOMAIN history : history[i].v[key] # None}
           Ordered(key, metrics) ==
               \A i, j \in ScoredBy(key) :
                  /\ AtMost(Zero, history[i].v[key]) /\ AtMost(history[i].v[key], Whole(100))
                  /\ (\A k \in DOMAIN metrics : Present(history[i].v[k], history[j].v[k]))
                     /\ NoWorse(history[i], history[j], metrics)
                     => AtMost(history[j].v[key], history[i].v[key])
<1>1. DOMAIN history = 1 .. Len(history) /\ \A i \in 1 .. Len(history) : IsResult(history[i])
  <2>1. history \in Seq(Range(rows)) /\ \A i \in 1 .. Len(history) : IsResult(history[i])
    BY HistoryIs
  <2> QED
    BY <2>1, LenProperties
<1>2. ASSUME NEW key, NEW metrics,
             \A i \in 1 .. Len(history) : history[i].v[key] # None => ScoredFrom(history[i], key, metrics)
      PROVE  Ordered(key, metrics)
  <2>1. SUFFICES ASSUME NEW i \in ScoredBy(key), NEW j \in ScoredBy(key)
                 PROVE  /\ AtMost(Zero, history[i].v[key]) /\ AtMost(history[i].v[key], Whole(100))
                        /\ (\A k \in DOMAIN metrics : Present(history[i].v[k], history[j].v[k]))
                           /\ NoWorse(history[i], history[j], metrics)
                           => AtMost(history[j].v[key], history[i].v[key])
    OBVIOUS
  <2>2. PICK r, s : r = history[i] /\ s = history[j]
    OBVIOUS
  <2>3. r.v[key] # None /\ s.v[key] # None /\ ScoredFrom(r, key, metrics) /\ ScoredFrom(s, key, metrics)
    BY <1>1, <1>2, <2>1, <2>2
  <2>4. AtMost(Zero, r.v[key]) /\ AtMost(r.v[key], Whole(100))
    BY <2>3, ScoreRange
  <2>5. (\A k \in DOMAIN metrics : Present(r.v[k], s.v[k])) /\ NoWorse(r, s, metrics) => AtMost(s.v[key], r.v[key])
    BY <2>3, ScoreOrder
  <2> QED
    BY <2>2, <2>4, <2>5
<1>3. Ordered("speed_score", SpeedMetrics) /\ Ordered("consistency_score", ConsistencyMetrics)
  <2>1. \A i \in 1 .. Len(history) :
           /\ history[i].v["speed_score"] # None => ScoredFrom(history[i], "speed_score", SpeedMetrics)
           /\ history[i].v["consistency_score"] # None => ScoredFrom(history[i], "consistency_score", ConsistencyMetrics)
    BY <1>1, ScoredIs
  <2> HIDE DEF Ordered
  <2> QED
    BY <1>2, <2>1
<1>4. ASSUME RangeScores(BenchOnly(history), uptime).speed # None
      PROVE  \E i, j \in ScoredBy("speed_score") :
                /\ AtMost(history[i].v["speed_score"], RangeScores(BenchOnly(history), uptime).speed)
                /\ AtMost(RangeScores(BenchOnly(history), uptime).speed, history[j].v["speed_score"])
  BY <1>1, <1>4, RangeOfScores
<1>5. ASSUME uptime # None, RangeScores(BenchOnly(history), uptime).reliability # None
      PROVE  ReliabilityScore(history, uptime) = RangeScores(BenchOnly(history), uptime).reliability
  <2>1. history \in Seq(Range(rows))
    BY HistoryIs
  <2> QED
    BY <1>5, <2>1, ReliabilityAgrees
<1> QED
  BY <1>3, <1>4, <1>5 DEF ScoresOrdered

Grades == [k \in DOMAIN SpeedMetrics \cup DOMAIN ConsistencyMetrics |->
              IF k \in DOMAIN SpeedMetrics THEN SpeedMetrics[k] ELSE ConsistencyMetrics[k]]

LEMMA GradesAre ==
    /\ DOMAIN Grades = DOMAIN SpeedMetrics \cup DOMAIN ConsistencyMetrics
    /\ DOMAIN Grades = {"ttft_ms", "tps"} \cup ConsistencyKeys
    /\ \A key \in DOMAIN Grades : Grades[key] \in TierMetrics
<1>1. DOMAIN SpeedMetrics = {"ttft_ms", "tps"} /\ DOMAIN ConsistencyMetrics = ConsistencyKeys
  BY DEF SpeedMetrics, ConsistencyMetrics, ConsistencyKeys
<1>2. SpeedMetrics["ttft_ms"] = "ttft" /\ SpeedMetrics["tps"] = "tps" /\ \A k \in ConsistencyKeys : ConsistencyMetrics[k] = k
  BY DEF SpeedMetrics, ConsistencyMetrics, ConsistencyKeys
<1> QED
  BY <1>1, <1>2 DEF Grades, TierMetrics

\* What a successful result has of the metrics that are graded.
LEMMA GradedValues ==
    ASSUME NEW r, IsResult(r), r.success, NEW key \in DOMAIN Grades
    PROVE  r.v[key] \in Number
<1>1. PICK n \in 0 .. MaxRows - 1 : \E t \in Samples[n], j \in Number :
         \A i \in {"success", "degraded", "available", "kind", "v"} : r[i] = ResultOf(t, j)[i]
  BY DEF IsResult
<1>2. PICK t \in Samples[n], j \in Number :
         \A i \in {"success", "degraded", "available", "kind", "v"} : r[i] = ResultOf(t, j)[i]
  BY <1>1
<1>3. IsTest(t)
  BY NumbersAssumption
<1>4. PICK m : m = Metrics(t, j)
  OBVIOUS
<1>5. Results(t, j)
  BY ResultIs
<1>6. r.v = ResultOf(t, j).v
  BY <1>2
<1>7. \A i \in DOMAIN m \ ScoreKeys : r.v[i] = IF t.type = "health" /\ i \notin HealthKeep THEN None ELSE m[i]
  BY <1>4, <1>5, <1>6 DEF Results
<1>8. Graded(m, SpeedMetrics) /\ {"ttft_ms", "tps"} \subseteq DOMAIN m /\ DOMAIN SpeedMetrics = {"ttft_ms", "tps"}
  BY <1>3, <1>4, SpeedGraded DEF SpeedMetrics
<1>9. Graded(m, ConsistencyMetrics) /\ ConsistencyKeys \subseteq DOMAIN m /\ DOMAIN ConsistencyMetrics = ConsistencyKeys
  BY <1>3, <1>4, ConsistencyGraded
<1>10. key \in DOMAIN m \ ScoreKeys /\ m[key] \in Number
  <2>1. ConsistencyKeys \cap ScoreKeys = {} /\ {"ttft_ms", "tps"} \cap ScoreKeys = {}
    BY DEF ConsistencyKeys, ScoreKeys
  <2>2. key \in {"ttft_ms", "tps"} \/ key \in ConsistencyKeys
    BY GradesAre
  <2> QED
    BY <1>8, <1>9, <2>1, <2>2 DEF Graded
<1> QED
  BY <1>7, <1>10 DEF Number

\* The score of a value lies between those where its tier and the next one begin.
TierBounded(x, metric) ==
    LET limits == Thresholds[metric].limits
        hib == Thresholds[metric].higherIsBetter
        n == Len(limits)
        tier == TierIdx(x, limits, hib)
        score == Scoring(x, metric)
    IN  /\ AtMost(IF hib THEN TierStart(tier, n) ELSE TierStart(Smaller2(tier + 1, n - 1), n), score)
        /\ AtMost(score, IF hib THEN TierStart(Larger2(tier - 1, 0), n) ELSE TierStart(tier, n))
        /\ tier = n - 1 => AtMost(score, TierStart(n - 2, n))

\* Both ways to place a value among the tiers agree.
LEMMA TierBounds ==
    ASSUME NEW metric \in TierMetrics, NEW x \in Fraction
    PROVE  TierBounded(x, metric)
<1>1. PICK limits, hib : limits = Thresholds[metric].limits /\ hib = Thresholds[metric].higherIsBetter
  OBVIOUS
<1>2. /\ Tiered(limits) /\ hib \in BOOLEAN
      /\ hib => LimitsDrop(limits)
      /\ ~hib => OpenLimits(limits)
  BY <1>1, MetricLimits
<1>3. PICK tier : tier = TierIdx(x, limits, hib)
  OBVIOUS
<1>4. InTier(x, limits, hib, tier)
  BY <1>2, <1>3, TierIdxIs
<1>5. PICK n \in Nat : n = Len(limits) /\ n - 1 \in Nat \ {0} /\ n >= 2
  BY <1>2, LimitFacts DEF Tiered
<1>6. x # None /\ Scoring(x, metric) \in Fraction /\ Scoring(x, metric) = IF hib THEN RisingScore(x, limits) ELSE FallingScore(x, limits)
  <2>1. x # None
    BY FractionFacts
  <2>2. Scoring(x, metric) = TierScore(x, limits, hib)
    BY <1>1 DEF Scoring
  <2>3. TierScore(x, limits, hib) = IF hib THEN RisingScore(x, limits) ELSE FallingScore(x, limits)
    BY <1>2, <1>5, <2>1 DEF TierScore
  <2> QED
    BY <2>1, <2>2, <2>3, ScoringFacts
<1>7. CASE hib = TRUE
  <2>1. InTier(x, limits, TRUE, tier)
    BY <1>4, <1>7
  <2>2. /\ AtMost(TierStart(tier, n), RisingScore(x, limits))
        /\ AtMost(RisingScore(x, limits), TierStart(Larger2(tier - 1, 0), n))
    BY <1>2, <1>5, <1>7, <2>1, RisingAgrees
  <2>3. tier = n - 1 => Larger2(tier - 1, 0) = n - 2
    BY <1>5 DEF Larger2
  <2> QED
    BY <1>1, <1>3, <1>5, <1>6, <1>7, <2>2, <2>3 DEF TierBounded
<1>8. CASE hib = FALSE
  <2>1. InTier(x, limits, FALSE, tier)
    BY <1>4, <1>8
  <2>2. /\ AtMost(TierStart(Smaller2(tier + 1, n - 1), n), FallingScore(x, limits))
        /\ AtMost(FallingScore(x, limits), TierStart(tier, n))
        /\ FallingScore(x, limits) \in Fraction
    BY <1>2, <1>5, <1>8, <2>1, FallingAgrees
  <2>3. ASSUME tier = n - 1 PROVE AtMost(FallingScore(x, limits), TierStart(n - 2, n))
    <3>1. PICK i \in Int, j \in Int : i = n - 2 /\ j = n - 1 /\ i <= j
      BY <1>5
    <3>2. TierStart(i, n) \in Fraction /\ TierStart(j, n) \in Fraction /\ AtMost(TierStart(j, n), TierStart(i, n))
      BY <1>5, <3>1, LevelOrder
    <3> QED
      BY <2>2, <2>3, <3>1, <3>2, OrderFacts
  <2> QED
    BY <1>1, <1>3, <1>5, <1>6, <1>8, <2>2, <2>3 DEF TierBounded
<1> QED
  BY <1>2, <1>7, <1>8

LEMMA TiersHold == Remembered /\ Measured => TiersAgree
<1> SUFFICES ASSUME Remembered, Measured PROVE TiersAgree
  OBVIOUS
<1>1. DOMAIN history = 1 .. Len(history) /\ \A i \in 1 .. Len(history) : IsResult(history[i])
  <2>1. history \in Seq(Range(rows)) /\ \A i \in 1 .. Len(history) : IsResult(history[i])
    BY HistoryIs
  <2> QED
    BY <2>1, LenProperties
<1>2. ASSUME NEW i \in DOMAIN history, NEW key \in DOMAIN Grades, history[i].success, history[i].v[key] # None
      PROVE  TierBounded(history[i].v[key], Grades[key])
  <2>1. PICK r : r = history[i] /\ IsResult(r)
    BY <1>1
  <2>2. r.v[key] \in Number
    BY <1>2, <2>1, GradedValues
  <2>3. r.v[key] \in Fraction
    BY <1>2, <2>1, <2>2 DEF Number
  <2>4. Grades[key] \in TierMetrics
    BY GradesAre
  <2> QED
    BY <2>1, <2>3, <2>4, TierBounds
<1>3. ASSUME NEW r, NEW key \in DOMAIN Grades, key \in CriticalMetrics(r, Grades)
      PROVE  TierIdx(r.v[key], Thresholds[Grades[key]].limits, Thresholds[Grades[key]].higherIsBetter)
                = Len(Thresholds[Grades[key]].limits) - 1
  BY <1>3 DEF CriticalMetrics
<1>4. ASSUME NEW r, NEW key PROVE MetricScore(key, Grades[key], r.v) = Scoring(r.v[key], Grades[key])
  BY DEF MetricScore, Scoring
<1>5. DOMAIN Grades = DOMAIN SpeedMetrics \cup DOMAIN ConsistencyMetrics
  BY GradesAre
<1> DEFINE Claim(both, i, key) ==
               LET r == history[i]
                   t == Thresholds[both[key]]
                   n == Len(t.limits)
                   tier == TierIdx(r.v[key], t.limits, t.higherIsBetter)
                   score == MetricScore(key, both[key], r.v)
                   at(k) == Round(Frac(n - 1 - k, n - 1), 10000)
                   best == IF t.higherIsBetter THEN at(Larger2(tier - 1, 0)) ELSE at(tier)
                   worst == IF t.higherIsBetter THEN at(tier) ELSE at(Smaller2(tier + 1, n - 1))
               IN  r.success /\ r.v[key] # None =>
                     /\ AtMost(worst, score) /\ AtMost(score, best)
                     /\ key \in CriticalMetrics(r, both) => AtMost(score, at(n - 2))
<1>6. ASSUME NEW i \in DOMAIN history, NEW key \in DOMAIN SpeedMetrics \cup DOMAIN ConsistencyMetrics
      PROVE  Claim(Grades, i, key)
  <2>1. SUFFICES ASSUME history[i].success, history[i].v[key] # None PROVE Claim(Grades, i, key)
    OBVIOUS
  <2>2. PICK r : r = history[i]
    OBVIOUS
  <2>3. TierBounded(r.v[key], Grades[key])
    BY <1>2, <1>5, <2>1, <2>2
  <2>4. key \in CriticalMetrics(r, Grades) =>
          TierIdx(r.v[key], Thresholds[Grades[key]].limits, Thresholds[Grades[key]].higherIsBetter)
            = Len(Thresholds[Grades[key]].limits) - 1
    BY <1>3, <1>5
  <2>5. MetricScore(key, Grades[key], r.v) = Scoring(r.v[key], Grades[key])
    BY <1>4
  <2> QED
    BY <2>2, <2>3, <2>4, <2>5 DEF TierBounded, TierStart
<1>7. TiersAgree <=>
        \A i \in DOMAIN history : \A key \in DOMAIN SpeedMetrics \cup DOMAIN ConsistencyMetrics : Claim(Grades, i, key)
  BY DEF TiersAgree, Grades
<1> QED
  BY <1>6, <1>7

\* The scores keep the order of the metrics, and their boundaries are those of the
\* tiers, whatever was recorded and forgotten (tier_continuous_score,
\* _weighted_tier_score, tier_idx, range_scores).
THEOREM GradesAgreeCorrect == HistorySpec => []GradesAgree
<1>1. Remembered /\ Measured => GradesAgree
  BY ScoresHold, TiersHold DEF GradesAgree
<1> QED
  BY <1>1, InitRemembered, NextRemembered, InitMeasured, NextMeasured, PTL DEF HistorySpec

-----------------------------------------------------------------------------
(* The numbers of a record                                                  *)

\* Rounding to a tenth takes less than a twentieth of what is above 1.
LEMMA RoundedShare ==
    ASSUME NEW x \in Fraction, Less(Whole(1), x)
    PROVE  /\ 0 < x.n /\ Over(Round(x, 10), x) \in Fraction
           /\ AtMost(Frac(95, 100), Over(Round(x, 10), x))
<1>1. PICK n \in Int, d \in Nat \ {0} : n = x.n /\ d = x.d /\ Equals(x, n, d)
  BY Ratio
<1>2. d < n
  <2>1. \A a \in Int, b \in Nat \ {0} : Equals(Whole(1), a, b) => (Less(Whole(1), x) <=> a * d < n * b)
    BY <1>1, EqualsOrder
  <2>2. Equals(Whole(1), 1, 1) /\ 1 \in Int /\ 1 \in Nat \ {0} /\ 1 * d = d /\ n * 1 = n
    BY Constants
  <2> QED
    BY <2>1, <2>2
<1>3. PICK s \in Nat \ {0} : s = 10
  BY Tens
<1>4. PICK k \in Int : Nearest(k, n, d, s) /\ Round(x, s) = Frac(k, s)
  BY <1>1, RoundIs
<1>5. Equals(Round(x, s), k, s) /\ Round(x, s) \in Fraction
  BY <1>4, FracEquals DEF Equals
<1>6. n \in Nat \ {0}
  BY <1>2
<1>7. Equals(Over(Round(x, s), x), k * d, s * n)
  BY <1>1, <1>5, <1>6, OverOf
<1>8. k * d \in Int /\ s * n \in Nat \ {0}
  BY <1>6, Products
<1>9. 95 * (s * n) <= (k * d) * 100
  <2>1. 2 * (n * s) <= 2 * (k * d) + d
    BY <1>4 DEF Nearest
  <2>2. PICK p \in Int : p = k * d
    BY <1>8
  <2> QED
    BY <1>2, <1>3, <2>1, <2>2
<1>10. AtMost(Frac(95, 100), Over(Round(x, s), x))
  <2>1. \A a \in Int, b \in Nat \ {0} : Equals(Frac(a, b), a, b)
    BY FracEquals
  <2>2. PICK a \in Int, b \in Nat \ {0} : a = 95 /\ b = 100
    BY Tens
  <2>3. Equals(Frac(a, b), a, b)
    BY <2>1
  <2>4. AtMost(Frac(a, b), Over(Round(x, s), x)) <=> a * (s * n) <= (k * d) * b
    BY <1>7, <1>8, <2>3, EqualsOrder
  <2> QED
    BY <1>9, <2>2, <2>4
<1>11. Over(Round(x, s), x) \in Fraction
  BY <1>7, <1>8, EqualsFacts
<1> QED
  BY <1>1, <1>3, <1>6, <1>10, <1>11

\* The numbers between tokens.
LEMMA EffectiveAgrees ==
    ASSUME NEW xs, NEW shrink, Sampled(xs, shrink), \A i \in 1 .. Len(xs) : Less(Whole(1), xs[i]),
           EffectiveOf(xs, shrink).p99 # None
    PROVE  /\ AtMost(EffectiveOf(xs, shrink).median, EffectiveOf(xs, shrink).p99)
           /\ AtMost(Frac(95, 100), EffectiveOf(xs, shrink).tail)
<1>1. xs # <<>> /\ xs \in Seq(Fraction)
  BY EffectiveIs DEF Sampled
<1>2. /\ EffectiveOf(xs, shrink).median = Round(Median(xs), 10)
      /\ EffectiveOf(xs, shrink).p99 = P99(xs, shrink)
      /\ EffectiveOf(xs, shrink).tail = IF RatioOf(xs, shrink) = None THEN None
                                        ELSE Smaller(Round(RatioOf(xs, shrink), 100), Whole(100))
  BY <1>1, EffectiveIs
<1>3. PICK med \in Fraction, u \in Fraction, p \in Fraction :
         med = Median(xs) /\ u = UpperEnd(xs, shrink) /\ p = P99(xs, shrink) /\ p = Round(u, 10) /\ AtMost(med, u)
  BY <1>1, P99Is
<1>4. Round(med, 10) \in Fraction /\ AtMost(Round(med, 10), p)
  BY <1>3, RoundOrder, Tens
<1>5. Less(Whole(1), med)
  <2>1. PICK i \in 1 .. Len(xs) : AtMost(xs[i], med)
    BY <1>1, <1>3, MedianBetween
  <2>2. xs[i] \in Fraction /\ Less(Whole(1), xs[i])
    BY <1>1, ElementOfSeq
  <2> QED
    BY <2>1, <2>2, Constants, OrderFacts
<1>6. RatioOf(xs, shrink) = Over(p, med)
  <2>1. AtMost(Whole(1), med) /\ ~Less(med, Whole(1))
    BY <1>5, Constants, OrderFacts DEF AtMost
  <2> QED
    BY <1>3, <2>1 DEF RatioOf
<1>7. 0 < med.n /\ Over(Round(med, 10), med) \in Fraction /\ AtMost(Frac(95, 100), Over(Round(med, 10), med))
  BY <1>5, RoundedShare
<1>8. Over(p, med) \in Fraction /\ AtMost(Over(Round(med, 10), med), Over(p, med))
  BY <1>4, <1>7, Closed, OverOrder
<1>9. \A a \in Int, b \in Nat \ {0} : /\ Frac(a, b) \in Fraction /\ Round(Frac(a, b), b) \in Fraction
                                      /\ AtMost(Frac(a, b), Round(Frac(a, b), b))
  <2> SUFFICES ASSUME NEW a \in Int, NEW b \in Nat \ {0}
               PROVE  /\ Frac(a, b) \in Fraction /\ Round(Frac(a, b), b) \in Fraction
                      /\ AtMost(Frac(a, b), Round(Frac(a, b), b))
    OBVIOUS
  <2>1. Equals(Frac(a, b), a, b)
    BY FracEquals
  <2>2. Equals(Round(Frac(a, b), b), a, b)
    BY <2>1, RoundAgain
  <2> QED
    BY <2>1, <2>2, SameNumber, EqualsFacts
<1>10. PICK c \in Fraction : c = Frac(95, 100) /\ Round(c, 100) \in Fraction /\ AtMost(c, Round(c, 100))
  <2>1. 95 \in Int
    OBVIOUS
  <2> QED
    BY <1>9, <2>1, Tens
<1>11. PICK q \in Fraction : q = Over(p, med) /\ AtMost(c, q)
  BY <1>7, <1>8, <1>10, OrderFacts
<1>12. Round(q, 100) \in Fraction /\ AtMost(c, Round(q, 100))
  <2>1. Round(q, 100) \in Fraction /\ AtMost(Round(c, 100), Round(q, 100))
    BY <1>11, RoundOrder, Tens
  <2> QED
    BY <1>10, <2>1, OrderFacts
<1>13. Whole(100) \in Fraction /\ AtMost(c, Whole(100))
  <2>1. \A a, k \in Int, b, l \in Nat \ {0} :
           Equals(Frac(a, b), a, b) /\ Equals(Whole(k), k, l) => (AtMost(Frac(a, b), Whole(k)) <=> a * l <= k * b)
    BY EqualsOrder
  <2>2. Equals(Frac(95, 100), 95, 100)
    <3>1. \A a \in Int, b \in Nat \ {0} : Equals(Frac(a, b), a, b)
      BY FracEquals
    <3>2. 95 \in Int
      OBVIOUS
    <3> QED
      BY <3>1, <3>2, Tens
  <2>3. Equals(Whole(100), 100, 1) /\ Whole(100) \in Fraction
    BY WholeFacts, Tens
  <2>4. 95 \in Int /\ 100 \in Int /\ 1 \in Nat \ {0} /\ 100 \in Nat \ {0} /\ 95 * 1 <= 100 * 100
    OBVIOUS
  <2> QED
    BY <1>10, <2>1, <2>2, <2>3, <2>4
<1>14. AtMost(c, Smaller(Round(q, 100), Whole(100)))
  <2>1. Smaller(Round(q, 100), Whole(100)) \in {Round(q, 100), Whole(100)}
    BY <1>12, <1>13, OrderFacts
  <2> QED
    BY <1>12, <1>13, <2>1
<1>15. q # None
  BY FractionFacts
<1> QED
  BY <1>2, <1>3, <1>4, <1>6, <1>10, <1>11, <1>14, <1>15

\* No gap is longer than the longest.
LEMMA LongestGap ==
    ASSUME NEW t, IsTest(t), t.gaps # <<>>
    PROVE  /\ Max(Range(t.gaps)) \in Nat
           /\ \A k \in 1 .. Len(t.gaps) : t.gaps[k] <= Max(Range(t.gaps))
<1>1. t.gaps \in Seq(Nat) /\ Len(t.gaps) \in Nat /\ Len(t.gaps) # 0
  BY CountTypes, EmptySeq
<1>2. DOMAIN t.gaps = 1 .. Len(t.gaps) /\ \A k \in 1 .. Len(t.gaps) : t.gaps[k] \in Nat
  BY <1>1, LenProperties, ElementOfSeq
<1>3. PICK n \in Nat : n = SumOf(t.gaps) /\ \A k \in 1 .. Len(t.gaps) : t.gaps[k] <= n
  BY <1>1, SumGrows
<1>4. Range(t.gaps) = {t.gaps[k] : k \in 1 .. Len(t.gaps)}
  BY <1>2 DEF Range
<1>5. Range(t.gaps) \subseteq 0 .. n /\ Range(t.gaps) # {}
  <2>1. 1 \in 1 .. Len(t.gaps)
    BY <1>1
  <2>2. t.gaps[1] \in Range(t.gaps)
    BY <1>4, <2>1
  <2>3. ASSUME NEW x \in Range(t.gaps) PROVE x \in 0 .. n
    <3>1. PICK k \in 1 .. Len(t.gaps) : x = t.gaps[k]
      BY <1>4
    <3>2. x \in Nat /\ x <= n
      BY <1>2, <1>3, <3>1
    <3> QED
      BY <3>2
  <2> QED
    BY <2>2, <2>3
<1>6. Max(Range(t.gaps)) \in Range(t.gaps) /\ \A i \in Range(t.gaps) : i <= Max(Range(t.gaps))
  BY <1>5, MaxFacts
<1> QED
  BY <1>4, <1>5, <1>6

\* What _compute_itl_statistics gives of the gaps between chunks.
LEMMA RawIs ==
    ASSUME NEW t, NEW xs, NEW shrink
    PROVE  /\ xs = <<>> => RawOf(t, xs, shrink).p99 = None /\ RawOf(t, xs, shrink).n = 0
           /\ xs # <<>> => /\ RawOf(t, xs, shrink).median = Median(xs)
                           /\ RawOf(t, xs, shrink).p99 = P99(xs, shrink)
           /\ xs # <<>> /\ t.gaps # <<>> =>
                 RawOf(t, xs, shrink).max = Round(Adjust(Whole(Max(Range(t.gaps))), Median(xs), shrink), 10)
  BY DEF RawOf

\* The numbers between chunks.
LEMMA RawAgrees ==
    ASSUME NEW t, IsTest(t), NEW j \in Number, RawItl(t, j).p99 # None
    PROVE  /\ AtMost(Round(RawItl(t, j).median, 10), RawItl(t, j).p99)
           /\ AtMost(RawItl(t, j).p99, RawItl(t, j).max)
<1>1. /\ RawGaps(t) \in Seq(Fraction) /\ Len(RawGaps(t)) = Len(t.gaps)
      /\ \A k \in 1 .. Len(t.gaps) : t.gaps[k] \in Nat /\ RawGaps(t)[k] = Whole(t.gaps[k])
  BY GapFacts
<1>2. PICK xs \in Seq(Fraction) : xs = Measurable(t, RawGaps(t))
  BY <1>1, MeasurableFacts
<1>3. \A i \in 1 .. Len(xs) : \E k \in 1 .. Len(t.gaps) : xs[i] = Whole(t.gaps[k])
  <2>1. \A i \in 1 .. Len(xs) : \E k \in 1 .. Len(RawGaps(t)) : xs[i] = RawGaps(t)[k]
    BY <1>1, <1>2, MeasurableFacts
  <2> QED
    BY <1>1, <2>1
<1>4. PICK shrink : shrink = Shrinkage(xs, j) /\ Sampled(xs, shrink)
  BY <1>1, <1>2, SampledFacts
<1>5. PICK raw : raw = RawItl(t, j) /\ raw = RawOf(t, xs, shrink)
  BY <1>2, <1>4 DEF RawItl
<1>6. xs # <<>>
  BY <1>5, RawIs
<1>7. t.gaps # <<>>
  <2>1. Len(xs) \in Nat /\ Len(xs) # 0
    BY <1>2, <1>6, LenProperties, EmptySeq
  <2>2. 1 \in 1 .. Len(xs)
    BY <2>1
  <2>3. PICK k \in 1 .. Len(t.gaps) : xs[1] = Whole(t.gaps[k])
    BY <1>3, <2>2
  <2>4. Len(t.gaps) # 0
    BY <2>3
  <2> QED
    BY <2>4, EmptySeq
<1>8. PICK top \in Fraction : top = Whole(Max(Range(t.gaps))) /\ \A i \in 1 .. Len(xs) : AtMost(xs[i], top)
  <2>1. PICK longest \in Nat : longest = Max(Range(t.gaps)) /\ \A k \in 1 .. Len(t.gaps) : t.gaps[k] <= longest
    BY <1>7, LongestGap
  <2>2. \A k \in 1 .. Len(t.gaps) : AtMost(Whole(t.gaps[k]), Whole(longest))
    <3>1. \A a, b \in Nat : AtMost(Whole(a), Whole(b)) <=> a <= b
      BY WholeFacts
    <3> QED
      BY <1>1, <2>1, <3>1
  <2>3. Whole(longest) \in Fraction
    BY FractionFacts
  <2> QED
    BY <1>3, <2>1, <2>2, <2>3
<1>9. PICK med \in Fraction, u \in Fraction, p \in Fraction :
         med = Median(xs) /\ u = UpperEnd(xs, shrink) /\ p = P99(xs, shrink) /\ p = Round(u, 10) /\ AtMost(med, u)
  BY <1>4, <1>6, P99Is
<1>10. AtMost(u, Adjust(top, med, shrink))
  BY <1>4, <1>6, <1>8, <1>9, TailFacts DEF Sampled
<1>11. Adjust(top, med, shrink) \in Fraction
  BY <1>4, AdjustFacts DEF Sampled
<1>12. AtMost(Round(med, 10), p) /\ AtMost(p, Round(Adjust(top, med, shrink), 10))
  BY <1>9, <1>10, <1>11, RoundOrder, Tens
<1>13. raw.median = med /\ raw.p99 = p /\ raw.max = Round(Adjust(top, med, shrink), 10)
  <2>1. /\ RawOf(t, xs, shrink).median = Median(xs) /\ RawOf(t, xs, shrink).p99 = P99(xs, shrink)
        /\ RawOf(t, xs, shrink).max = Round(Adjust(Whole(Max(Range(t.gaps))), Median(xs), shrink), 10)
    BY <1>6, <1>7, RawIs
  <2> QED
    BY ONLY <1>5, <1>8, <1>9, <2>1
<1> QED
  BY <1>5, <1>12, <1>13

\* A reliable record has a percentile, and few bursts.
LEMMA ReliableNumbers ==
    ASSUME NEW t, IsTest(t), NEW j \in Number, NEW eff, ItlReliable(t, RawItl(t, j), eff)
    PROVE  RawItl(t, j).p99 # None /\ Less(BurstPct(t), Whole(30))
<1>1. PICK raw : raw = RawItl(t, j)
  OBVIOUS
<1>2. raw.n >= MinSamples /\ Less(BurstPct(t), Whole(30))
  BY <1>1 DEF ItlReliable
<1>3. RawGaps(t) \in Seq(Fraction)
  BY GapFacts
<1>4. PICK xs : xs = Measurable(t, RawGaps(t)) /\ Sampled(xs, Shrinkage(xs, j))
  BY <1>3, SampledFacts
<1>5. raw = RawOf(t, xs, Shrinkage(xs, j))
  BY <1>1, <1>4 DEF RawItl
<1>6. xs # <<>>
  <2>1. raw.n # 0
    BY <1>2, NumbersAssumption
  <2> QED
    BY <1>5, <2>1, RawIs
<1>7. raw.p99 = P99(xs, Shrinkage(xs, j)) /\ raw.p99 \in Fraction
  BY <1>4, <1>5, <1>6, RawIs, P99Is
<1> QED
  BY <1>1, <1>2, <1>7, FractionFacts

\* A count that is not plausible is not kept.
LEMMA PlausibleTokens ==
    ASSUME NEW t, IsTest(t), Validated(t) # Absent
    PROVE  10 * Validated(t) <= 12 * TokenLimit(t.type, t.anthropic, t.override)
<1>1. PICK limit \in Int : limit = TokenLimit(t.type, t.anthropic, t.override)
  BY CountTypes
<1>2. limit > 0
  <2>1. t.override \in Nat
    BY DEF IsTest
  <2>2. MaxTokens(t.type, t.override) \in Nat \ {0}
    BY <2>1, NumbersAssumption DEF MaxTokens
  <2>3. Budget(t.type, t.anthropic, t.override) \in Nat
    BY <2>2, NumbersAssumption DEF Budget, Smaller2
  <2> QED
    BY <1>1, <2>2, <2>3 DEF TokenLimit
<1>3. PICK reported : reported = CompletionTokens(t.usage.output, limit)
  OBVIOUS
<1>4. Validated(t) = reported
  <2>1. Validated(t) \in {reported, Absent}
    BY <1>1, <1>3 DEF Validated
  <2> QED
    BY <2>1
<1>5. t.usage.output \in Int
  BY DEF IsTest
<1>6. reported = t.usage.output /\ ~(10 * t.usage.output > 12 * limit)
  BY <1>2, <1>3, <1>4 DEF CompletionTokens
<1>7. PICK c \in Int : c = t.usage.output
  BY <1>5
<1>8. 10 * c <= 12 * limit
  BY <1>6, <1>7
<1> QED
  BY <1>1, <1>4, <1>6, <1>7, <1>8

\* Where a stall is, in percent of the answer.
PlaceOf(k, n) == Round(Frac(100 * (k - 1), n), 10)

\* A later stall is not placed before an earlier one.
LEMMA PlaceOrder ==
    ASSUME NEW n \in Nat \ {0}, NEW k \in Nat, NEW l \in Nat, k <= l
    PROVE  PlaceOf(k, n) \in Fraction /\ PlaceOf(l, n) \in Fraction /\ AtMost(PlaceOf(k, n), PlaceOf(l, n))
<1>1. PICK a \in Int, b \in Int : a = 100 * (k - 1) /\ b = 100 * (l - 1) /\ a <= b
  OBVIOUS
<1>2. Equals(Frac(a, n), a, n) /\ Equals(Frac(b, n), b, n)
  BY FracEquals
<1>3. a * n <= b * n
  BY <1>1, MulOrder
<1>4. Frac(a, n) \in Fraction /\ Frac(b, n) \in Fraction /\ AtMost(Frac(a, n), Frac(b, n))
  BY <1>2, <1>3, EqualsOrder, EqualsFacts
<1>5. /\ Round(Frac(a, n), 10) \in Fraction /\ Round(Frac(b, n), 10) \in Fraction
      /\ AtMost(Round(Frac(a, n), 10), Round(Frac(b, n), 10))
  BY <1>4, RoundOrder, Tens
<1> QED
  BY <1>1, <1>5 DEF PlaceOf

\* What compute_stall_metrics gives.
LEMMA StallsAre ==
    ASSUME NEW t, NEW S
    PROVE  /\ t.gaps = <<>> \/ IsHealth(t) =>
                 /\ StallMetrics(t, S).first = None /\ StallMetrics(t, S).clusters = 0
                 /\ StallMetrics(t, S).ratio = None
           /\ t.gaps # <<>> /\ ~IsHealth(t) /\ S = {} =>
                 /\ StallMetrics(t, S).first = None /\ StallMetrics(t, S).clusters = 0
                 /\ StallMetrics(t, S).ratio = Zero
           /\ t.gaps # <<>> /\ ~IsHealth(t) /\ S # {} =>
                 /\ StallMetrics(t, S).first = PlaceOf(Min(S), Len(t.gaps))
                 /\ StallMetrics(t, S).last = PlaceOf(Max(S), Len(t.gaps))
                 /\ StallMetrics(t, S).clusters = Cardinality({k \in S : k - 1 \notin S})
<1> DEFINE none == [first |-> None, last |-> None, clusters |-> 0, ratio |-> None]
<1>1. CASE t.gaps = <<>> \/ IsHealth(t)
  <2>1. StallMetrics(t, S) = none
    BY <1>1 DEF StallMetrics
  <2> QED
    BY <1>1, <2>1
<1>2. CASE t.gaps # <<>> /\ ~IsHealth(t) /\ S = {}
  <2>1. StallMetrics(t, S) = [none EXCEPT !.ratio = Zero]
    BY <1>2 DEF StallMetrics
  <2> QED
    BY <1>2, <2>1
<1>3. CASE t.gaps # <<>> /\ ~IsHealth(t) /\ S # {}
  <2>1. StallMetrics(t, S) =
          [first |-> PlaceOf(Min(S), Len(t.gaps)), last |-> PlaceOf(Max(S), Len(t.gaps)),
           clusters |-> Cardinality({k \in S : k - 1 \notin S}),
           ratio |-> Round(Frac(Cardinality(S), Len(t.gaps)), 1000)]
    BY <1>3 DEF StallMetrics, PlaceOf
  <2> QED
    BY <1>3, <2>1
<1> QED
  BY <1>1, <1>2, <1>3

\* The stalls of a test, their count, share, clusters and places.
StallsFit(count, stalls) ==
    /\ AtMost(Whole(stalls.clusters), Whole(count))
    /\ Whole(count) = Zero => stalls.ratio \in {None, Zero}
    /\ (Whole(count) = Zero) <=> (stalls.first = None)
    /\ Whole(count) # Zero =>
          /\ AtMost(stalls.first, stalls.last)
          /\ (Whole(count) = Whole(1)) => stalls.first = stalls.last

\* The stalls of a benchmark agree with each other.
LEMMA StallsAgree ==
    ASSUME NEW t, IsTest(t), t.type = "benchmark", NEW S, S \subseteq DOMAIN t.gaps
    PROVE  StallsFit(Cardinality(S), StallMetrics(t, S))
<1>1. ~IsHealth(t)
  BY DEF IsHealth
<1>2. IsFiniteSet(S) /\ Cardinality(S) \in Nat /\ S \subseteq 1 .. Len(t.gaps) /\ S \subseteq Nat
  BY GapsAt
<1>3. PICK c \in Nat : c = Cardinality(S)
  BY <1>2
<1>4. PICK stalls : stalls = StallMetrics(t, S)
  OBVIOUS
<1>5. (Whole(c) = Zero <=> c = 0) /\ (Whole(c) = Whole(1) <=> c = 1)
  BY DEF Whole, Zero
<1>6. \A a, b \in Nat : a <= b => AtMost(Whole(a), Whole(b))
  BY WholeFacts
<1>7. CASE S = {}
  <2>1. c = 0
    BY <1>3, <1>7, FS_EmptySet
  <2>2. stalls.first = None /\ stalls.clusters = 0 /\ stalls.ratio \in {None, Zero}
    <3>1. CASE t.gaps = <<>>
      BY <1>4, <3>1, StallsAre
    <3>2. CASE t.gaps # <<>>
      BY <1>1, <1>4, <1>7, <3>2, StallsAre
    <3> QED
      BY <3>1, <3>2
  <2>3. AtMost(Whole(stalls.clusters), Whole(c))
    BY <1>6, <2>1, <2>2
  <2> QED
    BY <1>3, <1>4, <1>5, <2>1, <2>2, <2>3 DEF StallsFit
<1>8. CASE S # {}
  <2>1. t.gaps # <<>> /\ Len(t.gaps) \in Nat \ {0}
    <3>1. Len(t.gaps) \in Nat /\ (t.gaps = <<>> => Len(t.gaps) = 0)
      BY CountTypes, EmptySeq
    <3>2. Len(t.gaps) # 0
      BY <1>2, <1>8
    <3> QED
      BY <3>1, <3>2
  <2>2. PICK n \in Nat \ {0} : n = Len(t.gaps)
    BY <2>1
  <2>3. c # 0
    BY <1>2, <1>3, <1>8, FS_EmptySet
  <2>4. PICK low \in Nat : low = Min(S) /\ low \in S /\ \A i \in S : low <= i
    BY <1>2, <1>8, MinFacts
  <2>5. PICK high \in Nat : high = Max(S) /\ high \in S /\ \A i \in S : i <= high
    <3>1. S \subseteq 0 .. n
      BY <1>2, <2>2
    <3> QED
      BY <1>2, <1>8, <3>1, MaxFacts
  <2>6. /\ stalls.first = PlaceOf(low, n) /\ stalls.last = PlaceOf(high, n)
        /\ stalls.clusters = Cardinality({k \in S : k - 1 \notin S})
    BY <1>1, <1>4, <1>8, <2>1, <2>2, <2>4, <2>5, StallsAre
  <2>7. stalls.first \in Fraction /\ AtMost(stalls.first, stalls.last)
    <3>1. low <= high
      BY <2>4, <2>5
    <3> QED
      BY <2>6, <3>1, PlaceOrder
  <2>8. AtMost(Whole(stalls.clusters), Whole(c))
    <3> DEFINE T == {k \in S : k - 1 \notin S}
    <3>1. T \in SUBSET S
      OBVIOUS
    <3> HIDE DEF T
    <3>2. IsFiniteSet(T) /\ Cardinality(T) <= Cardinality(S)
      BY <1>2, <3>1, FS_Subset
    <3>3. Cardinality(T) \in Nat
      BY <3>2, FS_CardinalityType
    <3> QED
      BY <1>3, <1>6, <2>6, <3>2, <3>3 DEF T
  <2>9. ASSUME c = 1 PROVE stalls.first = stalls.last
    <3>1. PICK x : S = {x}
      BY <1>2, <1>3, <2>9, FS_Singleton
    <3>2. low = high
      BY <2>4, <2>5, <3>1
    <3> QED
      BY <2>6, <3>2
  <2>10. stalls.first # None
    BY <2>7, FractionFacts
  <2> QED
    BY <1>3, <1>4, <1>5, <2>3, <2>7, <2>8, <2>9, <2>10 DEF StallsFit
<1> QED
  BY <1>7, <1>8

\* The numbers of a benchmark, as the record keeps them.
MeasurementsFit(m) ==
    /\ m.raw_p99_itl_ms # None => /\ AtMost(m.raw_median_itl_ms, m.raw_p99_itl_ms)
                                  /\ AtMost(m.raw_p99_itl_ms, m.raw_max_itl_ms)
    /\ m.effective_p99_itl_ms # None =>
          /\ AtMost(m.effective_median_itl_ms, m.effective_p99_itl_ms)
          /\ AtMost(Frac(95, 100), m.effective_itl_tail_ratio)
    /\ m.itl_reliable = Whole(1) => m.raw_p99_itl_ms # None /\ Less(m.burst_arrival_pct, Whole(30))
    /\ m.completion_tokens # None => \E l \in Limits : 10 * m.completion_tokens.n <= 12 * l
    /\ AtMost(m.stall_clusters, m.stall_count)
    /\ m.stall_count = Zero => m.stall_ratio \in {None, Zero}
    /\ (m.stall_count = Zero) <=> (m.stall_first_pct = None)
    /\ m.stall_count # Zero =>
          /\ AtMost(m.stall_first_pct, m.stall_last_pct)
          /\ (m.stall_count = Whole(1)) => m.stall_first_pct = m.stall_last_pct

FitKeys == {"raw_p99_itl_ms", "raw_median_itl_ms", "raw_max_itl_ms", "effective_p99_itl_ms",
            "effective_median_itl_ms", "effective_itl_tail_ratio", "itl_reliable", "burst_arrival_pct",
            "completion_tokens", "stall_clusters", "stall_count", "stall_ratio", "stall_first_pct",
            "stall_last_pct"}

LEMMA MetricsAre ==
    ASSUME NEW t, NEW j
    PROVE  LET m == Metrics(t, j)
               raw == RawItl(t, j)
               eff == EffectiveItl(t, j)
               stalls == StallMetrics(t, StallsAt(t, j))
           IN  /\ FitKeys \subseteq DOMAIN m
               /\ m.raw_p99_itl_ms = raw.p99 /\ m.raw_median_itl_ms = Round(raw.median, 10)
               /\ m.raw_max_itl_ms = raw.max
               /\ m.effective_p99_itl_ms = eff.p99 /\ m.effective_median_itl_ms = eff.median
               /\ m.effective_itl_tail_ratio = eff.tail
               /\ m.itl_reliable = IF ItlReliable(t, raw, eff) THEN Whole(1) ELSE Zero
               /\ m.burst_arrival_pct = BurstPct(t)
               /\ m.completion_tokens = IF Validated(t) = Absent THEN None ELSE Whole(Validated(t))
               /\ m.stall_count = Whole(Cardinality(StallsAt(t, j)))
               /\ m.stall_clusters = Whole(stalls.clusters) /\ m.stall_ratio = stalls.ratio
               /\ m.stall_first_pct = stalls.first /\ m.stall_last_pct = stalls.last
  BY DEF Metrics, MetricsOf, FitKeys

\* The metrics of a benchmark fit each other.
LEMMA MetricsFit ==
    ASSUME NEW n \in 0 .. MaxRows - 1, NEW t \in Samples[n], t.type = "benchmark", NEW j \in Number
    PROVE  MeasurementsFit(Metrics(t, j))
<1>1. IsTest(t)
  BY NumbersAssumption
<1>2. PICK m : m = Metrics(t, j)
  OBVIOUS
<1>3. PICK raw, eff, stalls : raw = RawItl(t, j) /\ eff = EffectiveItl(t, j) /\ stalls = StallMetrics(t, StallsAt(t, j))
  OBVIOUS
<1>4. /\ m.raw_p99_itl_ms = raw.p99 /\ m.raw_median_itl_ms = Round(raw.median, 10)
      /\ m.raw_max_itl_ms = raw.max
      /\ m.effective_p99_itl_ms = eff.p99 /\ m.effective_median_itl_ms = eff.median
      /\ m.effective_itl_tail_ratio = eff.tail
      /\ m.itl_reliable = IF ItlReliable(t, raw, eff) THEN Whole(1) ELSE Zero
      /\ m.burst_arrival_pct = BurstPct(t)
      /\ m.completion_tokens = IF Validated(t) = Absent THEN None ELSE Whole(Validated(t))
      /\ m.stall_count = Whole(Cardinality(StallsAt(t, j)))
      /\ m.stall_clusters = Whole(stalls.clusters) /\ m.stall_ratio = stalls.ratio
      /\ m.stall_first_pct = stalls.first /\ m.stall_last_pct = stalls.last
  BY <1>2, <1>3, MetricsAre
<1>5. raw.p99 # None => AtMost(Round(raw.median, 10), raw.p99) /\ AtMost(raw.p99, raw.max)
  BY <1>1, <1>3, RawAgrees
<1>6. eff.p99 # None => AtMost(eff.median, eff.p99) /\ AtMost(Frac(95, 100), eff.tail)
  <2>1. EffectiveGaps(t) \in Seq(Fraction)
    BY <1>1, GapFacts
  <2>2. PICK xs : xs = Measurable(t, EffectiveGaps(t)) /\ Sampled(xs, Shrinkage(xs, j))
    BY <2>1, SampledFacts
  <2>3. \A i \in 1 .. Len(xs) : Less(Whole(1), xs[i])
    BY <2>1, <2>2, MeasurableFacts DEF IsHealth
  <2>4. eff = EffectiveOf(xs, Shrinkage(xs, j))
    BY <1>3, <2>2 DEF EffectiveItl
  <2> QED
    BY <2>2, <2>3, <2>4, EffectiveAgrees
<1>7. ItlReliable(t, raw, eff) => raw.p99 # None /\ Less(BurstPct(t), Whole(30))
  BY <1>1, <1>3, ReliableNumbers
<1>8. Whole(1) # Zero
  BY DEF Whole, Zero
<1>9. m.completion_tokens # None => \E l \in Limits : 10 * m.completion_tokens.n <= 12 * l
  <2>1. SUFFICES ASSUME Validated(t) # Absent PROVE \E l \in Limits : 10 * m.completion_tokens.n <= 12 * l
    BY <1>4
  <2>2. m.completion_tokens.n = Validated(t)
    BY <1>4, <2>1 DEF Whole
  <2>3. 10 * Validated(t) <= 12 * TokenLimit(t.type, t.anthropic, t.override)
    BY <1>1, <2>1, PlausibleTokens
  <2>4. TokenLimit(t.type, t.anthropic, t.override) \in Limits
    BY DEF Limits
  <2> QED
    BY <2>2, <2>3, <2>4
<1>10. StallsFit(Cardinality(StallsAt(t, j)), stalls)
  <2>1. StallsAt(t, j) \subseteq DOMAIN t.gaps
    BY DEF StallsAt
  <2> QED
    BY <1>1, <1>3, <2>1, StallsAgree
<1>11. MeasurementsFit(m)
  <2>1. m.itl_reliable = Whole(1) => m.raw_p99_itl_ms # None /\ Less(m.burst_arrival_pct, Whole(30))
    BY <1>4, <1>7, <1>8
  <2>2. /\ AtMost(m.stall_clusters, m.stall_count)
        /\ m.stall_count = Zero => m.stall_ratio \in {None, Zero}
        /\ (m.stall_count = Zero) <=> (m.stall_first_pct = None)
        /\ m.stall_count # Zero =>
              /\ AtMost(m.stall_first_pct, m.stall_last_pct)
              /\ (m.stall_count = Whole(1)) => m.stall_first_pct = m.stall_last_pct
    BY <1>4, <1>10 DEF StallsFit
  <2>3. m.raw_p99_itl_ms # None => /\ AtMost(m.raw_median_itl_ms, m.raw_p99_itl_ms)
                                   /\ AtMost(m.raw_p99_itl_ms, m.raw_max_itl_ms)
    BY <1>4, <1>5
  <2>4. m.effective_p99_itl_ms # None =>
           /\ AtMost(m.effective_median_itl_ms, m.effective_p99_itl_ms)
           /\ AtMost(Frac(95, 100), m.effective_itl_tail_ratio)
    BY <1>4, <1>6
  <2> QED
    BY <1>9, <2>1, <2>2, <2>3, <2>4 DEF MeasurementsFit
<1> QED
  BY <1>2, <1>11

\* ... and whatever has the same numbers.
LEMMA FitsAgain ==
    ASSUME NEW m, NEW v, \A k \in FitKeys : v[k] = m[k], MeasurementsFit(m)
    PROVE  MeasurementsFit(v)
<1>1. /\ v.raw_p99_itl_ms = m.raw_p99_itl_ms /\ v.raw_median_itl_ms = m.raw_median_itl_ms
      /\ v.raw_max_itl_ms = m.raw_max_itl_ms /\ v.effective_p99_itl_ms = m.effective_p99_itl_ms
      /\ v.effective_median_itl_ms = m.effective_median_itl_ms
      /\ v.effective_itl_tail_ratio = m.effective_itl_tail_ratio
      /\ v.itl_reliable = m.itl_reliable /\ v.burst_arrival_pct = m.burst_arrival_pct
      /\ v.completion_tokens = m.completion_tokens /\ v.stall_clusters = m.stall_clusters
      /\ v.stall_count = m.stall_count /\ v.stall_ratio = m.stall_ratio
      /\ v.stall_first_pct = m.stall_first_pct /\ v.stall_last_pct = m.stall_last_pct
  BY DEF FitKeys
<1> QED
  BY <1>1 DEF MeasurementsFit

LEMMA MeasurementsHold == Remembered /\ Measured => MeasurementsAgree
<1> SUFFICES ASSUME Remembered, Measured PROVE MeasurementsAgree
  OBVIOUS
<1>1. DOMAIN history = 1 .. Len(history) /\ \A i \in 1 .. Len(history) : IsResult(history[i])
  <2>1. history \in Seq(Range(rows)) /\ \A i \in 1 .. Len(history) : IsResult(history[i])
    BY HistoryIs
  <2> QED
    BY <2>1, LenProperties
<1>2. ASSUME NEW r, IsResult(r), r.success, r.kind = "benchmark"
      PROVE  MeasurementsFit(r.v)
  <2>1. PICK n \in 0 .. MaxRows - 1 : \E t \in Samples[n], j \in Number :
           \A k \in {"success", "degraded", "available", "kind", "v"} : r[k] = ResultOf(t, j)[k]
    BY <1>2 DEF IsResult
  <2>2. PICK t \in Samples[n], j \in Number :
           \A k \in {"success", "degraded", "available", "kind", "v"} : r[k] = ResultOf(t, j)[k]
    BY <2>1
  <2>3. PICK m : m = Metrics(t, j)
    OBVIOUS
  <2>4. Results(t, j)
    BY ResultIs
  <2>5. r.v = ResultOf(t, j).v /\ r.kind = ResultOf(t, j).kind
    BY <2>2
  <2>6. t.type = "benchmark"
    BY <1>2, <2>4, <2>5 DEF Results
  <2>7. \A k \in DOMAIN m \ ScoreKeys : r.v[k] = m[k]
    BY <2>3, <2>4, <2>5, <2>6 DEF Results
  <2>8. FitKeys \subseteq DOMAIN m \ ScoreKeys
    <3>1. FitKeys \subseteq DOMAIN m
      BY <2>3, MetricsAre
    <3>2. FitKeys \cap ScoreKeys = {}
      BY DEF FitKeys, ScoreKeys
    <3> QED
      BY <3>1, <3>2
  <2>9. MeasurementsFit(m)
    BY <2>3, <2>6, MetricsFit
  <2> QED
    BY <2>7, <2>8, <2>9, FitsAgain
<1>3. MeasurementsAgree <=>
        \A i \in DOMAIN history :
           history[i].success /\ history[i].kind = "benchmark" => MeasurementsFit(history[i].v)
  BY DEF MeasurementsAgree, MeasurementsFit
<1>4. ASSUME NEW i \in DOMAIN history, history[i].success, history[i].kind = "benchmark"
      PROVE  MeasurementsFit(history[i].v)
  BY <1>1, <1>2, <1>4
<1> QED
  BY <1>3, <1>4

\* The numbers of a record fit each other, whatever was measured and forgotten: a
\* percentile lies on its side of the median, and stalls, their share and their
\* places agree (_compute_itl_statistics, compute_stall_metrics).
THEOREM MeasurementsAgreeCorrect == HistorySpec => []MeasurementsAgree
<1>1. Remembered /\ Measured => MeasurementsAgree
  BY MeasurementsHold
<1> QED
  BY <1>1, InitRemembered, NextRemembered, InitMeasured, NextMeasured, PTL DEF HistorySpec
=============================================================================
