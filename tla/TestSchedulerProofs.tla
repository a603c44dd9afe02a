------------------------- MODULE TestSchedulerProofs -------------------------
(***************************************************************************)
(* Proofs about TestScheduler, for any registry, limits, test types and    *)
(* sequence of reloads.                                                    *)
(***************************************************************************)
EXTENDS TestScheduler, FiniteSetTheorems, SequenceTheorems, TLAPS

\* There is always a current configuration, and it is one of Configs.
LEMMA CurrentConfig ==
    ASSUME TypeOK
    PROVE  /\ Gen \in Nat \ {0}
           /\ Cfg \in Configs
           /\ \A i \in 1 .. Gen : configs[i] \in Config
<1>1. Len(configs) \in Nat \ {0}
  BY EmptySeq DEF TypeOK
<1>2. \A i \in 1 .. Len(configs) : configs[i] \in Configs
  BY ElementOfSeq DEF TypeOK
<1> QED
  BY <1>1, <1>2, SchedulerAssumption DEF Gen, Cfg, SchedulerAssumption

\* Appending a configuration keeps the earlier ones in place.
LEMMA AppendConfig ==
    ASSUME TypeOK, NEW c \in Configs, configs' = Append(configs, c)
    PROVE  /\ configs' \in Seq(Configs) /\ configs' # <<>>
           /\ Gen' = Gen + 1
           /\ Cfg' = c
           /\ \A i \in 1 .. Gen : configs'[i] = configs[i]
<1>1. Len(configs) \in Nat
  BY EmptySeq DEF TypeOK
<1>2. configs \in Seq(Configs)
  BY DEF TypeOK
<1> QED
  BY <1>1, <1>2, AppendProperties DEF Gen, Cfg

LEMMA IntervalPositive ==
    \A k \in Kinds : Interval[k] \in Nat /\ Interval[k] > 0
BY SchedulerAssumption DEF SchedulerAssumption

\* The soonest due time is a number of seconds, and so is the sleep time.
LEMMA SoonestIsNat ==
    ASSUME TypeOK, NEW allowed, NEW w \in SoonestDue(allowed)
    PROVE  w \in Nat
<1>1. PICK k \in Kinds : w \in Waits(k, allowed)
  BY DEF SoonestDue
<1>2. \A m \in und : Wait(m, k) \in Nat
  BY <1>1, SchedulerAssumption, IntervalPositive
     DEF TypeOK, Wait, Ages, Never, SchedulerAssumption
<1>3. CASE \E m \in und : w = Wait(m, k)
  BY <1>3, <1>2
<1>4. CASE w = IdlePoll \/ w = Interval[k]
  BY <1>4, IntervalPositive DEF IdlePoll
<1> QED
  BY <1>1, <1>3, <1>4 DEF Waits

LEMMA SleepTimeIsNat ==
    ASSUME TypeOK, NEW allowed, NEW w \in SoonestDue(allowed)
    PROVE  SleepTime(w) \in Nat
BY SoonestIsNat DEF SleepTime

-----------------------------------------------------------------------------
LEMMA LeaveType ==
    ASSUME TypeOK, NEW m \in Models, NEW k \in Kinds, Leave(m, k), Gen' = Gen
    PROVE  /\ running' \in [Kinds -> SUBSET Models]
           /\ phase' \in [Tests -> Phases]
           /\ gsem' \in [Tests -> 0 .. Gen']
           /\ psem' \in [Tests -> 0 .. Gen']
           /\ attempt' \in [Tests -> 0 .. TotalAttempts - 1]
           /\ elapsed' \in [Tests -> 0 .. TestTicks]
           /\ wake' \in BOOLEAN
<1>1. Gen \in Nat
  BY CurrentConfig
<1>2. running' \in [Kinds -> SUBSET Models]
  BY DEF TypeOK, Leave
<1>3. phase' \in [Tests -> Phases]
  BY DEF TypeOK, Leave, Phases
<1>4. gsem' \in [Tests -> 0 .. Gen'] /\ psem' \in [Tests -> 0 .. Gen']
  <2>1. 0 \in 0 .. Gen'
    BY <1>1
  <2>2. gsem \in [Tests -> 0 .. Gen'] /\ psem \in [Tests -> 0 .. Gen']
    BY DEF TypeOK
  <2> QED
    BY <2>1, <2>2 DEF Leave
<1>5. attempt' \in [Tests -> 0 .. TotalAttempts - 1]
  <2>1. 0 \in 0 .. TotalAttempts - 1
    BY SchedulerAssumption DEF SchedulerAssumption
  <2> QED
    BY <2>1 DEF TypeOK, Leave
<1>6. elapsed' \in [Tests -> 0 .. TestTicks]
  <2>1. 0 \in 0 .. TestTicks
    BY SchedulerAssumption DEF SchedulerAssumption
  <2> QED
    BY <2>1 DEF TypeOK, Leave
<1> QED
  BY <1>2, <1>3, <1>4, <1>5, <1>6 DEF Leave

LEMMA RecordedType ==
    ASSUME TypeOK, NEW m \in Models, NEW k \in Kinds
    PROVE  Recorded(m, k) \in [Models -> [Kinds -> Ages]]
<1>1. 0 \in Ages
  BY SchedulerAssumption DEF SchedulerAssumption, Ages, Never
<1>2. [age EXCEPT ![m][k] = 0] \in [Models -> [Kinds -> Ages]]
  BY <1>1 DEF TypeOK
<1> QED
  BY <1>2 DEF TypeOK, Recorded

LEMMA BeginAttemptsType ==
    ASSUME TypeOK, NEW m \in Models, NEW k \in Kinds, BeginAttempts(m, k)
    PROVE  /\ known' \subseteq Models
           /\ offline' \subseteq known'
           /\ age' \in [Models -> [Kinds -> Ages]]
           /\ pending' \in [Models -> Semaphored \cup {NoPending}]
           /\ phase' \in [Tests -> Phases]
           /\ attempt' \in [Tests -> 0 .. TotalAttempts - 1]
<1>1. attempt' \in [Tests -> 0 .. TotalAttempts - 1]
  BY DEF TypeOK, BeginAttempts
<1>2. phase' \in [Tests -> Phases]
  BY DEF TypeOK, BeginAttempts, Phases
<1> QED
  BY <1>1, <1>2 DEF TypeOK, BeginAttempts, cacheVars

LEMMA OutcomeType ==
    ASSUME TypeOK, NEW m \in Models, NEW k \in Kinds, Outcome(m, k),
           UNCHANGED <<gsem, psem>> \/ DropPermits(m, k)
    PROVE  /\ Gen' = Gen
           /\ phase' \in [Tests -> Phases]
           /\ gsem' \in [Tests -> 0 .. Gen']
           /\ psem' \in [Tests -> 0 .. Gen']
<1>1. Gen' = Gen /\ 0 \in 0 .. Gen
  BY CurrentConfig DEF Outcome, confVars, Gen
<1>2. phase' \in [Tests -> Phases]
  BY DEF TypeOK, Outcome, Phases
<1>3. gsem' \in [Tests -> 0 .. Gen] /\ psem' \in [Tests -> 0 .. Gen]
  <2>1. CASE UNCHANGED <<gsem, psem>>
    BY <2>1 DEF TypeOK
  <2>2. CASE DropPermits(m, k)
    BY <1>1, <2>2 DEF TypeOK, DropPermits
  <2> QED
    BY <2>1, <2>2
<1> QED
  BY <1>1, <1>2, <1>3

LEMMA InitType == Init => TypeOK
<1> SUFFICES ASSUME Init PROVE TypeOK
  OBVIOUS
<1>1. PICK c \in Configs : configs = <<c>>
  BY DEF Init
<1>2. /\ configs \in Seq(Configs) /\ configs # <<>>
      /\ Gen = 1 /\ Cfg = c
  BY <1>1 DEF Gen, Cfg
<1>3. known \subseteq Models
  BY <1>2, SchedulerAssumption DEF Init, SchedulerAssumption, Config
<1>4. age \in [Models -> [Kinds -> Ages]]
  <2>1. {0, Never} \subseteq Ages
    BY SchedulerAssumption DEF SchedulerAssumption, Ages, Never
  <2> QED
    BY <2>1 DEF Init
<1>5. /\ gsem \in [Tests -> 0 .. Gen]
      /\ psem \in [Tests -> 0 .. Gen]
  BY <1>2 DEF Init
<1>6. /\ attempt \in [Tests -> 0 .. TotalAttempts - 1]
      /\ elapsed \in [Tests -> 0 .. TestTicks]
  BY SchedulerAssumption DEF Init, SchedulerAssumption
<1>7. phase \in [Tests -> Phases]
  BY DEF Init, Phases
<1> QED
  BY <1>2, <1>3, <1>4, <1>5, <1>6, <1>7 DEF Init, TypeOK

LEMMA SchedulerStepType ==
    ASSUME TypeOK, SchedulerStep PROVE TypeOK'
<1> USE DEF confVars, cacheVars, testVars, loopVars
<1>1. CASE BeginCycle
  <2>1. Undispatched \subseteq Models
    BY CurrentConfig, SchedulerAssumption
       DEF Undispatched, SchedulerAssumption, Config
  <2>2. due' \in [Kinds -> SUBSET Models]
    BY <1>1, <2>1 DEF BeginCycle, DueTests
  <2> QED
    BY <1>1, <2>1, <2>2 DEF BeginCycle, TypeOK, Gen
<1>2. CASE EndDispatch
  <2>1. timer' \in Nat /\ pc' \in {"cycle", "spin", "dispatching", "sleeping"}
    BY <1>2, SleepTimeIsNat DEF EndDispatch
  <2> QED
    BY <1>2, <2>1 DEF EndDispatch, TypeOK, Gen
<1>3. CASE WakeUp
  BY <1>3 DEF WakeUp, TypeOK, Gen
<1>4. ASSUME NEW m \in Models, NEW k \in Kinds, Dispatch(m, k) PROVE TypeOK'
  <2>1. running' \in [Kinds -> SUBSET Models]
    BY <1>4 DEF Dispatch, TypeOK
  <2>2. phase' \in [Tests -> Phases]
    BY <1>4 DEF Dispatch, TypeOK, Phases
  <2> QED
    BY <1>4, <2>1, <2>2 DEF Dispatch, TypeOK, Gen
<1> QED
  BY <1>1, <1>2, <1>3, <1>4 DEF SchedulerStep

LEMMA TestStepType ==
    ASSUME TypeOK, NEW m \in Models, NEW k \in Kinds, TestStep(m, k)
    PROVE  TypeOK'
<1> USE DEF confVars, cacheVars, testVars, loopVars
<1>0. Gen \in Nat \ {0}
  BY CurrentConfig
<1>1. CASE QueueOnGlobal(m, k)
  <2>1. phase' \in [Tests -> Phases]
    BY <1>1 DEF QueueOnGlobal, TypeOK, Phases
  <2>2. gsem' \in [Tests -> 0 .. Gen]
    <3>1. Gen \in 0 .. Gen
      BY <1>0
    <3> QED
      BY <1>1, <3>1 DEF QueueOnGlobal, TypeOK
  <2> QED
    BY <1>1, <2>1, <2>2 DEF QueueOnGlobal, TypeOK, Gen
<1>2. CASE ProviderGone(m, k)
  <2>1. Leave(m, k) /\ Gen' = Gen
    BY <1>2 DEF ProviderGone, Gen
  <2> QED
    BY <1>2, <2>1, LeaveType DEF ProviderGone, TypeOK
<1>3. CASE QueueOnProvider(m, k)
  <2>1. phase' \in [Tests -> Phases]
    BY <1>3 DEF QueueOnProvider, TypeOK, Phases
  <2>2. gsem' \in [Tests -> 0 .. Gen] /\ psem' \in [Tests -> 0 .. Gen]
    <3>1. Gen \in 0 .. Gen /\ 1 .. Gen \subseteq 0 .. Gen
      BY <1>0
    <3>2. PICK g \in 1 .. Gen : gsem' = [gsem EXCEPT ![<<m, k>>] = g]
      BY <1>3 DEF QueueOnProvider
    <3>3. psem' = [psem EXCEPT ![<<m, k>>] = Gen]
      BY <1>3 DEF QueueOnProvider
    <3> QED
      BY <3>1, <3>2, <3>3 DEF TypeOK
  <2> QED
    BY <1>3, <2>1, <2>2 DEF QueueOnProvider, TypeOK, Gen
<1>4. CASE TakeBothPermits(m, k)
  <2>1. BeginAttempts(m, k)
    BY <1>4 DEF TakeBothPermits
  <2>2. gsem' \in [Tests -> 0 .. Gen] /\ psem' \in [Tests -> 0 .. Gen]
    <3>1. Gen \in 0 .. Gen /\ 1 .. Gen \subseteq 0 .. Gen
      BY <1>0
    <3>2. PICK g \in 1 .. Gen : gsem' = [gsem EXCEPT ![<<m, k>>] = g]
      BY <1>4 DEF TakeBothPermits
    <3>3. psem' = [psem EXCEPT ![<<m, k>>] = Gen]
      BY <1>4 DEF TakeBothPermits
    <3> QED
      BY <3>1, <3>2, <3>3 DEF TypeOK
  <2> QED
    BY <2>1, <2>2, BeginAttemptsType DEF BeginAttempts, TypeOK, Gen
<1>5. CASE TakeProviderPermit(m, k)
  <2>1. BeginAttempts(m, k) /\ UNCHANGED <<gsem, psem>>
    BY <1>5 DEF TakeProviderPermit
  <2> QED
    BY <2>1, BeginAttemptsType DEF BeginAttempts, TypeOK, Gen
<1>6. CASE BeginProbeOrAudit(m, k)
  <2>1. phase' \in [Tests -> Phases]
    BY <1>6 DEF BeginProbeOrAudit, TypeOK, Phases
  <2> QED
    BY <1>6, <2>1 DEF BeginProbeOrAudit, TypeOK, Gen
<1>7. CASE NotInCache(m, k)
  <2>1. Leave(m, k) /\ Gen' = Gen
    BY <1>7 DEF NotInCache, Gen
  <2> QED
    BY <1>7, <2>1, LeaveType DEF NotInCache, TypeOK
<1>8. CASE Retry(m, k)
  <2>1. attempt' \in [Tests -> 0 .. TotalAttempts - 1]
    <3>1. <<m, k>> \in Tests
      BY DEF Tests
    <3>2. attempt[<<m, k>>] + 1 \in 0 .. TotalAttempts - 1
      BY <1>8, <3>1, SchedulerAssumption DEF Retry, TypeOK, SchedulerAssumption
    <3> QED
      BY <1>8, <3>2 DEF Retry, TypeOK
  <2>2. elapsed' \in [Tests -> 0 .. TestTicks]
    <3>1. 0 \in 0 .. TestTicks
      BY SchedulerAssumption DEF SchedulerAssumption
    <3> QED
      BY <1>8, <3>1 DEF Retry, TypeOK
  <2>3. age' \in [Models -> [Kinds -> Ages]]
    BY <1>8, RecordedType DEF Retry
  <2> QED
    BY <1>8, <2>1, <2>2, <2>3 DEF Retry, TypeOK, Gen
<1>9. ASSUME NEW available \in BOOLEAN, FinishTest(m, k, available)
      PROVE  TypeOK'
  <2>1. Outcome(m, k) /\ (UNCHANGED <<gsem, psem>> \/ DropPermits(m, k))
    BY <1>9 DEF FinishTest
  <2>2. age' \in [Models -> [Kinds -> Ages]]
    BY <1>9, RecordedType DEF FinishTest
  <2>3. offline' \subseteq known'
    BY <1>9 DEF FinishTest, Outcome, TypeOK
  <2> QED
    BY <2>1, <2>2, <2>3, OutcomeType DEF Outcome, TypeOK
<1>10. CASE FinishProbeOrAudit(m, k)
  <2>1. Outcome(m, k) /\ UNCHANGED <<offline, gsem, psem>>
    BY <1>10 DEF FinishProbeOrAudit
  <2>2. age' \in [Models -> [Kinds -> Ages]]
    BY <1>10, RecordedType DEF FinishProbeOrAudit
  <2> QED
    BY <2>1, <2>2, OutcomeType DEF Outcome, TypeOK
<1>11. CASE FinishUnrecorded(m, k)
  <2>1. Outcome(m, k) /\ DropPermits(m, k) /\ UNCHANGED <<age, offline>>
    BY <1>11 DEF FinishUnrecorded
  <2> QED
    BY <2>1, OutcomeType DEF Outcome, TypeOK
<1>12. CASE Close(m, k)
  <2>1. Leave(m, k) /\ Gen' = Gen
    BY <1>12 DEF Close, Gen
  <2> QED
    BY <1>12, <2>1, LeaveType DEF Close, TypeOK
<1> QED
  BY <1>1, <1>2, <1>3, <1>4, <1>5, <1>6, <1>7, <1>8, <1>9, <1>10, <1>11, <1>12
     DEF TestStep

LEMMA EnvironmentType ==
    ASSUME TypeOK,
           \/ \E c \in Configs, reset \in SUBSET Models : Reload(c, reset)
           \/ ReloadApplied
           \/ \E S \in SUBSET Archivable : ChangeArchived(S)
           \/ Tick
    PROVE  TypeOK'
<1> USE DEF confVars, cacheVars, testVars, loopVars
<1>0. Never \in Ages
  BY SchedulerAssumption DEF SchedulerAssumption, Ages, Never
<1>1. ASSUME NEW c \in Configs, NEW reset \in SUBSET Models, Reload(c, reset)
      PROVE  TypeOK'
  <2>1. configs' \in Seq(Configs) /\ configs' # <<>> /\ Gen' = Gen + 1
    BY <1>1, AppendConfig DEF Reload
  <2>2. /\ gsem' \in [Tests -> 0 .. Gen']
        /\ psem' \in [Tests -> 0 .. Gen']
    <3>1. 0 .. Gen \subseteq 0 .. Gen'
      BY <2>1, CurrentConfig
    <3> QED
      BY <1>1, <3>1 DEF Reload, TypeOK
  <2>3. age' \in [Models -> [Kinds -> Ages]]
    BY <1>0, <1>1 DEF Reload, TypeOK
  <2>4. pending' \in [Models -> Semaphored \cup {NoPending}]
    BY <1>1 DEF Reload, TypeOK
  <2>5. known' \subseteq Models /\ offline' \subseteq known'
    BY <1>1 DEF Reload, TypeOK
  <2> QED
    BY <1>1, <2>1, <2>2, <2>3, <2>4, <2>5 DEF Reload, TypeOK
<1>2. CASE ReloadApplied
  <2>1. age' \in [Models -> [Kinds -> Ages]]
    BY <1>0, <1>2 DEF ReloadApplied, TypeOK
  <2> QED
    BY <1>2, <2>1 DEF ReloadApplied, TypeOK, Gen
<1>3. ASSUME NEW S \in SUBSET Archivable, ChangeArchived(S) PROVE TypeOK'
  BY <1>3, SchedulerAssumption
     DEF ChangeArchived, TypeOK, Gen, SchedulerAssumption
<1>4. CASE Tick
  <2>1. age' \in [Models -> [Kinds -> Ages]]
    <3>1. \A a \in Ages : (IF a < AgeCap THEN a + 1 ELSE a) \in Ages
      BY SchedulerAssumption DEF SchedulerAssumption, Ages, Never
    <3> QED
      BY <1>4, <3>1 DEF Tick, TypeOK
  <2>2. elapsed' \in [Tests -> 0 .. TestTicks]
    <3>1. \A e \in 0 .. TestTicks : e < TestTicks => e + 1 \in 0 .. TestTicks
      BY SchedulerAssumption DEF SchedulerAssumption
    <3> QED
      BY <1>4, <3>1 DEF Tick, TypeOK
  <2>3. timer' \in Nat
    BY <1>4 DEF Tick, TypeOK
  <2> QED
    BY <1>4, <2>1, <2>2, <2>3 DEF Tick, TypeOK, Gen
<1> QED
  BY <1>1, <1>2, <1>3, <1>4

LEMMA StutterType == ASSUME TypeOK, UNCHANGED vars PROVE TypeOK'
BY DEF TypeOK, vars, confVars, cacheVars, testVars, loopVars, Gen

\* Every reachable state of the scheduler, whatever the registry, the limits,
\* the test types and the reloads, has the right type; in particular no test
\* counts an attempt beyond the last one of _dispatch's retry budget and none
\* refers to a semaphore that was never created.
THEOREM TypeCorrect == Spec => []TypeOK
<1>1. TypeOK /\ [Next]_vars => TypeOK'
  BY SchedulerStepType, TestStepType, EnvironmentType, StutterType DEF Next
<1> QED
  BY <1>1, InitType, PTL DEF Spec

-----------------------------------------------------------------------------
(***************************************************************************)
(* The running sets                                                        *)
(***************************************************************************)
Marks == TypeOK /\ RunningSetsAreTasks /\ OneTestPerModel

\* A model outside Running has no test of any type.
LEMMA IdleModel ==
    ASSUME Marks, NEW m \in Models, m \notin Running
    PROVE  \A k \in Kinds : phase[<<m, k>>] = "none"
BY DEF Marks, RunningSetsAreTasks, Running

\* A live test that moves to another live phase.
LEMMA MoveKeepsMarks ==
    ASSUME Marks, NEW m \in Models, NEW k \in Kinds,
           phase[<<m, k>>] # "none",
           NEW x \in Phases \ {"none"},
           phase' = [phase EXCEPT ![<<m, k>>] = x],
           UNCHANGED running
    PROVE  RunningSetsAreTasks' /\ OneTestPerModel'
<1>1. \A t \in Tests : phase'[t] # "none" <=> phase[t] # "none"
  BY DEF Marks, TypeOK
<1>2. \A n \in Models, j \in Kinds : <<n, j>> \in Tests
  BY DEF Tests
<1> QED
  BY <1>1, <1>2 DEF Marks, RunningSetsAreTasks, OneTestPerModel

\* The finally block of run_test discards the model from the set of the other
\* type too; OneTestPerModel is why that takes nobody else's mark away.
LEMMA LeaveKeepsMarks ==
    ASSUME Marks, NEW m \in Models, NEW k \in Kinds,
           phase[<<m, k>>] # "none", Leave(m, k)
    PROVE  RunningSetsAreTasks' /\ OneTestPerModel'
<1>1. \A n \in Models, j \in Kinds :
         phase'[<<n, j>>] = IF n = m /\ j = k THEN "none" ELSE phase[<<n, j>>]
  BY DEF Marks, TypeOK, Leave, Tests
<1>2. \A j \in Kinds : j # k => m \notin running[j]
  BY DEF Marks, RunningSetsAreTasks, OneTestPerModel
<1>3. \A n \in Models, j \in Kinds :
         n \in running'[j] <=> n \in running[j] /\ ~(n = m /\ j = k)
  BY <1>2 DEF Leave
<1> QED
  BY <1>1, <1>3 DEF Marks, RunningSetsAreTasks, OneTestPerModel

LEMMA DispatchKeepsMarks ==
    ASSUME Marks, NEW m \in Models, NEW k \in Kinds, Dispatch(m, k)
    PROVE  RunningSetsAreTasks' /\ OneTestPerModel'
<1>1. \A j \in Kinds : phase[<<m, j>>] = "none" /\ m \notin running[j]
  BY IdleModel DEF Dispatch, Eligible, Running
<1>2. \A n \in Models, j \in Kinds :
         phase'[<<n, j>>] =
            IF n = m /\ j = k THEN "created" ELSE phase[<<n, j>>]
  BY DEF Marks, TypeOK, Dispatch, Tests
<1>3. \A n \in Models, j \in Kinds :
         n \in running'[j] <=> n \in running[j] \/ (n = m /\ j = k)
  BY DEF Marks, TypeOK, Dispatch
<1> QED
  BY <1>1, <1>2, <1>3 DEF Marks, RunningSetsAreTasks, OneTestPerModel

\* Every step of a test is taken by a live test, which either moves to another
\* live phase or leaves.
LEMMA TestStepShape ==
    ASSUME TypeOK, NEW m \in Models, NEW k \in Kinds, TestStep(m, k)
    PROVE  /\ phase[<<m, k>>] # "none"
           /\ \/ Leave(m, k)
              \/ /\ UNCHANGED running
                 /\ \E x \in Phases \ {"none"} :
                       phase' = [phase EXCEPT ![<<m, k>>] = x]
<1> USE DEF Phases
<1>0. <<m, k>> \in Tests
  BY DEF Tests
<1>1. CASE QueueOnGlobal(m, k)
  BY <1>1 DEF QueueOnGlobal
<1>2. CASE ProviderGone(m, k)
  BY <1>2 DEF ProviderGone, CanTakeGlobal
<1>3. CASE QueueOnProvider(m, k)
  BY <1>3 DEF QueueOnProvider, CanTakeGlobal
<1>4. CASE TakeBothPermits(m, k)
  BY <1>4 DEF TakeBothPermits, CanTakeGlobal, BeginAttempts
<1>5. CASE TakeProviderPermit(m, k)
  BY <1>5 DEF TakeProviderPermit, BeginAttempts
<1>6. CASE BeginProbeOrAudit(m, k)
  BY <1>6 DEF BeginProbeOrAudit
<1>7. CASE NotInCache(m, k)
  BY <1>7 DEF NotInCache
<1>8. CASE Retry(m, k)
  <2>1. phase' = [phase EXCEPT ![<<m, k>>] = "testing"]
    BY <1>0, <1>8 DEF Retry, TypeOK
  <2> QED
    BY <1>8, <2>1 DEF Retry
<1>9. CASE Outcome(m, k)
  BY <1>9 DEF Outcome
<1>10. CASE Close(m, k)
  BY <1>10 DEF Close
<1> QED
  BY <1>1, <1>2, <1>3, <1>4, <1>5, <1>6, <1>7, <1>8, <1>9, <1>10
     DEF TestStep, FinishTest, FinishProbeOrAudit, FinishUnrecorded

\* All the other steps of the program leave the tests and their marks alone.
LEMMA OtherSteps ==
    ASSUME [Next]_vars,
           ~\E m \in Models, k \in Kinds : Dispatch(m, k) \/ TestStep(m, k)
    PROVE  UNCHANGED <<running, phase>>
BY DEF Next, SchedulerStep, BeginCycle, EndDispatch, WakeUp, Reload,
       ReloadApplied, ChangeArchived, Tick, vars, confVars, cacheVars, testVars,
       loopVars

LEMMA MarksInductive == Marks /\ [Next]_vars => Marks'
<1> SUFFICES ASSUME Marks, [Next]_vars PROVE Marks'
  OBVIOUS
<1>0. TypeOK'
  BY SchedulerStepType, TestStepType, EnvironmentType, StutterType
     DEF Next, Marks
<1>1. ASSUME NEW m \in Models, NEW k \in Kinds, Dispatch(m, k)
      PROVE  RunningSetsAreTasks' /\ OneTestPerModel'
  BY <1>1, DispatchKeepsMarks
<1>2. ASSUME NEW m \in Models, NEW k \in Kinds, TestStep(m, k)
      PROVE  RunningSetsAreTasks' /\ OneTestPerModel'
  BY <1>2, TestStepShape, LeaveKeepsMarks, MoveKeepsMarks DEF Marks
<1>3. CASE ~\E m \in Models, k \in Kinds : Dispatch(m, k) \/ TestStep(m, k)
  BY <1>0, <1>3, OtherSteps DEF Marks, RunningSetsAreTasks, OneTestPerModel
<1> QED
  BY <1>0, <1>1, <1>2, <1>3 DEF Marks

LEMMA MarksInit == Init => Marks
<1> SUFFICES ASSUME Init PROVE RunningSetsAreTasks /\ OneTestPerModel
  BY InitType DEF Marks
<1> QED
  BY DEF Init, RunningSetsAreTasks, OneTestPerModel, Tests

LEMMA MarksAlways == Spec => []Marks
BY MarksInit, MarksInductive, PTL DEF Spec

\* The scheduler's running_* sets are exactly its live tests: no early return
\* and no finally block of any interleaving leaves or takes a wrong mark.
THEOREM RunningSetsCorrect == Spec => []RunningSetsAreTasks
<1>1. Marks => RunningSetsAreTasks
  BY DEF Marks
<1> QED
  BY <1>1, MarksAlways, PTL

\* Whatever is due, reloaded or archived, no model ever has two tests at once.
THEOREM OneTestPerModelCorrect == Spec => []OneTestPerModel
<1>1. Marks => OneTestPerModel
  BY DEF Marks
<1> QED
  BY <1>1, MarksAlways, PTL

\* What the dispatcher trusts holds: its sets are the live tests, and no model
\* has two of them.
THEOREM RunningSetsSoundCorrect == Spec => []RunningSetsSound
BY RunningSetsCorrect, OneTestPerModelCorrect, PTL DEF RunningSetsSound

-----------------------------------------------------------------------------
(***************************************************************************)
(* Limits                                                                  *)
(***************************************************************************)
LEMMA LimitsArePositive ==
    ASSUME TypeOK, NEW i \in 1 .. Gen
    PROVE  /\ configs[i].maxConcurrent \in Nat
           /\ \A p \in Providers : configs[i].capacity[p] \in Nat
BY CurrentConfig DEF Config

\* Reloads only append: an earlier configuration is never lost.
LEMMA ConfigsGrow ==
    ASSUME TypeOK, [Next]_vars
    PROVE  /\ Gen \in 1 .. Gen'
           /\ \A i \in 1 .. Gen : i \in 1 .. Gen' /\ configs'[i] = configs[i]
<1>0. Gen \in Nat \ {0}
  BY CurrentConfig
<1>1. ASSUME NEW c \in Configs, NEW reset \in SUBSET Models, Reload(c, reset)
      PROVE  /\ Gen' = Gen + 1
             /\ \A i \in 1 .. Gen : configs'[i] = configs[i]
  BY <1>1, AppendConfig DEF Reload
<1>2. CASE UNCHANGED configs
  BY <1>0, <1>2 DEF Gen
<1>3. ASSUME NEW m \in Models, NEW k \in Kinds, TestStep(m, k)
      PROVE  UNCHANGED configs
  BY <1>3 DEF TestStep, QueueOnGlobal, ProviderGone, QueueOnProvider,
       TakeBothPermits, TakeProviderPermit, BeginAttempts, BeginProbeOrAudit,
       NotInCache, Retry, FinishTest, FinishProbeOrAudit, FinishUnrecorded,
       Outcome, Close, confVars
<1>4. ASSUME ~\E c \in Configs, reset \in SUBSET Models : Reload(c, reset),
             ~\E m \in Models, k \in Kinds : TestStep(m, k)
      PROVE  UNCHANGED configs
  BY <1>4 DEF Next, SchedulerStep, BeginCycle, EndDispatch, WakeUp, Dispatch,
       ReloadApplied, ChangeArchived, Tick, vars, confVars
<1> QED
  BY <1>0, <1>1, <1>2, <1>3, <1>4

\* Only the dispatch loop adds to Running.
LEMMA OnlyDispatchStarts ==
    ASSUME TypeOK, [Next]_vars, ~\E m \in Models, k \in Kinds : Dispatch(m, k)
    PROVE  Running' \subseteq Running
<1>1. ASSUME NEW m \in Models, NEW k \in Kinds, TestStep(m, k)
      PROVE  Running' \subseteq Running
  <2>1. \A j \in Kinds : running'[j] \subseteq running[j]
    <3>1. CASE Leave(m, k)
      BY <3>1 DEF Leave
    <3>2. CASE UNCHANGED running
      BY <3>2
    <3> QED
      BY <1>1, <3>1, <3>2, TestStepShape
  <2> QED
    BY <2>1 DEF Running
<1>2. CASE UNCHANGED running
  BY <1>2 DEF Running
<1> QED
  BY <1>1, <1>2, OtherSteps

LEMMA FiniteRunning ==
    ASSUME TypeOK
    PROVE  /\ IsFiniteSet(Running)
           /\ Cardinality(Running) \in Nat
           /\ \A p \in Providers : /\ IsFiniteSet(InFlight(p))
                                  /\ Cardinality(InFlight(p)) \in Nat
<1>1. Running \subseteq Models
  BY DEF TypeOK, Running
<1>2. \A p \in Providers : InFlight(p) \subseteq Models
  BY <1>1 DEF InFlight
<1>3. IsFiniteSet(Models)
  BY SchedulerAssumption DEF SchedulerAssumption
<1> QED
  BY <1>1, <1>2, <1>3, FS_Subset, FS_CardinalityType

\* What one turn of a dispatch loop does to what is in flight.
LEMMA DispatchStartsOne ==
    ASSUME TypeOK, NEW m \in Models, NEW k \in Kinds, Dispatch(m, k)
    PROVE  /\ Running' = Running \cup {m}
           /\ Cardinality(Running') <= Cfg.maxConcurrent
           /\ \A p \in Providers :
                 \/ InFlight(p)' = InFlight(p)
                 \/ Cardinality(InFlight(p)') <= Cfg.capacity[p]
<1>0. ProviderOf[m] \in Providers /\ Gen \in Nat \ {0}
  BY CurrentConfig, SchedulerAssumption DEF SchedulerAssumption
<1>1. Running' = Running \cup {m}
  BY DEF Dispatch, TypeOK, Running
<1>2. Cardinality(Running') <= Cfg.maxConcurrent
  <2>1. Cfg.maxConcurrent \in Nat
    BY CurrentConfig, LimitsArePositive, <1>0 DEF Cfg, Gen
  <2>2. m \notin Running /\ Cardinality(Running) < Cfg.maxConcurrent
    BY DEF Dispatch, Eligible
  <2>3. Cardinality(Running \cup {m}) = Cardinality(Running) + 1
    BY <2>2, FS_AddElement, FiniteRunning
  <2> QED
    BY <1>1, <2>1, <2>2, <2>3, FiniteRunning
<1>3. \A p \in Providers : p # ProviderOf[m] => InFlight(p)' = InFlight(p)
  BY <1>1 DEF InFlight
<1>4. Cardinality(InFlight(ProviderOf[m])') <= Cfg.capacity[ProviderOf[m]]
  <2> DEFINE p == ProviderOf[m]
  <2>1. Cfg.capacity[p] \in Nat
    BY CurrentConfig, LimitsArePositive, <1>0 DEF Cfg, Gen
  <2>2. m \notin InFlight(p) /\ Cardinality(InFlight(p)) < Cfg.capacity[p]
    BY DEF Dispatch, Eligible, InFlight
  <2>3. InFlight(p)' = InFlight(p) \cup {m}
    BY <1>1 DEF InFlight
  <2>4. Cardinality(InFlight(p) \cup {m}) = Cardinality(InFlight(p)) + 1
    BY <1>0, <2>2, FS_AddElement, FiniteRunning
  <2> QED
    BY <1>0, <2>1, <2>2, <2>3, <2>4, FiniteRunning
<1> QED
  BY <1>1, <1>2, <1>3, <1>4

\* No step starts a test beyond the limits that hold when it is taken, even
\* after a reload that lowered them below what is in flight.
THEOREM StartsWithinLimitsCorrect == Spec => StartsWithinLimits
<1> DEFINE A == /\ \A p \in Providers : InFlight(p)' \subseteq InFlight(p)
                      \/ Cardinality(InFlight(p)') <= Cfg'.capacity[p]
                /\ Running' \subseteq Running
                      \/ Cardinality(Running') <= Cfg'.maxConcurrent
<1>1. TypeOK /\ [Next]_vars => A
  <2> SUFFICES ASSUME TypeOK, [Next]_vars PROVE A
    OBVIOUS
  <2>1. ASSUME NEW m \in Models, NEW k \in Kinds, Dispatch(m, k) PROVE A
    <3>1. Cfg' = Cfg
      BY <2>1 DEF Dispatch, confVars, Cfg
    <3> QED
      BY <2>1, <3>1, DispatchStartsOne
  <2>2. CASE ~\E m \in Models, k \in Kinds : Dispatch(m, k)
    BY <2>2, OnlyDispatchStarts DEF InFlight
  <2> QED
    BY <2>1, <2>2
<1> QED
  BY <1>1, TypeCorrect, PTL DEF Spec, StartsWithinLimits

LEMMA BoundedInductive ==
    ASSUME TypeOK, InFlightBounded, [Next]_vars, TypeOK'
    PROVE  InFlightBounded'
<1>1. ASSUME NEW p \in Providers
      PROVE  \E i \in 1 .. Gen' :
                Cardinality(InFlight(p)') <= configs'[i].capacity[p]
  <2>1. ASSUME InFlight(p)' \subseteq InFlight(p)
        PROVE  \E i \in 1 .. Gen' :
                  Cardinality(InFlight(p)') <= configs'[i].capacity[p]
    <3>1. PICK i \in 1 .. Gen :
             Cardinality(InFlight(p)) <= configs[i].capacity[p]
      BY DEF InFlightBounded
    <3>2. Cardinality(InFlight(p)') <= Cardinality(InFlight(p))
      BY <2>1, FiniteRunning, FS_Subset
    <3>3. /\ Cardinality(InFlight(p)) \in Nat
          /\ Cardinality(InFlight(p)') \in Nat
      BY <2>1, FiniteRunning, FS_Subset, FS_CardinalityType
    <3>4. configs'[i] = configs[i] /\ i \in 1 .. Gen'
      BY ConfigsGrow
    <3> QED
      BY <3>1, <3>2, <3>3, <3>4, LimitsArePositive
  <2>2. ASSUME NEW m \in Models, NEW k \in Kinds, Dispatch(m, k),
               Cardinality(InFlight(p)') <= Cfg.capacity[p]
        PROVE  \E i \in 1 .. Gen' :
                  Cardinality(InFlight(p)') <= configs'[i].capacity[p]
    BY <2>2, ConfigsGrow, CurrentConfig DEF Cfg, Gen
  <2> QED
    BY <2>1, <2>2, DispatchStartsOne, OnlyDispatchStarts DEF InFlight
<1>2. \E i \in 1 .. Gen' : Cardinality(Running') <= configs'[i].maxConcurrent
  <2>1. CASE \E m \in Models, k \in Kinds : Dispatch(m, k)
    BY <2>1, DispatchStartsOne, ConfigsGrow, CurrentConfig DEF Cfg, Gen
  <2>2. CASE Running' \subseteq Running
    <3>1. PICK i \in 1 .. Gen : Cardinality(Running) <= configs[i].maxConcurrent
      BY DEF InFlightBounded
    <3>2. Cardinality(Running') <= Cardinality(Running)
      BY <2>2, FiniteRunning, FS_Subset
    <3>3. Cardinality(Running) \in Nat /\ Cardinality(Running') \in Nat
      BY <2>2, FiniteRunning, FS_Subset, FS_CardinalityType
    <3>4. configs'[i] = configs[i] /\ i \in 1 .. Gen'
      BY ConfigsGrow
    <3> QED
      BY <3>1, <3>2, <3>3, <3>4, LimitsArePositive
  <2> QED
    BY <2>1, <2>2, OnlyDispatchStarts
<1> QED
  BY <1>1, <1>2 DEF InFlightBounded

LEMMA BoundedInit == Init => InFlightBounded
<1> SUFFICES ASSUME Init PROVE InFlightBounded
  OBVIOUS
<1>1. TypeOK /\ Gen \in 1 .. Gen
  BY InitType, CurrentConfig
<1>2. Running = {}
  BY DEF Init, Running
<1>3. \A p \in Providers : InFlight(p) = {}
  BY <1>2 DEF InFlight
<1>4. \A n \in Nat : Cardinality({}) <= n
  BY FS_EmptySet
<1> QED
  BY <1>1, <1>2, <1>3, <1>4, LimitsArePositive DEF InFlightBounded

LEMMA BoundedAlways == Spec => [](Marks /\ InFlightBounded)
<1>1. (Marks /\ InFlightBounded) /\ [Next]_vars => (Marks /\ InFlightBounded)'
  BY MarksInductive, BoundedInductive DEF Marks
<1> QED
  BY <1>1, MarksInit, BoundedInit, PTL DEF Spec

\* The tests in flight never exceed the largest limits ever configured, per
\* provider and in total, whichever semaphore generation each of them holds.
THEOREM InFlightBoundedCorrect == Spec => []InFlightBounded
BY BoundedAlways, PTL

-----------------------------------------------------------------------------
(***************************************************************************)
(* Offline models and stagger: what a cycle decided stays true until its   *)
(* last dispatch, because the loop does not await in between.              *)
(***************************************************************************)
DueOnline ==
    pc = "dispatching" => \A k \in Kinds \ {"health"} : due[k] \cap offline = {}

NeverToggled == \A i \in 1 .. Gen : configs[i].stagger

DueOneProvider ==
    pc = "dispatching" /\ NeverToggled =>
        \A m, n \in due["benchmark"] \cup running["benchmark"] :
            ProviderOf[m] = ProviderOf[n]

Decided ==
    Marks /\ OfflineOnlyHealth /\ DueOnline /\ StaggerOneProvider /\ DueOneProvider

LEMMA DecidedInit == Init => Decided
<1> SUFFICES ASSUME Init PROVE Decided
  OBVIOUS
<1>1. /\ pc = "cycle"
      /\ \A k \in Kinds : running[k] = {}
      /\ \A m \in Models, k \in Kinds : phase[<<m, k>>] = "none"
  BY DEF Init, Tests
<1>2. offline \subseteq Models /\ "benchmark" \in Kinds
  BY InitType, SchedulerAssumption DEF TypeOK, SchedulerAssumption
<1> QED
  BY <1>1, <1>2, MarksInit
     DEF Decided, OfflineOnlyHealth, DueOnline, StaggerOneProvider, DueOneProvider

\* A cycle's benchmarks due and running are all of one provider.
LEMMA BeginCycleDecided ==
    ASSUME Decided, BeginCycle
    PROVE  OfflineOnlyHealth' /\ DueOnline' /\ StaggerOneProvider' /\ DueOneProvider'
<1> USE DEF confVars, cacheVars, testVars
<1>0. "benchmark" \in Kinds
  BY SchedulerAssumption DEF SchedulerAssumption
<1>1. UNCHANGED <<configs, offline, running, phase>>
  BY DEF BeginCycle
<1>2. PICK allowed \in StaggerChoices(Undispatched) :
         due' = [k \in Kinds |-> IF Dispatchable(k)
                                 THEN DueTests(k, Undispatched, allowed)
                                 ELSE {}]
  BY DEF BeginCycle
<1>3. DueOnline'
  BY <1>1, <1>2 DEF DueOnline, DueTests, IsDue, AllowsStatus
<1>4. ASSUME NeverToggled
      PROVE  \A m, n \in due'["benchmark"] \cup running["benchmark"] :
                ProviderOf[m] = ProviderOf[n]
  <2> DEFINE D == {m \in Undispatched : IsDue(m, "benchmark")}
             R == running["benchmark"]
  <2>0. Cfg.stagger
    BY <1>4, CurrentConfig DEF NeverToggled, Cfg, Gen, Decided, Marks
  <2>1. due'["benchmark"] \subseteq {m \in D : ProviderOf[m] \in allowed}
    BY <1>0, <1>2 DEF DueTests
  <2>2. \A m, n \in R : ProviderOf[m] = ProviderOf[n]
    BY <1>4 DEF Decided, StaggerOneProvider, NeverToggled
  <2>3. CASE R # {}
    <3>1. allowed \in {{ProviderOf[m]} : m \in R}
      BY <2>0, <2>3, <1>2 DEF StaggerChoices
    <3> QED
      BY <2>1, <2>2, <3>1
  <2>4. CASE R = {} /\ D # {}
    <3>1. allowed \in {{ProviderOf[m]} : m \in MostOverdue(D)}
      BY <2>0, <2>4, <1>2 DEF StaggerChoices
    <3> QED
      BY <2>1, <2>4, <3>1
  <2>5. CASE R = {} /\ D = {}
    BY <2>1, <2>5
  <2> QED
    BY <2>3, <2>4, <2>5
<1>5. StaggerOneProvider' /\ OfflineOnlyHealth'
  BY <1>1 DEF Decided, StaggerOneProvider, OfflineOnlyHealth, Gen
<1>6. DueOneProvider'
  BY <1>1, <1>4 DEF DueOneProvider, NeverToggled, Gen
<1> QED
  BY <1>3, <1>5, <1>6

LEMMA DispatchDecided ==
    ASSUME Decided, NEW m \in Models, NEW k \in Kinds, Dispatch(m, k)
    PROVE  OfflineOnlyHealth' /\ DueOnline' /\ StaggerOneProvider' /\ DueOneProvider'
<1> USE DEF confVars, cacheVars, loopVars
<1>1. UNCHANGED <<configs, offline, due, pc>> /\ pc = "dispatching" /\ m \in due[k]
  BY DEF Dispatch, Eligible
<1>2. \A n \in Models, j \in Kinds :
         phase'[<<n, j>>] =
            IF n = m /\ j = k THEN "created" ELSE phase[<<n, j>>]
  BY DEF Decided, Marks, TypeOK, Dispatch, Tests
<1>3. OfflineOnlyHealth'
  <2>1. k # "health" => m \notin offline
    BY <1>1 DEF Decided, DueOnline
  <2>2. offline \subseteq Models
    BY DEF Decided, Marks, TypeOK
  <2> QED
    BY <1>1, <1>2, <2>1, <2>2 DEF Decided, OfflineOnlyHealth
<1>4. running'["benchmark"] \subseteq running["benchmark"] \cup due["benchmark"]
  BY <1>1, SchedulerAssumption
     DEF Decided, Marks, TypeOK, Dispatch, SchedulerAssumption
<1>5. StaggerOneProvider' /\ DueOneProvider'
  BY <1>1, <1>4
     DEF Decided, DueOneProvider, StaggerOneProvider, NeverToggled, Gen
<1>6. DueOnline'
  BY <1>1 DEF Decided, DueOnline
<1> QED
  BY <1>3, <1>5, <1>6

\* A test can only mark its own model offline, and only with its outcome.
LEMMA TestStepOffline ==
    ASSUME TypeOK, NEW m \in Models, NEW k \in Kinds, TestStep(m, k)
    PROVE  /\ pc' # "dispatching"
           /\ offline' \subseteq offline \cup {m}
           /\ Outcome(m, k) \/ offline' \subseteq offline
<1> USE DEF confVars, cacheVars, testVars, loopVars
<1>1. pc # "dispatching" /\ UNCHANGED pc
  BY DEF TestStep, Awaiting, QueueOnGlobal, ProviderGone, QueueOnProvider,
     TakeBothPermits, TakeProviderPermit, BeginAttempts, BeginProbeOrAudit,
     NotInCache, Retry, FinishTest, FinishProbeOrAudit, FinishUnrecorded,
     Outcome, Close
<1>2. CASE UNCHANGED offline
  BY <1>1, <1>2
<1>3. CASE Retry(m, k)
  BY <1>1, <1>3 DEF Retry
<1>4. CASE \E available \in BOOLEAN : FinishTest(m, k, available)
  BY <1>1, <1>4 DEF FinishTest
<1> QED
  BY <1>1, <1>2, <1>3, <1>4
     DEF TestStep, QueueOnGlobal, ProviderGone, QueueOnProvider, TakeBothPermits,
         TakeProviderPermit, BeginAttempts, BeginProbeOrAudit, NotInCache,
         FinishProbeOrAudit, FinishUnrecorded, Close

LEMMA TestStepOfflineOnlyHealth ==
    ASSUME Decided, NEW m \in Models, NEW k \in Kinds, TestStep(m, k)
    PROVE  OfflineOnlyHealth'
<1>0. TypeOK /\ offline \subseteq Models /\ <<m, k>> \in Tests
  BY DEF Decided, Marks, TypeOK, Tests
<1>1. phase[<<m, k>>] # "none"
  BY <1>0, TestStepShape
<1>2. ASSUME NEW x \in {"none", "closing"}, phase' = [phase EXCEPT ![<<m, k>>] = x]
      PROVE  OfflineOnlyHealth'
  <2>1. \A n \in Models, j \in Kinds :
           phase'[<<n, j>>] = IF n = m /\ j = k THEN x ELSE phase[<<n, j>>]
    BY <1>0, <1>2 DEF TypeOK, Tests
  <2>2. \A j \in Kinds : phase'[<<m, j>>] \in {"none", "closing"}
    BY <1>1, <2>1 DEF Decided, Marks, OneTestPerModel
  <2>3. offline' \subseteq offline \cup {m}
    BY <1>0, TestStepOffline
  <2> QED
    BY <1>0, <2>1, <2>2, <2>3 DEF Decided, OfflineOnlyHealth
<1>3. CASE ~Leave(m, k) /\ ~Outcome(m, k)
  <2>1. PICK x \in Phases \ {"none"} : phase' = [phase EXCEPT ![<<m, k>>] = x]
    BY <1>0, <1>3, TestStepShape
  <2>2. phase[<<m, k>>] # "closing"
    BY <1>3
       DEF TestStep, QueueOnGlobal, ProviderGone, QueueOnProvider,
           TakeBothPermits, TakeProviderPermit, CanTakeGlobal, BeginProbeOrAudit,
           NotInCache, Retry, FinishTest, FinishProbeOrAudit, FinishUnrecorded,
           Close
  <2>3. offline' \subseteq offline
    BY <1>0, <1>3, TestStepOffline
  <2>4. k # "health" => m \notin offline
    BY <1>1, <2>2 DEF Decided, OfflineOnlyHealth
  <2>5. \A n \in Models, j \in Kinds :
           ~(n = m /\ j = k) => phase'[<<n, j>>] = phase[<<n, j>>]
    BY <1>0, <2>1 DEF TypeOK, Tests
  <2> QED
    BY <1>0, <2>3, <2>4, <2>5 DEF Decided, OfflineOnlyHealth
<1> QED
  BY <1>2, <1>3 DEF Leave, Outcome

\* A step that leaves the loop waiting and starts no benchmark.
LEMMA WaitingDecided ==
    ASSUME Decided, [Next]_vars, pc' # "dispatching",
           running'["benchmark"] \subseteq running["benchmark"]
    PROVE  DueOnline' /\ StaggerOneProvider' /\ DueOneProvider'
<1>1. NeverToggled' => NeverToggled
  BY ConfigsGrow DEF Decided, Marks, NeverToggled
<1> QED
  BY <1>1 DEF Decided, DueOnline, StaggerOneProvider, DueOneProvider, NeverToggled

LEMMA DecidedInductive == Decided /\ [Next]_vars => Decided'
<1> SUFFICES ASSUME Decided, [Next]_vars PROVE Decided'
  OBVIOUS
<1> USE DEF confVars, cacheVars, testVars, loopVars
<1>0. Marks'
  BY MarksInductive DEF Decided
<1>1. "benchmark" \in Kinds
  BY SchedulerAssumption DEF SchedulerAssumption
<1>2. CASE BeginCycle
  BY <1>0, <1>2, BeginCycleDecided DEF Decided
<1>3. ASSUME NEW m \in Models, NEW k \in Kinds, Dispatch(m, k)
      PROVE  Decided'
  BY <1>0, <1>3, DispatchDecided DEF Decided
<1>4. ASSUME NEW m \in Models, NEW k \in Kinds, TestStep(m, k)
      PROVE  Decided'
  <2>1. running'["benchmark"] \subseteq running["benchmark"]
    <3>1. Leave(m, k) \/ UNCHANGED running
      BY <1>4, TestStepShape DEF Decided, Marks
    <3> QED
      BY <1>1, <3>1 DEF Leave
  <2> QED
    BY <1>0, <1>4, <2>1, TestStepOffline, TestStepOfflineOnlyHealth, WaitingDecided
       DEF Decided, Marks
<1>5. CASE /\ UNCHANGED <<running, phase>>
           /\ offline' \subseteq offline
           /\ pc' # "dispatching"
  <2>1. OfflineOnlyHealth'
    BY <1>5 DEF Decided, OfflineOnlyHealth
  <2> QED
    BY <1>0, <1>5, <2>1, WaitingDecided DEF Decided
<1>6. CASE EndDispatch \/ WakeUp
  <2>1. pc' # "dispatching"
    BY <1>6 DEF EndDispatch, WakeUp
  <2> QED
    BY <1>5, <1>6, <2>1 DEF EndDispatch, WakeUp
<1>7. ASSUME NEW c \in Configs, NEW reset \in SUBSET Models, Reload(c, reset)
      PROVE  Decided'
  BY <1>5, <1>7 DEF Reload, Awaiting
<1>8. CASE ReloadApplied \/ (\E S \in SUBSET Archivable : ChangeArchived(S)) \/ Tick
  BY <1>5, <1>8 DEF ReloadApplied, ChangeArchived, Tick, Awaiting
<1>9. CASE UNCHANGED vars
  BY <1>0, <1>9
     DEF Decided, OfflineOnlyHealth, DueOnline, StaggerOneProvider,
         DueOneProvider, NeverToggled, Gen, vars
<1> QED
  BY <1>2, <1>3, <1>4, <1>6, <1>7, <1>8, <1>9 DEF Next, SchedulerStep

LEMMA DecidedAlways == Spec => []Decided
BY DecidedInit, DecidedInductive, PTL DEF Spec

\* An offline model is only ever health-checked: what was due when the cycle
\* began is still allowed at its last dispatch, and a model goes offline only
\* at the end of the one test it runs.
THEOREM OfflineOnlyHealthCorrect == Spec => []OfflineOnlyHealth
<1>1. Decided => OfflineOnlyHealth
  BY DEF Decided
<1> QED
  BY <1>1, DecidedAlways, PTL

\* With stagger never switched off, all benchmarks in flight belong to one
\* provider, whatever finishes, is reloaded or becomes due in between.
THEOREM StaggerOneProviderCorrect == Spec => []StaggerOneProvider
<1>1. Decided => StaggerOneProvider
  BY DEF Decided
<1> QED
  BY <1>1, DecidedAlways, PTL

-----------------------------------------------------------------------------
(***************************************************************************)
(* Semaphores.  Every permit in use belongs to a test that counts in       *)
(* Running and InFlight, so a newly created test, which counts there too,  *)
(* finds a free permit: |permits| <= |Running \ {it}| < |Running| <= limit. *)
(***************************************************************************)
Queueless == Marks /\ InFlightBounded /\ NoSemaphoreQueue

\* A set of live tests is no larger than a set with all their models.
LEMMA TestsAreModels ==
    ASSUME Marks, NEW T \in SUBSET Tests, NEW M, IsFiniteSet(M),
           \A t \in T : phase[t] # "none" /\ t[1] \in M
    PROVE  /\ Cardinality(T) \in Nat
           /\ Cardinality(T) <= Cardinality(M)
<1> DEFINE f == [t \in T |-> t[1]]
<1>1. \A s, t \in T : f[s] = f[t] => s = t
  <2> SUFFICES ASSUME NEW s \in T, NEW t \in T, s[1] = t[1] PROVE s = t
    OBVIOUS
  <2>1. PICK m \in Models, j \in Kinds : s = <<m, j>>
    BY DEF Tests
  <2>2. PICK n \in Models, k \in Kinds : t = <<n, k>>
    BY DEF Tests
  <2> QED
    BY <2>1, <2>2 DEF Marks, OneTestPerModel
<1>2. f \in Injection(T, M)
  BY <1>1 DEF Injection, IsInjective
<1> QED
  BY <1>2, FS_Injection, FS_CardinalityType

LEMMA GlobalPermitFree ==
    ASSUME Queueless, Gen = 1, NEW m \in Models, NEW k \in Kinds,
           phase[<<m, k>>] = "created"
    PROVE  GlobalFree(1)
<1>0. TypeOK /\ m \in Running
  BY DEF Queueless, Marks, RunningSetsAreTasks, Running
<1>1. IsFiniteSet(Running \ {m})
      /\ Cardinality(Running \ {m}) = Cardinality(Running) - 1
  BY <1>0, FS_RemoveElement, FiniteRunning
<1>2. Cardinality(Running) <= configs[1].maxConcurrent
  BY DEF Queueless, InFlightBounded
<1>3. \A t \in HoldsGlobal(1) : phase[t] # "none" /\ t[1] \in Running \ {m}
  <2> SUFFICES ASSUME NEW t \in HoldsGlobal(1)
               PROVE  phase[t] # "none" /\ t[1] \in Running \ {m}
    OBVIOUS
  <2>1. PICK n \in Models, j \in Kinds : t = <<n, j>>
    BY DEF HoldsGlobal, Tests
  <2>2. phase[<<n, j>>] \in {"waitProvider", "testing", "closing"}
    BY <2>1 DEF HoldsGlobal
  <2>3. n # m
    BY <2>2 DEF Queueless, Marks, OneTestPerModel
  <2> QED
    BY <2>1, <2>2, <2>3 DEF Queueless, Marks, RunningSetsAreTasks, Running
<1>4. /\ Cardinality(HoldsGlobal(1)) \in Nat
      /\ Cardinality(HoldsGlobal(1)) <= Cardinality(Running \ {m})
  BY <1>1, <1>3, TestsAreModels DEF Queueless, HoldsGlobal
<1>5. configs[1].maxConcurrent \in Nat
  BY <1>0, LimitsArePositive
<1> QED
  BY <1>0, <1>1, <1>2, <1>4, <1>5, FiniteRunning DEF GlobalFree

LEMMA ProviderPermitFree ==
    ASSUME Queueless, Gen = 1, NEW m \in Models, NEW k \in Kinds,
           phase[<<m, k>>] = "created"
    PROVE  ProviderFree(ProviderOf[m], 1)
<1> DEFINE p == ProviderOf[m]
<1>0. TypeOK /\ p \in Providers /\ m \in InFlight(p)
  BY SchedulerAssumption
     DEF Queueless, Marks, RunningSetsAreTasks, Running, InFlight,
         SchedulerAssumption
<1>1. IsFiniteSet(InFlight(p) \ {m})
      /\ Cardinality(InFlight(p) \ {m}) = Cardinality(InFlight(p)) - 1
  BY <1>0, FS_RemoveElement, FiniteRunning
<1>2. Cardinality(InFlight(p)) <= configs[1].capacity[p]
  BY <1>0 DEF Queueless, InFlightBounded
<1>3. \A t \in HoldsProvider(p, 1) : phase[t] # "none" /\ t[1] \in InFlight(p) \ {m}
  <2> SUFFICES ASSUME NEW t \in HoldsProvider(p, 1)
               PROVE  phase[t] # "none" /\ t[1] \in InFlight(p) \ {m}
    OBVIOUS
  <2>1. PICK n \in Models, j \in Kinds : t = <<n, j>>
    BY DEF HoldsProvider, Tests
  <2>2. phase[<<n, j>>] \in {"testing", "closing"} /\ ProviderOf[n] = p
    BY <2>1 DEF HoldsProvider
  <2>3. n # m
    BY <2>2 DEF Queueless, Marks, OneTestPerModel
  <2> QED
    BY <2>1, <2>2, <2>3
       DEF Queueless, Marks, RunningSetsAreTasks, Running, InFlight
<1>4. /\ Cardinality(HoldsProvider(p, 1)) \in Nat
      /\ Cardinality(HoldsProvider(p, 1)) <= Cardinality(InFlight(p) \ {m})
  BY <1>1, <1>3, TestsAreModels DEF Queueless, HoldsProvider
<1>5. configs[1].capacity[p] \in Nat
  BY <1>0, LimitsArePositive
<1> QED
  BY <1>0, <1>1, <1>2, <1>4, <1>5, FiniteRunning DEF ProviderFree

\* With one generation of semaphores no test takes the step into a queue.
LEMMA NoQueueStep ==
    ASSUME Queueless, Gen = 1, NEW m \in Models, NEW k \in Kinds
    PROVE  ~QueueOnGlobal(m, k) /\ ~QueueOnProvider(m, k)
<1>1. ~QueueOnGlobal(m, k)
  BY GlobalPermitFree DEF QueueOnGlobal
<1>2. <<m, k>> \in Tests
  BY DEF Tests
<1>3. ~QueueOnProvider(m, k)
  BY <1>2, ProviderPermitFree
     DEF QueueOnProvider, CanTakeGlobal, Queueless, NoSemaphoreQueue
<1> QED
  BY <1>1, <1>3

LEMMA QueuelessInductive == Queueless /\ [Next]_vars => Queueless'
<1> SUFFICES ASSUME Queueless, [Next]_vars PROVE Queueless'
  OBVIOUS
<1>0. TypeOK /\ Marks' /\ InFlightBounded'
  BY MarksInductive, BoundedInductive DEF Queueless, Marks
<1>1. Gen' = 1 => Gen = 1
  BY <1>0, ConfigsGrow, CurrentConfig
<1>2. CASE UNCHANGED phase
  BY <1>0, <1>1, <1>2 DEF Queueless, NoSemaphoreQueue
<1>3. ASSUME NEW m \in Models, NEW k \in Kinds, NEW x \in {"none", "created", "testing", "closing"},
             phase' = [phase EXCEPT ![<<m, k>>] = x]
      PROVE  Queueless'
  BY <1>0, <1>1, <1>3 DEF Queueless, NoSemaphoreQueue, TypeOK
<1>4. ASSUME NEW m \in Models, NEW k \in Kinds, Dispatch(m, k) PROVE Queueless'
  BY <1>3, <1>4 DEF Dispatch
<1>5. ASSUME NEW m \in Models, NEW k \in Kinds, TestStep(m, k) PROVE Queueless'
  <2>1. CASE Gen' # 1
    BY <1>0, <2>1 DEF Queueless, NoSemaphoreQueue
  <2>2. CASE Gen' = 1 /\ Leave(m, k)
    BY <1>3, <2>2 DEF Leave
  <2>3. CASE Gen' = 1 /\ ~Leave(m, k)
    <3>1. ~QueueOnGlobal(m, k) /\ ~QueueOnProvider(m, k)
      BY <1>1, <2>3, NoQueueStep
    <3>2. \/ phase' = phase
          \/ \E x \in {"testing", "closing"} :
                phase' = [phase EXCEPT ![<<m, k>>] = x]
      BY <1>5, <2>3, <3>1
         DEF TestStep, ProviderGone, TakeBothPermits, TakeProviderPermit,
             BeginAttempts, BeginProbeOrAudit, NotInCache, Retry, FinishTest,
             FinishProbeOrAudit, FinishUnrecorded, Outcome, Close
    <3> QED
      BY <1>2, <1>3, <3>2
  <2> QED
    BY <2>1, <2>2, <2>3
<1> QED
  BY <1>2, <1>4, <1>5, OtherSteps

\* Unless a reload replaces the limits, no test ever waits for a semaphore:
\* the bookkeeping of _dispatch_due is exact, for any limits and any timing.
THEOREM NoSemaphoreQueueCorrect == Spec => []NoSemaphoreQueue
<1>1. Init => Queueless
  <2> SUFFICES ASSUME Init PROVE NoSemaphoreQueue
    BY MarksInit, BoundedInit DEF Queueless
  <2> QED
    BY DEF Init, NoSemaphoreQueue
<1>2. Queueless => NoSemaphoreQueue
  BY DEF Queueless
<1> QED
  BY <1>1, <1>2, QueuelessInductive, PTL DEF Spec

-----------------------------------------------------------------------------
(* The loop reaches its wait                                                *)

\* As long as no test runs, nothing has been dispatched in this cycle, so the due
\* lists still are what the stagger filter makes of the undispatched models.
Planned ==
    pc = "dispatching" /\ Running = {} =>
        \E allowed \in StaggerChoices(und) :
            due = [k \in Kinds |-> IF Dispatchable(k) THEN DueTests(k, und, allowed)
                                                      ELSE {}]

Sleepy == Marks /\ Planned /\ SchedulerSleeps

LEMMA BeginCyclePlanned == ASSUME Marks, BeginCycle PROVE Planned'
<1> USE DEF confVars, cacheVars, testVars
<1>1. PICK allowed \in StaggerChoices(Undispatched) :
         due' = [k \in Kinds |-> IF Dispatchable(k)
                                 THEN DueTests(k, Undispatched, allowed)
                                 ELSE {}]
  BY DEF BeginCycle
<1>2. UNCHANGED <<configs, offline, age, pending, running>> /\ und' = Undispatched
  BY DEF BeginCycle
<1>3. \A m, k : IsDue(m, k)' <=> IsDue(m, k)
  BY <1>2 DEF IsDue, AllowsStatus
<1>4. StaggerChoices(und)' = StaggerChoices(Undispatched)
  BY <1>2 DEF StaggerChoices, MostOverdue, IsDue, AllowsStatus, Cfg
<1>5. \A k : DueTests(k, und, allowed)' = DueTests(k, Undispatched, allowed)
  BY <1>2 DEF DueTests, IsDue, AllowsStatus
<1> QED
  BY <1>1, <1>4, <1>5 DEF Planned, Dispatchable

LEMMA DispatchPlanned ==
    ASSUME Marks, NEW m \in Models, NEW k \in Kinds, Dispatch(m, k)
    PROVE  Planned'
<1>1. m \in running'[k]
  BY DEF Dispatch, Marks, TypeOK
<1> QED
  BY <1>1 DEF Planned, Running

\* With no test running, a slot is free for whatever is due.
LEMMA IdleEligible ==
    ASSUME TypeOK, Running = {}, NEW m \in Models, NEW k \in Kinds, m \in due[k]
    PROVE  Eligible(m, k)
<1>1. InFlight(ProviderOf[m]) = {}
  BY DEF InFlight
<1>2. Cardinality({}) = 0
  BY FS_EmptySet
<1>3. 0 < Cfg.maxConcurrent /\ 0 < Cfg.capacity[ProviderOf[m]]
  BY CurrentConfig, SchedulerAssumption DEF SchedulerAssumption, Config
<1> QED
  BY <1>1, <1>2, <1>3 DEF Eligible

\* A wait of 0 s is that of a model that is due, as long as no test runs.
LEMMA ZeroWaitIsDue ==
    ASSUME TypeOK, Running = {}, NEW allowed \in SUBSET Providers,
           NEW w \in SoonestDue(allowed), ~(w > 0)
    PROVE  \E m \in und, k \in Kinds :
              IsDue(m, k) /\ (k = "benchmark" => ProviderOf[m] \in allowed)
<1>1. PICK k \in Kinds : w \in Waits(k, allowed)
  BY DEF SoonestDue
<1> DEFINE Eager == {x \in und : /\ AllowsStatus(x, k)
                                 /\ age[x][k] # Never
                                 /\ k = "benchmark" => ProviderOf[x] \in allowed}
<1>2. Interval[k] \in Nat \ {0}
  BY IntervalPositive
<1>3. w \in {Wait(m, k) : m \in Eager}
  BY <1>1, <1>2 DEF Waits
<1>4. PICK m \in Eager : w = Wait(m, k)
  BY <1>3
<1>5. m \in Models /\ age[m][k] \in Ages
  BY <1>4 DEF TypeOK
<1>6. age[m][k] >= Interval[k]
  BY <1>2, <1>4, <1>5, SchedulerAssumption
     DEF Wait, Ages, Never, SchedulerAssumption
<1> QED
  BY <1>4, <1>6 DEF IsDue

\* Whatever the filter was when the due lists were made and when the wait is
\* computed: what makes the wait 0 would have been dispatched.
LEMMA IdleMeansNothingDue ==
    ASSUME AuditAvailable, Marks, Planned, pc = "dispatching", Running = {},
           \A m \in Models, k \in Kinds : ~Eligible(m, k)
    PROVE  \A m \in und, k \in Kinds : ~IsDue(m, k)
<1> SUFFICES ASSUME NEW m \in und, NEW k \in Kinds, IsDue(m, k) PROVE FALSE
  OBVIOUS
<1>0. TypeOK /\ und \subseteq Models /\ "benchmark" \in Kinds
  BY SchedulerAssumption DEF Marks, TypeOK, SchedulerAssumption
<1>1. \A n \in Models, j \in Kinds : n \notin due[j]
  BY <1>0, IdleEligible
<1>2. PICK allowed \in StaggerChoices(und) :
         due = [j \in Kinds |-> IF Dispatchable(j) THEN DueTests(j, und, allowed) ELSE {}]
  BY DEF Planned
<1>3. \A j \in Kinds : DueTests(j, und, allowed) = {}
  BY <1>0, <1>1, <1>2 DEF Dispatchable, DueTests
<1>4. k = "benchmark"
  BY <1>3 DEF DueTests
<1> DEFINE D == {n \in und : IsDue(n, "benchmark")}
<1>5. D # {} /\ running["benchmark"] = {}
  BY <1>0, <1>4 DEF Running
<1>6. \A n \in D : ProviderOf[n] \notin allowed
  BY <1>0, <1>3 DEF DueTests
<1>7. CASE ~Cfg.stagger
  <2>1. allowed = Providers
    BY <1>2, <1>7 DEF StaggerChoices
  <2> QED
    BY <1>0, <1>4, <1>6, <2>1, SchedulerAssumption DEF SchedulerAssumption
<1>8. CASE Cfg.stagger
  <2>1. PICK n \in MostOverdue(D) : allowed = {ProviderOf[n]}
    BY <1>2, <1>5, <1>8 DEF StaggerChoices
  <2> QED
    BY <1>6, <2>1 DEF MostOverdue
<1>9. Cfg.stagger \in BOOLEAN
  BY <1>0, CurrentConfig, SchedulerAssumption DEF SchedulerAssumption, Config
<1> QED
  BY <1>7, <1>8, <1>9

LEMMA EndDispatchSleeps ==
    ASSUME AuditAvailable, Marks, Planned, EndDispatch
    PROVE  pc' = "sleeping"
<1>0. TypeOK
  BY DEF Marks
<1>a. PICK allowed \in StaggerChoices(und) : \E w \in SoonestDue(allowed) :
         pc' = IF SleepTime(w) > 0 THEN "sleeping" ELSE "spin"
  BY DEF EndDispatch
<1>1. PICK w \in SoonestDue(allowed) :
         pc' = IF SleepTime(w) > 0 THEN "sleeping" ELSE "spin"
  BY <1>a
<1>2. SUFFICES ASSUME ~(SleepTime(w) > 0) PROVE FALSE
  BY <1>1
<1>3. Running = {} /\ ~(w > 0)
  BY <1>0, <1>2, SoonestIsNat DEF SleepTime
<1>4. allowed \in SUBSET Providers
  BY <1>0, <1>a, SchedulerAssumption
     DEF StaggerChoices, MostOverdue, TypeOK, SchedulerAssumption
<1>5. \A m \in und, k \in Kinds : ~IsDue(m, k)
  BY <1>3, IdleMeansNothingDue DEF EndDispatch
<1> QED
  BY <1>0, <1>1, <1>3, <1>4, <1>5, ZeroWaitIsDue

LEMMA SleepyInductive == AuditAvailable /\ Sleepy /\ [Next]_vars => Sleepy'
<1> SUFFICES ASSUME AuditAvailable, Sleepy, [Next]_vars PROVE Sleepy'
  OBVIOUS
<1> USE DEF confVars, cacheVars, testVars, loopVars
<1>0. Marks /\ Planned /\ Marks'
  BY MarksInductive DEF Sleepy
<1>1. CASE BeginCycle
  BY <1>0, <1>1, BeginCyclePlanned DEF Sleepy, SchedulerSleeps, BeginCycle
<1>2. ASSUME NEW m \in Models, NEW k \in Kinds, Dispatch(m, k) PROVE Sleepy'
  BY <1>0, <1>2, DispatchPlanned DEF Sleepy, SchedulerSleeps, Dispatch
<1>3. CASE EndDispatch
  BY <1>0, <1>3, EndDispatchSleeps DEF Sleepy, SchedulerSleeps, Planned
<1>4. CASE pc' \notin {"dispatching", "spin"}
  BY <1>0, <1>4 DEF Sleepy, SchedulerSleeps, Planned
<1>5. ASSUME NEW m \in Models, NEW k \in Kinds, TestStep(m, k) PROVE Sleepy'
  <2>1. UNCHANGED pc /\ Awaiting
    BY <1>5
       DEF TestStep, QueueOnGlobal, ProviderGone, QueueOnProvider,
           TakeBothPermits, TakeProviderPermit, BeginAttempts, BeginProbeOrAudit,
           NotInCache, Retry, FinishTest, FinishProbeOrAudit, FinishUnrecorded,
           Outcome, Close
  <2> QED
    BY <1>4, <2>1 DEF Awaiting
<1>6. CASE \/ WakeUp \/ ReloadApplied \/ Tick
           \/ \E c \in Configs, reset \in SUBSET Models : Reload(c, reset)
           \/ \E S \in SUBSET Archivable : ChangeArchived(S)
  <2>1. pc' \notin {"dispatching", "spin"}
    BY <1>0, <1>6
       DEF WakeUp, ReloadApplied, Tick, Reload, ChangeArchived, Awaiting, Sleepy,
           SchedulerSleeps, Marks, TypeOK
  <2> QED
    BY <1>4, <2>1
<1>7. CASE UNCHANGED vars
  <2>1. UNCHANGED <<configs, offline, age, pending, running, pc, und, due>>
    BY <1>7 DEF vars
  <2>2. UNCHANGED <<Running, StaggerChoices(und)>>
    BY <2>1 DEF Running, StaggerChoices, MostOverdue, IsDue, AllowsStatus, Cfg
  <2>3. \A k, allowed : DueTests(k, und, allowed)' = DueTests(k, und, allowed)
    BY <2>1 DEF DueTests, IsDue, AllowsStatus
  <2> QED
    BY <1>0, <2>1, <2>2, <2>3 DEF Sleepy, SchedulerSleeps, Planned, Dispatchable
<1> QED
  BY <1>1, <1>2, <1>3, <1>5, <1>6, <1>7 DEF Next, SchedulerStep

\* Where every enabled audit suite has its binary, the loop never goes round
\* without an await: what _next_due_in finds due now has been dispatched, for any
\* intervals, limits, stagger choices and reloads.
THEOREM SchedulerSleepsCorrect == AuditAvailable => (Spec => []SchedulerSleeps)
<1> SUFFICES ASSUME AuditAvailable PROVE Spec => []SchedulerSleeps
  OBVIOUS
<1>1. Init => Sleepy
  <2> SUFFICES ASSUME Init PROVE Planned /\ SchedulerSleeps
    BY MarksInit DEF Sleepy
  <2> QED
    BY DEF Init, Planned, SchedulerSleeps
<1>2. Sleepy /\ [Next]_vars => Sleepy'
  BY SleepyInductive
<1>3. Sleepy => SchedulerSleeps
  BY DEF Sleepy
<1> QED
  BY <1>1, <1>2, <1>3, PTL DEF Spec

=============================================================================
