---------------------------- MODULE DeliveryProofs ----------------------------
(***************************************************************************)
(* Proofs about Delivery: the type invariant, and that no status change      *)
(* gets lost on its way, for any number of models, tiers and cooldowns.     *)
(***************************************************************************)
EXTENDS Delivery, SequenceTheorems, TLAPS

\* A flush has taken something or awaits a push only while it runs.
Quiescent ==
    /\ flush = "idle" => \A m \in Models : ~Queued(batch[m])
    /\ flush # "notify" => sending.event = "none"

\* Nothing is announced of a model before its first result.
Unheard ==
    \A m \in Models :
        status[m] = "unknown" =>
            /\ ~Queued(pending[m])
            /\ ~Queued(batch[m])
            /\ sending.event = "none" \/ sending.model # m

IInv == TypeOK /\ Quiescent /\ Unheard /\ ToldOrOwed

-----------------------------------------------------------------------------
(* Lemmas about the pure parts                                              *)

\* A status that differs from the one before it is a change unless it is the
\* first (_status_change_event).
LEMMA StatusChangeFacts ==
    ASSUME NEW old \in Statuses, NEW new \in Statuses
    PROVE  /\ StatusChange(old, new) \in Changes
           /\ StatusChange(old, new) = "none" => old = new \/ old = "unknown"
<1>1. CASE old = new \/ old = "unknown"
  BY <1>1, Zenon DEF StatusChange, Changes
<1>2. CASE ~(old = new \/ old = "unknown")
  <2>1. CASE old \in {"online", "degraded"} /\ new = "error"
    <3>1. StatusChange(old, new) = "offline"
      <4>1. ~(old = "online" /\ new = "degraded")
        BY <2>1
      <4> QED
        BY <1>2, <2>1, <4>1, Zenon DEF StatusChange
    <3> QED
      BY <3>1 DEF Changes
  <2>2. CASE old = "online" /\ new = "degraded"
    <3>1. StatusChange(old, new) = "degraded"
      <4>1. ~(old \in {"online", "degraded"} /\ new = "error")
        BY <2>2
      <4> QED
        BY <1>2, <2>2, <4>1, Zenon DEF StatusChange
    <3> QED
      BY <3>1 DEF Changes
  <2>3. CASE /\ ~(old \in {"online", "degraded"} /\ new = "error")
             /\ ~(old = "online" /\ new = "degraded")
    <3>1. StatusChange(old, new) = "recovered"
      BY <1>2, <2>3, Zenon DEF StatusChange
    <3> QED
      BY <3>1 DEF Changes
  <2> QED
    BY <2>1, <2>2, <2>3
<1> QED
  BY <1>1, <1>2

\* The same of record_retry_async, which leads to "degraded".
LEMMA RetryChangeFacts ==
    ASSUME NEW old \in Statuses
    PROVE  /\ RetryChange(old) \in Changes
           /\ RetryChange(old) = "none" => old = "degraded" \/ old = "unknown"
BY DEF RetryChange, Changes

\* What add makes of an entry is an entry; a change is queued with its status,
\* and without a change the entry is queued as before.
LEMMA MergeFacts ==
    ASSUME NEW entry \in Entry, NEW changed \in Changes, NEW new \in Statuses
    PROVE  /\ Merge(entry, changed, new) \in Entry
           /\ changed # "none" => Queued(Merge(entry, changed, new))
                                  /\ Merge(entry, changed, new).new = new
           /\ changed = "none" => (Queued(Merge(entry, changed, new)) <=> Queued(entry))
           /\ changed = "none" /\ Queued(entry) => Merge(entry, changed, new) = entry
BY DEF Merge, Entry, Absent, Queued, Changes, Statuses

-----------------------------------------------------------------------------
(* A result                                                                 *)

\* What a result may bring: a change, or the status the model has, or its
\* first.
Brings(m, changed, new) ==
    /\ changed \in Changes
    /\ new \in Statuses \ {"unknown"}
    /\ changed = "none" => status[m] = new \/ status[m] = "unknown"

\* Adding a result keeps the types of the variables it writes.
LEMMA AddTypes ==
    ASSUME TypeOK, NEW m \in Models, NEW changed, NEW new,
           Brings(m, changed, new), Add(m, changed, new)
    PROVE  /\ status' \in [Models -> Statuses]
           /\ pending' \in [Models -> Entry]
           /\ told' \in [Models -> Statuses]
<1>1. Merge(pending[m], changed, new) \in Entry
  BY MergeFacts DEF TypeOK, Brings
<1> QED
  BY <1>1 DEF TypeOK, Brings, Add

\* Adding a result keeps what is owed.
LEMMA AddKeeps ==
    ASSUME IInv, NEW m \in Models, NEW changed, NEW new,
           Brings(m, changed, new), Add(m, changed, new),
           UNCHANGED <<flush, batch, sending, muted>>
    PROVE  Quiescent' /\ Unheard' /\ ToldOrOwed'
<1> USE DEF IInv
<1>1. Quiescent'
  BY DEF Quiescent
<1>2. /\ status'[m] = new
      /\ pending'[m] = Merge(pending[m], changed, new)
      /\ told'[m] = IF status[m] = "unknown" THEN new ELSE told[m]
  BY DEF Add, TypeOK
<1>3. \A n \in Models \ {m} :
          status'[n] = status[n] /\ pending'[n] = pending[n] /\ told'[n] = told[n]
  BY DEF Add, TypeOK
<1>4. pending[m] \in Entry /\ new \in Statuses /\ changed \in Changes
  BY DEF TypeOK, Brings
<1>5. Unheard'
  BY <1>2, <1>3 DEF Unheard, Brings
<1>6. CASE changed # "none"
  <2>1. Queued(pending'[m]) /\ pending'[m].new = status'[m]
    BY <1>2, <1>4, <1>6, MergeFacts
  <2> QED
    BY <1>1, <1>3, <1>5, <2>1 DEF ToldOrOwed
<1>7. CASE changed = "none"
  <2>1. Queued(pending'[m]) <=> Queued(pending[m])
    BY <1>2, <1>4, <1>7, MergeFacts
  <2>2. Queued(pending[m]) => pending'[m] = pending[m]
    BY <1>2, <1>4, <1>7, MergeFacts
  <2>3. CASE status[m] = "unknown"
    <3>1. ~Queued(pending'[m]) /\ ~Queued(batch'[m]) /\ told'[m] = status'[m]
      BY <1>2, <2>1, <2>3 DEF Unheard
    <3>2. ~(sending'.event # "none" /\ sending'.model = m)
      BY <2>3 DEF Unheard
    <3> QED
      BY <1>1, <1>3, <1>5, <3>1, <3>2 DEF ToldOrOwed
  <2>4. CASE status[m] # "unknown"
    <3>1. status'[m] = status[m] /\ told'[m] = told[m]
      BY <1>2, <1>7, <2>4 DEF Brings
    <3> QED
      BY <1>1, <1>3, <1>5, <2>1, <2>2, <3>1 DEF ToldOrOwed
  <2> QED
    BY <2>3, <2>4
<1> QED
  BY <1>6, <1>7

\* Each of the three kinds of result brings one of these.
LEMMA ResultsBring ==
    ASSUME TypeOK, NEW m \in Models
    PROVE  /\ Brings(m, RetryChange(status[m]), "degraded")
           /\ \A new \in Statuses \ {"unknown"} :
                  Brings(m, StatusChange(status[m], new), new)
           /\ \A new \in Statuses \ {"unknown"} :
                  StatusChange(status[m], new) = "none" => Brings(m, "none", new)
<1>1. status[m] \in Statuses
  BY DEF TypeOK
<1>2. Brings(m, RetryChange(status[m]), "degraded")
  BY <1>1, RetryChangeFacts DEF Brings, Statuses
<1>3. ASSUME NEW new \in Statuses \ {"unknown"}
      PROVE  Brings(m, StatusChange(status[m], new), new)
  BY <1>1, StatusChangeFacts DEF Brings
<1>4. ASSUME NEW new \in Statuses \ {"unknown"}, StatusChange(status[m], new) = "none"
      PROVE  Brings(m, "none", new)
  BY <1>1, <1>4, StatusChangeFacts DEF Brings, Changes
<1> QED
  BY <1>2, <1>3, <1>4

-----------------------------------------------------------------------------
(* Type correctness                                                         *)

LEMMA InitType == Init => TypeOK
<1> SUFFICES ASSUME Init PROVE TypeOK
  OBVIOUS
<1>1. /\ status \in [Models -> Statuses]
      /\ told \in [Models -> Statuses]
      /\ Nothing \in [Models -> Entry]
  BY DEF Init, Statuses, Nothing, Absent, Entry
<1>2. \A m \in Models : NoNotice(m) \in Notice
  BY DEF NoNotice, Notice, Events, Changes, Statuses
<1>3. sending \in Notice /\ orphan \in Notice /\ metric \in [Models -> Notice]
  BY <1>2 DEF Init
<1>4. /\ tier \in [Models -> Tiers]
      /\ quiet \in [Models -> 0 .. Cooldown]
      /\ metricQuiet \in [Models -> 0 .. MetricCooldown]
  BY DeliveryAssumption DEF Init, Tiers
<1> QED
  BY <1>1, <1>3, <1>4 DEF Init, TypeOK

LEMMA NextType == TypeOK /\ [Next]_vars => TypeOK'
<1> SUFFICES ASSUME TypeOK, [Next]_vars PROVE TypeOK'
  OBVIOUS
<1> USE DEF flushVars, resultVars, toldVars
<1>0. \A m \in Models : NoNotice(m) \in Notice
  BY DEF NoNotice, Notice, Events, Changes, Statuses
<1>1. ASSUME NEW m \in Models, RetryResult(m) PROVE TypeOK'
  BY <1>1, ResultsBring, AddTypes DEF RetryResult, TypeOK
<1>2. ASSUME NEW m \in Models, NEW new \in Statuses \ {"unknown"}, PlainResult(m, new)
      PROVE  TypeOK'
  <2>1. tier' \in [Models -> Tiers]
    BY <1>2 DEF PlainResult, TypeOK
  <2>2. /\ status' \in [Models -> Statuses]
        /\ pending' \in [Models -> Entry]
        /\ told' \in [Models -> Statuses]
    BY <1>2, ResultsBring, AddTypes DEF PlainResult
  <2> QED
    BY <1>2, <2>1, <2>2 DEF PlainResult, TypeOK
<1>3. ASSUME NEW m \in Models, NEW new \in {"online", "degraded"}, NEW t \in Tiers,
             MetricResult(m, new, t)
      PROVE  TypeOK'
  <2>1. new \in Statuses \ {"unknown"}
    BY DEF Statuses
  <2>2. StatusChange(status[m], new) = "none" /\ Add(m, "none", new)
    BY <1>3, Zenon DEF MetricResult
  <2>3. /\ status' \in [Models -> Statuses]
        /\ pending' \in [Models -> Entry]
        /\ told' \in [Models -> Statuses]
    BY <2>1, <2>2, ResultsBring, AddTypes
  <2>4. tier' = [tier EXCEPT ![m] = t]
    BY <1>3, Zenon DEF MetricResult
  <2>5. metricQuiet' \in [Models -> 0 .. MetricCooldown]
    <3>1. \E v \in {0, metricQuiet[m]} : metricQuiet' = [metricQuiet EXCEPT ![m] = v]
      BY <1>3, Zenon DEF MetricResult
    <3> QED
      BY <3>1, DeliveryAssumption DEF TypeOK
  <2>6. quiet' \in [Models -> 0 .. Cooldown]
    <3>1. \E v \in {0, quiet[m]} : quiet' = [quiet EXCEPT ![m] = v]
      BY <1>3, Zenon DEF MetricResult
    <3> QED
      BY <3>1, DeliveryAssumption DEF TypeOK
  <2>7. metric' \in [Models -> Notice]
    <3>1. \E e \in {"recovered_metric", "degraded_metric", "none"} :
              metric' = [metric EXCEPT ![m].event = e]
      BY <1>3, Zenon DEF MetricResult
    <3> QED
      BY <3>1 DEF TypeOK, Notice, Events, Changes
  <2>8. UNCHANGED <<flush, batch, sending, orphan, stopping, alarmed, muted>>
    BY <1>3, Zenon DEF MetricResult
  <2> QED
    BY <2>3, <2>4, <2>5, <2>6, <2>7, <2>8 DEF TypeOK
<1>4. ASSUME NEW m \in Models, MetricSent(m) PROVE TypeOK'
  BY <1>0, <1>4 DEF MetricSent, MetricTold, MetricFails, TypeOK
<1>5. CASE BeginFlush \/ Broadcasted \/ EndFlush
  <2>1. Nothing \in [Models -> Entry]
    BY DEF Nothing, Absent, Entry, Statuses
  <2>2. CASE BeginFlush
    BY <2>1, <2>2 DEF BeginFlush, TypeOK
  <2>3. CASE Broadcasted
    BY <2>3 DEF Broadcasted, TypeOK
  <2>4. CASE EndFlush
    BY <2>1, <2>4 DEF EndFlush, TypeOK
  <2> QED
    BY <1>5, <2>2, <2>3, <2>4
<1>6. ASSUME NEW m \in Models, Announce(m) PROVE TypeOK'
  <2>1. batch[m] \in Entry /\ Queued(batch[m])
    BY <1>6 DEF Announce, TypeOK
  <2>2. batch' \in [Models -> Entry]
    BY <1>6 DEF Announce, TypeOK, Absent, Entry, Statuses
  <2>3. sending' \in Notice
    <3>1. [event |-> batch[m].changed, model |-> m, new |-> batch[m].new] \in Notice
      BY <2>1 DEF Notice, Events, Entry, Queued
    <3> QED
      BY <1>6, <3>1 DEF Announce, TypeOK
  <2>4. quiet' \in [Models -> 0 .. Cooldown]
    BY <1>6, DeliveryAssumption DEF Announce, TypeOK
  <2>5. muted' \in [Models -> {"no", "cooldown", "failed", "stopped"}]
    BY <1>6 DEF Announce, TypeOK
  <2> QED
    BY <1>6, <2>2, <2>3, <2>4, <2>5 DEF Announce, TypeOK
<1>7. CASE Sent
  <2>1. sending.model \in Models /\ sending.new \in Statuses
    BY DEF TypeOK, Notice
  <2>2. orphan.model \in Models /\ orphan.new \in Statuses
    BY DEF TypeOK, Notice
  <2> QED
    BY <1>0, <1>7, <2>1, <2>2 DEF Sent, Told, Fails, OrphanTold, TypeOK
<1>8. CASE BeginStop
  <2>1. NoNotice(sending.model) \in Notice
    BY <1>0 DEF TypeOK, Notice
  <2>2. muted' \in [Models -> {"no", "cooldown", "failed", "stopped"}]
    BY <1>8 DEF BeginStop, TypeOK
  <2> QED
    BY <1>8, <2>1, <2>2 DEF BeginStop, TypeOK, Nothing, Absent, Entry, Statuses
<1>9. CASE Tick
  BY <1>9, DeliveryAssumption DEF Tick, TypeOK
<1>10. CASE UNCHANGED vars
  BY <1>10 DEF vars, TypeOK
<1> QED
  BY <1>1, <1>2, <1>3, <1>4, <1>5, <1>6, <1>7, <1>8, <1>9, <1>10
     DEF Next, ResultStep, FlushStep

\* Every variable has its type, for every number of models, tiers and ticks.
THEOREM TypeCorrect == Spec => []TypeOK
BY InitType, NextType, PTL DEF Spec

-----------------------------------------------------------------------------
(* Nothing gets lost                                                        *)

LEMMA InitIInv == Init => IInv
<1> SUFFICES ASSUME Init PROVE IInv
  OBVIOUS
<1>1. TypeOK
  BY InitType
<1>2. sending.event = "none"
  BY DEF Init, NoNotice
<1>3. \A m \in Models : ~Queued(pending[m]) /\ ~Queued(batch[m])
  BY DEF Init, Nothing, Queued, Absent
<1> QED
  BY <1>1, <1>2, <1>3 DEF Init, IInv, Quiescent, Unheard, ToldOrOwed

LEMMA NextIInv == IInv /\ [Next]_vars => IInv'
<1> SUFFICES ASSUME IInv, [Next]_vars PROVE Quiescent' /\ Unheard' /\ ToldOrOwed'
  BY NextType DEF IInv
<1> USE DEF flushVars, resultVars, toldVars
<1>1. TypeOK
  BY DEF IInv
<1>2. ASSUME NEW m \in Models, RetryResult(m)
      PROVE  Quiescent' /\ Unheard' /\ ToldOrOwed'
  BY <1>1, <1>2, ResultsBring, AddKeeps DEF RetryResult
<1>3. ASSUME NEW m \in Models, NEW new \in Statuses \ {"unknown"}, PlainResult(m, new)
      PROVE  Quiescent' /\ Unheard' /\ ToldOrOwed'
  BY <1>1, <1>3, ResultsBring, AddKeeps DEF PlainResult
<1>4. ASSUME NEW m \in Models, NEW new \in {"online", "degraded"}, NEW t \in Tiers,
             MetricResult(m, new, t)
      PROVE  Quiescent' /\ Unheard' /\ ToldOrOwed'
  <2>1. new \in Statuses \ {"unknown"}
    BY DEF Statuses
  <2>2. /\ StatusChange(status[m], new) = "none"
        /\ Add(m, "none", new)
        /\ UNCHANGED <<flush, batch, sending, muted>>
    BY <1>4, Zenon DEF MetricResult
  <2> QED
    BY <1>1, <2>1, <2>2, ResultsBring, AddKeeps
<1>5. ASSUME NEW m \in Models, MetricSent(m)
      PROVE  Quiescent' /\ Unheard' /\ ToldOrOwed'
  BY <1>5 DEF MetricSent, MetricTold, MetricFails, IInv, Quiescent, Unheard, ToldOrOwed
<1>6. CASE BeginFlush
  BY <1>6 DEF BeginFlush, IInv, Quiescent, Unheard, ToldOrOwed, Nothing, Queued, Absent
<1>7. CASE Broadcasted
  BY <1>7 DEF Broadcasted, IInv, Quiescent, Unheard, ToldOrOwed
<1>8. CASE EndFlush
  BY <1>8 DEF EndFlush, IInv, Quiescent, Unheard, ToldOrOwed, Nothing, Queued, Absent
<1>9. ASSUME NEW m \in Models, Announce(m)
      PROVE  Quiescent' /\ Unheard' /\ ToldOrOwed'
  <2>1. /\ flush = "notify" /\ sending.event = "none"
        /\ Queued(batch[m])
        /\ ~Queued(batch'[m])
        /\ UNCHANGED <<status, pending, flush, told>>
    BY <1>1, <1>9 DEF Announce, TypeOK, Queued, Absent
  <2>2. \A n \in Models \ {m} : batch'[n] = batch[n] /\ muted'[n] = muted[n]
    BY <1>1, <1>9 DEF Announce, TypeOK
  <2>3. \/ sending' = sending /\ muted'[m] = "cooldown"
        \/ /\ sending' = [event |-> batch[m].changed, model |-> m, new |-> batch[m].new]
           /\ muted' = muted
    BY <1>1, <1>9 DEF Announce, TypeOK
  <2>4. Quiescent' /\ Unheard'
    BY <2>1, <2>2, <2>3 DEF IInv, Quiescent, Unheard
  <2>5. ToldOrOwed'
    <3> SUFFICES ASSUME NEW n \in Models PROVE
            LET carried == sending'.event # "none" /\ sending'.model = n
                taken   == Queued(batch'[n])
                waiting == Queued(pending'[n])
            IN  /\ waiting => pending'[n].new = status'[n]
                /\ ~waiting /\ taken => batch'[n].new = status'[n]
                /\ ~waiting /\ ~taken /\ carried => sending'.new = status'[n]
                /\ ~waiting /\ ~taken /\ ~carried => told'[n] = status'[n] \/ muted'[n] # "no"
      BY DEF ToldOrOwed
    <3>1. CASE n = m
      <4>1. Queued(batch[m]) => batch[m].changed # "none"
        BY DEF Queued
      <4> QED
        BY <2>1, <2>3, <3>1, <4>1 DEF IInv, ToldOrOwed
    <3>2. CASE n # m
      BY <2>1, <2>2, <2>3, <3>2 DEF IInv, ToldOrOwed
    <3> QED
      BY <3>1, <3>2
  <2> QED
    BY <2>4, <2>5
<1>10. CASE Told
  BY <1>1, <1>10 DEF Told, IInv, Quiescent, Unheard, ToldOrOwed, TypeOK, NoNotice
<1>11. CASE Fails
  BY <1>1, <1>11 DEF Fails, IInv, Quiescent, Unheard, ToldOrOwed, TypeOK, NoNotice
<1>12. CASE OrphanTold
  BY <1>1, <1>12 DEF OrphanTold, IInv, Quiescent, Unheard, ToldOrOwed, TypeOK
<1>13. CASE BeginStop
  <2>1. sending'.event = "none" /\ \A m \in Models : ~Queued(batch'[m])
    BY <1>13 DEF BeginStop, NoNotice, Nothing, Queued, Absent
  <2>2. UNCHANGED <<status, pending, told>>
    BY <1>13 DEF BeginStop
  <2>3. \A m \in Models :
            \/ muted'[m] = "stopped"
            \/ /\ ~Queued(batch[m]) /\ (sending.event = "none" \/ sending.model # m)
               /\ muted'[m] = muted[m]
    BY <1>13 DEF BeginStop
  <2> QED
    BY <2>1, <2>2, <2>3 DEF IInv, Quiescent, Unheard, ToldOrOwed
<1>14. CASE Tick
  BY <1>14 DEF Tick, IInv, Quiescent, Unheard, ToldOrOwed
<1>15. CASE UNCHANGED vars
  BY <1>15 DEF vars, IInv, Quiescent, Unheard, ToldOrOwed
<1> QED
  BY <1>2, <1>3, <1>4, <1>5, <1>6, <1>7, <1>8, <1>9, <1>10, <1>11, <1>12, <1>13, <1>14,
     <1>15 DEF Next, ResultStep, FlushStep, Sent

\* However many models share a flush: the last notice under way is about the
\* status a model has, and without one subscribers know it or a stated reason
\* kept it from them.
THEOREM ToldOrOwedCorrect == Spec => []ToldOrOwed
<1>1. Spec => []IInv
  BY InitIInv, NextIInv, PTL DEF Spec
<1> QED
  BY <1>1, PTL DEF IInv

-----------------------------------------------------------------------------
(* Lemmas about lines of announcements                                      *)

LEMMA FirstInLine ==
    ASSUME NEW S, NEW x \in S, NEW s \in Seq(S)
    PROVE  /\ <<x>> \o s # <<>>
           /\ Head(<<x>> \o s) = x
           /\ Tail(<<x>> \o s) = s
<1> DEFINE l == <<x>> \o s
<1>1. <<x>> \in Seq(S) /\ Len(<<x>>) = 1 /\ <<x>>[1] = x
  OBVIOUS
<1>2. /\ l \in Seq(S)
      /\ Len(l) = 1 + Len(s) /\ Len(s) \in Nat
      /\ \A i \in 1 .. 1 + Len(s) : l[i] = IF i <= 1 THEN <<x>>[i] ELSE s[i - 1]
  BY <1>1, ConcatProperties, LenProperties
<1> HIDE DEF l
<1>3. l # <<>>
  BY <1>2
<1>4. Head(l) = l[1]
  BY <1>2, <1>3
<1>5. Tail(l) = s
  <2>1. /\ Tail(l) \in Seq(S)
        /\ Len(Tail(l)) = Len(l) - 1
        /\ \A i \in 1 .. Len(Tail(l)) : Tail(l)[i] = l[i + 1]
    BY <1>2, <1>3, HeadTailProperties
  <2>2. \A i \in 1 .. Len(Tail(l)) : Tail(l)[i] = s[i]
    BY <1>2, <2>1
  <2> QED
    BY <1>2, <2>1, <2>2, SeqEqual
<1> QED
  BY <1>1, <1>2, <1>3, <1>4, <1>5 DEF l

LEMMA LastInLine ==
    ASSUME NEW S, NEW s \in Seq(S), NEW x \in S, NEW y \in S
    PROVE  /\ Append(s \o <<>>, x) = s \o <<x>>
           /\ s \o <<y>> # <<>>
           /\ Append(Channel!Front(s \o <<y>>), x) = s \o <<x>>
           /\ (s \o <<y>>)[Len(s \o <<y>>)] = y
<1>1. Append(s \o <<>>, x) = s \o <<x>>
  BY ConcatEmptySeq, AppendIsConcat
<1> DEFINE l == s \o <<y>>
<1>2. <<y>> \in Seq(S) /\ Len(<<y>>) = 1 /\ <<y>>[1] = y
  OBVIOUS
<1>3. /\ l \in Seq(S)
      /\ Len(l) = Len(s) + 1 /\ Len(s) \in Nat
      /\ \A i \in 1 .. Len(s) + 1 : l[i] = IF i <= Len(s) THEN s[i] ELSE <<y>>[i - Len(s)]
  BY <1>2, ConcatProperties, LenProperties
<1> HIDE DEF l
<1>4. l # <<>>
  BY <1>3
<1>5. l[Len(l)] = y
  BY <1>2, <1>3
<1>6. SubSeq(l, 1, Len(l) - 1) = s
  <2>1. \A i \in 1 .. Len(l) - 1 : l[i] \in S
    BY <1>3, ElementOfSeq
  <2>2. /\ SubSeq(l, 1, Len(l) - 1) \in Seq(S)
        /\ Len(SubSeq(l, 1, Len(l) - 1)) = Len(s)
        /\ \A i \in 1 .. Len(s) : SubSeq(l, 1, Len(l) - 1)[i] = l[i]
    BY <1>3, <2>1, SubSeqProperties
  <2>3. \A i \in 1 .. Len(s) : SubSeq(l, 1, Len(l) - 1)[i] = s[i]
    BY <1>3, <2>2
  <2> QED
    BY <2>2, <2>3, SeqEqual
<1>7. Append(Channel!Front(l), x) = s \o <<x>>
  BY <1>6, AppendIsConcat DEF Channel!Front
<1> QED
  BY <1>1, <1>4, <1>5, <1>7 DEF l

\* What is left when the first part of a line is dropped.
LEMMA EndOfLine ==
    ASSUME NEW S, NEW s \in Seq(S), NEW t \in Seq(S)
    PROVE  /\ t \in Channel!Ends(s \o t)
           /\ t # s \o t <=> s # <<>>
<1> DEFINE l == s \o t
<1>1. /\ l \in Seq(S)
      /\ Len(l) = Len(s) + Len(t) /\ Len(s) \in Nat /\ Len(t) \in Nat
      /\ \A i \in 1 .. Len(s) + Len(t) : l[i] = IF i <= Len(s) THEN s[i] ELSE t[i - Len(s)]
  BY ConcatProperties, LenProperties
<1> HIDE DEF l
<1>2. SubSeq(l, Len(s) + 1, Len(l)) = t
  <2>1. \A i \in Len(s) + 1 .. Len(l) : l[i] \in S
    BY <1>1, ElementOfSeq
  <2>2. /\ SubSeq(l, Len(s) + 1, Len(l)) \in Seq(S)
        /\ Len(SubSeq(l, Len(s) + 1, Len(l))) = Len(t)
        /\ \A i \in 1 .. Len(t) : SubSeq(l, Len(s) + 1, Len(l))[i] = l[Len(s) + 1 + i - 1]
    BY <1>1, <2>1, SubSeqProperties
  <2>3. ASSUME NEW i \in 1 .. Len(t) PROVE SubSeq(l, Len(s) + 1, Len(l))[i] = t[i]
    <3>1. /\ Len(s) + 1 + i - 1 = Len(s) + i
          /\ Len(s) + i \in 1 .. Len(s) + Len(t)
          /\ ~(Len(s) + i <= Len(s))
          /\ Len(s) + i - Len(s) = i
      BY <1>1
    <3>2. l[Len(s) + i] = t[i]
      BY <1>1, <3>1
    <3> QED
      BY <2>2, <3>1, <3>2
  <2> QED
    BY <2>2, <2>3, SeqEqual
<1>3. t \in Channel!Ends(l)
  BY <1>1, <1>2 DEF Channel!Ends
<1> QED
  BY <1>3, ConcatEqualIffEmpty DEF l

LEMMA LineTypes ==
    ASSUME TypeOK, NEW m \in Models
    PROVE  /\ Carried(m) \in Seq(Statuses)
           /\ Taken(m) \in Seq(Statuses)
           /\ Waiting(m) \in Seq(Statuses)
           /\ Carried(m) \o Taken(m) \in Seq(Statuses)
           /\ Line(m) \in Seq(Statuses)
<1>1. sending.new \in Statuses /\ batch[m].new \in Statuses /\ pending[m].new \in Statuses
  BY DEF TypeOK, Notice, Entry
<1>2. /\ Carried(m) \in Seq(Statuses)
      /\ Taken(m) \in Seq(Statuses)
      /\ Waiting(m) \in Seq(Statuses)
  BY <1>1 DEF Carried, Taken, Waiting
<1>3. Carried(m) \o Taken(m) \in Seq(Statuses)
  BY <1>2, ConcatProperties
<1> QED
  BY <1>2, <1>3, ConcatProperties DEF Line

-----------------------------------------------------------------------------
(* Delivery implements the channel                                          *)

Lines == [m \in Models |-> Line(m)]

LEMMA InitChannel == Init => Channel!ChannelInit
<1> SUFFICES ASSUME Init PROVE Channel!ChannelInit
  OBVIOUS
<1>1. \A m \in Models : Line(m) = <<>>
  <2> TAKE m \in Models
  <2>1. Carried(m) = <<>> /\ Taken(m) = <<>> /\ Waiting(m) = <<>>
    BY DEF Init, NoNotice, Nothing, Queued, Absent, Carried, Taken, Waiting
  <2>2. <<>> \o <<>> = <<>>
    BY ConcatEmptySeq, EmptySeq
  <2> QED
    BY <2>1, <2>2 DEF Line
<1>2. orphan.event = "none"
  BY DEF Init, NoNotice
<1>3. /\ status = [m \in Models |-> "unknown"]
      /\ told = status /\ stopping = FALSE
      /\ \A m \in Models : muted[m] = "no"
  BY DEF Init
<1> QED
  BY <1>1, <1>2, <1>3 DEF Channel!ChannelInit

\* What a result may bring: a change is another status than the known one.
Differs(m, changed, new) ==
    /\ Brings(m, changed, new)
    /\ changed # "none" => status[m] \notin {"unknown", new}

LEMMA ResultsDiffer ==
    ASSUME TypeOK, NEW m \in Models
    PROVE  /\ Differs(m, RetryChange(status[m]), "degraded")
           /\ \A new \in Statuses \ {"unknown"} :
                  Differs(m, StatusChange(status[m], new), new)
           /\ \A new \in Statuses \ {"unknown"} :
                  StatusChange(status[m], new) = "none" => Differs(m, "none", new)
<1>1. RetryChange(status[m]) # "none" => status[m] \notin {"unknown", "degraded"}
  BY DEF RetryChange
<1>2. ASSUME NEW new \in Statuses \ {"unknown"}, status[m] \in {"unknown", new}
      PROVE  StatusChange(status[m], new) = "none"
  BY <1>2, Zenon DEF StatusChange
<1> QED
  BY <1>1, <1>2, ResultsBring DEF Differs

\* A result is a first status, a change, or nothing to the channel.
LEMMA AddChannel ==
    ASSUME IInv, NEW m \in Models, NEW changed, NEW new,
           Differs(m, changed, new), Add(m, changed, new), ~stopping,
           UNCHANGED <<batch, sending, orphan, stopping, muted>>
    PROVE  Channel!ChannelNext \/ UNCHANGED Channel!channelVars
<1>1. TypeOK /\ Brings(m, changed, new)
  BY DEF IInv, Differs
<1>2. new \in Statuses \ {"unknown"} /\ changed \in Changes
  BY <1>1 DEF Brings
<1>3. /\ status' = [status EXCEPT ![m] = new]
      /\ told' = [told EXCEPT ![m] = IF status[m] = "unknown" THEN new ELSE @]
      /\ pending' = [pending EXCEPT ![m] = Merge(@, changed, new)]
  BY DEF Add
<1>4. pending[m] \in Entry /\ pending'[m] = Merge(pending[m], changed, new)
  BY <1>1, <1>3 DEF TypeOK
<1>5. \A n \in Models : Carried(n)' = Carried(n) /\ Taken(n)' = Taken(n)
  BY DEF Carried, Taken
<1>6. \A n \in Models \ {m} : Line(n)' = Line(n)
  BY <1>1, <1>3, <1>5 DEF Line, Waiting, TypeOK
<1>7. CASE changed = "none"
  <2>1. Waiting(m)' = Waiting(m)
    BY <1>2, <1>4, <1>7, MergeFacts DEF Waiting
  <2>2. Lines' = Lines
    BY <1>5, <1>6, <2>1 DEF Lines, Line
  <2>3. CASE status[m] = "unknown"
    <3>1. told' = [told EXCEPT ![m] = new]
      BY <1>1, <1>3, <2>3 DEF TypeOK
    <3>2. Channel!FirstStatus(m, new)
      BY <1>3, <2>2, <2>3, <3>1 DEF Channel!FirstStatus, Lines
    <3> QED
      BY <1>2, <3>2 DEF Channel!ChannelNext
  <2>4. CASE status[m] # "unknown"
    <3>1. status' = status /\ told' = told
      BY <1>1, <1>3, <1>7, <2>4 DEF Brings, TypeOK
    <3> QED
      BY <2>2, <3>1 DEF Channel!channelVars, Lines
  <2> QED
    BY <2>3, <2>4
<1>8. CASE changed # "none"
  <2>1. status[m] \notin {"unknown", new}
    BY <1>8 DEF Differs
  <2>2. told' = told
    BY <1>1, <1>3, <2>1 DEF TypeOK
  <2>3. Waiting(m)' = <<new>>
    BY <1>2, <1>4, <1>8, MergeFacts DEF Waiting
  <2> DEFINE l == Carried(m) \o Taken(m)
  <2>4. l \in Seq(Statuses) /\ Line(m) = l \o Waiting(m) /\ Line(m)' = l \o <<new>>
    BY <1>1, <1>5, <2>3, LineTypes DEF Line
  <2>5. \/ Line(m)' = Append(Line(m), new)
        \/ Line(m) # <<>> /\ Line(m)' = Append(Channel!Front(Line(m)), new)
    <3> HIDE DEF l
    <3>1. CASE Queued(pending[m])
      <4>1. pending[m].new \in Statuses /\ Waiting(m) = <<pending[m].new>>
        BY <1>4, <3>1 DEF Waiting, Entry
      <4>2. /\ l \o <<pending[m].new>> # <<>>
            /\ Append(Channel!Front(l \o <<pending[m].new>>), new) = l \o <<new>>
        BY <1>2, <2>4, <4>1, LastInLine
      <4> QED
        BY <2>4, <4>1, <4>2, Zenon
    <3>2. CASE ~Queued(pending[m])
      <4>1. Waiting(m) = <<>>
        BY <3>2 DEF Waiting
      <4> QED
        BY <1>2, <2>4, <4>1, LastInLine
    <3> QED
      BY <3>1, <3>2
  <2>6. Lines' = [Lines EXCEPT ![m] = Line(m)']
    BY <1>6 DEF Lines
  <2>7. Lines[m] = Line(m)
    BY DEF Lines
  <2>8. Channel!Change(m, new)
    BY <1>3, <2>1, <2>2, <2>5, <2>6, <2>7 DEF Channel!Change, Lines
  <2> QED
    BY <1>2, <2>8 DEF Channel!ChannelNext
<1> QED
  BY <1>7, <1>8

\* The first of a line is announced or withheld.
LEMMA FirstGoes ==
    ASSUME TypeOK, NEW m \in Models, NEW x \in Statuses, NEW rest \in Seq(Statuses),
           Line(m) = <<x>> \o rest, Line(m)' = rest,
           \A n \in Models \ {m} : Line(n)' = Line(n),
           UNCHANGED <<status, orphan, stopping>>,
           \/ told' = [told EXCEPT ![m] = x] /\ muted' = [muted EXCEPT ![m] = "no"]
           \/ told' = told /\ \E why \in {"cooldown", "failed"} : muted' = [muted EXCEPT ![m] = why]
    PROVE  Channel!ChannelNext
<1> DEFINE Missed == [n \in Models |-> muted[n] # "no"]
<1>1. Line(m) # <<>> /\ Head(Line(m)) = x /\ Tail(Line(m)) = rest
  <2>1. <<x>> \o rest # <<>> /\ Head(<<x>> \o rest) = x /\ Tail(<<x>> \o rest) = rest
    BY FirstInLine
  <2> QED
    BY <2>1, Zenon
<1>2. Lines[m] = Line(m) /\ Lines' = [Lines EXCEPT ![m] = Tail(Lines[m])]
  BY <1>1 DEF Lines
<1>3. CASE told' = [told EXCEPT ![m] = x] /\ muted' = [muted EXCEPT ![m] = "no"]
  <2>1. Missed' = [Missed EXCEPT ![m] = FALSE]
    BY <1>3 DEF TypeOK
  <2>2. Channel!Speak(m)
    BY <1>1, <1>2, <1>3, <2>1 DEF Channel!Speak, Lines
  <2> QED
    BY <2>2 DEF Channel!ChannelNext
<1>4. CASE told' = told /\ \E why \in {"cooldown", "failed"} : muted' = [muted EXCEPT ![m] = why]
  <2>1. Missed' = [Missed EXCEPT ![m] = TRUE]
    BY <1>4 DEF TypeOK
  <2>2. Channel!Withhold(m)
    BY <1>1, <1>2, <1>4, <2>1 DEF Channel!Withhold, Lines
  <2> QED
    BY <2>2 DEF Channel!ChannelNext
<1> QED
  BY <1>3, <1>4

LEMMA AnnounceChannel ==
    ASSUME IInv, NEW m \in Models, Announce(m)
    PROVE  Channel!ChannelNext \/ UNCHANGED Channel!channelVars
<1>1. TypeOK
  BY DEF IInv
<1>2. /\ sending.event = "none" /\ Queued(batch[m]) /\ ~Queued(batch'[m])
      /\ UNCHANGED <<status, pending, orphan, stopping, told>>
      /\ \A n \in Models \ {m} : batch'[n] = batch[n]
  BY <1>1 DEF Announce, TypeOK, Queued, Absent, resultVars
<1> DEFINE x == batch[m].new
<1>3. x \in Statuses /\ Waiting(m) \in Seq(Statuses)
  BY <1>1, LineTypes DEF TypeOK, Entry
<1>4. \A n \in Models : Carried(n) = <<>> /\ Waiting(n)' = Waiting(n)
  BY <1>2 DEF Carried, Waiting
<1>5. \A n \in Models \ {m} : Taken(n)' = Taken(n)
  BY <1>2 DEF Taken
<1>6. Taken(m) = <<x>> /\ Taken(m)' = <<>>
  BY <1>2 DEF Taken
<1>7. /\ <<x>> \in Seq(Statuses)
      /\ <<>> \o <<x>> = <<x>> /\ <<x>> \o <<>> = <<x>> /\ <<>> \o <<>> = <<>>
      /\ <<>> \o Waiting(m) = Waiting(m)
  BY <1>3, ConcatEmptySeq, EmptySeq
<1>8. Line(m) = <<x>> \o Waiting(m)
  BY <1>4, <1>6, <1>7 DEF Line
<1>9. CASE Cooling(m, batch[m].changed)
  <2>1. sending' = sending /\ muted' = [muted EXCEPT ![m] = "cooldown"]
    BY <1>9 DEF Announce
  <2>2. \A n \in Models : Carried(n)' = <<>>
    BY <1>2, <2>1 DEF Carried
  <2>3. Line(m)' = Waiting(m)
    BY <1>4, <1>6, <1>7, <2>2 DEF Line
  <2>4. \A n \in Models \ {m} : Line(n)' = Line(n)
    BY <1>4, <1>5, <2>2 DEF Line
  <2> QED
    BY <1>1, <1>2, <1>3, <1>8, <2>1, <2>3, <2>4, FirstGoes
<1>10. CASE ~Cooling(m, batch[m].changed)
  <2>1. /\ sending' = [event |-> batch[m].changed, model |-> m, new |-> x]
        /\ muted' = muted
    <3>1. [muted EXCEPT ![m] = muted[m]] = muted
      BY <1>1 DEF TypeOK
    <3> QED
      BY <1>10, <3>1 DEF Announce
  <2>2. Carried(m)' = <<x>>
    BY <1>2, <2>1 DEF Carried, Queued
  <2>3. \A n \in Models \ {m} : Carried(n)' = <<>>
    BY <2>1 DEF Carried
  <2>4. Line(m)' = Line(m)
    BY <1>4, <1>6, <1>7, <1>8, <2>2 DEF Line
  <2>5. \A n \in Models \ {m} : Line(n)' = Line(n)
    BY <1>4, <1>5, <2>3 DEF Line
  <2> QED
    BY <1>2, <2>1, <2>4, <2>5 DEF Channel!channelVars
<1> QED
  BY <1>9, <1>10

LEMMA SentChannel ==
    ASSUME IInv, Sent
    PROVE  Channel!ChannelNext
<1>1. TypeOK
  BY DEF IInv
<1>2. CASE Told \/ Fails
  <2>0. PICK m \in Models : m = sending.model
    BY <1>1 DEF TypeOK, Notice
  <2> DEFINE rest == Taken(m) \o Waiting(m)
  <2>1. /\ sending.event # "none" /\ sending' = NoNotice(m)
        /\ UNCHANGED <<status, pending, batch, orphan, stopping>>
    BY <1>2, <2>0 DEF Told, Fails, resultVars
  <2>2. sending.new \in Statuses
    BY <1>1 DEF TypeOK, Notice
  <2>3. \A n \in Models : Carried(n)' = <<>> /\ Taken(n)' = Taken(n) /\ Waiting(n)' = Waiting(n)
    BY <2>1 DEF Carried, Taken, Waiting, NoNotice
  <2>4. Carried(m) = <<sending.new>> /\ \A n \in Models \ {m} : Carried(n) = <<>>
    BY <2>0, <2>1 DEF Carried
  <2>5. /\ Taken(m) \in Seq(Statuses) /\ Waiting(m) \in Seq(Statuses)
        /\ <<sending.new>> \in Seq(Statuses)
    BY <1>1, <2>2, LineTypes
  <2>6. rest \in Seq(Statuses) /\ Line(m) = <<sending.new>> \o rest
    <3>1. rest \in Seq(Statuses)
      BY <2>5, ConcatProperties
    <3>2. (<<sending.new>> \o Taken(m)) \o Waiting(m) = <<sending.new>> \o rest
      BY <2>5, ConcatAssociative
    <3>3. Line(m) = (<<sending.new>> \o Taken(m)) \o Waiting(m)
      BY <2>4 DEF Line
    <3> QED
      BY <3>1, <3>2, <3>3, Zenon
  <2>7. Line(m)' = rest
    <3>1. <<>> \o Taken(m) = Taken(m)
      BY <2>5, ConcatEmptySeq
    <3> QED
      BY <2>3, <3>1 DEF Line
  <2>8. \A n \in Models \ {m} : Line(n)' = Line(n)
    BY <2>3, <2>4 DEF Line
  <2>9. \/ told' = [told EXCEPT ![m] = sending.new] /\ muted' = [muted EXCEPT ![m] = "no"]
        \/ /\ told' = told
           /\ \E why \in {"cooldown", "failed"} : muted' = [muted EXCEPT ![m] = why]
    BY <1>2, <2>0 DEF Told, Fails
  <2> HIDE DEF rest
  <2> QED
    BY <1>1, <2>1, <2>2, <2>6, <2>7, <2>8, <2>9, FirstGoes
<1>3. CASE OrphanTold
  <2>1. /\ orphan.event # "none" /\ orphan' = NoNotice(orphan.model)
        /\ told' = [told EXCEPT ![orphan.model] = orphan.new]
        /\ muted' = [muted EXCEPT ![orphan.model] = "stopped"]
        /\ UNCHANGED <<status, pending, batch, sending, stopping>>
    BY <1>3 DEF OrphanTold, resultVars
  <2>2. Lines' = Lines
    BY <2>1 DEF Lines, Line, Carried, Taken, Waiting
  <2>3. orphan'.event = "none"
    BY <2>1 DEF NoNotice
  <2> DEFINE Missed == [n \in Models |-> muted[n] # "no"]
  <2>4. PICK a : a = [model |-> orphan.model, status |-> orphan.new]
    OBVIOUS
  <2>5. Missed' = [Missed EXCEPT ![a.model] = TRUE]
    BY <1>1, <2>1, <2>4 DEF TypeOK
  <2>6. Channel!SpeakLate(a)
    <3>1. {} = {a} \ {a} /\ a.model = orphan.model /\ a.status = orphan.new
      BY <2>4
    <3> QED
      BY <2>1, <2>2, <2>3, <2>4, <2>5, <3>1, Zenon DEF Channel!SpeakLate, Lines
  <2> QED
    BY <2>1, <2>4, <2>6 DEF Channel!ChannelNext
<1> QED
  BY <1>2, <1>3 DEF Sent

LEMMA BeginStopChannel ==
    ASSUME IInv, BeginStop
    PROVE  Channel!ChannelNext
<1>0. PICK kept : kept = Lines'
  OBVIOUS
<1> DEFINE Missed == [n \in Models |-> muted[n] # "no"]
           First(n) == Carried(n) \o Taken(n)
<1>1. TypeOK
  BY DEF IInv
<1>2. /\ ~stopping /\ stopping' /\ orphan' = sending
      /\ sending' = NoNotice(sending.model) /\ batch' = Nothing
      /\ UNCHANGED <<status, pending, told>>
  BY DEF BeginStop, resultVars
<1>3. \A n \in Models : Carried(n)' = <<>> /\ Taken(n)' = <<>> /\ Waiting(n)' = Waiting(n)
  BY <1>2 DEF Carried, Taken, Waiting, NoNotice, Nothing, Queued, Absent
<1>4. ASSUME NEW n \in Models
      PROVE  /\ First(n) \in Seq(Statuses) /\ Waiting(n) \in Seq(Statuses)
             /\ Line(n) = First(n) \o Waiting(n)
             /\ Line(n)' = Waiting(n)
  <2>1. First(n) \in Seq(Statuses) /\ Waiting(n) \in Seq(Statuses)
    BY <1>1, LineTypes
  <2>2. <<>> \o <<>> = <<>> /\ <<>> \o Waiting(n) = Waiting(n)
    BY <2>1, ConcatEmptySeq, EmptySeq
  <2> QED
    BY <1>3, <2>1, <2>2 DEF Line
<1> HIDE DEF First
<1>5. ASSUME NEW n \in Models
      PROVE  /\ kept[n] = Line(n)'
             /\ kept[n] \in Channel!Ends(Line(n))
             /\ kept[n] # Line(n) <=> First(n) # <<>>
  <2>1. kept[n] = Line(n)'
    BY <1>0 DEF Lines
  <2>2. /\ Waiting(n) \in Channel!Ends(First(n) \o Waiting(n))
        /\ Waiting(n) # First(n) \o Waiting(n) <=> First(n) # <<>>
    BY <1>4, EndOfLine
  <2> QED
    BY <1>4, <2>1, <2>2
<1>6. ASSUME NEW n \in Models
      PROVE  First(n) # <<>> <=> Queued(batch[n]) \/ (sending.event # "none" /\ sending.model = n)
  <2>1. Carried(n) \in Seq(Statuses) /\ Taken(n) \in Seq(Statuses)
    BY <1>1, LineTypes
  <2>2. First(n) # <<>> <=> Carried(n) # <<>> \/ Taken(n) # <<>>
    BY <2>1, ConcatEqualIffEmpty DEF First
  <2> QED
    BY <2>2 DEF Carried, Taken
<1>7. Missed' = [n \in Models |-> Missed[n] \/ kept[n] # Lines[n]]
  <2>1. \A n \in Models : muted'[n] = IF First(n) = <<>> THEN muted[n] ELSE "stopped"
    BY <1>6 DEF BeginStop
  <2>2. \A n \in Models : (muted'[n] # "no") <=> (muted[n] # "no" \/ kept[n] # Lines[n])
    BY <1>5, <2>1 DEF Lines
  <2> QED
    BY <2>2
<1>8. CASE sending.event = "none"
  <2>1. Channel!Close(kept)
    BY <1>0, <1>2, <1>5, <1>7, <1>8 DEF Channel!Close, Lines
  <2> QED
    BY <1>0, <1>5, <2>1 DEF Channel!ChannelNext, Lines
<1>9. CASE sending.event # "none"
  <2>1. PICK m \in Models : m = sending.model
    BY <1>1 DEF TypeOK, Notice
  <2>2. sending.new \in Statuses /\ Carried(m) = <<sending.new>>
    BY <1>1, <1>9, <2>1 DEF TypeOK, Notice, Carried
  <2>3. Head(Line(m)) = sending.new
    <3>1. Taken(m) \in Seq(Statuses) /\ Waiting(m) \in Seq(Statuses) /\ <<sending.new>> \in Seq(Statuses)
      BY <1>1, <2>2, LineTypes
    <3>2. /\ Taken(m) \o Waiting(m) \in Seq(Statuses)
          /\ Line(m) = <<sending.new>> \o (Taken(m) \o Waiting(m))
      BY <2>2, <3>1, ConcatProperties, ConcatAssociative DEF Line
    <3>3. Head(<<sending.new>> \o (Taken(m) \o Waiting(m))) = sending.new
      BY <2>2, <3>2, FirstInLine
    <3> QED
      BY <3>2, <3>3
  <2>4. kept[m] # Lines[m]
    BY <1>5, <1>6, <1>9, <2>1 DEF Lines
  <2>5. Channel!Close(kept)
    BY <1>0, <1>2, <1>5, <1>7, <1>9, <2>1, <2>3, <2>4 DEF Channel!Close, Lines
  <2> QED
    BY <1>0, <1>5, <2>5 DEF Channel!ChannelNext, Lines
<1> QED
  BY <1>8, <1>9

\* Every step is one of the channel, or nothing to it.
LEMMA NextChannel ==
    ASSUME IInv, [Next]_vars
    PROVE  Channel!ChannelNext \/ UNCHANGED Channel!channelVars
<1> USE DEF resultVars, flushVars, toldVars
<1>1. TypeOK
  BY DEF IInv
<1>2. ASSUME NEW m \in Models, RetryResult(m)
      PROVE  Channel!ChannelNext \/ UNCHANGED Channel!channelVars
  BY <1>1, <1>2, ResultsDiffer, AddChannel DEF RetryResult, Testing
<1>3. ASSUME NEW m \in Models, NEW new \in Statuses \ {"unknown"}, PlainResult(m, new)
      PROVE  Channel!ChannelNext \/ UNCHANGED Channel!channelVars
  BY <1>1, <1>3, ResultsDiffer, AddChannel DEF PlainResult, Testing
<1>4. ASSUME NEW m \in Models, NEW new \in {"online", "degraded"}, NEW t \in Tiers,
             MetricResult(m, new, t)
      PROVE  Channel!ChannelNext \/ UNCHANGED Channel!channelVars
  <2>1. new \in Statuses \ {"unknown"}
    BY DEF Statuses
  <2>2. /\ StatusChange(status[m], new) = "none"
        /\ Add(m, "none", new)
        /\ ~stopping
        /\ UNCHANGED <<batch, sending, orphan, stopping, muted>>
    BY <1>4, Zenon DEF MetricResult, Testing
  <2> QED
    BY <1>1, <2>1, <2>2, ResultsDiffer, AddChannel
<1>5. ASSUME UNCHANGED <<status, pending, batch, sending, orphan, stopping, told, muted>>
      PROVE  UNCHANGED Channel!channelVars
  BY <1>5 DEF Channel!channelVars, Line, Carried, Taken, Waiting
<1>6. ASSUME NEW m \in Models, MetricSent(m)
      PROVE  UNCHANGED Channel!channelVars
  BY <1>5, <1>6 DEF MetricSent, MetricTold, MetricFails
<1>7. CASE BeginFlush
  <2>1. \A m \in Models : Taken(m) = <<>> /\ Taken(m)' = Waiting(m) /\ Waiting(m)' = <<>>
    BY <1>7 DEF BeginFlush, Taken, Waiting, IInv, Quiescent, Nothing, Queued, Absent
  <2>2. \A m \in Models : Carried(m) = <<>> /\ Carried(m)' = <<>>
    BY <1>7 DEF BeginFlush, Carried, IInv, Quiescent
  <2>3. \A m \in Models : Line(m)' = Line(m)
    <3> TAKE m \in Models
    <3>1. Waiting(m) \in Seq(Statuses)
      BY <1>1, LineTypes
    <3>2. <<>> \o <<>> = <<>> /\ <<>> \o Waiting(m) = Waiting(m) /\ Waiting(m) \o <<>> = Waiting(m)
      BY <3>1, ConcatEmptySeq, EmptySeq
    <3> QED
      BY <2>1, <2>2, <3>2 DEF Line
  <2> QED
    BY <1>7, <2>3 DEF BeginFlush, Channel!channelVars
<1>8. CASE Broadcasted
  BY <1>5, <1>8 DEF Broadcasted
<1>9. CASE EndFlush
  <2>1. \A m \in Models : Taken(m)' = Taken(m)
    BY <1>9 DEF EndFlush, Taken, Nothing, Queued, Absent
  <2>2. \A m \in Models : Carried(m)' = Carried(m) /\ Waiting(m)' = Waiting(m)
    BY <1>9 DEF EndFlush, Carried, Waiting
  <2> QED
    BY <1>9, <2>1, <2>2 DEF EndFlush, Line, Channel!channelVars
<1>10. ASSUME NEW m \in Models, Announce(m)
       PROVE  Channel!ChannelNext \/ UNCHANGED Channel!channelVars
  BY <1>10, AnnounceChannel
<1>11. CASE Tick
  BY <1>5, <1>11 DEF Tick
<1>12. CASE UNCHANGED vars
  BY <1>5, <1>12 DEF vars
<1> QED
  BY <1>2, <1>3, <1>4, <1>6, <1>7, <1>8, <1>9, <1>10, <1>11, <1>12, SentChannel, BeginStopChannel
     DEF Next, ResultStep, FlushStep

\* BroadcastBatcher and notify_status_change are the abstract channel: for any number of
\* models that share a flush, any cooldowns and tiers, changes are announced in their
\* order, each once and none that was not, and an old one comes late only from the
\* flush that a stop cancels.
THEOREM ChannelImplemented == Spec => ImplementsChannel
<1>1. Init => Channel!ChannelInit
  BY InitChannel
<1>2. IInv /\ [Next]_vars => [Channel!ChannelNext]_(Channel!channelVars)
  BY NextChannel
<1> QED
  BY <1>1, <1>2, InitIInv, NextIInv, PTL DEF Spec, ImplementsChannel, Channel!ChannelSpec


-----------------------------------------------------------------------------
(* What the channel promises, whoever implements it                         *)

VARIABLES current, queue, heard, missed, strays, open

Promise == INSTANCE Announcements WITH Unknown <- "unknown"

Listening ==
    /\ current \in [Models -> Statuses]
    /\ queue \in [Models -> Seq(Statuses)]
    /\ heard \in [Models -> Statuses]
    /\ missed \in [Models -> BOOLEAN]
    /\ strays \subseteq [model : Models, status : Statuses]
    /\ \A m \in Models : current[m] = "unknown" => queue[m] = <<>>
    /\ Promise!Faithful

\* The last of a queue stays the last when the first has gone.
LEMMA LastStays ==
    ASSUME NEW S, NEW q \in Seq(S), q # <<>>
    PROVE  /\ Tail(q) \in Seq(S) /\ Head(q) \in S
           /\ Tail(q) # <<>> => Promise!Last(Tail(q)) = Promise!Last(q)
           /\ Tail(q) = <<>> => Head(q) = Promise!Last(q)
<1>1. /\ Tail(q) \in Seq(S) /\ Head(q) \in S
      /\ Len(Tail(q)) = Len(q) - 1
      /\ \A i \in 1 .. Len(Tail(q)) : Tail(q)[i] = q[i + 1]
  BY HeadTailProperties
<1>2. Len(q) \in Nat \ {0} /\ Len(<<>>) = 0
  BY EmptySeq
<1>3. Tail(q) # <<>> => Len(Tail(q)) \in Nat \ {0}
  BY <1>1, EmptySeq
<1>4. Tail(q) # <<>> => Tail(q)[Len(Tail(q))] = q[Len(q)]
  BY <1>1, <1>2, <1>3
<1>5. Tail(q) = <<>> => Len(q) = 1
  <2>1. Tail(q) = <<>> => Len(Tail(q)) = 0
    BY <1>2, Zenon
  <2> QED
    BY <1>1, <1>2, <2>1
<1>6. Head(q) = q[1]
  BY <1>2
<1>7. Promise!Last(q) = q[Len(q)] /\ Promise!Last(Tail(q)) = Tail(q)[Len(Tail(q))]
  BY Zenon DEF Promise!Last
<1>8. Tail(q) = <<>> => Head(q) = q[Len(q)]
  BY <1>5, <1>6
<1> QED
  BY <1>1, <1>4, <1>7, <1>8, Zenon

\* ... and when any number of the first have gone.
LEMMA LastOfEnds ==
    ASSUME NEW S, NEW q \in Seq(S), NEW e \in Promise!Ends(q)
    PROVE  /\ e \in Seq(S)
           /\ e # <<>> => q # <<>> /\ Promise!Last(e) = Promise!Last(q)
<1>1. PICK n \in 0 .. Len(q) : e = SubSeq(q, n + 1, Len(q))
  BY DEF Promise!Ends
<1>2. Len(q) \in Nat /\ \A i \in n + 1 .. Len(q) : q[i] \in S
  BY LenProperties, ElementOfSeq
<1>3. /\ e \in Seq(S)
      /\ Len(e) = IF n + 1 <= Len(q) THEN Len(q) - (n + 1) + 1 ELSE 0
      /\ \A i \in 1 .. Len(q) - (n + 1) + 1 : e[i] = q[n + 1 + i - 1]
  BY <1>1, <1>2, SubSeqProperties
<1>4. ASSUME e # <<>> PROVE q # <<>> /\ e[Len(e)] = q[Len(q)]
  <2>1. Len(e) \in Nat \ {0}
    BY <1>3, <1>4, EmptySeq
  <2>2. /\ Len(e) = Len(q) - (n + 1) + 1 /\ Len(q) > 0
        /\ Len(e) \in 1 .. Len(q) - (n + 1) + 1
        /\ n + 1 + Len(e) - 1 = Len(q)
    <3>1. n \in Nat /\ n + 1 <= Len(q)
      <4>1. ~(n + 1 <= Len(q)) => Len(e) = 0
        BY <1>3
      <4> QED
        BY <2>1, <4>1
    <3>2. Len(e) = Len(q) - (n + 1) + 1
      BY <1>3, <3>1
    <3> QED
      BY <1>2, <2>1, <3>1, <3>2
  <2>3. e[Len(e)] = q[n + 1 + Len(e) - 1]
    BY <1>3, <2>2
  <2>4. q # <<>>
    BY <2>2, EmptySeq
  <2> QED
    BY <2>2, <2>3, <2>4
<1> QED
  BY <1>3, <1>4 DEF Promise!Last

LEMMA NewLast ==
    ASSUME NEW S, NEW q \in Seq(S), NEW s \in S
    PROVE  /\ Append(q, s) \in Seq(S) /\ Append(q, s) # <<>>
           /\ Promise!Last(Append(q, s)) = s
           /\ q # <<>> => Promise!Front(q) \in Seq(S)
<1>1. /\ Append(q, s) \in Seq(S) /\ Append(q, s) # <<>>
      /\ Len(Append(q, s)) = Len(q) + 1
      /\ Append(q, s)[Len(q) + 1] = s
  BY AppendProperties
<1>2. ASSUME q # <<>> PROVE SubSeq(q, 1, Len(q) - 1) \in Seq(S)
  <2>1. Len(q) \in Nat \ {0} /\ \A i \in 1 .. Len(q) - 1 : q[i] \in S
    BY <1>2, EmptySeq, ElementOfSeq
  <2> QED
    BY <2>1, SubSeqProperties
<1>3. Promise!Last(Append(q, s)) = s
  <2>1. Append(q, s)[Len(Append(q, s))] = s
    BY <1>1, Zenon
  <2> QED
    BY <2>1 DEF Promise!Last
<1>4. q # <<>> => Promise!Front(q) \in Seq(S)
  BY <1>2 DEF Promise!Front
<1> QED
  BY <1>1, <1>3, <1>4

LEMMA NextListening ==
    ASSUME Listening, [Promise!ChannelNext]_(Promise!channelVars)
    PROVE  Listening'
<1> USE DEF Listening
<1>1. ASSUME NEW m \in Models, NEW s \in Statuses \ {"unknown"}, Promise!FirstStatus(m, s)
      PROVE  Listening'
  BY <1>1 DEF Promise!FirstStatus, Promise!Faithful
<1>2. ASSUME NEW m \in Models, NEW s \in Statuses \ {"unknown"}, Promise!Change(m, s)
      PROVE  Listening'
  <2>1. PICK q \in Seq(Statuses) : queue' = [queue EXCEPT ![m] = Append(q, s)]
    BY <1>2, NewLast DEF Promise!Change
  <2>2. /\ Append(q, s) \in Seq(Statuses) /\ Append(q, s) # <<>>
        /\ Promise!Last(Append(q, s)) = s
    BY NewLast
  <2>3. /\ current' = [current EXCEPT ![m] = s]
        /\ UNCHANGED <<heard, missed, strays>>
    BY <1>2 DEF Promise!Change
  <2>4. /\ current'[m] = s /\ queue'[m] = Append(q, s)
        /\ \A n \in Models \ {m} : current'[n] = current[n] /\ queue'[n] = queue[n]
    BY <2>1, <2>3
  <2>5. queue' \in [Models -> Seq(Statuses)] /\ current' \in [Models -> Statuses]
    BY <2>1, <2>2, <2>3
  <2>6. Promise!Faithful'
    BY <2>2, <2>3, <2>4 DEF Promise!Faithful
  <2>7. \A n \in Models : current'[n] = "unknown" => queue'[n] = <<>>
    BY <2>4
  <2> QED
    BY <2>3, <2>5, <2>6, <2>7
<1>3. ASSUME NEW m \in Models, Promise!Speak(m) \/ Promise!Withhold(m)
      PROVE  Listening'
  <2>1. /\ queue[m] # <<>>
        /\ queue' = [queue EXCEPT ![m] = Tail(queue[m])]
        /\ UNCHANGED <<current, strays>>
    BY <1>3 DEF Promise!Speak, Promise!Withhold
  <2>2. /\ Tail(queue[m]) \in Seq(Statuses) /\ Head(queue[m]) \in Statuses
        /\ Tail(queue[m]) # <<>> => Promise!Last(Tail(queue[m])) = current[m]
        /\ Tail(queue[m]) = <<>> => Head(queue[m]) = current[m]
    BY <2>1, LastStays DEF Promise!Faithful
  <2>3. \/ /\ heard' = [heard EXCEPT ![m] = Head(queue[m])]
           /\ missed' = [missed EXCEPT ![m] = FALSE]
        \/ heard' = heard /\ missed' = [missed EXCEPT ![m] = TRUE]
    BY <1>3 DEF Promise!Speak, Promise!Withhold
  <2> QED
    BY <2>1, <2>2, <2>3 DEF Promise!Faithful
<1>4. ASSUME NEW kept \in [Models -> UNION {Promise!Ends(queue[m]) : m \in Models}],
             Promise!Close(kept)
      PROVE  Listening'
  <2>1. /\ queue' = kept
        /\ missed' = [m \in Models |-> missed[m] \/ kept[m] # queue[m]]
        /\ UNCHANGED <<current, heard>>
    BY <1>4 DEF Promise!Close
  <2>2. ASSUME NEW m \in Models
        PROVE  /\ kept[m] \in Seq(Statuses)
               /\ kept[m] # <<>> => queue[m] # <<>> /\ Promise!Last(kept[m]) = Promise!Last(queue[m])
    <3>1. kept[m] \in Promise!Ends(queue[m])
      BY <1>4 DEF Promise!Close
    <3> QED
      BY <3>1, LastOfEnds
  <2>3. strays' \subseteq [model : Models, status : Statuses]
    <3>1. CASE strays' = {}
      BY <3>1
    <3>2. ASSUME NEW m \in Models, kept[m] # queue[m],
                 strays' = {[model |-> m, status |-> Head(queue[m])]}
          PROVE  strays' \subseteq [model : Models, status : Statuses]
      <4>1. queue[m] # <<>>
        <5>1. SUFFICES ASSUME queue[m] = <<>> PROVE kept[m] = <<>>
          BY <3>2
        <5> QED
          BY <2>2, <5>1
      <4> QED
        BY <3>2, <4>1, LastStays
    <3> QED
      BY <1>4, <3>1, <3>2 DEF Promise!Close
  <2>4. queue' \in [Models -> Seq(Statuses)]
    BY <1>4, <2>1, <2>2
  <2>5. Promise!Faithful'
    BY <2>1, <2>2 DEF Promise!Faithful
  <2>6. missed' \in [Models -> BOOLEAN]
    BY <2>1
  <2> QED
    BY <2>1, <2>2, <2>3, <2>4, <2>5, <2>6
<1>5. ASSUME NEW a \in strays, Promise!SpeakLate(a)
      PROVE  Listening'
  BY <1>5 DEF Promise!SpeakLate, Promise!Faithful
<1>6. CASE UNCHANGED Promise!channelVars
  BY <1>6 DEF Promise!channelVars, Promise!Faithful
<1> QED
  BY <1>1, <1>2, <1>3, <1>4, <1>5, <1>6 DEF Promise!ChannelNext

\* Announcements: whoever listens to such a channel learns the current status at last, or
\* that something was withheld; the last announcement to come is that of the current status.
THEOREM ChannelIsFaithful == Promise!ChannelSpec => []Promise!Faithful
<1>1. Promise!ChannelInit => Listening
  BY EmptySeq DEF Promise!ChannelInit, Listening, Promise!Faithful, Statuses
<1>2. Listening /\ [Promise!ChannelNext]_(Promise!channelVars) => Listening'
  BY NextListening
<1>3. Listening => Promise!Faithful
  BY DEF Listening
<1> QED
  BY <1>1, <1>2, <1>3, PTL DEF Promise!ChannelSpec

=============================================================================
