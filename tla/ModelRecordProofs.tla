-------------------------- MODULE ModelRecordProofs --------------------------
(***************************************************************************)
(* Proofs about ModelRecord, for any models, attempts, crashes and prunes: *)
(* the types, the agreement of memory with the stored rows and with the    *)
(* stored state (both from Sound), and what single steps may not do to a   *)
(* benchmark's degradation and to successes.                               *)
(***************************************************************************)
EXTENDS ModelRecord, TLAPS, FiniteSetTheorems, SequenceTheorems,
        WellFoundedInduction

\* The shape the arguments need: rows and buffers are sequences of rows, the
\* tests have their type, every model has an entry in memory.
Shape ==
    /\ memory = [m \in Models |-> memory[m]]
    /\ cycle \in [Models -> Test]
    /\ clock \in 0 .. MaxRecords
    /\ buffer \in [Models -> Seq(Row)]
    /\ rows \in [Models -> Seq(Row)]

-----------------------------------------------------------------------------
(* Lemmas about the operators                                               *)

\* A health result never takes a degradation from its benchmark owner, whatever
\* its outcome and whether it is a retry (_derive_status_from_result).
LEMMA HealthDerive ==
    ASSUME NEW s, NEW r \in Row, s.source = "benchmark", r.kind = "health"
    PROVE  Derive(s, r).source = "benchmark" /\ Derive(s, r).status # "online"
<1>1. r.outcome \in Outcomes /\ r.retry \in Nat
  BY RecordAssumption DEF Row
<1>2. CASE r.retry # Final
  BY <1>2 DEF Derive
<1>3. CASE r.retry = Final /\ r.outcome = "failed"
  BY <1>3 DEF Derive
<1>4. CASE r.retry = Final /\ r.outcome # "failed"
  BY <1>4 DEF Derive
<1> QED
  BY <1>2, <1>3, <1>4

\* A least number of a set of naturals: induction by least counterexample.
LEMMA LeastNumber ==
    ASSUME NEW T, T \subseteq Nat, T # {}
    PROVE  \E x \in T : \A y \in T : x <= y
<1> DEFINE R == OpToRel(<, Nat)
<1>1. IsWellFoundedOn(R, Nat)
  BY NatLessThanWellFounded
<1>2. \A x, y \in Nat : x < y => <<x, y>> \in R
  BY DEF OpToRel
<1> HIDE DEF R
<1>3. PICK x \in T : \A y \in T : ~(<<y, x>> \in R)
  BY <1>1, WFMin
<1>4. \A y \in T : x \in Nat /\ y \in Nat /\ ~(y < x)
  BY <1>2, <1>3
<1>5. \A y \in T : x <= y
  BY <1>4
<1> QED
  BY <1>5

Pair == [status : Statuses, source : Sources]

\* _derive_status_from_result always finds a status and an owner.
LEMMA DeriveIsPair ==
    ASSUME NEW s, NEW r \in Row
    PROVE  Derive(s, r) \in Pair
<1>1. r.outcome \in Outcomes /\ r.retry \in Nat /\ r.kind \in Kinds
  BY RecordAssumption DEF Row
<1>2. CASE r.retry # Final
  BY <1>1, <1>2 DEF Derive, Pair, Statuses, Sources, Kinds
<1>3. CASE r.retry = Final /\ r.outcome = "failed"
  BY <1>1, <1>3 DEF Derive, Pair, Statuses, Sources, Kinds
<1>4. CASE r.retry = Final /\ r.outcome # "failed"
  BY <1>1, <1>4 DEF Derive, Pair, Statuses, Sources, Kinds
<1> QED
  BY <1>2, <1>3, <1>4

\* What a record makes of a model depends on the owner of its degradation.
LEMMA DeriveLooksAtSource ==
    ASSUME NEW s, NEW t, s.source = t.source, NEW r \in Row
    PROVE  Derive(s, r) = Derive(t, r)
BY DEF Derive

\* The functions a replay is computed with.
Step(g, seq, n) == IF n = 0 THEN Unknown ELSE Derive(g[n - 1], seq[n])
IsReplay(g, seq) == g = [n \in 0 .. Len(seq) |-> Step(g, seq, n)]

LEMMA ReplayChoice ==
    ASSUME NEW seq
    PROVE  Replay(seq) = (CHOOSE g : IsReplay(g, seq))[Len(seq)]
BY DEF Replay, IsReplay, Step

\* One replay of a sequence, begun: the first k records.
Begun(g, seq, k) == g = [n \in 0 .. k |-> Step(g, seq, n)]

LEMMA ReplayExists ==
    ASSUME NEW seq \in Seq(Row)
    PROVE  \E g : IsReplay(g, seq)
<1>1. Len(seq) \in Nat
  OBVIOUS
<1> DEFINE Bad == {k \in 0 .. Len(seq) : ~\E g : Begun(g, seq, k)}
<1>2. Bad = {}
  <2> SUFFICES ASSUME Bad # {} PROVE FALSE
    OBVIOUS
  <2>1. PICK k \in Bad : \A j \in Bad : k <= j
    <3>1. Bad \subseteq Nat
      BY <1>1
    <3> HIDE DEF Bad
    <3> QED
      BY <3>1, LeastNumber
  <2>2. k # 0
    <3> DEFINE g == [n \in 0 .. 0 |-> Unknown]
    <3>1. \A n \in 0 .. 0 : g[n] = Unknown /\ n = 0
      OBVIOUS
    <3>2. Begun(g, seq, 0)
      BY <3>1 DEF Begun, Step
    <3> QED
      BY <3>2, <2>1
  <2>3. k - 1 \in 0 .. Len(seq) /\ k - 1 \notin Bad
    BY <1>1, <2>1, <2>2
  <2>4. PICK g : Begun(g, seq, k - 1)
    BY <2>3
  <2> DEFINE h == [n \in 0 .. k |-> IF n = k THEN Derive(g[k - 1], seq[k]) ELSE g[n]]
  <2>5. \A n \in 0 .. k : h[n] = Step(h, seq, n)
    <3> TAKE n \in 0 .. k
    <3>1. k \in Nat /\ n \in Nat
      BY <1>1
    <3>2. CASE n = k
      <4>1. h[n] = Derive(g[k - 1], seq[k])
        BY <3>1, <3>2
      <4>2. h[n - 1] = g[k - 1]
        BY <3>1, <3>2, <2>2
      <4> HIDE DEF h
      <4> QED
        BY <3>2, <4>1, <4>2, <2>2 DEF Step
    <3>3. CASE n # k
      <4>1. n \in 0 .. k - 1 /\ g[n] = Step(g, seq, n)
        BY <3>1, <3>3, <2>4 DEF Begun
      <4>2. h[n] = g[n]
        BY <3>1, <3>3
      <4>3. n # 0 => h[n - 1] = g[n - 1]
        BY <3>1, <3>3
      <4> HIDE DEF h
      <4> QED
        BY <4>1, <4>2, <4>3 DEF Step
    <3> QED
      BY <3>2, <3>3
  <2>6. h = [n \in 0 .. k |-> h[n]]
    OBVIOUS
  <2> HIDE DEF h
  <2>7. Begun(h, seq, k)
    BY <2>5, <2>6 DEF Begun
  <2> QED
    BY <2>1, <2>7
<1>3. \E g : Begun(g, seq, Len(seq))
  BY <1>1, <1>2
<1> QED
  BY <1>3 DEF Begun, IsReplay

LEMMA ReplayIs ==
    ASSUME NEW seq \in Seq(Row)
    PROVE  \E g : IsReplay(g, seq) /\ Replay(seq) = g[Len(seq)]
<1> DEFINE g == CHOOSE f : IsReplay(f, seq)
<1>1. IsReplay(g, seq)
  BY ReplayExists
<1> QED
  BY <1>1, ReplayChoice

\* Nothing is known of a model without rows.
LEMMA ReplayEmpty == Replay(<<>>) = Unknown
<1>1. <<>> \in Seq(Row) /\ Len(<<>>) = 0
  OBVIOUS
<1>2. PICK g : IsReplay(g, <<>>) /\ Replay(<<>>) = g[0]
  BY <1>1, ReplayIs
<1>3. 0 \in 0 .. Len(<<>>)
  BY <1>1
<1>4. g[0] = Step(g, <<>>, 0)
  BY <1>2, <1>3 DEF IsReplay
<1> QED
  BY <1>2, <1>4 DEF Step

\* A replay of one more row derives from the replay of those before: what
\* reconcile_model_state does at once is what the recorders do row by row.
LEMMA ReplayAppend ==
    ASSUME NEW seq \in Seq(Row), NEW r \in Row
    PROVE  Replay(Append(seq, r)) = Derive(Replay(seq), r)
<1> DEFINE new == Append(seq, r)
           l == Len(seq)
<1>1. /\ new \in Seq(Row) /\ l \in Nat /\ Len(new) = l + 1
      /\ new[l + 1] = r
      /\ \A n \in 1 .. l : new[n] = seq[n]
  OBVIOUS
<1> HIDE DEF new
<1>2. PICK g : IsReplay(g, seq) /\ Replay(seq) = g[l]
  BY ReplayIs
<1>3. PICK h : IsReplay(h, new) /\ Replay(new) = h[l + 1]
  BY <1>1, ReplayIs
<1> HIDE DEF l
<1>4. \A n \in 0 .. l : g[n] = Step(g, seq, n)
  BY <1>2 DEF IsReplay, l
<1>5. \A n \in 0 .. l + 1 : h[n] = Step(h, new, n)
  BY <1>1, <1>3 DEF IsReplay
<1> DEFINE Bad == {n \in 0 .. l : g[n] # h[n]}
<1>6. Bad = {}
  <2> SUFFICES ASSUME Bad # {} PROVE FALSE
    OBVIOUS
  <2>1. PICK n \in Bad : \A j \in Bad : n <= j
    <3>1. Bad \subseteq Nat
      BY <1>1
    <3> HIDE DEF Bad
    <3> QED
      BY <3>1, LeastNumber
  <2>2. n \in 0 .. l /\ n \in 0 .. l + 1 /\ g[n] # h[n]
    BY <1>1
  <2>3. g[n] = Step(g, seq, n) /\ h[n] = Step(h, new, n)
    BY <1>4, <1>5, <2>2
  <2>4. n # 0
    BY <2>2, <2>3 DEF Step
  <2>5. g[n - 1] = h[n - 1]
    BY <1>1, <2>1, <2>2, <2>4
  <2>6. new[n] = seq[n]
    BY <1>1, <2>2, <2>4
  <2> QED
    BY <2>2, <2>3, <2>4, <2>5, <2>6 DEF Step
<1>7. g[l] = h[l]
  BY <1>1, <1>6
<1>8. h[l + 1] = Derive(h[l], new[l + 1])
  <2>1. PICK k : k = l + 1
    OBVIOUS
  <2>2. k \in 0 .. l + 1 /\ k # 0 /\ k - 1 = l
    BY <1>1, <2>1
  <2>3. h[k] = Step(h, new, k)
    BY <1>5, <2>2
  <2>4. h[k] = Derive(h[k - 1], new[k])
    BY <2>2, <2>3 DEF Step
  <2> QED
    BY <2>1, <2>2, <2>4
<1> QED
  BY <1>1, <1>2, <1>3, <1>7, <1>8 DEF new

LEMMA ReplayIsPair ==
    ASSUME NEW seq \in Seq(Row)
    PROVE  Replay(seq) \in Pair
<1>1. PICK g : IsReplay(g, seq) /\ Replay(seq) = g[Len(seq)]
  BY ReplayIs
<1>2. Len(seq) \in Nat /\ Len(seq) \in 0 .. Len(seq)
  OBVIOUS
<1>3. g[Len(seq)] = Step(g, seq, Len(seq))
  BY <1>1, <1>2 DEF IsReplay
<1>4. CASE Len(seq) = 0
  BY <1>1, <1>3, <1>4 DEF Step, Unknown, Pair, Statuses, Sources
<1>5. CASE Len(seq) # 0
  <2>1. seq[Len(seq)] \in Row
    BY <1>2, <1>5
  <2> QED
    BY <1>1, <1>3, <1>5, <2>1, DeriveIsPair DEF Step
<1> QED
  BY <1>4, <1>5

\* A state after at most c records.
Counted(c) == [status : Statuses, source : Sources, tests : 0 .. c, successes : 0 .. c]

LEMMA CountedGrows ==
    ASSUME NEW c \in Nat, NEW d \in Nat, c <= d, NEW s \in Counted(c)
    PROVE  s \in Counted(d)
<1>1. s.tests \in 0 .. d /\ s.successes \in 0 .. d
  BY DEF Counted
<1> QED
  BY <1>1 DEF Counted

LEMMA OneToCount ==
    ASSUME NEW n \in Nat
    PROVE  IsFiniteSet(1 .. n) /\ Cardinality(1 .. n) = n
<1>1. IsFiniteSet(1 .. n) /\ Cardinality(1 .. n) = IF 1 > n THEN 0 ELSE n - 1 + 1
  BY FS_Interval
<1> QED
  BY <1>1

\* Indices of a sequence are finitely many, and no more than its length.
LEMMA IndicesCount ==
    ASSUME NEW S, NEW seq \in Seq(S), NEW I, I \subseteq DOMAIN seq
    PROVE  IsFiniteSet(I) /\ Cardinality(I) \in 0 .. Len(seq)
<1>1. Len(seq) \in Nat /\ DOMAIN seq = 1 .. Len(seq)
  OBVIOUS
<1>2. IsFiniteSet(DOMAIN seq) /\ Cardinality(DOMAIN seq) = Len(seq)
  <2>1. IsFiniteSet(1 .. Len(seq)) /\ Cardinality(1 .. Len(seq)) = Len(seq)
    BY <1>1, OneToCount
  <2> QED
    BY <1>1, <2>1
<1>3. IsFiniteSet(I) /\ Cardinality(I) <= Len(seq)
  BY <1>2, FS_Subset
<1>4. Cardinality(I) \in Nat
  BY <1>3, FS_CardinalityType
<1> QED
  BY <1>1, <1>3, <1>4

\* What _recompute_model_state finds is what the replay finds, and it counts no
\* more than there are rows.
LEMMA RecomputeIsCounted ==
    ASSUME NEW seq \in Seq(Row)
    PROVE  /\ Recompute(seq) \in Counted(Len(seq))
           /\ Replay(seq) = [status |-> Recompute(seq).status,
                             source |-> Recompute(seq).source]
<1>1. Replay(seq) \in Pair
  BY ReplayIsPair
<1> DEFINE I == {i \in DOMAIN seq : Succeeded(seq[i])}
<1>2. Cardinality(I) \in 0 .. Len(seq)
  BY IndicesCount
<1>3. Len(seq) \in 0 .. Len(seq)
  OBVIOUS
<1>4. Recompute(seq) = [status |-> Replay(seq).status, source |-> Replay(seq).source,
                        tests |-> Len(seq), successes |-> Cardinality(I)]
  BY DEF Recompute
<1> HIDE DEF I
<1>5. Recompute(seq) \in Counted(Len(seq))
  BY <1>1, <1>2, <1>3, <1>4 DEF Counted, Pair
<1>6. Replay(seq) = [status |-> Replay(seq).status, source |-> Replay(seq).source]
  BY <1>1 DEF Pair
<1> QED
  BY <1>4, <1>5, <1>6

\* A final row is one more to count.
LEMMA FinalsAppend ==
    ASSUME NEW seq \in Seq(Row), NEW r \in Row
    PROVE  /\ Cardinality(Finals(Append(seq, r)))
                = Cardinality(Finals(seq)) + (IF IsFinal(r) THEN 1 ELSE 0)
           /\ Cardinality(Successes(Append(seq, r)))
                = Cardinality(Successes(seq))
                  + (IF IsFinal(r) /\ Succeeded(r) THEN 1 ELSE 0)
<1> DEFINE new == Append(seq, r)
           l == Len(seq)
<1>1. /\ l \in Nat /\ DOMAIN new = 1 .. l + 1 /\ DOMAIN seq = 1 .. l
      /\ new[l + 1] = r
      /\ \A n \in 1 .. l : new[n] = seq[n]
  OBVIOUS
<1>2. /\ IsFiniteSet(Finals(seq)) /\ Cardinality(Finals(seq)) \in Nat
      /\ IsFiniteSet(Successes(seq)) /\ Cardinality(Successes(seq)) \in Nat
  <2>1. Finals(seq) \subseteq DOMAIN seq /\ Successes(seq) \subseteq DOMAIN seq
    BY DEF Finals, Successes
  <2> QED
    BY <2>1, IndicesCount
<1> HIDE DEF new, l
<1>3. Finals(new) = IF IsFinal(r) THEN Finals(seq) \cup {l + 1} ELSE Finals(seq)
  BY <1>1 DEF Finals
<1>4. Successes(new) = IF IsFinal(r) /\ Succeeded(r) THEN Successes(seq) \cup {l + 1}
                                                     ELSE Successes(seq)
  BY <1>1, <1>3 DEF Successes, Finals
<1>5. l + 1 \notin Finals(seq) /\ l + 1 \notin Successes(seq)
  BY <1>1 DEF Finals, Successes
<1>6. Cardinality(Finals(new)) = Cardinality(Finals(seq)) + (IF IsFinal(r) THEN 1 ELSE 0)
  <2>1. CASE IsFinal(r)
    BY <1>2, <1>3, <1>5, <2>1, FS_AddElement
  <2>2. CASE ~IsFinal(r)
    BY <1>2, <1>3, <2>2
  <2> QED
    BY <2>1, <2>2
<1>7. Cardinality(Successes(new)) = Cardinality(Successes(seq))
                                    + (IF IsFinal(r) /\ Succeeded(r) THEN 1 ELSE 0)
  <2>1. CASE IsFinal(r) /\ Succeeded(r)
    BY <1>2, <1>4, <1>5, <2>1, FS_AddElement
  <2>2. CASE ~(IsFinal(r) /\ Succeeded(r))
    BY <1>2, <1>4, <2>2
  <2> QED
    BY <2>1, <2>2
<1> QED
  BY <1>6, <1>7 DEF new

\* Rows in the order of ts_epoch.
Ordered(seq) == \A i, j \in DOMAIN seq : i < j => seq[i].at < seq[j].at

\* In a history that is in order, the records up to the time of one of them are
\* those up to it: what _sync_cache_after_prune keeps is what the prune kept.
LEMMA UpToIsPrefix ==
    ASSUME NEW seq \in Seq(Row), Ordered(seq), NEW n \in DOMAIN seq
    PROVE  UpTo(seq, seq[n].at) = SubSeq(seq, 1, n)
<1> DEFINE I == {i \in DOMAIN seq : seq[i].at <= seq[n].at}
<1>1. Len(seq) \in Nat /\ DOMAIN seq = 1 .. Len(seq) /\ n \in Nat /\ n >= 1
  OBVIOUS
<1>2. \A i \in DOMAIN seq : seq[i].at \in Nat
  <2>1. \A i \in DOMAIN seq : seq[i] \in Row
    OBVIOUS
  <2>2. \A x \in Row : x.at \in Nat
    BY RecordAssumption DEF Row
  <2> QED
    BY <2>1, <2>2
<1>3. I = 1 .. n
  <2>1. ASSUME NEW i \in DOMAIN seq PROVE seq[i].at <= seq[n].at <=> i <= n
    BY <1>1, <1>2, <2>1 DEF Ordered
  <2> QED
    BY <1>1, <2>1
<1>4. Cardinality(I) = n
  BY <1>1, <1>3, OneToCount
<1> QED
  BY <1>4 DEF UpTo

\* What is kept of a history is a sequence of rows.
LEMMA UpToIsSeq ==
    ASSUME NEW seq \in Seq(Row), NEW ts
    PROVE  UpTo(seq, ts) \in Seq(Row)
<1> DEFINE n == Cardinality({i \in DOMAIN seq : seq[i].at <= ts})
<1>1. n \in 0 .. Len(seq)
  BY IndicesCount
<1> HIDE DEF n
<1>2. SubSeq(seq, 1, n) \in Seq(Row)
  BY <1>1
<1> QED
  BY <1>2 DEF UpTo, n

\* What a retention run leaves of a sequence of rows is a sequence of rows.
LEMMA RestIsSeq ==
    ASSUME NEW seq \in Seq(Row), NEW cutoff
    PROVE  SubSeq(seq, Cardinality({i \in DOMAIN seq : seq[i].at < cutoff}) + 1, Len(seq))
               \in Seq(Row)
<1> DEFINE old == {i \in DOMAIN seq : seq[i].at < cutoff}
<1>1. IsFiniteSet(DOMAIN seq)
  <2>1. DOMAIN seq = 1 .. Len(seq) /\ Len(seq) \in Nat
    OBVIOUS
  <2> QED
    BY <2>1, FS_Interval
<1>2. IsFiniteSet(old)
  BY <1>1, FS_Subset
<1>3. Cardinality(old) \in Nat
  BY <1>2, FS_CardinalityType
<1> HIDE DEF old
<1>4. SubSeq(seq, Cardinality(old) + 1, Len(seq)) \in Seq(Row)
  BY <1>3
<1> QED
  BY <1>4 DEF old

-----------------------------------------------------------------------------
(* The shape is inductive                                                   *)

LEMMA InitShape == Init => Shape
<1> SUFFICES ASSUME Init PROVE Shape
  OBVIOUS
<1> QED
  BY RecordAssumption DEF Init, Shape, Test, Idle, Fresh

\* The record of a running test is a row.
LEMMA RecordIsRow ==
    ASSUME Shape, NEW m \in Models, NEW outcome \in Outcomes,
           cycle[m] # Idle, clock < MaxRecords, NEW retry \in 0 .. TotalAttempts - 1
    PROVE  [kind |-> cycle[m].kind, outcome |-> outcome, retry |-> retry,
            at |-> clock + 1] \in Row
<1>1. cycle[m].kind \in Kinds
  BY DEF Shape, Test
<1>2. clock + 1 \in 1 .. MaxRecords
  BY RecordAssumption DEF Shape
<1> QED
  BY <1>1, <1>2 DEF Row

LEMMA EnterShape ==
    ASSUME Shape, NEW m \in Models, NEW row \in Row, NEW counted \in BOOLEAN,
           Enter(m, row, counted)
    PROVE  /\ memory' = [x \in Models |-> memory'[x]]
           /\ clock' \in 0 .. MaxRecords
           /\ buffer' \in [Models -> Seq(Row)]
           /\ buffer' = [buffer EXCEPT ![m] = Append(@, row)]
<1>1. memory' = [x \in Models |-> memory'[x]]
  BY DEF Enter, Shape
<1>2. clock' \in 0 .. MaxRecords
  BY RecordAssumption DEF Enter, Row
<1>3. buffer' = [buffer EXCEPT ![m] = Append(@, row)]
  BY DEF Enter
<1>4. Append(buffer[m], row) \in Seq(Row)
  BY DEF Shape
<1> QED
  BY <1>1, <1>2, <1>3, <1>4 DEF Shape

LEMMA BeginShape ==
    ASSUME Shape, NEW m \in Models, NEW k \in Kinds, Begin(m, k)
    PROVE  Shape'
<1>1. PICK skip \in {0, ResumeAttempt(rows[m], k)} :
         cycle' = [cycle EXCEPT ![m] =
                     [kind |-> k,
                      attempt |-> IF skip \in 1 .. TotalAttempts - 1 THEN skip ELSE 0]]
  BY DEF Begin
<1>2. cycle' \in [Models -> Test]
  BY <1>1, RecordAssumption DEF Shape, Test
<1> QED
  BY <1>2 DEF Begin, Shape, storeVars

LEMMA RetryShape ==
    ASSUME Shape, NEW m \in Models, NEW outcome \in Outcomes, Retry(m, outcome)
    PROVE  Shape'
<1> DEFINE row == [kind |-> cycle[m].kind, outcome |-> outcome,
                   retry |-> cycle[m].attempt + 1, at |-> clock + 1]
<1>1. cycle[m].attempt + 1 \in 0 .. TotalAttempts - 1 /\ cycle[m].kind \in Kinds
  BY RecordAssumption DEF Retry, Shape, Test
<1>2. row \in Row
  BY <1>1, RecordIsRow DEF Retry
<1>3. Enter(m, row, FALSE)
  BY DEF Retry
<1> HIDE DEF row
<1>4. cycle' \in [Models -> Test]
  BY <1>1, RecordAssumption DEF Retry, Shape, Test
<1>5. rows' = rows
  BY DEF Retry
<1> QED
  BY <1>2, <1>3, <1>4, <1>5, EnterShape DEF Shape

LEMMA FinishShape ==
    ASSUME Shape, NEW m \in Models, NEW outcome \in Outcomes, Finish(m, outcome)
    PROVE  Shape'
<1> DEFINE row == [kind |-> cycle[m].kind, outcome |-> outcome,
                   retry |-> Final, at |-> clock + 1]
<1>1. row \in Row
  BY RecordIsRow, RecordAssumption DEF Finish, Final
<1>2. Enter(m, row, TRUE)
  BY DEF Finish
<1> HIDE DEF row
<1>3. cycle' \in [Models -> Test] /\ rows' = rows
  BY DEF Finish, Shape, Test
<1> QED
  BY <1>1, <1>2, <1>3, EnterShape DEF Shape

\* What the store does: flushes, prunes and retention leave sequences of rows.
LEMMA StoreShape ==
    ASSUME Shape, Flush \/ \E cutoff \in 2 .. MaxCutoff : DeleteOld(cutoff)
    PROVE  Shape'
<1>1. CASE Flush
  <2>1. \A x \in Models : rows[x] \o buffer[x] \in Seq(Row)
    BY DEF Shape
  <2> QED
    BY <1>1, <2>1 DEF Flush, Shape, Stored, testVars
<1>2. ASSUME NEW cutoff \in 2 .. MaxCutoff, DeleteOld(cutoff)
      PROVE  Shape'
  <2>1. \A x \in Models :
          SubSeq(rows[x], Cardinality({i \in DOMAIN rows[x] : rows[x][i].at < cutoff}) + 1,
                 Len(rows[x])) \in Seq(Row)
    BY RestIsSeq DEF Shape
  <2> QED
    BY <1>2, <2>1 DEF DeleteOld, Shape, testVars
<1> QED
  BY <1>1, <1>2

LEMMA DeleteShape ==
    ASSUME Shape, NEW m \in Models, NEW n \in DOMAIN rows[m], NEW ts,
           Delete(m, SubSeq(rows[m], 1, n), ts)
    PROVE  Shape'
<1>1. SubSeq(rows[m], 1, n) \in Seq(Row)
  BY DEF Shape
<1> QED
  BY <1>1 DEF Delete, Shape, testVars

LEMMA ArchiveShape ==
    ASSUME Shape, NEW m \in Models, ArchiveStep(m)
    PROVE  Shape'
<1>1. CASE PruneRows(m)
  BY <1>1, DeleteShape DEF PruneRows
<1>2. CASE SyncCache(m)
  BY <1>2 DEF SyncCache, Shape, storeVars
<1>3. CASE \/ AutoArchive(m) \/ DirectiveArchive(m) \/ LoadMarks(m) \/ Unarchive(m)
           \/ PruneNothing(m)
  BY <1>3 DEF AutoArchive, DirectiveArchive, LoadMarks, Unarchive, PruneNothing,
              Shape, testVars, storeVars
<1> QED
  BY <1>1, <1>2, <1>3 DEF ArchiveStep

LEMMA RestartShape ==
    ASSUME Shape, Restart
    PROVE  Shape'
<1>1. memory' = [x \in Models |-> memory'[x]]
  BY DEF Restart
<1>2. cycle' \in [Models -> Test]
  BY DEF Restart, Test
<1>3. buffer' \in [Models -> Seq(Row)]
  BY DEF Restart
<1> QED
  BY <1>1, <1>2, <1>3 DEF Restart, Shape

LEMMA NextShape == Shape /\ [Next]_vars => Shape'
<1> SUFFICES ASSUME Shape, [Next]_vars PROVE Shape'
  OBVIOUS
<1>1. ASSUME NEW m \in Models, TestStep(m) PROVE Shape'
  <2>1. CASE Interrupt(m)
    BY <2>1 DEF Interrupt, Shape, Test, storeVars
  <2> QED
    BY <1>1, <2>1, BeginShape, RetryShape, FinishShape DEF TestStep
<1>2. CASE UNCHANGED vars
  BY <1>2 DEF vars, testVars, storeVars, Shape
<1> QED
  BY <1>1, <1>2, ArchiveShape, StoreShape, RestartShape DEF Next

-----------------------------------------------------------------------------
(* The types are inductive: nothing counts more than there were records     *)

Pruning(c) == [stage : {"idle", "due", "sync", "load"}, by : {"none", "auto", "directive"},
               upTo : 0 .. MaxRecords, found : Counted(c)]

Typed ==
    /\ Shape
    /\ memory \in [Models -> Counted(clock)]
    /\ latest \in [Models -> Counted(clock)]
    /\ state \in [Models -> Counted(clock)]
    /\ pruning \in [Models -> Pruning(clock)]
    /\ history \in [Models -> Seq(Row)]
    /\ archived \subseteq Models
    /\ prunes \in 0 .. MaxPrunes
    /\ crashes \in 0 .. MaxCrashes
    /\ integrity \in [Models -> {"whole", "pruned", "torn"}]
    /\ \A m \in Models : Len(rows[m]) + Len(buffer[m]) <= clock

LEMMA FreshIsCounted ==
    ASSUME NEW c \in Nat
    PROVE  Fresh \in Counted(c) /\ Quiet \in Pruning(c)
<1>1. 0 \in 0 .. c /\ 0 \in 0 .. MaxRecords
  BY RecordAssumption
<1>2. Fresh \in Counted(c)
  BY <1>1 DEF Fresh, Counted, Statuses, Sources
<1> QED
  BY <1>1, <1>2 DEF Quiet, Pruning

LEMMA PruningGrows ==
    ASSUME NEW c \in Nat, NEW d \in Nat, c <= d, NEW p \in Pruning(c)
    PROVE  p \in Pruning(d)
<1>1. p.found \in Counted(d)
  BY CountedGrows DEF Pruning
<1> QED
  BY <1>1 DEF Pruning

LEMMA InitTyped == Init => Typed
<1> SUFFICES ASSUME Init PROVE Typed
  OBVIOUS
<1>1. Shape
  BY InitShape
<1>2. Fresh \in Counted(0) /\ Quiet \in Pruning(0)
  BY FreshIsCounted
<1>3. \A m \in Models : Len(rows[m]) + Len(buffer[m]) <= clock
  BY DEF Init
<1> QED
  BY <1>1, <1>2, <1>3, RecordAssumption DEF Init, Typed

\* A record counts at most once, in memory and in what the batcher gets.
LEMMA EntryIsCounted ==
    ASSUME NEW c \in Nat, NEW s \in Counted(c), NEW row \in Row, NEW counted \in BOOLEAN
    PROVE  [status |-> Derive(s, row).status, source |-> Derive(s, row).source,
            tests |-> s.tests + (IF counted THEN 1 ELSE 0),
            successes |-> s.successes + (IF counted /\ Succeeded(row) THEN 1 ELSE 0)]
               \in Counted(c + 1)
<1>1. Derive(s, row) \in Pair
  BY DeriveIsPair
<1>2. Derive(s, row).status \in Statuses /\ Derive(s, row).source \in Sources
  BY <1>1 DEF Pair
<1>3. s.tests \in 0 .. c /\ s.successes \in 0 .. c
  BY DEF Counted
<1>4. s.tests + (IF counted THEN 1 ELSE 0) \in 0 .. c + 1
  BY <1>3
<1>5. s.successes + (IF counted /\ Succeeded(row) THEN 1 ELSE 0) \in 0 .. c + 1
  BY <1>3
<1> QED
  BY <1>2, <1>4, <1>5 DEF Counted

LEMMA EnterTyped ==
    ASSUME Typed, NEW m \in Models, NEW row \in Row, row.at = clock + 1,
           NEW counted \in BOOLEAN, Enter(m, row, counted),
           UNCHANGED <<rows, state, pruneVars, crashes>>, Shape'
    PROVE  Typed'
<1>1. clock \in Nat /\ clock' = clock + 1 /\ clock' \in Nat /\ clock <= clock'
  BY RecordAssumption DEF Typed, Shape, Enter
<1> DEFINE s == Derive(memory[m], row)
           entry == [status |-> s.status, source |-> s.source,
                     tests |-> memory[m].tests + (IF counted THEN 1 ELSE 0),
                     successes |-> memory[m].successes
                                   + (IF counted /\ Succeeded(row) THEN 1 ELSE 0)]
<1>2. entry \in Counted(clock')
  <2>1. memory[m] \in Counted(clock)
    BY DEF Typed
  <2> QED
    BY <1>1, <2>1, EntryIsCounted
<1>3. memory' = [memory EXCEPT ![m] = entry] /\ latest' = [latest EXCEPT ![m] = entry]
  BY DEF Enter
<1> HIDE DEF entry, s
<1>4. \A x \in Models : /\ memory[x] \in Counted(clock') /\ latest[x] \in Counted(clock')
                        /\ state[x] \in Counted(clock')
  BY <1>1, CountedGrows DEF Typed
<1>5. memory' \in [Models -> Counted(clock')] /\ latest' \in [Models -> Counted(clock')]
  BY <1>2, <1>3, <1>4 DEF Typed
<1>6. state' \in [Models -> Counted(clock')]
  BY <1>4 DEF Typed
<1>7. pruning' \in [Models -> Pruning(clock')]
  <2>1. \A x \in Models : pruning[x] \in Pruning(clock')
    BY <1>1, PruningGrows DEF Typed
  <2> QED
    BY <2>1 DEF Typed, pruneVars
<1>8. history' \in [Models -> Seq(Row)]
  <2>1. Append(history[m], row) \in Seq(Row)
    BY DEF Typed
  <2> QED
    BY <2>1 DEF Enter, Typed
<1>9. integrity' \in [Models -> {"whole", "pruned", "torn"}]
  BY DEF Enter, Typed
<1>10. ASSUME NEW x \in Models PROVE Len(rows'[x]) + Len(buffer'[x]) <= clock'
  <2>1. rows[x] \in Seq(Row) /\ buffer[x] \in Seq(Row) /\ Len(rows[x]) + Len(buffer[x]) <= clock
    BY DEF Typed, Shape
  <2>2. buffer'[x] = IF x = m THEN Append(buffer[x], row) ELSE buffer[x]
    BY DEF Enter, Typed, Shape
  <2>3. Len(buffer'[x]) <= Len(buffer[x]) + 1
    BY <2>1, <2>2
  <2>4. Len(buffer'[x]) \in Nat /\ Len(buffer[x]) \in Nat /\ Len(rows[x]) \in Nat
    BY <2>1, <2>2
  <2>5. Len(rows'[x]) = Len(rows[x])
    OBVIOUS
  <2>6. Len(rows[x]) + Len(buffer[x]) <= clock
    BY DEF Typed
  <2>7. \A c, k, l, n \in Nat : k + l <= c /\ n <= l + 1 => k + n <= c + 1
    OBVIOUS
  <2>8. Len(rows[x]) + Len(buffer'[x]) <= clock + 1
    BY <1>1, <2>3, <2>4, <2>6, <2>7
  <2> QED
    BY <1>1, <2>5, <2>8
<1> QED
  BY <1>5, <1>6, <1>7, <1>8, <1>9, <1>10 DEF Typed, pruneVars

LEMMA TestTyped ==
    ASSUME Typed, Shape', NEW m \in Models, TestStep(m)
    PROVE  Typed'
<1>1. ASSUME NEW k \in Kinds, Begin(m, k) PROVE Typed'
  BY <1>1 DEF Begin, Typed, storeVars, pruneVars
<1>2. ASSUME NEW o \in Outcomes, Retry(m, o) PROVE Typed'
  <2> DEFINE row == [kind |-> cycle[m].kind, outcome |-> o,
                     retry |-> cycle[m].attempt + 1, at |-> clock + 1]
  <2>0. Shape
    BY DEF Typed
  <2>1. cycle[m].attempt + 1 \in 0 .. TotalAttempts - 1
    BY <1>2, <2>0, RecordAssumption DEF Retry, Shape, Test
  <2>2. row \in Row /\ row.at = clock + 1
    BY <1>2, <2>0, <2>1, RecordIsRow DEF Retry
  <2>3. Enter(m, row, FALSE) /\ UNCHANGED <<rows, state, pruneVars, crashes>>
    BY <1>2 DEF Retry
  <2> HIDE DEF row
  <2> QED
    BY <2>2, <2>3, EnterTyped
<1>3. ASSUME NEW o \in Outcomes, Finish(m, o) PROVE Typed'
  <2> DEFINE row == [kind |-> cycle[m].kind, outcome |-> o,
                     retry |-> Final, at |-> clock + 1]
  <2>1. row \in Row /\ row.at = clock + 1
    BY <1>3, RecordIsRow, RecordAssumption DEF Finish, Final, Typed
  <2>2. Enter(m, row, TRUE) /\ UNCHANGED <<rows, state, pruneVars, crashes>>
    BY <1>3 DEF Finish
  <2> HIDE DEF row
  <2> QED
    BY <2>1, <2>2, EnterTyped
<1>4. CASE Interrupt(m)
  BY <1>4 DEF Interrupt, Typed, storeVars, pruneVars
<1> QED
  BY <1>1, <1>2, <1>3, <1>4 DEF TestStep

LEMMA FlushTyped ==
    ASSUME Typed, Shape', Flush
    PROVE  Typed'
<1>1. \A m \in Models : rows[m] \in Seq(Row) /\ buffer[m] \in Seq(Row)
  BY DEF Typed, Shape
<1>2. clock' = clock /\ clock \in Nat
  BY RecordAssumption DEF Flush, testVars, Typed, Shape
<1>3. latest' \in [Models -> Counted(clock)]
  BY <1>2, FreshIsCounted DEF Flush
<1>4. state' \in [Models -> Counted(clock)]
  BY DEF Flush, Typed
<1>5. ASSUME NEW m \in Models PROVE Len(rows'[m]) + Len(buffer'[m]) <= clock'
  <2>1. rows'[m] = rows[m] \o buffer[m] /\ buffer'[m] = <<>>
    BY DEF Flush, Stored
  <2>2. Len(rows'[m]) = Len(rows[m]) + Len(buffer[m]) /\ Len(buffer'[m]) = 0
    BY <1>1, <2>1
  <2>3. /\ Len(rows[m]) \in Nat /\ Len(buffer[m]) \in Nat
        /\ Len(rows[m]) + Len(buffer[m]) <= clock
    <3>1. Len(rows[m]) \in Nat /\ Len(buffer[m]) \in Nat
      BY <1>1
    <3> QED
      BY <3>1 DEF Typed
  <2>4. \A c, k, l \in Nat : k + l <= c => k + l + 0 <= c
    OBVIOUS
  <2>5. Len(rows[m]) + Len(buffer[m]) + 0 <= clock
    BY <1>2, <2>3, <2>4
  <2> QED
    BY <1>2, <2>2, <2>5
<1> QED
  BY <1>2, <1>3, <1>4, <1>5 DEF Flush, Typed, testVars, pruneVars

\* Rows only go away.
LEMMA FewerRowsTyped ==
    ASSUME Typed, NEW m \in Models, NEW kept \in Seq(Row), Len(kept) <= Len(rows[m])
    PROVE  Len(kept) + Len(buffer[m]) <= clock /\ Len(kept) <= clock
<1>1. Len(rows[m]) \in Nat /\ Len(buffer[m]) \in Nat /\ Len(kept) \in Nat /\ clock \in Nat
  BY RecordAssumption DEF Typed, Shape
<1>2. Len(rows[m]) + Len(buffer[m]) <= clock
  BY DEF Typed
<1>3. \A c, k, l, n \in Nat : k + l <= c /\ n <= k => n + l <= c /\ n <= c
  OBVIOUS
<1> QED
  BY <1>1, <1>2, <1>3

LEMMA DeleteOldTyped ==
    ASSUME Typed, Shape', NEW cutoff \in 2 .. MaxCutoff, DeleteOld(cutoff)
    PROVE  Typed'
<1>1. ASSUME NEW m \in Models PROVE Len(rows'[m]) + Len(buffer'[m]) <= clock'
  <2> DEFINE n == Cardinality({i \in DOMAIN rows[m] : rows[m][i].at < cutoff})
             kept == SubSeq(rows[m], n + 1, Len(rows[m]))
  <2>1. rows[m] \in Seq(Row)
    BY DEF Typed, Shape
  <2>2. n \in 0 .. Len(rows[m])
    BY <2>1, IndicesCount
  <2>3. rows'[m] = kept /\ buffer'[m] = buffer[m] /\ clock' = clock
    BY DEF DeleteOld, testVars
  <2> HIDE DEF n
  <2>4. kept \in Seq(Row) /\ Len(kept) <= Len(rows[m])
    BY <2>1, <2>2
  <2> HIDE DEF kept
  <2> QED
    BY <2>3, <2>4, FewerRowsTyped
<1>2. integrity' \in [Models -> {"whole", "pruned", "torn"}]
  BY DEF DeleteOld, Typed
<1> QED
  BY <1>1, <1>2 DEF DeleteOld, Typed, testVars, pruneVars

LEMMA DeleteTyped ==
    ASSUME Typed, Shape', NEW m \in Models, NEW n \in DOMAIN rows[m],
           Delete(m, SubSeq(rows[m], 1, n), rows[m][n].at)
    PROVE  Typed'
<1> DEFINE kept == SubSeq(rows[m], 1, n)
           ts == rows[m][n].at
<1>1. rows[m] \in Seq(Row)
  BY DEF Typed, Shape
<1>2. kept \in Seq(Row) /\ Len(kept) <= Len(rows[m])
  BY <1>1
<1>3. ts \in 0 .. MaxRecords
  <2>1. rows[m][n] \in Row
    BY <1>1
  <2> QED
    BY <2>1, RecordAssumption DEF Row
<1>4. Delete(m, kept, ts)
  OBVIOUS
<1> HIDE DEF kept, ts
<1>5. clock' = clock /\ clock \in Nat
  BY <1>4, RecordAssumption DEF Delete, testVars, Typed, Shape
<1>6. Recompute(kept) \in Counted(clock)
  <2>1. Recompute(kept) \in Counted(Len(kept)) /\ Len(kept) \in Nat
    BY <1>2, RecomputeIsCounted
  <2>2. Len(kept) <= clock
    BY <1>2, FewerRowsTyped
  <2> QED
    BY <1>5, <2>1, <2>2, CountedGrows
<1>7. state' \in [Models -> Counted(clock)]
  BY <1>4, <1>6 DEF Delete, Typed
<1>8. pruning' \in [Models -> Pruning(clock)]
  <2>1. pruning[m] \in Pruning(clock)
    BY DEF Typed
  <2>2. [pruning[m] EXCEPT !.stage = "sync", !.upTo = ts, !.found = Recompute(kept)]
            \in Pruning(clock)
    BY <1>3, <1>6, <2>1 DEF Pruning
  <2> QED
    BY <1>4, <2>2 DEF Delete, Typed
<1>9. integrity' \in [Models -> {"whole", "pruned", "torn"}]
  BY <1>4 DEF Delete, Typed
<1>10. ASSUME NEW x \in Models PROVE Len(rows'[x]) + Len(buffer'[x]) <= clock'
  <2>1. buffer'[x] = buffer[x]
    BY <1>4 DEF Delete
  <2>2. CASE x = m
    <3>1. rows'[x] = kept
      BY <1>4, <2>2 DEF Delete, Typed, Shape
    <3> QED
      BY <1>2, <1>5, <2>1, <2>2, <3>1, FewerRowsTyped
  <2>3. CASE x # m
    BY <1>4, <1>5, <2>1, <2>3 DEF Delete, Typed, Shape
  <2> QED
    BY <2>2, <2>3
<1> QED
  BY <1>4, <1>5, <1>7, <1>8, <1>9, <1>10 DEF Delete, Typed, testVars

LEMMA ArchiveTyped ==
    ASSUME Typed, Shape', NEW m \in Models, ArchiveStep(m)
    PROVE  Typed'
<1>1. clock \in Nat /\ Quiet \in Pruning(clock) /\ pruning[m] \in Pruning(clock)
  BY RecordAssumption, FreshIsCounted DEF Typed, Shape
<1>2. AfterPrune(m) \in Pruning(clock)
  BY <1>1 DEF AfterPrune, Pruning
<1>3. CASE AutoArchive(m) \/ DirectiveArchive(m)
  <2>1. pruning' \in [Models -> Pruning(clock)]
    <3> DEFINE due == [pruning EXCEPT ![m].stage = "due"]
    <3>1. pruning \in [Models -> Pruning(clock)]
      BY DEF Typed
    <3>2. due \in [Models -> Pruning(clock)]
      BY <3>1 DEF Pruning
    <3>3. PICK who \in {"auto", "directive"} : pruning' = [due EXCEPT ![m].by = who]
      BY <1>3 DEF AutoArchive, DirectiveArchive
    <3> HIDE DEF due
    <3> QED
      BY <3>2, <3>3 DEF Pruning
  <2>2. archived' \subseteq Models /\ prunes' \in 0 .. MaxPrunes
    BY <1>3, RecordAssumption DEF AutoArchive, DirectiveArchive, Typed
  <2> QED
    BY <1>3, <2>1, <2>2 DEF AutoArchive, DirectiveArchive, Typed, testVars, storeVars
<1>4. CASE LoadMarks(m) \/ Unarchive(m)
  <2>1. pruning' \in [Models -> Pruning(clock)] /\ archived' \subseteq Models
    BY <1>1, <1>4 DEF LoadMarks, Unarchive, Typed
  <2> QED
    BY <1>4, <2>1 DEF LoadMarks, Unarchive, Typed, testVars, storeVars
<1>5. CASE PruneRows(m)
  BY <1>5, DeleteTyped DEF PruneRows
<1>6. CASE PruneNothing(m)
  <2>1. pruning' \in [Models -> Pruning(clock)]
    BY <1>2, <1>6 DEF PruneNothing, Typed
  <2> QED
    BY <1>6, <2>1 DEF PruneNothing, Typed, testVars, storeVars
<1>7. CASE SyncCache(m)
  <2>1. pruning' \in [Models -> Pruning(clock)]
    BY <1>2, <1>7 DEF SyncCache, Typed
  <2>2. memory' \in [Models -> Counted(clock)]
    BY <1>1, <1>7 DEF SyncCache, Typed, Pruning
  <2>3. history' \in [Models -> Seq(Row)]
    BY <1>7, UpToIsSeq DEF SyncCache, Typed
  <2> QED
    BY <1>7, <2>1, <2>2, <2>3 DEF SyncCache, Typed, storeVars
<1> QED
  BY <1>3, <1>4, <1>5, <1>6, <1>7 DEF ArchiveStep

LEMMA ReconciledIsCounted ==
    ASSUME Typed, NEW m \in Models
    PROVE  /\ Reconciled(m) = [status |-> Replay(rows[m]).status,
                               source |-> Replay(rows[m]).source,
                               tests |-> state[m].tests, successes |-> state[m].successes]
           /\ Reconciled(m) \in Counted(clock)
           /\ Replay(rows[m]) = [status |-> Replay(rows[m]).status,
                                 source |-> Replay(rows[m]).source]
<1>1. Replay(rows[m]) \in Pair
  BY ReplayIsPair DEF Typed, Shape
<1>2. state[m] \in Counted(clock)
  BY DEF Typed
<1>3. Reconciled(m) = [status |-> Replay(rows[m]).status, source |-> Replay(rows[m]).source,
                       tests |-> state[m].tests, successes |-> state[m].successes]
  <2>1. state[m] = [status |-> state[m].status, source |-> state[m].source,
                    tests |-> state[m].tests, successes |-> state[m].successes]
    BY <1>2 DEF Counted
  <2> DEFINE pair == Replay(rows[m])
  <2>2. Reconciled(m) = [state[m] EXCEPT !.status = pair.status, !.source = pair.source]
    BY DEF Reconciled
  <2> HIDE DEF pair
  <2>3. Reconciled(m) = [status |-> pair.status, source |-> pair.source,
                         tests |-> state[m].tests, successes |-> state[m].successes]
    BY <2>1, <2>2
  <2> QED
    BY <2>3 DEF pair
<1> QED
  BY <1>1, <1>2, <1>3 DEF Pair, Counted

LEMMA RestartTyped ==
    ASSUME Typed, Shape', Restart
    PROVE  Typed'
<1>1. clock \in Nat /\ clock' = clock
  BY RecordAssumption DEF Typed, Shape, Restart
<1>2. state' \in [Models -> Counted(clock)] /\ memory' \in [Models -> Counted(clock)]
  BY ReconciledIsCounted DEF Restart
<1>3. latest' \in [Models -> Counted(clock)] /\ pruning' \in [Models -> Pruning(clock)]
  BY <1>1, FreshIsCounted DEF Restart
<1>4. history' \in [Models -> Seq(Row)]
  BY DEF Restart, Typed, Shape
<1>5. archived' \subseteq Models
  BY DEF Restart, Typed
<1>6. crashes' \in 0 .. MaxCrashes /\ prunes' \in 0 .. MaxPrunes
  BY RecordAssumption DEF Restart, Typed
<1>7. integrity' \in [Models -> {"whole", "pruned", "torn"}]
  BY DEF Restart, Typed
<1>8. ASSUME NEW m \in Models PROVE Len(rows'[m]) + Len(buffer'[m]) <= clock'
  <2>1. rows'[m] = rows[m] /\ buffer'[m] = <<>> /\ rows[m] \in Seq(Row)
    BY DEF Restart, Typed, Shape
  <2>2. Len(rows[m]) <= clock /\ Len(buffer'[m]) = 0
    BY <2>1, FewerRowsTyped
  <2> QED
    BY <1>1, <2>1, <2>2
<1> QED
  BY <1>1, <1>2, <1>3, <1>4, <1>5, <1>6, <1>7, <1>8 DEF Typed

LEMMA NextTyped == Typed /\ [Next]_vars => Typed'
<1> SUFFICES ASSUME Typed, [Next]_vars PROVE Typed'
  OBVIOUS
<1>1. Shape'
  BY NextShape DEF Typed
<1>2. CASE UNCHANGED vars
  BY <1>1, <1>2 DEF vars, testVars, storeVars, pruneVars, Typed
<1> QED
  BY <1>1, <1>2, TestTyped, ArchiveTyped, FlushTyped, DeleteOldTyped, RestartTyped DEF Next

-----------------------------------------------------------------------------
(* Rows and buffered rows are in the order of ts_epoch                      *)

Chronicle(m) ==
    /\ Ordered(rows[m]) /\ Ordered(buffer[m])
    /\ \A i \in DOMAIN rows[m] : rows[m][i].at <= clock
    /\ \A j \in DOMAIN buffer[m] : buffer[m][j].at <= clock
    /\ \A i \in DOMAIN rows[m], j \in DOMAIN buffer[m] : rows[m][i].at < buffer[m][j].at

LEMMA TimesAreNumbers ==
    ASSUME NEW seq \in Seq(Row)
    PROVE  \A i \in DOMAIN seq : i \in Nat /\ i \in 1 .. Len(seq) /\ seq[i].at \in Nat
<1>1. \A i \in DOMAIN seq : i \in Nat /\ i \in 1 .. Len(seq) /\ seq[i] \in Row
  OBVIOUS
<1>2. \A x \in Row : x.at \in Nat
  BY RecordAssumption DEF Row
<1> QED
  BY <1>1, <1>2

LEMMA EnterChronicle ==
    ASSUME Typed, NEW m \in Models, NEW row \in Row, row.at = clock + 1,
           NEW counted \in BOOLEAN, Enter(m, row, counted), rows' = rows,
           NEW x \in Models, Chronicle(x)
    PROVE  Chronicle(x)'
<1>1. /\ rows[x] \in Seq(Row) /\ buffer[x] \in Seq(Row)
      /\ clock \in Nat /\ clock' = clock + 1
      /\ rows'[x] = rows[x]
      /\ buffer'[x] = IF x = m THEN Append(buffer[x], row) ELSE buffer[x]
  BY RecordAssumption DEF Typed, Shape, Enter
<1> DEFINE r == rows[x]
           b == buffer[x]
           n == Append(b, row)
<1>2. /\ \A i \in DOMAIN r : i \in Nat /\ r[i].at \in Nat
      /\ \A i \in DOMAIN b : i \in 1 .. Len(b) /\ b[i].at \in Nat
  BY <1>1, TimesAreNumbers
<1>3. /\ Len(b) \in Nat /\ DOMAIN n = 1 .. Len(b) + 1 /\ DOMAIN b = 1 .. Len(b)
      /\ n[Len(b) + 1] = row
      /\ \A i \in 1 .. Len(b) : n[i] = b[i]
  BY <1>1
<1>4. /\ Ordered(r) /\ Ordered(b)
      /\ \A i \in DOMAIN r : r[i].at <= clock
      /\ \A j \in DOMAIN b : b[j].at <= clock
      /\ \A i \in DOMAIN r, j \in DOMAIN b : r[i].at < b[j].at
  BY DEF Chronicle
<1> HIDE DEF r, b, n
<1>5. \A i \in DOMAIN n : i \in 1 .. Len(b) \/ (i = Len(b) + 1 /\ n[i] = row)
  BY <1>3
<1>6. /\ \A i \in DOMAIN r : r[i].at <= clock + 1
      /\ \A i \in DOMAIN b : b[i].at <= clock + 1
  BY <1>1, <1>2, <1>4
<1>7. \A j \in DOMAIN n : n[j].at <= clock + 1
  BY <1>1, <1>3, <1>5, <1>6
<1>8. \A i \in DOMAIN r, j \in DOMAIN n : r[i].at < n[j].at
  BY <1>1, <1>2, <1>3, <1>4, <1>5
<1>9. Ordered(n)
  <2> SUFFICES ASSUME NEW i \in DOMAIN n, NEW j \in DOMAIN n, i < j
               PROVE  n[i].at < n[j].at
    BY DEF Ordered
  <2>1. i \in 1 .. Len(b) /\ i \in DOMAIN b /\ n[i] = b[i]
    BY <1>3, <1>5
  <2>2. CASE j \in 1 .. Len(b)
    BY <1>3, <1>4, <2>1, <2>2 DEF Ordered
  <2>3. CASE j = Len(b) + 1
    BY <1>1, <1>2, <1>3, <1>4, <2>1, <2>3
  <2> QED
    BY <1>5, <2>2, <2>3
<1>10. CASE x = m
  <2>1. rows'[x] = r /\ buffer'[x] = n
    BY <1>1, <1>10 DEF r, b, n
  <2> QED
    BY <1>1, <1>4, <1>6, <1>7, <1>8, <1>9, <2>1 DEF Chronicle
<1>11. CASE x # m
  <2>1. rows'[x] = r /\ buffer'[x] = b
    BY <1>1, <1>11 DEF r, b
  <2> QED
    BY <1>1, <1>4, <1>6, <2>1 DEF Chronicle
<1> QED
  BY <1>10, <1>11

\* A flush puts the buffered rows behind those that are stored.
LEMMA FlushChronicle ==
    ASSUME Typed, Flush, NEW x \in Models, Chronicle(x)
    PROVE  Chronicle(x)'
<1> DEFINE r == rows[x]
           b == buffer[x]
           n == r \o b
<1>1. r \in Seq(Row) /\ b \in Seq(Row)
  BY DEF Typed, Shape
<1>2. rows'[x] = n /\ buffer'[x] = <<>> /\ clock' = clock
  BY DEF Flush, Stored, testVars
<1>3. /\ Len(r) \in Nat /\ Len(b) \in Nat
      /\ DOMAIN r = 1 .. Len(r) /\ DOMAIN b = 1 .. Len(b)
      /\ DOMAIN n = 1 .. Len(r) + Len(b)
      /\ \A i \in DOMAIN n : n[i] = IF i <= Len(r) THEN r[i] ELSE b[i - Len(r)]
  <2>1. /\ n \in Seq(Row) /\ Len(n) = Len(r) + Len(b)
        /\ \A i \in 1 .. Len(r) + Len(b) :
              n[i] = IF i <= Len(r) THEN r[i] ELSE b[i - Len(r)]
    BY <1>1, ConcatProperties
  <2>2. /\ Len(r) \in Nat /\ Len(b) \in Nat
        /\ DOMAIN r = 1 .. Len(r) /\ DOMAIN b = 1 .. Len(b)
    BY <1>1, LenProperties
  <2>3. DOMAIN n = 1 .. Len(n)
    BY <2>1, LenProperties
  <2> HIDE DEF r, b, n
  <2> QED
    BY <2>1, <2>2, <2>3
<1>4. /\ Ordered(r) /\ Ordered(b)
      /\ \A i \in DOMAIN r : r[i].at <= clock
      /\ \A j \in DOMAIN b : b[j].at <= clock
      /\ \A i \in DOMAIN r, j \in DOMAIN b : r[i].at < b[j].at
  BY DEF Chronicle
<1> HIDE DEF r, b, n
<1>5. \A i \in DOMAIN n : \/ i <= Len(r) /\ i \in DOMAIN r /\ n[i] = r[i]
                          \/ i > Len(r) /\ i - Len(r) \in DOMAIN b /\ n[i] = b[i - Len(r)]
  BY <1>3
<1>6. \A i \in DOMAIN n : n[i].at <= clock
  BY <1>4, <1>5
<1>7. Ordered(n)
  <2> SUFFICES ASSUME NEW i \in DOMAIN n, NEW j \in DOMAIN n, i < j
               PROVE  n[i].at < n[j].at
    BY DEF Ordered
  <2>0. i \in Nat /\ j \in Nat /\ Len(r) \in Nat
    BY <1>3
  <2>1. CASE j <= Len(r)
    <3>1. i \in DOMAIN r /\ n[i] = r[i] /\ j \in DOMAIN r /\ n[j] = r[j]
      BY <1>5, <2>0, <2>1
    <3> QED
      BY <1>4, <3>1 DEF Ordered
  <2>2. CASE i <= Len(r) /\ j > Len(r)
    <3>1. i \in DOMAIN r /\ n[i] = r[i]
      BY <1>5, <2>0, <2>2
    <3>2. j - Len(r) \in DOMAIN b /\ n[j] = b[j - Len(r)]
      BY <1>5, <2>0, <2>2
    <3> QED
      BY <1>4, <3>1, <3>2
  <2>3. CASE i > Len(r)
    <3>1. i - Len(r) \in DOMAIN b /\ n[i] = b[i - Len(r)]
      BY <1>5, <2>0, <2>3
    <3>2. j - Len(r) \in DOMAIN b /\ n[j] = b[j - Len(r)]
      BY <1>5, <2>0, <2>3
    <3>3. i - Len(r) < j - Len(r)
      BY <2>0
    <3> QED
      BY <1>4, <3>1, <3>2, <3>3 DEF Ordered
  <2> QED
    BY <2>0, <2>1, <2>2, <2>3
<1>8. DOMAIN <<>> = {} /\ Ordered(<<>>)
  <2>1. DOMAIN <<>> = {}
    OBVIOUS
  <2> QED
    BY <2>1 DEF Ordered
<1> QED
  BY <1>2, <1>6, <1>7, <1>8 DEF Chronicle

\* Rows that are left when others go keep their order.
LEMMA RestChronicle ==
    ASSUME Typed, NEW x \in Models, Chronicle(x), clock' = clock,
           buffer'[x] = buffer[x] \/ buffer'[x] = <<>>,
           NEW k \in Nat, NEW l \in Nat, k + l <= Len(rows[x]),
           rows'[x] = SubSeq(rows[x], k + 1, k + l)
    PROVE  Chronicle(x)'
<1> DEFINE r == rows[x]
           b == buffer[x]
           n == SubSeq(r, k + 1, k + l)
<1>1. r \in Seq(Row) /\ b \in Seq(Row)
  BY DEF Typed, Shape
<1>2. /\ Len(r) \in Nat /\ DOMAIN r = 1 .. Len(r)
      /\ DOMAIN n = 1 .. l
      /\ \A i \in 1 .. l : n[i] = r[k + i] /\ k + i \in 1 .. Len(r)
  <2>1. Len(r) \in Nat /\ DOMAIN r = 1 .. Len(r)
    BY <1>1
  <2>2. k + l <= Len(r)
    OBVIOUS
  <2>3. DOMAIN n = 1 .. l
    BY <1>1, <2>1, <2>2
  <2>4. ASSUME NEW i \in 1 .. l PROVE n[i] = r[k + i] /\ k + i \in 1 .. Len(r)
    BY <1>1, <2>1, <2>2
  <2> QED
    BY <2>1, <2>3, <2>4
<1>3. /\ Ordered(r) /\ Ordered(b)
      /\ \A i \in DOMAIN r : r[i].at <= clock
      /\ \A j \in DOMAIN b : b[j].at <= clock
      /\ \A i \in DOMAIN r, j \in DOMAIN b : r[i].at < b[j].at
  BY DEF Chronicle
<1>4. rows'[x] = n /\ (buffer'[x] = b \/ buffer'[x] = <<>>)
  OBVIOUS
<1> HIDE DEF r, b, n
<1>5. \A i \in DOMAIN n : k + i \in DOMAIN r /\ n[i] = r[k + i]
  BY <1>2
<1>6. Ordered(n)
  <2> SUFFICES ASSUME NEW i \in DOMAIN n, NEW j \in DOMAIN n, i < j
               PROVE  n[i].at < n[j].at
    BY DEF Ordered
  <2>1. k + i < k + j
    BY <1>2
  <2> QED
    BY <1>3, <1>5, <2>1 DEF Ordered
<1>7. DOMAIN <<>> = {} /\ Ordered(<<>>)
  <2>1. DOMAIN <<>> = {}
    OBVIOUS
  <2> QED
    BY <2>1 DEF Ordered
<1> QED
  BY <1>3, <1>4, <1>5, <1>6, <1>7 DEF Chronicle

-----------------------------------------------------------------------------
(* Memory, rows and state agree                                             *)

PairOf(s) == [status |-> s.status, source |-> s.source]

Counts(s, seq) ==
    /\ s.tests = Cardinality(Finals(seq))
    /\ s.successes = Cardinality(Successes(seq))

\* Memory is what the rows amount to, between a prune and its sync too: until the
\* cache is synced it is the database that is ahead of the memory.
Agree(m) ==
    /\ integrity[m] # "torn" /\ pruning[m].stage # "sync" =>
         /\ Replay(Stored(m)) = PairOf(memory[m])
         /\ history[m] = Stored(m)
         /\ buffer[m] = <<>> => state[m] = memory[m]
    /\ integrity[m] # "torn" /\ pruning[m].stage = "sync" =>
         /\ buffer[m] = <<>>
         /\ pruning[m].found = Recompute(rows[m])
         /\ state[m] = pruning[m].found
         /\ UpTo(history[m], pruning[m].upTo) = rows[m]
    /\ integrity[m] # "torn" /\ buffer[m] # <<>> => latest[m] = memory[m]
    /\ integrity[m] = "whole" =>
         /\ pruning[m].stage # "sync"
         /\ Counts(memory[m], Stored(m))
         /\ Counts(state[m], rows[m])

Sound == Typed /\ \A m \in Models : Chronicle(m) /\ Agree(m)

\* What leaves a model alone leaves its agreement alone.
LEMMA FrameAgrees ==
    ASSUME NEW x, Agree(x),
           memory'[x] = memory[x], history'[x] = history[x],
           buffer'[x] = buffer[x], latest'[x] = latest[x],
           rows'[x] = rows[x], state'[x] = state[x],
           pruning'[x] = pruning[x], integrity'[x] = integrity[x]
    PROVE  Agree(x)'
BY DEF Agree, Stored

\* The same when only the stage of a prune moves that is not at its sync.
LEMMA StageAgrees ==
    ASSUME NEW x, Agree(x),
           memory'[x] = memory[x], history'[x] = history[x],
           buffer'[x] = buffer[x], latest'[x] = latest[x],
           rows'[x] = rows[x], state'[x] = state[x], integrity'[x] = integrity[x],
           pruning[x].stage # "sync", pruning'[x].stage # "sync"
    PROVE  Agree(x)'
BY DEF Agree, Stored

LEMMA StoredAppends ==
    ASSUME NEW r \in Seq(Row), NEW b \in Seq(Row), NEW row \in Row
    PROVE  /\ r \o b \in Seq(Row)
           /\ r \o Append(b, row) = Append(r \o b, row)
           /\ Append(b, row) # <<>>
<1>1. r \o b \in Seq(Row)
  BY ConcatProperties
<1>2. Append(b, row) = b \o <<row>> /\ Append(r \o b, row) = (r \o b) \o <<row>>
  BY <1>1, AppendIsConcat
<1>3. <<row>> \in Seq(Row)
  OBVIOUS
<1>4. r \o (b \o <<row>>) = (r \o b) \o <<row>>
  BY <1>3, ConcatAssociative
<1>5. Append(b, row) # <<>>
  OBVIOUS
<1> QED
  BY <1>1, <1>2, <1>4, <1>5

\* A record keeps the agreement, or it tears the model when it meets a prune.
LEMMA EnterAgrees ==
    ASSUME Typed, NEW m \in Models, NEW row \in Row,
           NEW counted \in BOOLEAN, counted <=> IsFinal(row),
           Enter(m, row, counted), UNCHANGED <<rows, state, pruneVars>>,
           NEW x \in Models, Agree(x)
    PROVE  Agree(x)'
<1>0. /\ rows[x] \in Seq(Row) /\ buffer[x] \in Seq(Row)
      /\ memory[x] \in Counted(clock)
      /\ rows'[x] = rows[x] /\ state'[x] = state[x] /\ pruning'[x] = pruning[x]
  BY DEF Typed, Shape, pruneVars
<1>1. CASE x # m
  <2>1. /\ memory'[x] = memory[x] /\ history'[x] = history[x]
        /\ buffer'[x] = buffer[x] /\ latest'[x] = latest[x]
        /\ integrity'[x] = integrity[x]
    BY <1>1 DEF Enter, Typed, Shape
  <2> QED
    BY <1>0, <2>1, FrameAgrees
<1>2. CASE x = m /\ (integrity[x] = "torn" \/ pruning[x].stage = "sync")
  <2>1. integrity'[x] = "torn"
    BY <1>2 DEF Enter, Typed
  <2> QED
    BY <2>1 DEF Agree
<1>3. CASE x = m /\ integrity[x] # "torn" /\ pruning[x].stage # "sync"
  <2> DEFINE s == Derive(memory[x], row)
             entry == [status |-> s.status, source |-> s.source,
                       tests |-> memory[x].tests + (IF counted THEN 1 ELSE 0),
                       successes |-> memory[x].successes
                                     + (IF counted /\ Succeeded(row) THEN 1 ELSE 0)]
  <2>1. /\ memory'[x] = entry /\ latest'[x] = entry
        /\ history'[x] = Append(history[x], row)
        /\ buffer'[x] = Append(buffer[x], row)
        /\ integrity'[x] = integrity[x]
    BY <1>3 DEF Enter, Typed, Shape
  <2>2. s \in Pair
    BY DeriveIsPair
  <2>3. /\ entry.status = s.status /\ entry.source = s.source
        /\ entry.tests = memory[x].tests + (IF counted THEN 1 ELSE 0)
        /\ entry.successes = memory[x].successes
                             + (IF counted /\ Succeeded(row) THEN 1 ELSE 0)
    OBVIOUS
  <2>4. PairOf(entry) = s
    BY <2>2, <2>3 DEF PairOf, Pair
  <2> HIDE DEF entry
  <2>5. /\ Stored(x) \in Seq(Row)
        /\ Stored(x)' = Append(Stored(x), row)
        /\ buffer'[x] # <<>>
    <3>1. /\ rows[x] \o buffer[x] \in Seq(Row)
          /\ rows[x] \o Append(buffer[x], row) = Append(rows[x] \o buffer[x], row)
          /\ Append(buffer[x], row) # <<>>
      <4>1. rows[x] \in Seq(Row) /\ buffer[x] \in Seq(Row)
        BY <1>0
      <4> QED
        BY <4>1, StoredAppends, Zenon
    <3>2. Stored(x) = rows[x] \o buffer[x]
      BY DEF Stored
    <3>3. Stored(x)' = rows'[x] \o buffer'[x]
      BY DEF Stored
    <3>4. rows'[x] = rows[x] /\ buffer'[x] = Append(buffer[x], row)
      BY <1>0, <2>1
    <3> QED
      BY <3>1, <3>2, <3>3, <3>4
  <2>6. Replay(Stored(x)) = PairOf(memory[x]) /\ history[x] = Stored(x)
    BY <1>3 DEF Agree
  <2>7. Replay(Stored(x)') = PairOf(memory'[x])
    <3>1. Replay(Stored(x)') = Derive(Replay(Stored(x)), row)
      BY <2>5, ReplayAppend
    <3>2. Replay(Stored(x)).source = memory[x].source
      BY <2>6 DEF PairOf
    <3>3. Derive(Replay(Stored(x)), row) = s
      BY <3>2, DeriveLooksAtSource
    <3> QED
      BY <2>1, <2>4, <3>1, <3>3
  <2>8. ASSUME integrity[x] = "whole"
        PROVE  Counts(memory'[x], Stored(x)') /\ Counts(state'[x], rows'[x])
    <3>1. Counts(memory[x], Stored(x)) /\ Counts(state[x], rows[x])
      BY <2>8 DEF Agree
    <3>2. /\ Cardinality(Finals(Stored(x)'))
                = Cardinality(Finals(Stored(x))) + (IF counted THEN 1 ELSE 0)
          /\ Cardinality(Successes(Stored(x)'))
                = Cardinality(Successes(Stored(x)))
                  + (IF counted /\ Succeeded(row) THEN 1 ELSE 0)
      BY <2>5, FinalsAppend
    <3>3. Counts(memory'[x], Stored(x)')
      BY <2>1, <2>3, <3>1, <3>2 DEF Counts
    <3> QED
      BY <1>0, <3>1, <3>3
  <2>9. integrity'[x] # "torn" /\ pruning'[x].stage # "sync"
    BY <1>0, <1>3, <2>1
  <2>10. history'[x] = Stored(x)' /\ buffer'[x] # <<>> /\ latest'[x] = memory'[x]
    BY <2>1, <2>5, <2>6
  <2>11. integrity'[x] = "whole" => /\ Counts(memory'[x], Stored(x)')
                                    /\ Counts(state'[x], rows'[x])
    BY <2>1, <2>8
  <2> QED
    BY <2>7, <2>9, <2>10, <2>11 DEF Agree, PairOf, Counts
<1> QED
  BY <1>1, <1>2, <1>3

LEMMA TestAgrees ==
    ASSUME Typed, NEW m \in Models, TestStep(m),
           NEW x \in Models, Chronicle(x), Agree(x)
    PROVE  Chronicle(x)' /\ Agree(x)'
<1>0. Shape
  BY DEF Typed
<1>1. ASSUME NEW o \in Outcomes, Retry(m, o) PROVE Chronicle(x)' /\ Agree(x)'
  <2> DEFINE row == [kind |-> cycle[m].kind, outcome |-> o,
                     retry |-> cycle[m].attempt + 1, at |-> clock + 1]
  <2>1. cycle[m].attempt + 1 \in 0 .. TotalAttempts - 1 /\ cycle[m].attempt + 1 # Final
    BY <1>0, <1>1, RecordAssumption DEF Retry, Shape, Test, Final
  <2>2. row \in Row /\ row.at = clock + 1 /\ ~IsFinal(row)
    BY <1>0, <1>1, <2>1, RecordIsRow DEF Retry, IsFinal
  <2>3. Enter(m, row, FALSE) /\ UNCHANGED <<rows, state, pruneVars>>
    BY <1>1 DEF Retry
  <2> HIDE DEF row
  <2>4. Chronicle(x)'
    BY <2>2, <2>3, EnterChronicle
  <2>5. Agree(x)'
    BY <2>2, <2>3, EnterAgrees
  <2> QED
    BY <2>4, <2>5
<1>2. ASSUME NEW o \in Outcomes, Finish(m, o) PROVE Chronicle(x)' /\ Agree(x)'
  <2> DEFINE row == [kind |-> cycle[m].kind, outcome |-> o,
                     retry |-> Final, at |-> clock + 1]
  <2>1. row \in Row /\ row.at = clock + 1 /\ IsFinal(row)
    BY <1>0, <1>2, RecordIsRow, RecordAssumption DEF Finish, Final, IsFinal
  <2>2. Enter(m, row, TRUE) /\ UNCHANGED <<rows, state, pruneVars>>
    BY <1>2 DEF Finish
  <2> HIDE DEF row
  <2>3. Chronicle(x)'
    BY <2>1, <2>2, EnterChronicle
  <2>4. Agree(x)'
    BY <2>1, <2>2, EnterAgrees
  <2> QED
    BY <2>3, <2>4
<1>3. CASE Interrupt(m) \/ \E k \in Kinds : Begin(m, k)
  <2>1. UNCHANGED <<memory, history, clock, storeVars, pruneVars, crashes, integrity>>
    BY <1>3 DEF Interrupt, Begin
  <2>2. Agree(x)'
    BY <2>1, FrameAgrees DEF storeVars, pruneVars
  <2>3. Chronicle(x)'
    BY <2>1 DEF storeVars, Chronicle
  <2> QED
    BY <2>2, <2>3
<1> QED
  BY <1>1, <1>2, <1>3 DEF TestStep

\* A flush takes the state of the last record with the rows.
LEMMA FlushAgrees ==
    ASSUME Typed, Flush, NEW x \in Models, Agree(x)
    PROVE  Agree(x)'
<1>1. rows[x] \in Seq(Row) /\ buffer[x] \in Seq(Row)
  BY DEF Typed, Shape
<1>2. /\ memory'[x] = memory[x] /\ history'[x] = history[x]
      /\ pruning'[x] = pruning[x] /\ integrity'[x] = integrity[x]
  BY DEF Flush, testVars, pruneVars
<1>3. /\ rows'[x] = Stored(x) /\ buffer'[x] = <<>>
      /\ state'[x] = IF buffer[x] = <<>> THEN state[x] ELSE latest[x]
  BY DEF Flush
<1>4. Stored(x) \in Seq(Row)
  BY <1>1, ConcatProperties DEF Stored
<1>5. Stored(x)' = Stored(x)
  <2>1. Stored(x)' = rows'[x] \o buffer'[x]
    BY DEF Stored
  <2>2. Stored(x) \o <<>> = Stored(x)
    BY <1>4, ConcatEmptySeq
  <2> QED
    BY <1>3, <2>1, <2>2
<1>6. buffer[x] = <<>> => Stored(x) = rows[x]
  BY <1>1, ConcatEmptySeq DEF Stored
<1>7. CASE integrity[x] # "torn" /\ pruning[x].stage # "sync"
  <2>1. state'[x] = memory[x]
    BY <1>3, <1>7 DEF Agree
  <2>2. Replay(Stored(x)') = PairOf(memory'[x]) /\ history'[x] = Stored(x)'
    BY <1>2, <1>5, <1>7 DEF Agree
  <2>3. integrity[x] = "whole" => /\ Counts(memory'[x], Stored(x)')
                                  /\ Counts(state'[x], rows'[x])
    BY <1>2, <1>3, <1>5, <2>1 DEF Agree
  <2> QED
    BY <1>2, <1>3, <1>7, <2>1, <2>2, <2>3 DEF Agree
<1>8. CASE integrity[x] # "torn" /\ pruning[x].stage = "sync"
  <2>1. buffer[x] = <<>> /\ integrity[x] # "whole"
    BY <1>8 DEF Agree
  <2>2. rows'[x] = rows[x] /\ state'[x] = state[x] /\ buffer'[x] = <<>>
    BY <1>3, <1>6, <2>1
  <2> QED
    BY <1>2, <1>8, <2>1, <2>2 DEF Agree
<1>9. CASE integrity[x] = "torn"
  BY <1>2, <1>9 DEF Agree
<1> QED
  BY <1>7, <1>8, <1>9

\* Retention leaves a model as it is, or it tears it.
LEMMA DeleteOldAgrees ==
    ASSUME Typed, NEW cutoff \in 2 .. MaxCutoff, DeleteOld(cutoff),
           NEW x \in Models, Chronicle(x), Agree(x)
    PROVE  Chronicle(x)' /\ Agree(x)'
<1> DEFINE old == {i \in DOMAIN rows[x] : rows[x][i].at < cutoff}
           n == Cardinality(old)
<1>1. rows[x] \in Seq(Row) /\ Len(rows[x]) \in Nat
  BY DEF Typed, Shape
<1>2. n \in 0 .. Len(rows[x])
  BY <1>1, IndicesCount
<1>3. /\ rows'[x] = SubSeq(rows[x], n + 1, Len(rows[x]))
      /\ integrity'[x] = IF old = {} THEN integrity[x] ELSE "torn"
      /\ UNCHANGED <<memory, history, clock, buffer, latest, state, pruning>>
  BY DEF DeleteOld, testVars, pruneVars
<1>4. old = {} => n = 0
  BY FS_EmptySet
<1> HIDE DEF n, old
<1>5. Chronicle(x)'
  <2> DEFINE l == Len(rows[x]) - n
  <2>1. n \in Nat /\ l \in Nat /\ n + l = Len(rows[x]) /\ n + l <= Len(rows[x])
    BY <1>1, <1>2
  <2> HIDE DEF l
  <2>2. rows'[x] = SubSeq(rows[x], n + 1, n + l)
    BY <1>3, <2>1
  <2> QED
    BY <1>3, <2>1, <2>2, RestChronicle
<1>6. CASE old = {}
  <2>1. rows'[x] = rows[x]
    BY <1>1, <1>3, <1>4, <1>6
  <2> QED
    BY <1>3, <1>5, <1>6, <2>1, FrameAgrees
<1>7. CASE old # {}
  <2>1. integrity'[x] = "torn"
    BY <1>3, <1>7
  <2> QED
    BY <1>5, <2>1 DEF Agree
<1> QED
  BY <1>6, <1>7

\* A restart finds what the rows amount to.
LEMMA RestartAgrees ==
    ASSUME Typed, Restart, NEW x \in Models, Chronicle(x), Agree(x)
    PROVE  Chronicle(x)' /\ Agree(x)'
<1>1. rows[x] \in Seq(Row) /\ Len(rows[x]) \in Nat
  BY DEF Typed, Shape
<1>2. /\ state'[x] = Reconciled(x) /\ memory'[x] = Reconciled(x)
      /\ history'[x] = rows[x] /\ rows'[x] = rows[x] /\ buffer'[x] = <<>>
      /\ clock' = clock /\ pruning'[x].stage = "idle"
      /\ integrity'[x] # "torn"
      /\ integrity'[x] = "whole" => integrity[x] = "whole"
  BY DEF Restart, Quiet, Typed
<1>3. Stored(x)' = rows[x]
  BY <1>1, <1>2, ConcatEmptySeq DEF Stored
<1>4. /\ Replay(rows[x]) = PairOf(Reconciled(x))
      /\ Reconciled(x).tests = state[x].tests
      /\ Reconciled(x).successes = state[x].successes
  <2> DEFINE pair == Replay(rows[x])
             found == Reconciled(x)
  <2>1. /\ found = [status |-> pair.status, source |-> pair.source,
                    tests |-> state[x].tests, successes |-> state[x].successes]
        /\ pair = [status |-> pair.status, source |-> pair.source]
    BY ReconciledIsCounted
  <2> HIDE DEF pair, found
  <2>2. /\ found.status = pair.status /\ found.source = pair.source
        /\ found.tests = state[x].tests /\ found.successes = state[x].successes
    BY <2>1
  <2>3. pair = [status |-> found.status, source |-> found.source]
    BY <2>1, <2>2
  <2> QED
    BY <2>2, <2>3 DEF pair, found, PairOf
<1>5. integrity[x] = "whole" => Counts(Reconciled(x), rows[x])
  BY <1>4 DEF Agree, Counts
<1>6. Agree(x)'
  BY <1>2, <1>3, <1>4, <1>5 DEF Agree
<1>7. Chronicle(x)'
  <2> DEFINE l == Len(rows[x])
  <2>1. SubSeq(rows[x], 1, l) = rows[x]
    BY <1>1
  <2>2. 0 + 1 = 1 /\ 0 + l = l /\ l \in Nat /\ 0 + l <= l
    BY <1>1
  <2>3. rows'[x] = SubSeq(rows[x], 0 + 1, 0 + l)
    BY <1>2, <2>1, <2>2
  <2> QED
    BY <1>2, <2>2, <2>3, RestChronicle
<1> QED
  BY <1>6, <1>7

\* A prune that meets no buffered record leaves the database with what the rows
\* that are left amount to, and the memory one sync behind.
LEMMA PruneRowsAgrees ==
    ASSUME Typed, NEW m \in Models, PruneRows(m),
           NEW x \in Models, Chronicle(x), Agree(x)
    PROVE  Chronicle(x)' /\ Agree(x)'
<1>1. PICK n \in DOMAIN rows[m] : Delete(m, SubSeq(rows[m], 1, n), rows[m][n].at)
  BY DEF PruneRows
<1> DEFINE kept == SubSeq(rows[m], 1, n)
           ts == rows[m][n].at
<1>2. rows[m] \in Seq(Row) /\ Len(rows[m]) \in Nat /\ n \in 1 .. Len(rows[m])
  BY DEF Typed, Shape
<1>3. Delete(m, kept, ts)
  BY <1>1
<1>4. pruning[m].stage = "due"
  BY DEF PruneRows
<1>5. UNCHANGED <<memory, history, clock, buffer, latest>>
  BY <1>3 DEF Delete, testVars
<1>6. CASE x # m
  <2>1. /\ rows'[x] = rows[x] /\ state'[x] = state[x]
        /\ pruning'[x] = pruning[x] /\ integrity'[x] = integrity[x]
    BY <1>3, <1>6 DEF Delete, Typed, Shape
  <2>2. Agree(x)'
    BY <1>5, <2>1, FrameAgrees
  <2>3. Chronicle(x)'
    BY <1>5, <2>1 DEF Chronicle
  <2> QED
    BY <2>2, <2>3
<1>7. CASE x = m
  <2>1. /\ rows'[x] = kept /\ state'[x] = Recompute(kept)
        /\ integrity'[x] = IF buffer[x] # <<>> \/ integrity[x] = "torn"
                           THEN "torn" ELSE "pruned"
    BY <1>3, <1>7 DEF Delete, Typed, Shape
  <2>2. /\ pruning'[x].stage = "sync" /\ pruning'[x].upTo = ts
        /\ pruning'[x].found = Recompute(kept)
    <3>1. pruning[x] \in Pruning(clock)
      BY DEF Typed
    <3>2. pruning'[x] = [pruning[x] EXCEPT !.stage = "sync", !.upTo = ts,
                                           !.found = Recompute(kept)]
      BY <1>3, <1>7 DEF Delete, Typed
    <3> HIDE DEF kept, ts
    <3> QED
      BY <3>1, <3>2 DEF Pruning
  <2>3. Chronicle(x)'
    <3>1. n \in Nat /\ 0 + n <= Len(rows[x]) /\ 0 + 1 = 1 /\ 0 + n = n
      BY <1>2, <1>7
    <3>2. rows'[x] = SubSeq(rows[x], 0 + 1, 0 + n)
      BY <1>7, <2>1, <3>1
    <3> QED
      BY <1>5, <3>1, <3>2, RestChronicle
  <2>4. CASE buffer[x] # <<>> \/ integrity[x] = "torn"
    BY <2>1, <2>3, <2>4 DEF Agree
  <2>5. CASE buffer[x] = <<>> /\ integrity[x] # "torn"
    <3>1. history[x] = rows[x]
      <4>1. history[x] = rows[x] \o buffer[x]
        BY <1>4, <1>7, <2>5 DEF Agree, Stored
      <4> QED
        BY <1>2, <1>7, <2>5, <4>1, ConcatEmptySeq
    <3>2. UpTo(rows[x], ts) = kept
      BY <1>2, <1>7, UpToIsPrefix DEF Chronicle
    <3>3. integrity'[x] = "pruned" /\ buffer'[x] = <<>> /\ history'[x] = rows[x]
      BY <1>5, <2>1, <2>5, <3>1
    <3> HIDE DEF kept, ts
    <3>4. Agree(x)'
      BY <2>1, <2>2, <3>2, <3>3 DEF Agree
    <3> QED
      BY <2>3, <3>4
  <2> QED
    BY <2>4, <2>5
<1> QED
  BY <1>6, <1>7

\* The sync brings the memory to what the prune found.
LEMMA SyncAgrees ==
    ASSUME Typed, NEW m \in Models, SyncCache(m), NEW x \in Models, Agree(x)
    PROVE  Agree(x)'
<1>1. /\ pruning[m].stage = "sync"
      /\ memory' = [memory EXCEPT ![m] = pruning[m].found]
      /\ history' = [history EXCEPT ![m] = UpTo(history[m], pruning[m].upTo)]
      /\ pruning' = [pruning EXCEPT ![m] = AfterPrune(m)]
      /\ UNCHANGED <<buffer, latest, rows, state, integrity>>
  BY DEF SyncCache, storeVars
<1>2. CASE x # m
  <2>1. memory'[x] = memory[x] /\ history'[x] = history[x] /\ pruning'[x] = pruning[x]
    BY <1>1, <1>2 DEF Typed
  <2> QED
    BY <1>1, <2>1, FrameAgrees
<1>3. CASE x = m /\ integrity[x] = "torn"
  BY <1>1, <1>3 DEF Agree
<1>4. CASE x = m /\ integrity[x] # "torn"
  <2>1. /\ buffer[x] = <<>> /\ state[x] = pruning[x].found
        /\ pruning[x].found = Recompute(rows[x])
        /\ UpTo(history[x], pruning[x].upTo) = rows[x]
        /\ integrity[x] # "whole"
    BY <1>1, <1>4 DEF Agree
  <2>2. memory'[x] = pruning[x].found /\ history'[x] = rows[x]
    BY <1>1, <1>4, <2>1 DEF Typed
  <2>3. pruning'[x].stage # "sync"
    BY <1>1, <1>4 DEF Typed, AfterPrune, Quiet
  <2>4. rows[x] \in Seq(Row)
    BY DEF Typed, Shape
  <2>5. Stored(x)' = rows[x]
    <3>1. Stored(x)' = rows'[x] \o buffer'[x]
      BY DEF Stored
    <3>2. rows[x] \o <<>> = rows[x]
      BY <2>4, ConcatEmptySeq
    <3>3. rows'[x] = rows[x] /\ buffer'[x] = <<>>
      BY <1>1, <2>1
    <3> QED
      BY <3>1, <3>2, <3>3
  <2>6. Replay(rows[x]) = PairOf(Recompute(rows[x]))
    BY <2>4, RecomputeIsCounted DEF PairOf
  <2>7. Replay(Stored(x)') = PairOf(memory'[x])
    BY <2>1, <2>2, <2>5, <2>6
  <2>8. /\ buffer'[x] = <<>> /\ state'[x] = memory'[x]
        /\ integrity'[x] # "whole" /\ history'[x] = Stored(x)'
    BY <1>1, <2>1, <2>2, <2>5
  <2> QED
    BY <2>3, <2>7, <2>8 DEF Agree
<1> QED
  BY <1>2, <1>3, <1>4

LEMMA ArchiveAgrees ==
    ASSUME Typed, NEW m \in Models, ArchiveStep(m),
           NEW x \in Models, Chronicle(x), Agree(x)
    PROVE  Chronicle(x)' /\ Agree(x)'
<1>1. CASE \/ AutoArchive(m) \/ DirectiveArchive(m) \/ LoadMarks(m) \/ Unarchive(m)
           \/ PruneNothing(m)
  <2>1. UNCHANGED <<memory, history, clock, buffer, latest, rows, state, integrity>>
    BY <1>1 DEF AutoArchive, DirectiveArchive, LoadMarks, Unarchive, PruneNothing,
                testVars, storeVars
  <2>2. \/ pruning'[x] = pruning[x]
        \/ pruning[x].stage # "sync" /\ pruning'[x].stage # "sync"
    <3>1. CASE AutoArchive(m) \/ DirectiveArchive(m)
      <4>1. x # m => pruning'[x] = pruning[x]
        BY <3>1 DEF AutoArchive, DirectiveArchive, Typed
      <4>2. pruning[m] = Quiet /\ pruning[m].stage # "sync"
        BY <3>1 DEF AutoArchive, DirectiveArchive, Quiet
      <4>3. pruning'[m].stage = "due"
        <5> DEFINE due == [pruning EXCEPT ![m].stage = "due"]
        <5>1. due \in [Models -> Pruning(clock)] /\ due[m].stage = "due"
          BY DEF Typed, Pruning
        <5>2. PICK who \in {"auto", "directive"} : pruning' = [due EXCEPT ![m].by = who]
          BY <3>1 DEF AutoArchive, DirectiveArchive
        <5> HIDE DEF due
        <5> QED
          BY <5>1, <5>2 DEF Pruning
      <4> QED
        BY <4>1, <4>2, <4>3
    <3>2. CASE LoadMarks(m)
      BY <3>2 DEF LoadMarks, Typed, Quiet
    <3>3. CASE Unarchive(m)
      BY <3>3 DEF Unarchive
    <3>4. CASE PruneNothing(m)
      BY <3>4 DEF PruneNothing, AfterPrune, Typed, Quiet
    <3> QED
      BY <1>1, <3>1, <3>2, <3>3, <3>4
  <2>3. Agree(x)'
    BY <2>1, <2>2, FrameAgrees, StageAgrees
  <2>4. Chronicle(x)'
    BY <2>1 DEF Chronicle
  <2> QED
    BY <2>3, <2>4
<1>2. CASE SyncCache(m)
  <2>1. Chronicle(x)'
    BY <1>2 DEF SyncCache, storeVars, Chronicle
  <2> QED
    BY <1>2, <2>1, SyncAgrees
<1> QED
  BY <1>1, <1>2, PruneRowsAgrees DEF ArchiveStep

LEMMA InitSound == Init => Sound
<1> SUFFICES ASSUME Init PROVE Sound
  OBVIOUS
<1>1. Typed
  BY InitTyped
<1>2. ASSUME NEW m \in Models PROVE Chronicle(m) /\ Agree(m)
  <2>1. /\ rows[m] = <<>> /\ buffer[m] = <<>> /\ history[m] = <<>>
        /\ memory[m] = Fresh /\ state[m] = Fresh /\ pruning[m] = Quiet
    BY DEF Init
  <2>2. DOMAIN <<>> = {} /\ <<>> \o <<>> = <<>>
    OBVIOUS
  <2>3. Chronicle(m)
    BY <2>1, <2>2 DEF Chronicle, Ordered
  <2>4. Stored(m) = <<>>
    BY <2>1, <2>2 DEF Stored
  <2>5. Finals(<<>>) = {} /\ Successes(<<>>) = {}
    BY <2>2 DEF Finals, Successes
  <2>6. Counts(Fresh, <<>>)
    BY <2>5, FS_EmptySet DEF Counts, Fresh
  <2>7. Replay(<<>>) = PairOf(Fresh)
    BY ReplayEmpty DEF Unknown, PairOf, Fresh
  <2>8. pruning[m].stage # "sync"
    BY <2>1 DEF Quiet
  <2> QED
    BY <2>1, <2>3, <2>4, <2>6, <2>7, <2>8 DEF Agree
<1> QED
  BY <1>1, <1>2 DEF Sound

LEMMA NextSound == Sound /\ [Next]_vars => Sound'
<1> SUFFICES ASSUME Sound, [Next]_vars PROVE Sound'
  OBVIOUS
<1>1. Typed'
  BY NextTyped DEF Sound
<1>2. ASSUME NEW x \in Models PROVE Chronicle(x)' /\ Agree(x)'
  <2>1. Typed /\ Chronicle(x) /\ Agree(x)
    BY DEF Sound
  <2>2. CASE UNCHANGED vars
    BY <2>1, <2>2, FrameAgrees DEF vars, testVars, storeVars, pruneVars, Chronicle
  <2>3. CASE \E m \in Models : TestStep(m) \/ ArchiveStep(m)
    BY <2>1, <2>3, TestAgrees, ArchiveAgrees
  <2>4. CASE Flush
    BY <2>1, <2>4, FlushChronicle, FlushAgrees
  <2>5. CASE \E cutoff \in 2 .. MaxCutoff : DeleteOld(cutoff)
    BY <2>1, <2>5, DeleteOldAgrees
  <2>6. CASE Restart
    BY <2>1, <2>6, RestartAgrees
  <2> QED
    BY <2>2, <2>3, <2>4, <2>5, <2>6 DEF Next
<1> QED
  BY <1>1, <1>2 DEF Sound

LEMMA SoundMeans == Sound => TypeOK /\ ReplayAgrees /\ DatabaseAgrees
<1> SUFFICES ASSUME Sound PROVE TypeOK /\ ReplayAgrees /\ DatabaseAgrees
  OBVIOUS
<1>1. TypeOK
  <2>1. clock \in Nat /\ MaxRecords \in Nat /\ clock <= MaxRecords
    BY RecordAssumption DEF Sound, Typed, Shape
  <2>2. Counted(clock) \subseteq State
    <3>1. Counted(clock) \subseteq Counted(MaxRecords)
      BY <2>1, CountedGrows
    <3> QED
      BY <3>1 DEF Counted, State
  <2>3. Pruning(clock) \subseteq Prune
    BY <2>2 DEF Pruning, Prune
  <2>4. /\ memory \in [Models -> State] /\ latest \in [Models -> State]
        /\ state \in [Models -> State] /\ pruning \in [Models -> Prune]
    BY <2>2, <2>3 DEF Sound, Typed
  <2> QED
    BY <2>4 DEF Sound, Typed, Shape, TypeOK
<1>2. ReplayAgrees
  BY DEF Sound, Agree, PairOf, Counts, ReplayAgrees, StatusIsReplay, CountersCount
<1>3. DatabaseAgrees
  <2> SUFFICES ASSUME NEW m \in Models, integrity[m] # "torn",
                      pruning[m].stage # "sync", buffer[m] = <<>>
               PROVE  state[m] = memory[m] /\ history[m] = rows[m]
    BY DEF DatabaseAgrees
  <2>1. state[m] = memory[m] /\ history[m] = Stored(m)
    BY DEF Sound, Agree
  <2>2. rows[m] \o <<>> = rows[m]
    BY ConcatEmptySeq DEF Sound, Typed, Shape
  <2> QED
    BY <2>1, <2>2 DEF Stored
<1> QED
  BY <1>1, <1>2, <1>3

-----------------------------------------------------------------------------
(* What single steps may not do                                             *)

\* No health result clears a degradation that a benchmark found
\* (_derive_status_from_result, as record_result_async and record_retry_async
\* use it).
LEMMA EnterKeepsOwner ==
    ASSUME Shape, NEW x \in Models, NEW row \in Row, NEW counted \in BOOLEAN,
           Enter(x, row, counted), NEW m \in Models,
           memory[m].source = "benchmark",
           Len(buffer'[m]) > Len(buffer[m]),
           Last(buffer'[m]).kind = "health"
    PROVE  memory'[m].source = "benchmark" /\ memory'[m].status # "online"
<1>1. buffer' = [buffer EXCEPT ![x] = Append(@, row)]
  BY DEF Enter
<1>2. x = m
  BY <1>1 DEF Shape
<1>3. Last(buffer'[m]) = row
  BY <1>1, <1>2 DEF Shape, Last
<1>4. Derive(memory[m], row).source = "benchmark" /\ Derive(memory[m], row).status # "online"
  BY <1>3, HealthDerive
<1>5. /\ memory'[m].source = Derive(memory[m], row).source
      /\ memory'[m].status = Derive(memory[m], row).status
  BY <1>2 DEF Enter, Shape
<1> QED
  BY <1>4, <1>5

LEMMA StepKeepsOwner ==
    ASSUME Shape, [Next]_vars, NEW m \in Models,
           memory[m].source = "benchmark",
           Len(buffer'[m]) > Len(buffer[m]),
           Last(buffer'[m]).kind = "health"
    PROVE  memory'[m].source = "benchmark" /\ memory'[m].status # "online"
<1>1. buffer' # buffer /\ buffer'[m] # <<>>
  BY DEF Shape
<1>2. ASSUME NEW x \in Models, NEW o \in Outcomes, Retry(x, o) \/ Finish(x, o)
      PROVE  memory'[m].source = "benchmark" /\ memory'[m].status # "online"
  <2>1. CASE Retry(x, o)
    <3> DEFINE row == [kind |-> cycle[x].kind, outcome |-> o,
                       retry |-> cycle[x].attempt + 1, at |-> clock + 1]
    <3>1. cycle[x].attempt + 1 \in 0 .. TotalAttempts - 1
      BY <2>1, RecordAssumption DEF Retry, Shape, Test
    <3>2. row \in Row /\ Enter(x, row, FALSE)
      BY <2>1, <3>1, RecordIsRow DEF Retry
    <3> HIDE DEF row
    <3> QED
      BY <3>2, EnterKeepsOwner
  <2>2. CASE Finish(x, o)
    <3> DEFINE row == [kind |-> cycle[x].kind, outcome |-> o,
                       retry |-> Final, at |-> clock + 1]
    <3>1. row \in Row
      BY <2>2, RecordIsRow, RecordAssumption DEF Finish, Final
    <3>2. Enter(x, row, TRUE)
      BY <2>2 DEF Finish
    <3> HIDE DEF row
    <3> QED
      BY <3>1, <3>2, EnterKeepsOwner
  <2> QED
    BY <1>2, <2>1, <2>2
<1>3. \A x \in Models : ~ArchiveStep(x)
  BY <1>1 DEF ArchiveStep, AutoArchive, DirectiveArchive, LoadMarks, Unarchive,
              PruneRows, Delete, PruneNothing, SyncCache, storeVars
<1>4. \A x \in Models : ~Interrupt(x) /\ \A k \in Kinds : ~Begin(x, k)
  BY <1>1 DEF Interrupt, Begin, storeVars
<1>5. ~Flush /\ ~Restart
  BY <1>1 DEF Flush, Restart
<1>6. \A cutoff \in 2 .. MaxCutoff : ~DeleteOld(cutoff)
  BY <1>1 DEF DeleteOld
<1>7. ~UNCHANGED vars
  BY <1>1 DEF vars, storeVars
<1> QED
  BY <1>2, <1>3, <1>4, <1>5, <1>6, <1>7 DEF Next, TestStep

\* Pruning takes only the failures after the last success
\* (prune_trailing_failures).
LEMMA StepKeepsSuccesses ==
    ASSUME Shape, [Next]_vars, NEW m \in Models, pruning'[m] # pruning[m],
           NEW i \in DOMAIN rows[m], rows[m][i] \notin Range(rows'[m]),
           NEW j \in DOMAIN rows[m], j >= i
    PROVE  rows[m][j].outcome = "failed"
<1>1. rows'[m] # rows[m]
  BY DEF Range
<1>2. ASSUME NEW x \in Models, PruneRows(x)
      PROVE  rows[m][j].outcome = "failed"
  <2>1. PICK n \in DOMAIN rows[x] :
           IsLastSuccess(rows[x], n) /\ rows' = [rows EXCEPT ![x] = SubSeq(rows[x], 1, n)]
    BY <1>2 DEF PruneRows, Delete
  <2>2. x = m
    BY <1>1, <2>1 DEF Shape
  <2>3. rows'[m] = SubSeq(rows[m], 1, n)
    BY <2>1, <2>2 DEF Shape
  <2>4. rows[m] \in Seq(Row)
    BY DEF Shape
  <2>5. i > n
    <3> SUFFICES ASSUME i <= n PROVE FALSE
      BY <2>2, <2>4
    <3>1. i \in DOMAIN SubSeq(rows[m], 1, n) /\ SubSeq(rows[m], 1, n)[i] = rows[m][i]
      BY <2>2, <2>4
    <3> QED
      BY <2>3, <3>1 DEF Range
  <2>6. j \in n + 1 .. Len(rows[m])
    BY <2>2, <2>4, <2>5
  <2> QED
    BY <2>1, <2>2, <2>6 DEF IsLastSuccess, Succeeded
<1>3. ASSUME NEW x \in Models, ArchiveStep(x) PROVE PruneRows(x)
  BY <1>1, <1>3 DEF ArchiveStep, AutoArchive, DirectiveArchive, LoadMarks, Unarchive,
                    PruneNothing, SyncCache, storeVars
<1>4. \A x \in Models : ~TestStep(x)
  BY DEF TestStep, Begin, Retry, Finish, Interrupt, pruneVars
<1>5. ~Flush /\ \A cutoff \in 2 .. MaxCutoff : ~DeleteOld(cutoff)
  BY DEF Flush, DeleteOld, pruneVars
<1>6. ~Restart /\ ~UNCHANGED vars
  BY <1>1 DEF Restart, vars, storeVars
<1> QED
  BY <1>2, <1>3, <1>4, <1>5, <1>6 DEF Next

-----------------------------------------------------------------------------
\* No health result ever clears a degradation that a benchmark found: in every
\* behaviour, across retries, crashes, restarts and prunes, the benchmark stays
\* the owner and the status does not become online.
THEOREM HealthKeepsOwnerCorrect == Spec => HealthKeepsOwner
<1>1. Init => Shape
  BY InitShape
<1>2. Shape /\ [Next]_vars => Shape'
  BY NextShape
<1>3. Shape /\ [Next]_vars =>
        [\A m \in Models :
            /\ memory[m].source = "benchmark"
            /\ Len(buffer'[m]) > Len(buffer[m])
            /\ Last(buffer'[m]).kind = "health"
            => memory'[m].source = "benchmark" /\ memory'[m].status # "online"]_vars
  BY StepKeepsOwner
<1> QED
  BY <1>1, <1>2, <1>3, PTL DEF Spec, HealthKeepsOwner

\* prune_trailing_failures never deletes a success, nor anything before one,
\* whatever is recorded, flushed or archived beside it.
THEOREM PruneKeepsSuccessesCorrect == Spec => PruneKeepsSuccesses
<1>1. Init => Shape
  BY InitShape
<1>2. Shape /\ [Next]_vars => Shape'
  BY NextShape
<1>3. Shape /\ [Next]_vars =>
        [\A m \in Models : pruning'[m] # pruning[m] =>
           \A i \in DOMAIN rows[m] : rows[m][i] \notin Range(rows'[m]) =>
             \A j \in DOMAIN rows[m] : j >= i => rows[m][j].outcome = "failed"]_vars
  BY StepKeepsSuccesses
<1> QED
  BY <1>1, <1>2, <1>3, PTL DEF Spec, PruneKeepsSuccesses

\* Every variable of the record has its type: no counter passes the number of
\* records, no prune finds more.
THEOREM TypeCorrect == Spec => []TypeOK
<1>1. Init => Sound
  BY InitSound
<1>2. Sound /\ [Next]_vars => Sound'
  BY NextSound
<1>3. Sound => TypeOK
  BY SoundMeans
<1> QED
  BY <1>1, <1>2, <1>3, PTL DEF Spec

\* What record_result_async and record_retry_async keep, record by record, is what
\* reconcile_model_state finds in all the rows at once: the status and the owner
\* of the degradation are their replay and the counters count their final results.
THEOREM ReplayAgreesCorrect == Spec => []ReplayAgrees
<1>1. Init => Sound
  BY InitSound
<1>2. Sound /\ [Next]_vars => Sound'
  BY NextSound
<1>3. Sound => ReplayAgrees
  BY SoundMeans
<1> QED
  BY <1>1, <1>2, <1>3, PTL DEF Spec

\* Once the batcher holds nothing of a model, model_state and recent_history are
\* what the memory has, after records, prunes and restarts alike.
THEOREM DatabaseAgreesCorrect == Spec => []DatabaseAgrees
<1>1. Init => Sound
  BY InitSound
<1>2. Sound /\ [Next]_vars => Sound'
  BY NextSound
<1>3. Sound => DatabaseAgrees
  BY SoundMeans
<1> QED
  BY <1>1, <1>2, <1>3, PTL DEF Spec
=============================================================================
