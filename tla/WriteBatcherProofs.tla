------------------------- MODULE WriteBatcherProofs --------------------------
(***************************************************************************)
(* Proofs about WriteBatcher, for any models, buffer size, number of       *)
(* overlapping flushes, failures, shutdowns and crashes: no result is lost *)
(* while the process runs, and the batcher implements DurableLog.          *)
(***************************************************************************)
EXTENDS WriteBatcher, SequenceTheorems, WellFoundedInduction, TLAPS

\* TypeOK without the parts no proof here needs.
Typed ==
    /\ added \in Seq(Models)
    /\ rows \in Seq(Results)
    /\ batch \in [Flushers -> Seq(Results)]
    /\ stage \in [Flushers -> Stages]
    /\ txnTable \in Seq(Results)
    /\ table \in Seq(Results)
    /\ process \in {"running", "stopping", "closed"}
    /\ crashes \in Nat

\* A flush without a thread has no batch, and what a thread has written is in
\* the table.
Accounted ==
    \A f \in Flushers :
        /\ stage[f] \in {"idle", "scheduled"} => batch[f] = <<>>
        /\ stage[f] = "written" => Range(batch[f]) \subseteq Range(table)

\* Only stop() makes orphans and starts the last flush.
Uncancelled ==
    process = "running" =>
        /\ stage[Stop] = "idle"
        /\ \A f \in Flushers : stage[f] # "orphan"

\* The open transaction holds only what is still going to be written.
TxnHeld ==
    process = "running" =>
        Range(txnTable) \subseteq Range(rows) \cup InFlight \cup Range(table)

IInv == Typed /\ Accounted /\ Uncancelled /\ TxnHeld /\ NothingLost

-----------------------------------------------------------------------------
\* What Typed says of the sets of results the sequences hold.
LEMMA TypedRanges ==
    ASSUME Typed
    PROVE  /\ Len(added) \in Nat
           /\ Range(rows) \subseteq Results
           /\ InFlight \subseteq Results
           /\ Range(txnTable) \subseteq Results
           /\ Range(table) \subseteq Results
<1>1. \A s \in Seq(Results) : Range(s) \subseteq Results
  BY RangeOfSeq
<1>2. Len(added) \in Nat
  BY LenProperties DEF Typed
<1> QED
  BY <1>1, <1>2 DEF Typed, InFlight

LEMMA EmptyRange == Range(<<>>) = {}
BY EmptySeq DEF Range

\* Results in flight, flush by flush.
LEMMA InFlightOf ==
    ASSUME NEW f \in Flushers, batch \in [Flushers -> Seq(Results)],
           \E s : batch' = [batch EXCEPT ![f] = s]
    PROVE  /\ InFlight' = Range(batch'[f]) \cup
                             UNION {Range(batch[g]) : g \in Flushers \ {f}}
           /\ InFlight = Range(batch[f]) \cup
                             UNION {Range(batch[g]) : g \in Flushers \ {f}}
<1>1. \A g \in Flushers \ {f} : batch'[g] = batch[g]
  OBVIOUS
<1> QED
  BY <1>1 DEF InFlight

\* What a returned thread leaves in flight.
LEMMA Returned ==
    ASSUME Typed, NEW f \in Flushers, NEW r \in Stages, Return(f, r), InThread(f)
    PROVE  /\ batch' \in [Flushers -> Seq(Results)]
           /\ stage' \in [Flushers -> Stages]
           /\ InFlight' \subseteq InFlight
           /\ InFlight \subseteq InFlight' \cup Range(batch[f])
           /\ \A g \in Flushers : g # f => stage'[g] = stage[g] /\ batch'[g] = batch[g]
           /\ \/ stage[f] = "orphan" /\ stage'[f] = "idle" /\ batch'[f] = <<>>
              \/ /\ stage[f] # "orphan" /\ stage'[f] = r /\ batch' = batch
                 /\ InFlight' = InFlight
<1>1. CASE stage[f] = "orphan"
  <2>1. /\ stage' = [stage EXCEPT ![f] = "idle"]
        /\ batch' = [batch EXCEPT ![f] = <<>>]
    BY <1>1 DEF Return
  <2>2. InFlight' = Range(batch'[f]) \cup
                        UNION {Range(batch[g]) : g \in Flushers \ {f}}
    BY <2>1, InFlightOf DEF Typed
  <2>3. InFlight = Range(batch[f]) \cup
                        UNION {Range(batch[g]) : g \in Flushers \ {f}}
    BY <2>1, InFlightOf DEF Typed
  <2>4. batch'[f] = <<>> /\ stage'[f] = "idle"
    BY <2>1 DEF Typed
  <2>5. Range(batch'[f]) = {}
    BY <2>4, EmptyRange
  <2>6. batch' \in [Flushers -> Seq(Results)] /\ stage' \in [Flushers -> Stages]
    BY <2>1, EmptySeq DEF Typed, Stages
  <2> QED
    BY <1>1, <2>1, <2>2, <2>3, <2>4, <2>5, <2>6 DEF Typed
<1>2. CASE stage[f] # "orphan"
  BY <1>2 DEF Return, Typed, InFlight
<1> QED
  BY <1>1, <1>2

LEMMA PrefixRange ==
    ASSUME NEW S, NEW s \in Seq(S), NEW i \in 0 .. Len(s)
    PROVE  /\ SubSeq(s, 1, i) \in Seq(S)
           /\ Range(SubSeq(s, 1, i)) \subseteq Range(s)
<1>1. /\ Len(s) \in Nat
      /\ DOMAIN s = 1 .. Len(s)
      /\ \A j \in 1 .. i : s[j] \in S
  BY LenProperties, ElementOfSeq
<1>2. /\ SubSeq(s, 1, i) \in Seq(S)
      /\ Len(SubSeq(s, 1, i)) = IF 1 <= i THEN i - 1 + 1 ELSE 0
      /\ \A j \in 1 .. i - 1 + 1 : SubSeq(s, 1, i)[j] = s[1 + j - 1]
  BY <1>1, SubSeqProperties
<1>3. DOMAIN SubSeq(s, 1, i) = 1 .. i
  BY <1>1, <1>2, LenProperties
<1>4. \A j \in 1 .. i : SubSeq(s, 1, i)[j] = s[j]
  BY <1>1, <1>2
<1> QED
  BY <1>1, <1>2, <1>3, <1>4 DEF Range

-----------------------------------------------------------------------------
(***************************************************************************)
(* Each action keeps the invariant                                         *)
(***************************************************************************)
LEMMA InitInv == Init => IInv
<1> SUFFICES ASSUME Init PROVE IInv
  OBVIOUS
<1>1. Typed
  BY EmptySeq DEF Init, Typed, Stages, Flushers
<1>2. Accounted /\ Uncancelled
  BY DEF Init, Accounted, Uncancelled, Flushers
<1>3. TxnHeld /\ NothingLost
  <2>1. Results = {}
    BY EmptySeq DEF Init, Results
  <2>2. Range(txnTable) = {}
    BY EmptyRange DEF Init
  <2> QED
    BY <2>1, <2>2 DEF TxnHeld, NothingLost
<1> QED
  BY <1>1, <1>2, <1>3 DEF IInv

\* A new result is the only element of Results that is not one already.
LEMMA AddResults ==
    ASSUME Typed, NEW m \in Models, added' = Append(added, m)
    PROVE  /\ added' \in Seq(Models)
           /\ Len(added') = Len(added) + 1
           /\ Results' = Results \cup {Len(added) + 1}
           /\ Len(added) + 1 \notin Results
           /\ \A s \in Seq(Results) : s \in Seq(Results')
<1>1. Len(added) \in Nat
  BY LenProperties DEF Typed
<1>2. added' \in Seq(Models) /\ Len(added') = Len(added) + 1
  BY AppendProperties DEF Typed
<1>3. Results' = Results \cup {Len(added) + 1} /\ Len(added) + 1 \notin Results
  BY <1>1, <1>2 DEF Results
<1> QED
  BY <1>2, <1>3, SeqMonotonic

LEMMA AddInv ==
    ASSUME IInv, NEW m \in Models, Add(m)
    PROVE  IInv'
<1> DEFINE n == Len(added) + 1
<1>1. Typed /\ added' = Append(added, m) /\ rows' = Append(rows, n)
      /\ batch' = batch /\ txnTable' = txnTable /\ table' = table
      /\ process = "running" /\ process' = process /\ crashes' = crashes
  BY DEF IInv, Add, dbVars, boundVars
<1>2. /\ added' \in Seq(Models)
      /\ Results' = Results \cup {n}
      /\ \A s \in Seq(Results) : s \in Seq(Results')
  BY <1>1, AddResults
<1>3. rows' \in Seq(Results') /\ Range(rows') = Range(rows) \cup {n}
  <2>1. rows \in Seq(Results') /\ <<n>> \in Seq(Results')
    BY <1>1, <1>2 DEF Typed
  <2>2. rows' = rows \o <<n>>
    BY <1>1, <2>1
  <2>3. Range(<<n>>) = {n}
    BY DEF Range
  <2>4. rows \o <<n>> \in Seq(Results')
    BY <2>1, ConcatProperties
  <2>5. Range(rows \o <<n>>) = Range(rows) \cup Range(<<n>>)
    BY <2>1, RangeConcatenation
  <2>6. Range(rows') = Range(rows \o <<n>>)
    BY <2>2
  <2>7. Range(rows) \cup Range(<<n>>) = Range(rows) \cup {n}
    BY <2>3
  <2> QED
    BY <2>2, <2>4, <2>5, <2>6, <2>7
<1>4. InFlight' = InFlight
  BY <1>1 DEF InFlight
<1>5. stage' = stage \/ \E f \in Triggered :
                          stage[f] = "idle" /\ stage' = [stage EXCEPT ![f] = "scheduled"]
  BY DEF Add
<1>6. Typed'
  <2>1. stage' \in [Flushers -> Stages]
    BY <1>1, <1>5 DEF Typed, Stages, Flushers
  <2> QED
    BY <1>1, <1>2, <1>3, <2>1 DEF Typed
<1>7. Accounted'
  BY <1>1, <1>5 DEF IInv, Accounted, Typed, Flushers
<1>8. Uncancelled'
  BY <1>1, <1>5, BatcherAssumption
     DEF IInv, Uncancelled, Typed, Flushers, BatcherAssumption
<1>9. TxnHeld' /\ NothingLost'
  BY <1>1, <1>2, <1>3, <1>4 DEF IInv, TxnHeld, NothingLost
<1> QED
  BY <1>6, <1>7, <1>8, <1>9 DEF IInv

\* The part of Typed that a step does not touch when no result is added.
LEMMA SameResults ==
    ASSUME added' = added
    PROVE  Results' = Results /\ Seq(Results') = Seq(Results)
BY DEF Results

LEMMA CaptureMoves ==
    ASSUME IInv, NEW f \in Flushers, Capture(f)
    PROVE  /\ batch' \in [Flushers -> Seq(Results)]
           /\ stage[f] \in {"idle", "scheduled"} /\ batch[f] = <<>>
           /\ stage' \in [Flushers -> Stages]
           /\ batch'[f] = rows
           /\ rows # <<>> => stage'[f] = "writing"
           /\ rows = <<>> => stage'[f] = "idle"
           /\ \A g \in Flushers : g # f => stage'[g] = stage[g] /\ batch'[g] = batch[g]
           /\ Range(rows') = {}
           /\ InFlight' = InFlight \cup Range(rows)
<1>1. /\ batch' = [batch EXCEPT ![f] = rows]
      /\ stage' = [stage EXCEPT ![f] = IF rows = <<>> THEN "idle" ELSE "writing"]
      /\ rows' = <<>>
      /\ stage[f] \in {"idle", "scheduled"}
  BY DEF Capture
<1>2. batch[f] = <<>>
  BY <1>1 DEF IInv, Accounted
<1>3. Range(batch[f]) = {} /\ Range(rows') = {}
  BY <1>1, <1>2, EmptyRange
<1>4. InFlight' = InFlight \cup Range(rows)
  <2>1. batch'[f] = rows
    BY <1>1 DEF IInv, Typed
  <2>2. InFlight' = Range(batch'[f]) \cup
                        UNION {Range(batch[g]) : g \in Flushers \ {f}}
    BY <1>1, InFlightOf DEF IInv, Typed
  <2>3. InFlight = Range(batch[f]) \cup
                        UNION {Range(batch[g]) : g \in Flushers \ {f}}
    BY <1>1, InFlightOf DEF IInv, Typed
  <2> QED
    BY <1>3, <2>1, <2>2, <2>3
<1> QED
  BY <1>1, <1>2, <1>3, <1>4 DEF IInv, Typed, Stages

LEMMA CaptureInv ==
    ASSUME IInv, NEW f \in Flushers, Capture(f)
    PROVE  IInv'
<1>1. /\ added' = added /\ txnTable' = txnTable /\ table' = table
      /\ process' = process /\ crashes' = crashes /\ rows' = <<>>
  BY DEF Capture, dbVars, boundVars
<1>2. Results' = Results /\ Seq(Results') = Seq(Results)
  BY <1>1, SameResults
<1>3. Typed'
  BY <1>1, <1>2, CaptureMoves, EmptySeq DEF IInv, Typed
<1>4. Accounted'
  BY <1>1, CaptureMoves, EmptyRange DEF IInv, Accounted, Typed
<1>5. Uncancelled'
  <2>1. f = Stop => process # "running"
    BY BatcherAssumption DEF IInv, Uncancelled, Capture, BatcherAssumption, Loop, Stop
  <2>2. stage'[f] # "orphan"
    BY CaptureMoves
  <2>3. \A g \in Flushers : g # f => stage'[g] = stage[g]
    BY CaptureMoves
  <2>4. Stop \in Flushers
    BY DEF Flushers
  <2> QED
    BY <1>1, <2>1, <2>2, <2>3, <2>4 DEF IInv, Uncancelled
<1>6. TxnHeld' /\ NothingLost'
  BY <1>1, <1>2, CaptureMoves DEF IInv, TxnHeld, NothingLost
<1> QED
  BY <1>3, <1>4, <1>5, <1>6 DEF IInv

\* Sequences of results, concatenated.
LEMMA Appended ==
    ASSUME NEW s \in Seq(Results), NEW t \in Seq(Results)
    PROVE  /\ s \o t \in Seq(Results)
           /\ Range(s \o t) = Range(s) \cup Range(t)
<1>1. s \o t \in Seq(Results)
  BY ConcatProperties
<1>2. Range(s \o t) = Range(s) \cup Range(t)
  BY RangeConcatenation
<1> QED
  BY <1>1, <1>2

LEMMA WriteMoves ==
    ASSUME IInv, NEW f \in Flushers, WriteBatch(f)
    PROVE  /\ table' \in Seq(Results)
           /\ Range(table') = Range(table) \cup Range(txnTable) \cup Range(batch[f])
           /\ txnTable' \in Seq(Results) /\ Range(txnTable') = {}
<1>1. table' = table \o txnTable \o batch[f] /\ txnTable' = <<>>
  BY DEF WriteBatch
<1>2. /\ table \in Seq(Results) /\ txnTable \in Seq(Results)
      /\ batch[f] \in Seq(Results)
  BY DEF IInv, Typed
<1>3. /\ table \o txnTable \in Seq(Results)
      /\ Range(table \o txnTable) = Range(table) \cup Range(txnTable)
  BY <1>2, Appended
<1>4. /\ (table \o txnTable) \o batch[f] \in Seq(Results)
      /\ Range((table \o txnTable) \o batch[f]) =
            Range(table \o txnTable) \cup Range(batch[f])
  BY <1>2, <1>3, Appended
<1>5. Range(txnTable') = {}
  BY <1>1, EmptyRange
<1> QED
  BY <1>1, <1>3, <1>4, <1>5, EmptySeq

LEMMA WriteBatchInv ==
    ASSUME IInv, NEW f \in Flushers, WriteBatch(f)
    PROVE  IInv'
<1>1. /\ added' = added /\ rows' = rows /\ process' = process
      /\ crashes' = crashes /\ Return(f, "written") /\ InThread(f)
  BY DEF WriteBatch, bufferVars, boundVars
<1>2. Results' = Results /\ Seq(Results') = Seq(Results)
  BY <1>1, SameResults
<1>3. /\ batch' \in [Flushers -> Seq(Results)]
      /\ stage' \in [Flushers -> Stages]
      /\ InFlight' \subseteq InFlight
      /\ InFlight \subseteq InFlight' \cup Range(batch[f])
      /\ \A g \in Flushers : g # f => stage'[g] = stage[g] /\ batch'[g] = batch[g]
      /\ \/ stage[f] = "orphan" /\ stage'[f] = "idle" /\ batch'[f] = <<>>
         \/ stage[f] # "orphan" /\ stage'[f] = "written" /\ batch' = batch
  BY <1>1, Returned DEF IInv, Stages
<1>4. Typed'
  BY <1>1, <1>2, <1>3, WriteMoves DEF IInv, Typed
<1>5. Accounted'
  BY <1>3, WriteMoves DEF IInv, Accounted
<1>6. Uncancelled'
  <2>1. process = "running" => f # Stop
    BY <1>1 DEF IInv, Uncancelled, InThread
  <2>2. Stop \in Flushers
    BY DEF Flushers
  <2>3. process = "running" => \A g \in Flushers : stage'[g] # "orphan"
    BY <1>3 DEF IInv, Uncancelled
  <2> QED
    BY <1>1, <1>3, <2>1, <2>2, <2>3 DEF IInv, Uncancelled
<1>7. TxnHeld' /\ NothingLost'
  BY <1>1, <1>2, <1>3, WriteMoves DEF IInv, TxnHeld, NothingLost
<1> QED
  BY <1>4, <1>5, <1>6, <1>7 DEF IInv

LEMMA FailMoves ==
    ASSUME IInv, NEW f \in Flushers, WriteFails(f)
    PROVE  /\ txnTable' \in Seq(Results)
           /\ Range(txnTable') \subseteq Range(txnTable) \cup Range(batch[f])
<1>1. CASE \E i \in 0 .. Len(batch[f]) :
              txnTable' = txnTable \o SubSeq(batch[f], 1, i)
  <2>1. PICK i \in 0 .. Len(batch[f]) :
              txnTable' = txnTable \o SubSeq(batch[f], 1, i)
    BY <1>1
  <2>2. txnTable \in Seq(Results) /\ batch[f] \in Seq(Results)
    BY DEF IInv, Typed
  <2>3. /\ SubSeq(batch[f], 1, i) \in Seq(Results)
        /\ Range(SubSeq(batch[f], 1, i)) \subseteq Range(batch[f])
    BY <2>2, PrefixRange
  <2>4. /\ txnTable \o SubSeq(batch[f], 1, i) \in Seq(Results)
        /\ Range(txnTable \o SubSeq(batch[f], 1, i)) =
              Range(txnTable) \cup Range(SubSeq(batch[f], 1, i))
    BY <2>2, <2>3, Appended
  <2> QED
    BY <2>1, <2>3, <2>4
<1>2. CASE txnTable' = <<>>
  BY <1>2, EmptyRange, EmptySeq
<1> QED
  BY <1>1, <1>2 DEF WriteFails

LEMMA WriteFailsInv ==
    ASSUME IInv, NEW f \in Flushers, WriteFails(f)
    PROVE  IInv'
<1>1. /\ added' = added /\ rows' = rows /\ process' = process /\ table' = table
      /\ crashes' = crashes /\ Return(f, "failed") /\ InThread(f)
  BY DEF WriteFails, bufferVars
<1>2. Results' = Results /\ Seq(Results') = Seq(Results)
  BY <1>1, SameResults
<1>3. /\ batch' \in [Flushers -> Seq(Results)]
      /\ stage' \in [Flushers -> Stages]
      /\ \A g \in Flushers : g # f => stage'[g] = stage[g] /\ batch'[g] = batch[g]
      /\ \/ stage[f] = "orphan" /\ stage'[f] = "idle" /\ batch'[f] = <<>>
         \/ /\ stage[f] # "orphan" /\ stage'[f] = "failed"
            /\ batch' = batch /\ InFlight' = InFlight
  BY <1>1, Returned DEF IInv, Stages
<1>4. Typed'
  BY <1>1, <1>2, <1>3, FailMoves DEF IInv, Typed
<1>5. Accounted'
  BY <1>1, <1>3 DEF IInv, Accounted
<1>6. Uncancelled'
  <2>1. process = "running" => f # Stop
    BY <1>1 DEF IInv, Uncancelled, InThread
  <2>2. Stop \in Flushers
    BY DEF Flushers
  <2>3. process = "running" => \A g \in Flushers : stage'[g] # "orphan"
    BY <1>3 DEF IInv, Uncancelled
  <2> QED
    BY <1>1, <1>3, <2>1, <2>2, <2>3 DEF IInv, Uncancelled
<1>7. TxnHeld' /\ NothingLost'
  <2>1. Range(batch[f]) \subseteq InFlight
    BY DEF InFlight
  <2>2. process = "running" => InFlight' = InFlight
    BY <1>3 DEF IInv, Uncancelled
  <2> QED
    BY <1>1, <1>2, <2>1, <2>2, FailMoves DEF IInv, TxnHeld, NothingLost
<1> QED
  BY <1>4, <1>5, <1>6, <1>7 DEF IInv

LEMMA WriteClosedInv ==
    ASSUME IInv, NEW f \in Flushers, WriteClosed(f)
    PROVE  IInv'
<1>1. /\ added' = added /\ rows' = rows /\ process' = "closed" /\ table' = table
      /\ txnTable' = txnTable /\ process = "closed"
      /\ crashes' = crashes /\ Return(f, "failed") /\ InThread(f)
  BY DEF WriteClosed, bufferVars, dbVars, boundVars
<1>2. Results' = Results /\ Seq(Results') = Seq(Results)
  BY <1>1, SameResults
<1>3. /\ batch' \in [Flushers -> Seq(Results)]
      /\ stage' \in [Flushers -> Stages]
      /\ \A g \in Flushers : g # f => stage'[g] = stage[g] /\ batch'[g] = batch[g]
      /\ \/ stage[f] = "orphan" /\ stage'[f] = "idle" /\ batch'[f] = <<>>
         \/ stage[f] # "orphan" /\ stage'[f] = "failed"
  BY <1>1, Returned DEF IInv, Stages
<1>4. Typed'
  BY <1>1, <1>2, <1>3 DEF IInv, Typed
<1>5. Accounted'
  BY <1>1, <1>3 DEF IInv, Accounted
<1>6. Uncancelled' /\ TxnHeld' /\ NothingLost'
  BY <1>1 DEF Uncancelled, TxnHeld, NothingLost
<1> QED
  BY <1>4, <1>5, <1>6 DEF IInv

\* A flush that is over leaves nothing in flight.
LEMMA Emptied ==
    ASSUME IInv, NEW f \in Flushers,
           batch' = [batch EXCEPT ![f] = <<>>],
           stage' = [stage EXCEPT ![f] = "idle"]
    PROVE  /\ batch' \in [Flushers -> Seq(Results)] /\ batch'[f] = <<>>
           /\ stage' \in [Flushers -> Stages] /\ stage'[f] = "idle"
           /\ \A g \in Flushers : g # f => stage'[g] = stage[g] /\ batch'[g] = batch[g]
           /\ InFlight' \cup Range(batch[f]) = InFlight
<1>1. batch'[f] = <<>> /\ stage'[f] = "idle"
  BY DEF IInv, Typed
<1>2. Range(batch'[f]) = {}
  BY <1>1, EmptyRange
<1>3. /\ InFlight' = Range(batch'[f]) \cup
                         UNION {Range(batch[g]) : g \in Flushers \ {f}}
      /\ InFlight = Range(batch[f]) \cup
                         UNION {Range(batch[g]) : g \in Flushers \ {f}}
  BY InFlightOf DEF IInv, Typed
<1>4. batch' \in [Flushers -> Seq(Results)] /\ stage' \in [Flushers -> Stages]
  BY EmptySeq DEF IInv, Typed, Stages
<1> QED
  BY <1>1, <1>2, <1>3, <1>4 DEF IInv, Typed

LEMMA RequeueInv ==
    ASSUME IInv, NEW f \in Flushers, Requeue(f)
    PROVE  /\ IInv'
           /\ Range(rows') = Range(rows) \cup Range(batch[f])
<1>1. /\ added' = added /\ process' = process /\ table' = table
      /\ txnTable' = txnTable /\ crashes' = crashes
      /\ stage[f] = "failed" /\ rows' = rows \o batch[f]
      /\ batch' = [batch EXCEPT ![f] = <<>>]
      /\ stage' = [stage EXCEPT ![f] = "idle"]
  BY DEF Requeue, dbVars, boundVars
<1>2. Results' = Results /\ Seq(Results') = Seq(Results)
  BY <1>1, SameResults
<1>3. /\ batch' \in [Flushers -> Seq(Results)] /\ batch'[f] = <<>>
      /\ stage' \in [Flushers -> Stages] /\ stage'[f] = "idle"
      /\ \A g \in Flushers : g # f => stage'[g] = stage[g] /\ batch'[g] = batch[g]
      /\ InFlight' \cup Range(batch[f]) = InFlight
  BY <1>1, Emptied
<1>4. rows' \in Seq(Results) /\ Range(rows') = Range(rows) \cup Range(batch[f])
  <2>1. rows \in Seq(Results) /\ batch[f] \in Seq(Results)
    BY DEF IInv, Typed
  <2> QED
    BY <1>1, <2>1, Appended
<1>5. Typed'
  BY <1>1, <1>2, <1>3, <1>4 DEF IInv, Typed
<1>6. Accounted'
  BY <1>1, <1>3 DEF IInv, Accounted
<1>7. Uncancelled'
  BY <1>1, <1>3 DEF IInv, Uncancelled, Flushers
<1>8. TxnHeld' /\ NothingLost'
  BY <1>1, <1>2, <1>3, <1>4 DEF IInv, TxnHeld, NothingLost
<1> QED
  BY <1>4, <1>5, <1>6, <1>7, <1>8 DEF IInv

LEMMA FlushedInv ==
    ASSUME IInv, NEW f \in Flushers, Flushed(f)
    PROVE  IInv'
<1>1. /\ added' = added /\ process' = process /\ table' = table /\ rows' = rows
      /\ txnTable' = txnTable /\ crashes' = crashes
      /\ stage[f] = "written"
      /\ batch' = [batch EXCEPT ![f] = <<>>]
      /\ stage' = [stage EXCEPT ![f] = "idle"]
  BY DEF Flushed, bufferVars, dbVars, boundVars
<1>2. Results' = Results /\ Seq(Results') = Seq(Results)
  BY <1>1, SameResults
<1>3. /\ batch' \in [Flushers -> Seq(Results)] /\ batch'[f] = <<>>
      /\ stage' \in [Flushers -> Stages] /\ stage'[f] = "idle"
      /\ \A g \in Flushers : g # f => stage'[g] = stage[g] /\ batch'[g] = batch[g]
      /\ InFlight' \cup Range(batch[f]) = InFlight
  BY <1>1, Emptied
<1>4. Range(batch[f]) \subseteq Range(table)
  BY <1>1 DEF IInv, Accounted
<1>5. Typed'
  BY <1>1, <1>2, <1>3 DEF IInv, Typed
<1>6. Accounted'
  BY <1>1, <1>3 DEF IInv, Accounted
<1>7. Uncancelled'
  BY <1>1, <1>3 DEF IInv, Uncancelled, Flushers
<1>8. TxnHeld' /\ NothingLost'
  BY <1>1, <1>2, <1>3, <1>4 DEF IInv, TxnHeld, NothingLost
<1> QED
  BY <1>5, <1>6, <1>7, <1>8 DEF IInv

LEMMA OtherCommitInv ==
    ASSUME IInv, OtherCommit
    PROVE  /\ IInv'
           /\ Range(table') = Range(table) \cup Range(txnTable)
<1>1. /\ added' = added /\ process' = process /\ rows' = rows
      /\ batch' = batch /\ stage' = stage /\ crashes' = crashes
      /\ table' = table \o txnTable /\ txnTable' = <<>>
  BY DEF OtherCommit, bufferVars, flushVars, boundVars
<1>2. /\ Results' = Results /\ Seq(Results') = Seq(Results)
      /\ InFlight' = InFlight
  BY <1>1, SameResults DEF InFlight
<1>3. /\ table' \in Seq(Results)
      /\ Range(table') = Range(table) \cup Range(txnTable)
  BY <1>1, Appended DEF IInv, Typed
<1>4. txnTable' \in Seq(Results) /\ Range(txnTable') = {}
  BY <1>1, EmptySeq, EmptyRange
<1>5. Typed'
  BY <1>1, <1>2, <1>3, <1>4 DEF IInv, Typed
<1>6. Accounted' /\ Uncancelled'
  BY <1>1, <1>3 DEF IInv, Accounted, Uncancelled
<1>7. TxnHeld' /\ NothingLost'
  BY <1>1, <1>2, <1>3, <1>4 DEF IInv, TxnHeld, NothingLost
<1> QED
  BY <1>3, <1>5, <1>6, <1>7 DEF IInv

LEMMA BeginStopInv ==
    ASSUME IInv, BeginStop
    PROVE  IInv' /\ InFlight' \subseteq InFlight
<1>1. /\ added' = added /\ rows' = rows /\ table' = table
      /\ txnTable' = txnTable /\ crashes' = crashes
      /\ process = "running" /\ process' = "stopping"
  BY DEF BeginStop, bufferVars, dbVars, boundVars
<1>2. PICK orphan \in BOOLEAN :
         /\ orphan => stage[Loop] = "writing"
         /\ stage' = [stage EXCEPT ![Loop] = IF orphan THEN "orphan" ELSE "idle",
                                   ![Stop] = "scheduled"]
         /\ batch' = [batch EXCEPT ![Loop] = IF orphan THEN @ ELSE <<>>]
  BY DEF BeginStop
<1>3. Loop \in Flushers /\ Stop \in Flushers /\ Loop # Stop
  BY DEF Flushers, Loop, Stop
<1>4. /\ stage' \in [Flushers -> Stages]
      /\ stage'[Stop] = "scheduled"
      /\ stage'[Loop] \in {"orphan", "idle"}
      /\ stage'[Loop] = "idle" => batch'[Loop] = <<>>
      /\ \A g \in Flushers \ {Loop, Stop} : stage'[g] = stage[g]
  BY <1>2, <1>3 DEF IInv, Typed, Stages
<1>5. /\ batch' \in [Flushers -> Seq(Results)]
      /\ \A g \in Flushers \ {Loop} : batch'[g] = batch[g]
      /\ batch'[Loop] = batch[Loop] \/ batch'[Loop] = <<>>
  BY <1>2, <1>3, EmptySeq DEF IInv, Typed
<1>6. InFlight' \subseteq InFlight
  BY <1>5, EmptyRange DEF InFlight
<1>7. Results' = Results /\ Seq(Results') = Seq(Results)
  BY <1>1, SameResults
<1>8. Typed'
  BY <1>1, <1>4, <1>5, <1>7 DEF IInv, Typed
<1>9. Accounted'
  <2>1. batch[Stop] = <<>>
    BY <1>1, <1>3 DEF IInv, Accounted, Uncancelled
  <2> QED
    BY <1>1, <1>3, <1>4, <1>5, <2>1 DEF IInv, Accounted
<1>10. Uncancelled' /\ TxnHeld' /\ NothingLost'
  BY <1>1 DEF Uncancelled, TxnHeld, NothingLost
<1> QED
  BY <1>6, <1>8, <1>9, <1>10 DEF IInv

LEMMA CloseInv ==
    ASSUME IInv, Close
    PROVE  IInv'
<1>1. /\ added' = added /\ rows' = rows /\ table' = table /\ batch' = batch
      /\ stage' = stage /\ txnTable' = <<>> /\ crashes' = crashes
      /\ process' = "closed"
  BY DEF Close, bufferVars, flushVars, boundVars
<1>2. Results' = Results /\ Seq(Results') = Seq(Results)
  BY <1>1, SameResults
<1>3. Typed'
  BY <1>1, <1>2, EmptySeq DEF IInv, Typed
<1>4. Accounted'
  BY <1>1 DEF IInv, Accounted
<1>5. Uncancelled' /\ TxnHeld' /\ NothingLost'
  BY <1>1 DEF Uncancelled, TxnHeld, NothingLost
<1> QED
  BY <1>3, <1>4, <1>5 DEF IInv

LEMMA CrashInv ==
    ASSUME IInv, Crash
    PROVE  /\ IInv'
           /\ Range(rows') = {} /\ InFlight' = {} /\ Range(txnTable') = {}
<1>1. /\ added' = added /\ table' = table /\ crashes' = crashes + 1
      /\ process' = "running" /\ rows' = <<>> /\ txnTable' = <<>>
      /\ batch' = [f \in Flushers |-> <<>>]
      /\ stage' = [f \in Flushers |-> "idle"]
  BY DEF Crash
<1>2. Results' = Results /\ Seq(Results') = Seq(Results)
  BY <1>1, SameResults
<1>3. Range(rows') = {} /\ InFlight' = {} /\ Range(txnTable') = {}
  BY <1>1, EmptyRange DEF InFlight
<1>4. Typed'
  BY <1>1, <1>2, EmptySeq DEF IInv, Typed, Stages
<1>5. Accounted' /\ Uncancelled'
  BY <1>1 DEF Accounted, Uncancelled, Flushers
<1>6. TxnHeld' /\ NothingLost'
  BY <1>1, <1>3 DEF IInv, Typed, TxnHeld, NothingLost
<1> QED
  BY <1>3, <1>4, <1>5, <1>6 DEF IInv

LEMMA StutterInv ==
    ASSUME IInv, UNCHANGED vars
    PROVE  IInv'
<1>1. /\ added' = added /\ rows' = rows /\ batch' = batch /\ stage' = stage
      /\ txnTable' = txnTable /\ table' = table /\ process' = process
      /\ crashes' = crashes
  BY DEF vars, bufferVars, flushVars, dbVars, boundVars
<1>2. /\ Results' = Results /\ Seq(Results') = Seq(Results)
      /\ InFlight' = InFlight
  BY <1>1, SameResults DEF InFlight
<1> QED
  BY <1>1, <1>2 DEF IInv, Typed, Accounted, Uncancelled, TxnHeld, NothingLost

LEMMA NextInv ==
    ASSUME IInv, [Next]_vars
    PROVE  IInv'
<1>1. CASE \E m \in Models : Add(m)
  BY <1>1, AddInv
<1>2. ASSUME NEW f \in Flushers, FlushStep(f)
      PROVE  IInv'
  BY <1>2, CaptureInv, WriteBatchInv, WriteFailsInv, WriteClosedInv, RequeueInv,
     FlushedInv DEF FlushStep
<1>3. CASE OtherCommit
  BY <1>3, OtherCommitInv
<1>4. CASE BeginStop
  BY <1>4, BeginStopInv
<1>5. CASE Close
  BY <1>5, CloseInv
<1>6. CASE Crash
  BY <1>6, CrashInv
<1>7. CASE UNCHANGED vars
  BY <1>7, StutterInv
<1> QED
  BY <1>1, <1>2, <1>3, <1>4, <1>5, <1>6, <1>7 DEF Next

LEMMA Invariance == Spec => []IInv
<1>1. Init => IInv
  BY InitInv
<1>2. IInv /\ [Next]_vars => IInv'
  BY NextInv
<1> QED
  BY <1>1, <1>2, PTL DEF Spec

\* WriteBatcher.add, flush and _flush_batch: while the process runs, every
\* result added is in the buffer, in some flush or committed, however many
\* flushes overlap and whichever of them fail.
THEOREM NothingLostCorrect == Spec => []NothingLost
<1>1. IInv => NothingLost
  BY DEF IInv
<1> QED
  BY <1>1, Invariance, PTL

-----------------------------------------------------------------------------
(***************************************************************************)
(* WriteBatcher implements DurableLog                                      *)
(***************************************************************************)
Held == Range(rows) \cup InFlight \cup Range(txnTable)
Pending == Held \ Range(table)

LEMMA InitLog == Init => Log!LogInit
<1> SUFFICES ASSUME Init PROVE Log!LogInit
  OBVIOUS
<1>1. /\ Len(added) = 0 /\ Range(rows) = {} /\ Range(txnTable) = {}
      /\ Range(table) = {} /\ process = "running"
  BY EmptySeq, EmptyRange DEF Init
<1>2. InFlight = {}
  BY EmptyRange DEF Init, InFlight
<1> QED
  BY <1>1, <1>2 DEF Log!LogInit

LEMMA AddLog ==
    ASSUME IInv, NEW m \in Models, Add(m)
    PROVE  Log!Accept
<1> DEFINE n == Len(added) + 1
<1>1. /\ added' = Append(added, m) /\ rows' = Append(rows, n)
      /\ batch' = batch /\ txnTable' = txnTable /\ table' = table
      /\ process = "running" /\ process' = process
  BY DEF Add, dbVars
<1>2. Len(added') = n /\ n \notin Results
  BY <1>1, AddResults DEF IInv
<1>3. Range(rows') = Range(rows) \cup {n}
  <2>1. Len(rows) \in Nat /\ rows \in [1 .. Len(rows) -> Results]
    BY LenProperties DEF IInv, Typed
  <2>2. /\ Len(rows') = Len(rows) + 1
        /\ DOMAIN rows' = 1 .. Len(rows) + 1
        /\ \A i \in 1 .. Len(rows) : rows'[i] = rows[i]
        /\ rows'[Len(rows) + 1] = n
    <3>1. rows \in Seq(Results \cup {n})
      BY SeqMonotonic DEF IInv, Typed
    <3> QED
      BY <1>1, <2>1, <3>1, AppendProperties, LenProperties
  <2> QED
    BY <2>1, <2>2 DEF Range
<1>4. InFlight' = InFlight
  BY <1>1 DEF InFlight
<1>5. n \notin Range(table)
  BY <1>2, TypedRanges DEF IInv
<1> QED
  BY <1>1, <1>2, <1>3, <1>4, <1>5 DEF Log!Accept

\* What a step must do to Pending and table to be one of the log's.
LEMMA LogSteps ==
    ASSUME Len(added') = Len(added)
    PROVE  /\ /\ Pending' = Pending /\ Range(table') = Range(table)
              /\ (process' = "running") = (process = "running")
              => UNCHANGED Log!logVars
           /\ \A S \in SUBSET Pending :
                 /\ Pending' = Pending \ S /\ Range(table') = Range(table) \cup S
                 /\ (process' = "running") = (process = "running")
                 => Log!LogNext
           /\ /\ Pending' \subseteq Pending /\ Range(table') = Range(table)
              /\ process # "running" /\ process' # "running"
              => Log!LogNext
           /\ /\ Pending' \subseteq Pending /\ Range(table') = Range(table)
              /\ process = "running" /\ process' # "running"
              => Log!LogNext
<1>1. Pending = (Range(rows) \cup InFlight \cup Range(txnTable)) \ Range(table)
  BY DEF Pending, Held
<1>2. /\ Pending' = Pending /\ Range(table') = Range(table)
      /\ (process' = "running") = (process = "running")
      => UNCHANGED Log!logVars
  BY DEF Pending, Held, Log!logVars
<1>3. ASSUME NEW S \in SUBSET Pending,
             Pending' = Pending \ S, Range(table') = Range(table) \cup S,
             (process' = "running") = (process = "running")
      PROVE  Log!LogNext
  <2>1. Log!Persist(S)
    BY <1>3 DEF Pending, Held, Log!Persist
  <2> QED
    BY <1>1, <2>1 DEF Log!LogNext
<1>4. ASSUME Pending' \subseteq Pending, Range(table') = Range(table),
             process # "running", process' # "running"
      PROVE  Log!LogNext
  <2>1. Pending' = Pending \ (Pending \ Pending')
    BY <1>4
  <2>2. Log!GiveUp(Pending \ Pending')
    BY <1>4, <2>1 DEF Pending, Held, Log!GiveUp
  <2>3. Pending \ Pending' \in SUBSET Pending
    OBVIOUS
  <2> QED
    BY <1>1, <2>2, <2>3 DEF Log!LogNext
<1>5. ASSUME Pending' \subseteq Pending, Range(table') = Range(table),
             process = "running", process' # "running"
      PROVE  Log!LogNext
  <2>1. Pending' = Pending \ (Pending \ Pending')
    BY <1>5
  <2>2. Log!BeginStop(Pending \ Pending')
    BY <1>5, <2>1 DEF Pending, Held, Log!BeginStop
  <2>3. Pending \ Pending' \in SUBSET Pending
    OBVIOUS
  <2> QED
    BY <1>1, <2>2, <2>3 DEF Log!LogNext
<1> QED
  BY <1>2, <1>3, <1>4, <1>5

LEMMA FlushLog ==
    ASSUME IInv, NEW f \in Flushers, FlushStep(f)
    PROVE  Log!LogNext \/ UNCHANGED Log!logVars
<1>1. Range(batch[f]) \subseteq InFlight
  BY DEF InFlight
<1>2. Len(added') = Len(added) /\ process' = process
  BY DEF FlushStep, Capture, WriteBatch, WriteFails, WriteClosed, Requeue, Flushed,
         bufferVars
<1>3. CASE Capture(f)
  <2>1. table' = table /\ txnTable' = txnTable
    BY <1>3 DEF Capture, dbVars
  <2>2. Range(rows') = {} /\ InFlight' = InFlight \cup Range(rows)
    BY <1>3, CaptureMoves
  <2>3. Pending' = Pending
    BY <2>1, <2>2 DEF Pending, Held
  <2> QED
    BY <1>2, <2>1, <2>3, LogSteps
<1>4. CASE WriteBatch(f)
  <2>1. Return(f, "written") /\ InThread(f) /\ rows' = rows
    BY <1>4 DEF WriteBatch, bufferVars
  <2>2. /\ InFlight' \subseteq InFlight
        /\ InFlight \subseteq InFlight' \cup Range(batch[f])
    BY <2>1, Returned DEF IInv, Stages
  <2>3. /\ Range(table') = Range(table) \cup Range(txnTable) \cup Range(batch[f])
        /\ Range(txnTable') = {}
    BY <1>4, WriteMoves
  <2> DEFINE S == (Range(txnTable) \cup Range(batch[f])) \ Range(table)
  <2>4. S \in SUBSET Pending
    BY <1>1 DEF Pending, Held
  <2>5. Pending' = Pending \ S /\ Range(table') = Range(table) \cup S
    BY <2>1, <2>2, <2>3 DEF Pending, Held
  <2> QED
    BY <1>2, <2>4, <2>5, LogSteps
<1>5. CASE WriteFails(f)
  <2>1. /\ Return(f, "failed") /\ InThread(f) /\ rows' = rows /\ table' = table
    BY <1>5 DEF WriteFails, bufferVars
  <2>2. /\ InFlight' \subseteq InFlight
        /\ stage[f] # "orphan" => InFlight' = InFlight
    BY <2>1, Returned DEF IInv, Stages
  <2>3. Range(txnTable') \subseteq Range(txnTable) \cup Range(batch[f])
    BY <1>5, FailMoves
  <2>4. Pending' \subseteq Pending
    BY <1>1, <2>1, <2>2, <2>3 DEF Pending, Held
  <2>5. CASE process = "running"
    <3>1. InFlight' = InFlight
      BY <2>2, <2>5 DEF IInv, Uncancelled
    <3>2. Range(txnTable) \subseteq Range(rows) \cup InFlight \cup Range(table)
      BY <2>5 DEF IInv, TxnHeld
    <3>3. Pending' = Pending
      BY <1>1, <2>1, <2>3, <3>1, <3>2 DEF Pending, Held
    <3> QED
      BY <1>2, <2>1, <3>3, LogSteps
  <2>6. CASE process # "running"
    BY <1>2, <2>1, <2>4, <2>6, LogSteps
  <2> QED
    BY <2>5, <2>6
<1>6. CASE WriteClosed(f)
  <2>1. /\ Return(f, "failed") /\ InThread(f) /\ rows' = rows /\ table' = table
        /\ txnTable' = txnTable /\ process = "closed"
    BY <1>6 DEF WriteClosed, bufferVars, dbVars
  <2>2. InFlight' \subseteq InFlight
    BY <2>1, Returned DEF IInv, Stages
  <2>3. Pending' \subseteq Pending
    BY <2>1, <2>2 DEF Pending, Held
  <2> QED
    BY <1>2, <2>1, <2>3, LogSteps
<1>7. CASE Requeue(f)
  <2>1. table' = table /\ txnTable' = txnTable
    BY <1>7 DEF Requeue, dbVars
  <2>2. /\ Range(rows') = Range(rows) \cup Range(batch[f])
        /\ InFlight' \cup Range(batch[f]) = InFlight
    BY <1>7, RequeueInv, Emptied DEF Requeue
  <2>3. Pending' = Pending
    BY <2>1, <2>2 DEF Pending, Held
  <2> QED
    BY <1>2, <2>1, <2>3, LogSteps
<1>8. CASE Flushed(f)
  <2>1. table' = table /\ txnTable' = txnTable /\ rows' = rows
    BY <1>8 DEF Flushed, dbVars, bufferVars
  <2>2. InFlight' \cup Range(batch[f]) = InFlight
    BY <1>8, Emptied DEF Flushed
  <2>3. Range(batch[f]) \subseteq Range(table)
    BY <1>8 DEF Flushed, IInv, Accounted
  <2>4. Pending' = Pending
    BY <2>1, <2>2, <2>3 DEF Pending, Held
  <2> QED
    BY <1>2, <2>1, <2>4, LogSteps
<1> QED
  BY <1>3, <1>4, <1>5, <1>6, <1>7, <1>8 DEF FlushStep

LEMMA StepLog ==
    ASSUME IInv, [Next]_vars
    PROVE  Log!LogNext \/ UNCHANGED Log!logVars
<1>1. CASE \E m \in Models : Add(m)
  BY <1>1, AddLog DEF Log!LogNext
<1>2. CASE \E f \in Flushers : FlushStep(f)
  BY <1>2, FlushLog
<1>3. CASE OtherCommit
  <2>1. /\ added' = added /\ process' = process /\ rows' = rows /\ batch' = batch
        /\ txnTable' = <<>>
    BY <1>3 DEF OtherCommit, bufferVars, flushVars
  <2>2. InFlight' = InFlight /\ Range(txnTable') = {}
    BY <2>1, EmptyRange DEF InFlight
  <2>3. Range(table') = Range(table) \cup Range(txnTable)
    BY <1>3, OtherCommitInv
  <2> DEFINE S == Range(txnTable) \ Range(table)
  <2>4. S \in SUBSET Pending
    BY DEF Pending, Held
  <2>5. Pending' = Pending \ S /\ Range(table') = Range(table) \cup S
    BY <2>1, <2>2, <2>3 DEF Pending, Held
  <2> QED
    BY <2>1, <2>4, <2>5, LogSteps
<1>4. CASE BeginStop
  <2>1. /\ added' = added /\ rows' = rows /\ table' = table /\ txnTable' = txnTable
        /\ process = "running" /\ process' = "stopping"
    BY <1>4 DEF BeginStop, bufferVars, dbVars
  <2>2. Pending' \subseteq Pending
    BY <1>4, <2>1, BeginStopInv DEF Pending, Held
  <2> QED
    BY <2>1, <2>2, LogSteps
<1>5. CASE Close
  <2>1. /\ added' = added /\ rows' = rows /\ table' = table /\ batch' = batch
        /\ txnTable' = <<>> /\ process = "stopping" /\ process' = "closed"
    BY <1>5 DEF Close, bufferVars, flushVars
  <2>2. Pending' \subseteq Pending
    BY <2>1, EmptyRange DEF Pending, Held, InFlight
  <2> QED
    BY <2>1, <2>2, LogSteps
<1>6. CASE Crash
  <2>1. added' = added /\ table' = table /\ process' = "running"
    BY <1>6 DEF Crash
  <2>2. Range(rows') = {} /\ InFlight' = {} /\ Range(txnTable') = {}
    BY <1>6, CrashInv
  <2>3. Log!CrashRestart
    BY <2>1, <2>2 DEF Log!CrashRestart
  <2> QED
    BY <2>3 DEF Log!LogNext
<1>7. CASE UNCHANGED vars
  BY <1>7 DEF vars, bufferVars, flushVars, dbVars, InFlight, Log!logVars
<1> QED
  BY <1>1, <1>2, <1>3, <1>4, <1>5, <1>6, <1>7 DEF Next

\* Every behaviour of the batcher, with overlapping flushes, failures, open
\* transactions, shutdown and crashes, is one of the abstract log: what is
\* accepted stays pending until it is durable, and stays durable.
THEOREM ImplementsLogCorrect == Spec => ImplementsLog
<1>1. Init => Log!LogInit
  BY InitLog
<1>2. IInv /\ [Next]_vars => [Log!LogNext]_(Log!logVars)
  BY StepLog
<1> QED
  BY <1>1, <1>2, Invariance, PTL DEF Spec, ImplementsLog, Log!LogSpec

-----------------------------------------------------------------------------
(***************************************************************************)
(* What Upsert stores, and the types of the states                         *)
(***************************************************************************)
\* Every set of numbers has a least one: < is well-founded on Nat.
LEMMA LeastNumber ==
    ASSUME NEW T, T \subseteq Nat, T # {}
    PROVE  \E x \in T : \A y \in T : x <= y
<1> DEFINE R == OpToRel(<, Nat)
<1>1. IsWellFoundedOn(R, Nat)
  BY NatLessThanWellFounded
<1>2. \A x, y \in Nat : x < y => <<x, y>> \in R
  BY DEF OpToRel
<1> HIDE DEF R
<1>3. PICK x \in T : \A y \in T : ~(<<y, x>> \in R)
  BY <1>1, WFMin
<1>4. \A y \in T : x \in Nat /\ y \in Nat /\ ~(y < x)
  BY <1>2, <1>3
<1>5. \A y \in T : x <= y
  BY <1>4
<1> QED
  BY <1>5

LEMMA GreatestNumber ==
    ASSUME NEW n \in Nat, NEW T, T \subseteq 0 .. n, T # {}
    PROVE  \E x \in T : \A y \in T : y <= x
<1> DEFINE D == {n - x : x \in T}
<1>1. PICK d \in D : \A e \in D : d <= e
  <2>1. D \subseteq Nat
    OBVIOUS
  <2>2. D # {}
    OBVIOUS
  <2> HIDE DEF D
  <2> QED
    BY <2>1, <2>2, LeastNumber
<1>2. PICK x \in T : d = n - x
  BY <1>1
<1>3. \A y \in T : n - y \in D
  OBVIOUS
<1> QED
  BY <1>1, <1>2, <1>3

\* A model's state after a batch is its last result in the batch, if it has one.
LEMMA UpsertLatest ==
    ASSUME NEW b \in Seq(Results), NEW s, NEW m \in Models
    PROVE  \/ /\ \A i \in DOMAIN b : added[b[i]] # m
              /\ Upsert(s, b)[m] = s[m]
           \/ \E i \in DOMAIN b :
                 /\ added[b[i]] = m
                 /\ Upsert(s, b)[m] = b[i]
                 /\ \A j \in DOMAIN b : added[b[j]] = m => j <= i
<1> DEFINE I == {i \in DOMAIN b : added[b[i]] = m}
<1>1. Upsert(s, b)[m] = IF I = {} THEN s[m]
                                  ELSE b[CHOOSE i \in I : \A j \in I : j <= i]
  BY DEF Upsert
<1>2. CASE I = {}
  BY <1>1, <1>2
<1>3. CASE I # {}
  <2>1. Len(b) \in Nat /\ DOMAIN b = 1 .. Len(b)
    BY LenProperties
  <2>2. I \subseteq 0 .. Len(b)
    BY <2>1
  <2>3. \E i \in I : \A j \in I : j <= i
    <3> HIDE DEF I
    <3> QED
      BY <1>3, <2>1, <2>2, GreatestNumber
  <2>4. PICK i \in I : /\ i = CHOOSE k \in I : \A j \in I : j <= k
                       /\ \A j \in I : j <= i
    BY <2>3
  <2> QED
    BY <1>1, <1>3, <2>4
<1> QED
  BY <1>2, <1>3

States == [Models -> 0 .. Len(added)]

StateTyped == /\ txnState \in States /\ state \in States
              /\ failures \in 0 .. MaxFailures /\ crashes \in 0 .. MaxCrashes

LEMMA UpsertType ==
    ASSUME Typed, NEW b \in Seq(Results), NEW s \in States
    PROVE  Upsert(s, b) \in States
<1>1. Len(added) \in Nat
  BY TypedRanges
<1>2. \A i \in DOMAIN b : b[i] \in 0 .. Len(added)
  BY <1>1, LenProperties, ElementOfSeq DEF Results
<1>3. \A m \in Models : Upsert(s, b)[m] \in 0 .. Len(added)
  BY <1>2, UpsertLatest DEF States
<1> DEFINE e(m) == LET I == {i \in DOMAIN b : added[b[i]] = m}
                   IN  IF I = {} THEN s[m]
                                 ELSE b[CHOOSE i \in I : \A j \in I : j <= i]
<1>4. Upsert(s, b) = [m \in Models |-> e(m)]
  BY DEF Upsert
<1> HIDE DEF e
<1> QED
  BY <1>3, <1>4 DEF States

LEMMA StateInit == Init => StateTyped
<1> SUFFICES ASSUME Init PROVE StateTyped
  OBVIOUS
<1>1. Len(added) = 0
  BY EmptySeq DEF Init
<1> QED
  BY <1>1, BatcherAssumption DEF Init, StateTyped, States, BatcherAssumption

LEMMA StateStep ==
    ASSUME IInv, StateTyped, [Next]_vars
    PROVE  StateTyped'
<1> USE DEF StateTyped, bufferVars, flushVars, boundVars, dbVars
<1>0. Typed /\ Len(added) \in Nat
  BY TypedRanges DEF IInv
<1>1. CASE \E m \in Models : Add(m)
  <2>1. Len(added') = Len(added) + 1
    BY <1>0, <1>1, AddResults DEF Add
  <2> QED
    BY <1>0, <1>1, <2>1 DEF Add, States
<1>2. CASE \E f \in Flushers : WriteBatch(f)
  <2>1. PICK f \in Flushers : WriteBatch(f)
    BY <1>2
  <2>2. batch[f] \in Seq(Results)
    BY <1>0 DEF Typed
  <2>3. Upsert(txnState, batch[f]) \in States
    BY <1>0, <2>2, UpsertType
  <2> QED
    BY <2>1, <2>3 DEF WriteBatch, States
<1>3. CASE \E f \in Flushers : WriteFails(f)
  <2>1. PICK f \in Flushers : WriteFails(f)
    BY <1>3
  <2>2. batch[f] \in Seq(Results)
    BY <1>0 DEF Typed
  <2>3. \A j \in 0 .. Len(batch[f]) : Upsert(txnState, SubSeq(batch[f], 1, j)) \in States
    <3> TAKE j \in 0 .. Len(batch[f])
    <3>1. SubSeq(batch[f], 1, j) \in Seq(Results)
      BY <2>2, PrefixRange
    <3> QED
      BY <1>0, <3>1, UpsertType
  <2>4. txnState' \in States
    BY <2>1, <2>3 DEF WriteFails
  <2>5. failures' \in 0 .. MaxFailures
    BY <2>1, BatcherAssumption DEF WriteFails, BatcherAssumption
  <2> QED
    BY <2>1, <2>4, <2>5 DEF WriteFails, States
<1>4. CASE \/ \E f \in Flushers : Capture(f) \/ WriteClosed(f) \/ Requeue(f) \/ Flushed(f)
           \/ OtherCommit \/ BeginStop \/ Close \/ Crash
  BY <1>4, BatcherAssumption
     DEF Capture, WriteClosed, Requeue, Flushed, OtherCommit, BeginStop, Close, Crash,
         States, BatcherAssumption
<1>5. CASE UNCHANGED vars
  BY <1>5 DEF vars, States
<1> QED
  BY <1>1, <1>2, <1>3, <1>4, <1>5 DEF Next, FlushStep

\* The buffer, the batches, the transaction and the tables refer only to
\* results that were added, whatever a failed flush left behind.
THEOREM TypeCorrect == Spec => []TypeOK
<1>1. IInv /\ StateTyped => TypeOK
  BY DEF IInv, Typed, StateTyped, States, TypeOK
<1>2. IInv /\ StateTyped /\ [Next]_vars => StateTyped'
  BY StateStep
<1> QED
  BY <1>1, <1>2, StateInit, Invariance, PTL DEF Spec

-----------------------------------------------------------------------------
(***************************************************************************)
(* While no flush has failed, every result is in one place, once           *)
(***************************************************************************)
Distinct(s) == \A i, j \in DOMAIN s : s[i] = s[j] => i = j

\* The batch of this flush is not in the table yet.
Owes(f) == stage[f] \in {"writing", "failed", "orphan"}

Once ==
    failures = 0 =>
        /\ txnTable = <<>> /\ txnState = state
        /\ Distinct(rows) /\ Distinct(table) /\ \A f \in Flushers : Distinct(batch[f])
        /\ Range(rows) \cap Range(table) = {}
        /\ \A f \in Flushers :
              Owes(f) => Range(batch[f]) \cap (Range(rows) \cup Range(table)) = {}
        /\ \A f, g \in Flushers :
              Owes(f) /\ Owes(g) /\ f # g => Range(batch[f]) \cap Range(batch[g]) = {}

\* What is proved together: StateTyped bounds the failures from below.
OnceInv == IInv /\ StateTyped /\ Once /\ RowsComeWithState

LEMMA EmptyDistinct == Distinct(<<>>)
BY EmptySeq DEF Distinct

LEMMA DistinctConcat ==
    ASSUME NEW S, NEW s \in Seq(S), NEW t \in Seq(S), Distinct(s), Distinct(t),
           Range(s) \cap Range(t) = {}
    PROVE  Distinct(s \o t)
<1>1. /\ Len(s) \in Nat /\ DOMAIN s = 1 .. Len(s)
      /\ Len(t) \in Nat /\ DOMAIN t = 1 .. Len(t)
      /\ DOMAIN (s \o t) = 1 .. Len(s) + Len(t)
      /\ \A i \in 1 .. Len(s) + Len(t) :
            (s \o t)[i] = IF i <= Len(s) THEN s[i] ELSE t[i - Len(s)]
  BY LenProperties, ConcatProperties
<1>2. SUFFICES ASSUME NEW i \in 1 .. Len(s) + Len(t), NEW j \in 1 .. Len(s) + Len(t),
                      (s \o t)[i] = (s \o t)[j]
               PROVE  i = j
  BY <1>1 DEF Distinct
<1>3. CASE i <= Len(s) /\ j <= Len(s)
  BY <1>1, <1>2, <1>3 DEF Distinct
<1>4. CASE ~(i <= Len(s)) /\ ~(j <= Len(s))
  <2>1. i - Len(s) \in DOMAIN t /\ j - Len(s) \in DOMAIN t
    BY <1>1, <1>4
  <2>2. i - Len(s) = j - Len(s)
    BY <1>1, <1>2, <1>4, <2>1 DEF Distinct
  <2> QED
    BY <1>1, <2>2
<1>5. ASSUME NEW x \in 1 .. Len(s), NEW y \in 1 .. Len(t) PROVE s[x] # t[y]
  BY <1>1 DEF Range
<1>6. CASE i <= Len(s) /\ ~(j <= Len(s))
  <2>1. j - Len(s) \in 1 .. Len(t)
    BY <1>1, <1>6
  <2> QED
    BY <1>1, <1>2, <1>5, <1>6, <2>1
<1>7. CASE ~(i <= Len(s)) /\ j <= Len(s)
  <2>1. i - Len(s) \in 1 .. Len(t)
    BY <1>1, <1>7
  <2> QED
    BY <1>1, <1>2, <1>5, <1>7, <2>1
<1> QED
  BY <1>3, <1>4, <1>6, <1>7

LEMMA OnceInit == Init => Once /\ RowsComeWithState
<1> SUFFICES ASSUME Init PROVE Once /\ RowsComeWithState
  OBVIOUS
<1>1. /\ Range(<<>>) = {} /\ Distinct(<<>>) /\ DOMAIN <<>> = {}
  BY EmptyRange, EmptyDistinct
<1> QED
  BY <1>1 DEF Init, Once, Owes, RowsComeWithState

\* A failure stays on record, so it is enough to look at steps without one.
LEMMA NoFailure ==
    ASSUME OnceInv, [Next]_vars, failures' = 0
    PROVE  failures = 0 /\ \A f \in Flushers : ~WriteFails(f)
<1> USE DEF bufferVars, flushVars, boundVars, dbVars
<1>1. failures \in Nat
  BY BatcherAssumption DEF OnceInv, StateTyped, BatcherAssumption
<1>2. \A f \in Flushers : ~WriteFails(f)
  BY <1>1 DEF WriteFails
<1>3. failures' = failures
  BY <1>2 DEF Next, FlushStep, Add, Capture, WriteBatch, WriteClosed, Requeue, Flushed,
         OtherCommit, BeginStop, Close, Crash, vars
<1> QED
  BY <1>2, <1>3

\* A flush whose batch becomes the rest of what somebody else held.
LEMMA OnceRows ==
    ASSUME OnceInv, failures = 0, failures' = 0,
           UNCHANGED <<txnTable, txnState, state, table>>,
           Distinct(rows'), \A f \in Flushers : Distinct(batch'[f]),
           Range(rows') \cap Range(table) = {},
           \A f \in Flushers :
              Owes(f)' => Range(batch'[f]) \cap (Range(rows') \cup Range(table)) = {},
           \A f, g \in Flushers :
              Owes(f)' /\ Owes(g)' /\ f # g => Range(batch'[f]) \cap Range(batch'[g]) = {}
    PROVE  Once'
BY DEF OnceInv, Once

LEMMA AddOnce ==
    ASSUME OnceInv, NEW m \in Models, Add(m), failures = 0
    PROVE  Once'
<1> DEFINE n == Len(added) + 1
<1>1. /\ added' = Append(added, m) /\ rows' = Append(rows, n) /\ batch' = batch
      /\ UNCHANGED <<txnTable, txnState, state, table, failures>>
  BY DEF Add, dbVars, boundVars
<1>2. Typed /\ Typed'
  BY AddInv DEF OnceInv, IInv
<1>3. /\ n \notin Results /\ Results' = Results \cup {n}
  BY <1>1, <1>2, AddResults
<1>4. /\ Range(rows) \subseteq Results /\ Range(table) \subseteq Results
      /\ InFlight \subseteq Results
  BY <1>2, TypedRanges
<1>5. rows' = rows \o <<n>> /\ rows \in Seq(Results') /\ <<n>> \in Seq(Results')
  <2>1. rows \in Seq(Results')
    BY <1>2, <1>3, SeqMonotonic DEF Typed
  <2>2. n \in Results'
    BY <1>3
  <2> QED
    BY <1>1, <2>1, <2>2, AppendIsConcat
<1>6. Range(<<n>>) = {n} /\ Distinct(<<n>>)
  BY DEF Range, Distinct
<1>7. Range(rows') = Range(rows) \cup {n}
  <2>1. Range(rows \o <<n>>) = Range(rows) \cup Range(<<n>>)
    BY <1>5, RangeConcatenation
  <2>2. Range(rows') = Range(rows \o <<n>>)
    BY <1>5
  <2> QED
    BY <1>6, <2>1, <2>2
<1>8. Distinct(rows')
  <2>1. Range(rows) \cap Range(<<n>>) = {}
    BY <1>3, <1>4, <1>6
  <2> QED
    BY <1>5, <1>6, <2>1, DistinctConcat DEF OnceInv, Once
<1>9. \A f \in Flushers : Owes(f)' => Owes(f)
  <2>1. stage' = stage \/ \E f \in Triggered : stage' = [stage EXCEPT ![f] = "scheduled"]
    BY DEF Add
  <2> QED
    BY <1>2, <2>1 DEF Owes, Typed
<1>10. \A f \in Flushers : Range(batch[f]) \subseteq Results
  BY <1>4 DEF InFlight
<1>11. Range(rows') \cap Range(table) = {}
  BY <1>3, <1>4, <1>7 DEF OnceInv, Once
<1>12. \A f \in Flushers :
          Owes(f)' => Range(batch'[f]) \cap (Range(rows') \cup Range(table)) = {}
  <2> SUFFICES ASSUME NEW f \in Flushers, Owes(f)
               PROVE  Range(batch[f]) \cap (Range(rows') \cup Range(table)) = {}
    BY <1>1, <1>9
  <2>1. Range(batch[f]) \cap (Range(rows) \cup Range(table)) = {}
    BY DEF OnceInv, Once
  <2> QED
    BY <1>3, <1>7, <1>10, <2>1
<1>13. \A f, g \in Flushers :
          Owes(f)' /\ Owes(g)' /\ f # g => Range(batch'[f]) \cap Range(batch'[g]) = {}
  BY <1>1, <1>9 DEF OnceInv, Once
<1>14. \A f \in Flushers : Distinct(batch'[f])
  BY <1>1 DEF OnceInv, Once
<1> QED
  BY <1>1, <1>8, <1>11, <1>12, <1>13, <1>14, OnceRows

LEMMA CaptureOnce ==
    ASSUME OnceInv, NEW f \in Flushers, Capture(f), failures = 0
    PROVE  Once'
<1>1. /\ UNCHANGED <<txnTable, txnState, state, table, failures>> /\ rows' = <<>>
  BY DEF Capture, dbVars, boundVars
<1>2. /\ batch'[f] = rows
      /\ \A g \in Flushers : g # f => stage'[g] = stage[g] /\ batch'[g] = batch[g]
      /\ Range(rows') = {}
  BY CaptureMoves DEF OnceInv
<1>3. \A g \in Flushers : Owes(g)' => g = f \/ Owes(g)
  BY <1>2 DEF Owes
<1>4. Distinct(rows') /\ \A g \in Flushers : Distinct(batch'[g])
  BY <1>1, <1>2, EmptyDistinct DEF OnceInv, Once
<1>5. \A g \in Flushers :
         Owes(g)' => Range(batch'[g]) \cap (Range(rows') \cup Range(table)) = {}
  BY <1>2, <1>3 DEF OnceInv, Once
<1>6. \A g, h \in Flushers :
         Owes(g)' /\ Owes(h)' /\ g # h => Range(batch'[g]) \cap Range(batch'[h]) = {}
  BY <1>2, <1>3 DEF OnceInv, Once
<1> QED
  BY <1>1, <1>2, <1>4, <1>5, <1>6, OnceRows

LEMMA WriteOnce ==
    ASSUME OnceInv, NEW f \in Flushers, WriteBatch(f), failures = 0
    PROVE  Once'
<1>1. /\ txnTable' = <<>> /\ txnState' = state' /\ rows' = rows
      /\ Return(f, "written") /\ InThread(f)
      /\ failures' = failures
  BY DEF WriteBatch, bufferVars, boundVars
<1>2. /\ table \in Seq(Results) /\ batch[f] \in Seq(Results) /\ txnTable = <<>>
  BY DEF OnceInv, IInv, Typed, Once
<1>3. table' = table \o batch[f]
  <2>1. table' = table \o txnTable \o batch[f]
    BY DEF WriteBatch
  <2>2. table \o txnTable = table
    BY <1>2, ConcatEmptySeq
  <2> QED
    BY <2>1, <2>2
<1>4. Range(table') = Range(table) \cup Range(batch[f])
  BY <1>2, <1>3, Appended
<1>5. /\ \A g \in Flushers : g # f => stage'[g] = stage[g] /\ batch'[g] = batch[g]
      /\ \/ stage'[f] = "idle" /\ batch'[f] = <<>>
         \/ stage'[f] = "written" /\ batch' = batch
  BY <1>1, Returned DEF OnceInv, IInv, Stages
<1>6. Owes(f) /\ \A g \in Flushers : Owes(g)' => g # f /\ Owes(g)
  BY <1>1, <1>5 DEF Owes, InThread
<1>7. Distinct(table')
  <2>1. Range(table) \cap Range(batch[f]) = {} /\ Distinct(table) /\ Distinct(batch[f])
    BY <1>6 DEF OnceInv, Once
  <2> QED
    BY <1>2, <1>3, <2>1, DistinctConcat
<1>8. \A g \in Flushers : Distinct(batch'[g])
  BY <1>5, EmptyDistinct DEF OnceInv, Once
<1>9. Range(rows') \cap Range(table') = {}
  BY <1>1, <1>4, <1>6 DEF OnceInv, Once
<1>10. \A g \in Flushers :
          Owes(g)' => Range(batch'[g]) \cap (Range(rows') \cup Range(table')) = {}
  BY <1>1, <1>4, <1>5, <1>6 DEF OnceInv, Once
<1>11. \A g, h \in Flushers :
          Owes(g)' /\ Owes(h)' /\ g # h => Range(batch'[g]) \cap Range(batch'[h]) = {}
  BY <1>5, <1>6 DEF OnceInv, Once
<1>12. Distinct(rows')
  BY <1>1 DEF OnceInv, Once
<1> QED
  BY <1>1, <1>7, <1>8, <1>9, <1>10, <1>11, <1>12 DEF Once

LEMMA RequeueOnce ==
    ASSUME OnceInv, NEW f \in Flushers, Requeue(f), failures = 0
    PROVE  Once'
<1>1. /\ UNCHANGED <<txnTable, txnState, state, table, failures>>
      /\ stage[f] = "failed" /\ rows' = rows \o batch[f]
  BY DEF Requeue, dbVars, boundVars
<1>2. /\ batch'[f] = <<>> /\ stage'[f] = "idle"
      /\ \A g \in Flushers : g # f => stage'[g] = stage[g] /\ batch'[g] = batch[g]
  BY Emptied DEF OnceInv, Requeue
<1>3. Range(rows') = Range(rows) \cup Range(batch[f])
  BY RequeueInv DEF OnceInv
<1>4. Owes(f) /\ \A g \in Flushers : Owes(g)' => g # f /\ Owes(g)
  BY <1>1, <1>2 DEF Owes
<1>5. Distinct(rows')
  <2>1. rows \in Seq(Results) /\ batch[f] \in Seq(Results)
    BY DEF OnceInv, IInv, Typed
  <2>2. Range(rows) \cap Range(batch[f]) = {} /\ Distinct(rows) /\ Distinct(batch[f])
    BY <1>4 DEF OnceInv, Once
  <2> QED
    BY <1>1, <2>1, <2>2, DistinctConcat
<1>6. \A g \in Flushers : Distinct(batch'[g])
  BY <1>2, EmptyDistinct DEF OnceInv, Once
<1>7. Range(rows') \cap Range(table) = {}
  BY <1>3, <1>4 DEF OnceInv, Once
<1>8. \A g \in Flushers :
         Owes(g)' => Range(batch'[g]) \cap (Range(rows') \cup Range(table)) = {}
  <2> SUFFICES ASSUME NEW g \in Flushers, Owes(g)'
               PROVE  Range(batch'[g]) \cap (Range(rows') \cup Range(table)) = {}
    OBVIOUS
  <2>1. Owes(g) /\ g # f /\ batch'[g] = batch[g]
    BY <1>2, <1>4
  <2>2. Range(batch[g]) \cap (Range(rows) \cup Range(table)) = {}
    BY <2>1 DEF OnceInv, Once
  <2>3. Range(batch[g]) \cap Range(batch[f]) = {}
    BY <1>4, <2>1 DEF OnceInv, Once
  <2> QED
    BY <1>3, <2>1, <2>2, <2>3
<1>9. \A g, h \in Flushers :
         Owes(g)' /\ Owes(h)' /\ g # h => Range(batch'[g]) \cap Range(batch'[h]) = {}
  BY <1>2, <1>4 DEF OnceInv, Once
<1> QED
  BY <1>1, <1>5, <1>6, <1>7, <1>8, <1>9, OnceRows

\* Steps that move no result, and give up some at most.
LEMMA StillOnce ==
    ASSUME OnceInv, failures = 0, failures' = 0,
           UNCHANGED <<txnTable, txnState, state, table>>,
           rows' = rows \/ rows' = <<>>,
           \A f \in Flushers : \/ batch'[f] = <<>>
                               \/ batch'[f] = batch[f] /\ (Owes(f)' => Owes(f))
    PROVE  Once'
<1>1. Range(rows') \subseteq Range(rows) /\ Distinct(rows')
  BY EmptyRange, EmptyDistinct DEF OnceInv, Once
<1>2. \A f \in Flushers : Distinct(batch'[f])
  BY EmptyDistinct DEF OnceInv, Once
<1>3. \A f \in Flushers : Owes(f)' => Range(batch'[f]) = {} \/ (batch'[f] = batch[f] /\ Owes(f))
  BY EmptyRange
<1>4. \A f \in Flushers :
         Owes(f)' => Range(batch'[f]) \cap (Range(rows') \cup Range(table)) = {}
  BY <1>1, <1>3 DEF OnceInv, Once
<1>5. \A f, g \in Flushers :
         Owes(f)' /\ Owes(g)' /\ f # g => Range(batch'[f]) \cap Range(batch'[g]) = {}
  BY <1>3 DEF OnceInv, Once
<1>6. Range(rows') \cap Range(table) = {}
  BY <1>1 DEF OnceInv, Once
<1> QED
  BY <1>1, <1>2, <1>4, <1>5, <1>6, OnceRows

LEMMA OnceStep ==
    ASSUME OnceInv, [Next]_vars
    PROVE  Once'
<1> USE DEF bufferVars, flushVars, boundVars, dbVars
<1>1. SUFFICES ASSUME failures' = 0 PROVE Once'
  BY DEF Once
<1>2. failures = 0 /\ \A f \in Flushers : ~WriteFails(f)
  BY <1>1, NoFailure
<1>3. /\ txnTable = <<>> /\ txnState = state /\ Typed
      /\ table \o <<>> = table
  BY <1>2, ConcatEmptySeq DEF OnceInv, Once, IInv, Typed
<1>4. CASE \E m \in Models : Add(m)
  BY <1>2, <1>4, AddOnce
<1>5. CASE \E f \in Flushers : Capture(f)
  BY <1>2, <1>5, CaptureOnce
<1>6. CASE \E f \in Flushers : WriteBatch(f)
  BY <1>2, <1>6, WriteOnce
<1>7. CASE \E f \in Flushers : Requeue(f)
  BY <1>2, <1>7, RequeueOnce
<1>8. CASE \E f \in Flushers : WriteClosed(f)
  <2>1. PICK f \in Flushers : WriteClosed(f)
    BY <1>8
  <2>2. Return(f, "failed") /\ InThread(f)
    BY <2>1 DEF WriteClosed
  <2>3. /\ \A g \in Flushers : g # f => stage'[g] = stage[g] /\ batch'[g] = batch[g]
        /\ \/ batch'[f] = <<>>
           \/ batch' = batch
    BY <1>3, <2>2, Returned DEF Stages
  <2>4. Owes(f)
    BY <2>2 DEF Owes, InThread
  <2>5. \A g \in Flushers : \/ batch'[g] = <<>>
                            \/ batch'[g] = batch[g] /\ (Owes(g)' => Owes(g))
    BY <2>3, <2>4 DEF Owes
  <2> QED
    BY <1>1, <1>2, <2>1, <2>5, StillOnce DEF WriteClosed
<1>9. CASE \E f \in Flushers : Flushed(f)
  <2>1. PICK f \in Flushers : Flushed(f)
    BY <1>9
  <2>2. /\ batch'[f] = <<>>
        /\ \A g \in Flushers : g # f => stage'[g] = stage[g] /\ batch'[g] = batch[g]
    BY <2>1, Emptied DEF OnceInv, Flushed
  <2>3. \A g \in Flushers : \/ batch'[g] = <<>>
                            \/ batch'[g] = batch[g] /\ (Owes(g)' => Owes(g))
    BY <2>2 DEF Owes
  <2> QED
    BY <1>1, <1>2, <2>1, <2>3, StillOnce DEF Flushed
<1>10. CASE BeginStop
  <2>1. \A g \in Flushers : \/ batch'[g] = <<>>
                            \/ batch'[g] = batch[g] /\ (Owes(g)' => Owes(g))
    BY <1>3, <1>10 DEF BeginStop, Owes, Typed
  <2> QED
    BY <1>1, <1>2, <1>10, <2>1, StillOnce DEF BeginStop
<1>11. CASE OtherCommit \/ Close \/ Crash \/ UNCHANGED vars
  <2>1. UNCHANGED <<txnTable, txnState, state, table>>
    BY <1>3, <1>11 DEF OtherCommit, Close, Crash, vars
  <2>2. \A g \in Flushers : \/ batch'[g] = <<>>
                            \/ batch'[g] = batch[g] /\ (Owes(g)' => Owes(g))
    BY <1>11 DEF OtherCommit, Close, Crash, vars, Owes
  <2>3. rows' = rows \/ rows' = <<>>
    BY <1>11 DEF OtherCommit, Close, Crash, vars
  <2> QED
    BY <1>1, <1>2, <2>1, <2>2, <2>3, StillOnce
<1> QED
  BY <1>2, <1>4, <1>5, <1>6, <1>7, <1>8, <1>9, <1>10, <1>11 DEF Next, FlushStep

LEMMA RowsStep ==
    ASSUME OnceInv, [Next]_vars
    PROVE  RowsComeWithState'
<1> USE DEF bufferVars, flushVars, boundVars, dbVars
<1>1. SUFFICES ASSUME failures' = 0
               PROVE  \A r \in Range(table') : state'[added'[r]] \in Range(table')
  BY DEF RowsComeWithState, Range
<1>2. failures = 0 /\ \A f \in Flushers : ~WriteFails(f)
  BY <1>1, NoFailure
<1>3. /\ txnTable = <<>> /\ txnState = state /\ Typed
      /\ table \o <<>> = table
  BY <1>2, ConcatEmptySeq DEF OnceInv, Once, IInv, Typed
<1>4. \A r \in Range(table) : r \in Results /\ state[added[r]] \in Range(table)
  BY <1>2, <1>3, TypedRanges DEF OnceInv, RowsComeWithState, Range
<1>5. CASE \E m \in Models : Add(m)
  <2>1. \A r \in Results : added'[r] = added[r]
    BY <1>3, <1>5, AppendProperties DEF Add, Typed, Results
  <2> QED
    BY <1>4, <1>5, <2>1 DEF Add
<1>6. CASE \E f \in Flushers : WriteBatch(f)
  <2>1. PICK f \in Flushers : WriteBatch(f)
    BY <1>6
  <2>2. added' = added /\ state' = Upsert(state, batch[f])
    BY <1>3, <2>1 DEF WriteBatch
  <2>3. Range(table') = Range(table) \cup Range(batch[f])
    BY <1>3, <2>1, WriteMoves, EmptyRange DEF OnceInv
  <2>4. batch[f] \in Seq(Results) /\ DOMAIN batch[f] = 1 .. Len(batch[f])
    BY <1>3, LenProperties DEF Typed
  <2>5. SUFFICES ASSUME NEW r \in Range(table')
                 PROVE  state'[added[r]] \in Range(table')
    BY <2>2
  <2>6. Range(batch[f]) \subseteq Results
    BY <2>4, RangeOfSeq
  <2>7. added[r] \in Models
    BY <1>3, <1>4, <2>3, <2>6, ElementOfSeq DEF Typed, Results
  <2>8. CASE \E i \in DOMAIN batch[f] : state'[added[r]] = batch[f][i]
    BY <2>3, <2>8 DEF Range
  <2>9. CASE /\ \A i \in DOMAIN batch[f] : added[batch[f][i]] # added[r]
             /\ state'[added[r]] = state[added[r]]
    <3>1. r \notin Range(batch[f])
      BY <2>9 DEF Range
    <3> QED
      BY <1>4, <2>3, <2>9, <3>1
  <2> QED
    BY <2>2, <2>4, <2>7, <2>8, <2>9, UpsertLatest
<1>7. CASE /\ ~\E m \in Models : Add(m)
           /\ ~\E f \in Flushers : WriteBatch(f)
  <2>1. UNCHANGED <<added, state, table>>
    BY <1>2, <1>3, <1>7
       DEF Next, FlushStep, Capture, WriteClosed, Requeue, Flushed, OtherCommit,
           BeginStop, Close, Crash, vars
  <2> QED
    BY <1>4, <2>1
<1> QED
  BY <1>5, <1>6, <1>7

-----------------------------------------------------------------------------
(***************************************************************************)
(* The loop's flushes come one after the other                             *)
(***************************************************************************)
Alone == failures = 0 /\ crashes = 0 /\ process = "running" /\ Len(added) < MaxBuffer

\* How many results the loop has taken from the buffer, and how many of them
\* before the batch it has.
Taken  == Len(added) - Len(rows)
Before == Taken - Len(batch[Loop])

\* The results up to here are in model_state.
StoredUpTo(n) == \A r \in Results : r <= n => r <= state[added[r]]

Succession ==
    /\ \A f \in Flushers \ {Loop} : stage[f] = "idle"
    /\ stage[Loop] \in {"idle", "writing", "written"}
    /\ 0 <= Before
    /\ \A i \in DOMAIN rows : rows[i] = Taken + i
    /\ \A i \in DOMAIN batch[Loop] : batch[Loop][i] = Before + i
    /\ StoredUpTo(Before)
    /\ stage[Loop] = "written" => StoredUpTo(Taken)

InOrder == Alone => Succession

OrderInv == OnceInv /\ InOrder

\* The numbers and ranges the proofs below calculate with.
LEMMA OrderTypes ==
    ASSUME OrderInv
    PROVE  /\ Typed /\ Loop \in Flushers
           /\ Len(added) \in Nat /\ Len(rows) \in Nat /\ Len(batch[Loop]) \in Nat
           /\ DOMAIN rows = 1 .. Len(rows)
           /\ DOMAIN batch[Loop] = 1 .. Len(batch[Loop])
           /\ \A m \in Models : state[m] \in Nat
           /\ \A r \in Results : r \in Nat /\ added[r] \in Models
<1>1. Typed /\ Loop \in Flushers
  BY DEF OrderInv, OnceInv, IInv, Flushers
<1>2. Len(added) \in Nat
  BY <1>1, TypedRanges
<1>3. \A r \in Results : r \in Nat /\ added[r] \in Models
  BY <1>1, <1>2, ElementOfSeq DEF Typed, Results
<1>4. \A m \in Models : state[m] \in Nat
  BY <1>2 DEF OrderInv, OnceInv, StateTyped, States
<1>5. rows \in Seq(Results) /\ batch[Loop] \in Seq(Results)
  BY <1>1 DEF Typed
<1> QED
  BY <1>1, <1>2, <1>3, <1>4, <1>5, LenProperties

LEMMA OrderInit == Init => InOrder
<1> SUFFICES ASSUME Init PROVE Succession
  BY DEF InOrder
<1>1. Len(<<>>) = 0 /\ DOMAIN <<>> = {}
  BY EmptySeq
<1>2. Loop \in Flushers
  BY DEF Flushers
<1> QED
  BY <1>1, <1>2 DEF Init, Succession, Taken, Before, StoredUpTo, Results

\* What is alone after a step was so before, and neither failed, stopped nor
\* crashed in it.
LEMMA StaysAlone ==
    ASSUME OrderInv, [Next]_vars, Alone'
    PROVE  /\ Alone /\ Succession
           /\ ~BeginStop /\ ~Close /\ ~Crash
           /\ \A f \in Flushers : ~WriteFails(f) /\ ~WriteClosed(f)
<1> USE DEF bufferVars, flushVars, boundVars, dbVars
<1>1. failures = 0 /\ \A f \in Flushers : ~WriteFails(f)
  BY NoFailure DEF OrderInv, Alone
<1>2. Typed /\ Len(added) \in Nat
  BY OrderTypes
<1>3. ~BeginStop /\ ~Close /\ ~Crash
  BY <1>2 DEF Alone, BeginStop, Close, Crash, Typed
<1>4. process = "running" /\ crashes = 0
  BY <1>1, <1>3
     DEF Alone, Next, FlushStep, Add, Capture, WriteBatch, WriteClosed, Requeue,
         Flushed, OtherCommit, vars
<1>5. Len(added) <= Len(added')
  <2>1. CASE \E m \in Models : Add(m)
    BY <1>2, <2>1, AddResults DEF Add
  <2>2. CASE added' = added
    BY <1>2, <2>2
  <2> QED
    BY <2>1, <2>2
       DEF Next, FlushStep, Capture, WriteBatch, WriteFails, WriteClosed, Requeue,
           Flushed, OtherCommit, BeginStop, Close, Crash, vars
<1>6. Len(added') < MaxBuffer /\ MaxBuffer \in Nat
  BY BatcherAssumption DEF Alone, BatcherAssumption
<1>7. Len(added') \in Nat
  BY NextInv, TypedRanges DEF OrderInv, OnceInv, IInv
<1>8. Alone
  BY <1>1, <1>2, <1>4, <1>5, <1>6, <1>7 DEF Alone
<1> QED
  BY <1>1, <1>3, <1>4, <1>8 DEF OrderInv, InOrder, WriteClosed

LEMMA AddOrder ==
    ASSUME OrderInv, NEW m \in Models, Add(m), Succession, Len(added') < MaxBuffer
    PROVE  Succession'
<1> DEFINE n == Len(added) + 1
<1>1. /\ added' = Append(added, m) /\ rows' = Append(rows, n)
      /\ batch' = batch /\ state' = state
  BY DEF Add, dbVars
<1>2. /\ Typed /\ Len(added) \in Nat /\ Len(rows) \in Nat /\ Len(batch[Loop]) \in Nat
      /\ DOMAIN rows = 1 .. Len(rows)
  BY OrderTypes
<1>3. Len(added') = n /\ Results' = Results \cup {n}
  BY <1>1, <1>2, AddResults
<1>4. /\ Len(rows') = Len(rows) + 1
      /\ DOMAIN rows' = 1 .. Len(rows) + 1
      /\ \A i \in 1 .. Len(rows) : rows'[i] = rows[i]
      /\ rows'[Len(rows) + 1] = n
  <2>1. rows \in Seq(Results') /\ n \in Results'
    BY <1>2, <1>3, SeqMonotonic DEF Typed
  <2> QED
    BY <1>1, <2>1, AppendProperties, LenProperties
<1>5. Len(rows) <= Len(added)
  BY <1>2 DEF Succession, Before, Taken
<1>6. MaxBuffer \in Nat
  BY BatcherAssumption DEF BatcherAssumption
<1>7. stage' = stage
  <2>1. ~(Len(rows) + 1 >= MaxBuffer)
    BY <1>2, <1>3, <1>5, <1>6
  <2> QED
    BY <2>1 DEF Add
<1>8. Taken' = Taken /\ Before' = Before
  BY <1>1, <1>2, <1>3, <1>4 DEF Taken, Before
<1>9. \A i \in DOMAIN rows' : rows'[i] = Taken' + i
  <2>1. \A i \in 1 .. Len(rows) : rows'[i] = Taken + i
    BY <1>2, <1>4 DEF Succession
  <2>2. rows'[Len(rows) + 1] = Taken + (Len(rows) + 1)
    BY <1>2, <1>4 DEF Taken
  <2> QED
    BY <1>2, <1>4, <1>8, <2>1, <2>2
<1>10. ASSUME NEW k \in Int, k <= Len(added), StoredUpTo(k)
       PROVE  \A r \in Results' : r <= k => r <= state'[added'[r]]
  <2>1. \A r \in Results' : r <= k => r \in Results
    BY <1>2, <1>3, <1>10
  <2>2. \A r \in Results : added'[r] = added[r]
    BY <1>1, <1>2, AppendProperties DEF Typed, Results
  <2> QED
    BY <1>1, <1>10, <2>1, <2>2 DEF StoredUpTo
<1>11. Taken \in Int /\ Before \in Int /\ Taken <= Len(added) /\ Before <= Len(added)
  BY <1>2 DEF Taken, Before
<1>12. /\ \A r \in Results' : r <= Before => r <= state'[added'[r]]
       /\ stage[Loop] = "written" =>
             \A r \in Results' : r <= Taken => r <= state'[added'[r]]
  BY <1>10, <1>11 DEF Succession
<1>13. StoredUpTo(Before)' /\ (stage'[Loop] = "written" => StoredUpTo(Taken)')
  BY <1>7, <1>8, <1>12 DEF StoredUpTo
<1> QED
  BY <1>1, <1>7, <1>8, <1>9, <1>13 DEF Succession

LEMMA CaptureOrder ==
    ASSUME OrderInv, NEW f \in Flushers, Capture(f), Succession
    PROVE  Succession'
<1>1. /\ Typed /\ Len(added) \in Nat /\ Len(rows) \in Nat
      /\ DOMAIN rows = 1 .. Len(rows) /\ Loop \in Flushers
  BY OrderTypes
<1>2. f = Loop /\ rows # <<>> /\ stage[Loop] = "idle"
  BY DEF Capture, Succession
<1>3. /\ batch'[Loop] = rows /\ stage'[Loop] = "writing" /\ batch[Loop] = <<>>
      /\ \A g \in Flushers : g # Loop => stage'[g] = stage[g]
  BY <1>2, CaptureMoves DEF OrderInv, OnceInv
<1>4. rows' = <<>> /\ added' = added /\ state' = state
  BY DEF Capture, dbVars
<1>5. Len(<<>>) = 0 /\ DOMAIN <<>> = {}
  BY EmptySeq
<1>6. Taken' = Len(added) /\ Before' = Taken /\ Before = Taken
  BY <1>1, <1>3, <1>4, <1>5 DEF Taken, Before
<1>7. StoredUpTo(Before)'
  BY <1>4, <1>6 DEF Succession, StoredUpTo, Results
<1>8. 0 <= Before' /\ \A i \in DOMAIN batch'[Loop] : batch'[Loop][i] = Before' + i
  BY <1>3, <1>6 DEF Succession
<1>9. \A i \in DOMAIN rows' : rows'[i] = Taken' + i
  BY <1>4, <1>5
<1>10. /\ \A g \in Flushers \ {Loop} : stage'[g] = "idle"
       /\ stage'[Loop] \in {"idle", "writing", "written"} /\ stage'[Loop] # "written"
  BY <1>3 DEF Succession
<1> QED
  BY <1>7, <1>8, <1>9, <1>10 DEF Succession

LEMMA WriteOrder ==
    ASSUME OrderInv, NEW f \in Flushers, WriteBatch(f), Succession, failures = 0
    PROVE  Succession'
<1>1. /\ Typed /\ Len(added) \in Nat /\ Len(rows) \in Nat /\ Len(batch[Loop]) \in Nat
      /\ DOMAIN batch[Loop] = 1 .. Len(batch[Loop]) /\ Loop \in Flushers
      /\ \A m \in Models : state[m] \in Nat
      /\ \A r \in Results : r \in Nat /\ added[r] \in Models
  BY OrderTypes
<1>2. f = Loop /\ stage[Loop] = "writing"
  BY DEF WriteBatch, InThread, Succession
<1>3. /\ batch' = batch /\ stage' = [stage EXCEPT ![Loop] = "written"]
      /\ rows' = rows /\ added' = added
  BY <1>2 DEF WriteBatch, Return, bufferVars
<1>4. state' = Upsert(state, batch[Loop])
  BY <1>2 DEF WriteBatch, OrderInv, OnceInv, Once
<1>5. Taken' = Taken /\ Before' = Before /\ Results' = Results
  BY <1>3 DEF Taken, Before, Results
<1>6. batch[Loop] \in Seq(Results) /\ Before \in Int /\ Taken = Before + Len(batch[Loop])
  BY <1>1 DEF Typed, Before, Taken
<1>7. ASSUME NEW r \in Results, r <= Taken
      PROVE  r <= state'[added[r]]
  <2>1. CASE /\ \A i \in DOMAIN batch[Loop] : added[batch[Loop][i]] # added[r]
             /\ state'[added[r]] = state[added[r]]
    <3>1. r <= Before
      <4> SUFFICES ASSUME ~(r <= Before) PROVE FALSE
        OBVIOUS
      <4>1. r - Before \in DOMAIN batch[Loop]
        BY <1>1, <1>6, <1>7
      <4>2. batch[Loop][r - Before] = r
        BY <1>1, <1>6, <4>1 DEF Succession
      <4> QED
        BY <2>1, <4>1, <4>2
    <3> QED
      BY <2>1, <3>1 DEF Succession, StoredUpTo
  <2>2. ASSUME NEW i \in DOMAIN batch[Loop],
               state'[added[r]] = batch[Loop][i],
               \A j \in DOMAIN batch[Loop] : added[batch[Loop][j]] = added[r] => j <= i
        PROVE  r <= state'[added[r]]
    <3>1. state'[added[r]] = Before + i /\ i \in Nat /\ 1 <= i
      BY <1>1, <2>2 DEF Succession
    <3>2. CASE r <= Before
      BY <1>1, <1>6, <3>1, <3>2
    <3>3. CASE ~(r <= Before)
      <4>1. r - Before \in DOMAIN batch[Loop]
        BY <1>1, <1>6, <1>7, <3>3
      <4>2. batch[Loop][r - Before] = Before + (r - Before) /\ r \in Nat
        BY <1>1, <4>1 DEF Succession
      <4>4. batch[Loop][r - Before] = r
        BY <1>6, <4>2
      <4>3. r - Before <= i
        BY <2>2, <4>1, <4>4
      <4> QED
        BY <1>6, <3>1, <4>2, <4>3
    <3> QED
      BY <3>2, <3>3
  <2>3. added[r] \in Models
    BY <1>1
  <2>4. \/ /\ \A i \in DOMAIN batch[Loop] : added[batch[Loop][i]] # added[r]
           /\ state'[added[r]] = state[added[r]]
        \/ \E i \in DOMAIN batch[Loop] :
              /\ state'[added[r]] = batch[Loop][i]
              /\ \A j \in DOMAIN batch[Loop] : added[batch[Loop][j]] = added[r] => j <= i
    BY <1>4, <1>6, <2>3, UpsertLatest
  <2> QED
    BY <2>1, <2>2, <2>4
<1>8. StoredUpTo(Taken)' /\ StoredUpTo(Before)'
  <2>1. \A r \in Results : r <= Before => r <= Taken
    BY <1>1, <1>6
  <2> QED
    BY <1>3, <1>5, <1>7, <2>1 DEF StoredUpTo
<1>9. /\ \A g \in Flushers \ {Loop} : stage'[g] = "idle"
      /\ stage'[Loop] = "written"
  BY <1>1, <1>3 DEF Succession, Typed
<1> QED
  BY <1>3, <1>5, <1>8, <1>9 DEF Succession

LEMMA FlushedOrder ==
    ASSUME OrderInv, NEW f \in Flushers, Flushed(f), Succession
    PROVE  Succession'
<1>1. /\ Len(added) \in Nat /\ Len(rows) \in Nat /\ Len(batch[Loop]) \in Nat
      /\ Loop \in Flushers
  BY OrderTypes
<1>2. f = Loop /\ stage[Loop] = "written"
  BY DEF Flushed, Succession
<1>3. /\ batch'[Loop] = <<>> /\ stage'[Loop] = "idle"
      /\ \A g \in Flushers : g # Loop => stage'[g] = stage[g]
  BY <1>2, Emptied DEF OrderInv, OnceInv, Flushed
<1>4. rows' = rows /\ added' = added /\ state' = state
  BY DEF Flushed, bufferVars, dbVars
<1>5. Len(<<>>) = 0 /\ DOMAIN <<>> = {}
  BY EmptySeq
<1>6. Taken' = Taken /\ Before' = Taken
  BY <1>1, <1>3, <1>4, <1>5 DEF Taken, Before
<1>7. StoredUpTo(Before)'
  BY <1>2, <1>4, <1>6 DEF Succession, StoredUpTo, Results
<1>8. 0 <= Before'
  BY <1>1, <1>6 DEF Succession, Before, Taken
<1>9. /\ \A i \in DOMAIN rows' : rows'[i] = Taken' + i
      /\ \A i \in DOMAIN batch'[Loop] : batch'[Loop][i] = Before' + i
  BY <1>3, <1>4, <1>5, <1>6 DEF Succession
<1>10. /\ \A g \in Flushers \ {Loop} : stage'[g] = "idle"
       /\ stage'[Loop] \in {"idle", "writing", "written"} /\ stage'[Loop] # "written"
  BY <1>3 DEF Succession
<1> QED
  BY <1>7, <1>8, <1>9, <1>10 DEF Succession

LEMMA OrderStep ==
    ASSUME OrderInv, [Next]_vars
    PROVE  InOrder'
<1> USE DEF bufferVars, flushVars, boundVars, dbVars
<1>1. SUFFICES ASSUME Alone' PROVE Succession'
  BY DEF InOrder
<1>2. /\ Alone /\ Succession /\ ~BeginStop /\ ~Close /\ ~Crash
      /\ \A f \in Flushers : ~WriteFails(f) /\ ~WriteClosed(f)
  BY <1>1, StaysAlone
<1>3. CASE \E m \in Models : Add(m)
  BY <1>1, <1>2, <1>3, AddOrder DEF Alone
<1>4. CASE \E f \in Flushers : Capture(f)
  BY <1>2, <1>4, CaptureOrder
<1>5. CASE \E f \in Flushers : WriteBatch(f)
  BY <1>2, <1>5, WriteOrder DEF Alone
<1>6. CASE \E f \in Flushers : Flushed(f)
  BY <1>2, <1>6, FlushedOrder
<1>7. \A f \in Flushers : ~Requeue(f)
  BY <1>2 DEF Requeue, Succession
<1>8. CASE OtherCommit \/ UNCHANGED vars
  <2>1. UNCHANGED <<added, rows, batch, stage, state>>
    BY <1>2, <1>8 DEF OtherCommit, vars, OrderInv, OnceInv, Once, Alone
  <2> QED
    BY <1>2, <2>1 DEF Succession, Taken, Before, StoredUpTo, Results
<1> QED
  BY <1>2, <1>3, <1>4, <1>5, <1>6, <1>7, <1>8 DEF Next, FlushStep

\* Nothing in the buffer and nothing in flight: all that was taken is stored.
LEMMA OrderStored == OrderInv => LoopStoresLatestState
<1> SUFFICES ASSUME OrderInv, Drained, Alone
             PROVE  \A m \in Models : \A r \in Results : added[r] = m => r <= state[m]
  BY DEF LoopStoresLatestState, LatestStateStored, Alone
<1>1. /\ Len(added) \in Nat /\ Loop \in Flushers /\ Typed
      /\ DOMAIN batch[Loop] = 1 .. Len(batch[Loop]) /\ Len(batch[Loop]) \in Nat
  BY OrderTypes
<1>2. Len(rows) = 0
  BY EmptySeq DEF Drained
<1>3. Len(batch[Loop]) = 0
  <2>1. Range(batch[Loop]) = {}
    BY <1>1 DEF Drained, InFlight
  <2>2. DOMAIN batch[Loop] = {}
    BY <2>1 DEF Range
  <2>3. 1 \notin 1 .. Len(batch[Loop])
    BY <1>1, <2>2
  <2> QED
    BY <1>1, <2>3
<1>4. Before = Len(added) /\ StoredUpTo(Before)
  BY <1>1, <1>2, <1>3 DEF Before, Taken, OrderInv, InOrder, Succession
<1>5. \A r \in Results : r <= Len(added)
  BY <1>1 DEF Results
<1> QED
  BY <1>4, <1>5 DEF StoredUpTo

\* Rows and states go to the database together and once, and the loop's flushes
\* leave the state of the last result: for any models, buffer size, overlapping
\* flushes, other commits, shutdowns and crashes.
THEOREM StoreIsOrderedCorrect == Spec => []StoreIsOrdered
<1>1. Init => OrderInv
  BY InitInv, StateInit, OnceInit, OrderInit DEF OrderInv, OnceInv
<1>2. OrderInv /\ [Next]_vars => OrderInv'
  BY NextInv, StateStep, OnceStep, RowsStep, OrderStep DEF OrderInv, OnceInv
<1>3. OrderInv => StoreIsOrdered
  <2>1. OrderInv => OverlapsStoreOnce
    BY DEF OrderInv, OnceInv, Once, Distinct, OverlapsStoreOnce, StoredOnce
  <2> QED
    BY <2>1, OrderStored DEF OrderInv, OnceInv, StoreIsOrdered
<1> QED
  BY <1>1, <1>2, <1>3, PTL DEF Spec

=============================================================================
